------------------------------ MODULE SingleCP ------------------------------
(***************************************************************************)
(* The core-partitioning controller of the kernel module, built for one     *)
(* socket (simple_proc.c, SINGLE).  Cores NET_START..BLK_END are divided:   *)
(*                                                                          *)
(*   NET_START..net_end          serve the network queues' interrupts       *)
(*   net_end+1..blk_start-1      run network system calls                   *)
(*   blk_start..BLK_END          serve the block queues, run file calls     *)
(*                                                                          *)
(* A timer moves one boundary per tick, in alternation, from the measured   *)
(* utilisation, and spreads that side's queues over its cores.  Meanwhile   *)
(* /proc/KU/dynamic prints the two boundaries one after the other.          *)
(***************************************************************************)
EXTENDS Integers, FiniteSetsExt

CONSTANTS
  NET_START, BLK_END,      \* first and last core of the socket
  T_HIGH, T_LOW,           \* utilisation thresholds, in percent
  InitNetEnd, InitBlkStart,
  BlkQueues, NetQueues,    \* queue numbers 0..BLK_QUEUES-1, 0..NET_QUEUES-1
  Loads,                   \* utilisations p_dynamic that a tick can measure
  MaxTicksInShow,          \* bound: ticks between the two seq_printf calls
  NONE                     \* a queue whose affinity hint is not set yet

Cores == NET_START..BLK_END

ASSUME BoundsAssumption ==
  /\ NET_START \in Nat /\ BLK_END \in Nat
  /\ InitNetEnd \in Nat /\ InitBlkStart \in Nat
  /\ NET_START <= InitNetEnd
  /\ InitNetEnd + 3 <= InitBlkStart
  /\ InitBlkStart <= BLK_END
ASSUME ThresholdAssumption == T_LOW \in Nat /\ T_HIGH \in Nat /\ T_LOW <= T_HIGH
ASSUME QueueAssumption == BlkQueues \subseteq Nat /\ NetQueues \subseteq Nat
ASSUME NoneAssumption == NONE \notin Nat
ASSUME TickAssumption == MaxTicksInShow \in Nat

VARIABLES
  blk_start, net_end, dynamic_turn,
  blkHint, netHint,   \* core in the affinity hint of each queue
  blk_idle,           \* history: the last tick measured every core that
                      \* served the block queues below T_LOW
  shown               \* the reader of /proc/KU/dynamic

vars == <<blk_start, net_end, dynamic_turn, blkHint, netHint, blk_idle, shown>>

nBlk == BLK_END - blk_start + 1
nNet == net_end - NET_START + 1
nSys == blk_start - net_end - 1

(* Sum of the utilisations of cores from..to. *)
Util(load, from, to) == MapThenSumSet(LAMBDA c : load[c], from..to)
blk_queue_util(load) == Util(load, blk_start, BLK_END)
net_queue_util(load) == Util(load, NET_START, net_end)
net_sys_util(load)   == Util(load, net_end + 1, blk_start - 1)

NotShowing == [at |-> "idle", net_end |-> 0, ticks |-> 0, gap |-> 0]

(* init_simpleproc; /proc/KU/dynamic is not being read. *)
Init ==
  /\ blk_start = InitBlkStart
  /\ net_end = InitNetEnd
  /\ dynamic_turn = 0
  /\ blkHint = [q \in BlkQueues |-> NONE]
  /\ netHint = [q \in NetQueues |-> NONE]
  /\ blk_idle = FALSE
  /\ shown = NotShowing

(* The move of blk_start in a turn for blk. *)
MutGapOfTwo(load) ==
  /\ blk_queue_util(load) > T_HIGH * nBlk
  /\ blk_queue_util(load) \div nBlk > net_sys_util(load) \div nSys
  /\ blk_start - net_end > 2
BlkGrows(load) ==
  /\ blk_queue_util(load) > T_HIGH * nBlk
  /\ blk_queue_util(load) \div nBlk > net_sys_util(load) \div nSys
  /\ blk_start - net_end > 3
BlkYields(load) ==
  /\ blk_queue_util(load) > T_HIGH * nBlk
  /\ ~(blk_queue_util(load) \div nBlk > net_sys_util(load) \div nSys)
  /\ blk_queue_util(load) \div nBlk
        < net_sys_util(load) \div (blk_start - NET_START - 1)
MutIdleOfOneCore(load) == blk_queue_util(load) < T_LOW
BlkIdle(load) == blk_queue_util(load) < T_LOW * nBlk
BlkMove(load) ==
  IF BlkGrows(load) THEN -1
  ELSE IF (BlkYields(load) \/ BlkIdle(load)) /\ blk_start # BLK_END THEN 1
  ELSE 0

(* The moves of net_end and blk_start in a turn for net. *)
NetBusy(load) ==
  /\ net_queue_util(load) > T_HIGH * nNet
  /\ net_queue_util(load) \div nNet > net_sys_util(load) \div nSys
NetGrows(load) == NetBusy(load) /\ blk_start - net_end > 3
NetPushesBlk(load) ==
  /\ NetBusy(load) /\ ~(blk_start - net_end > 3)
  /\ net_sys_util(load) \div nSys > blk_queue_util(load) \div nBlk
  /\ BLK_END # blk_start
NetShrinks(load) ==
  /\ \/ net_queue_util(load) > T_HIGH * nNet
     \/ net_queue_util(load) < T_LOW * nNet
  /\ net_queue_util(load) \div nNet < net_sys_util(load) \div nSys
  /\ NET_START # net_end
NetMove(load) ==
  IF NetGrows(load) \/ NetPushesBlk(load) THEN 1
  ELSE IF NetShrinks(load) THEN -1
  ELSE 0

(* The queues' affinity hints, round robin over cores first..last. *)
MutSpreadPastEnd(queues, first, last) ==
  [q \in queues |-> first + (q % (last - first + 2))]
Spread(queues, first, last) ==
  [q \in queues |-> first + (q % (last - first + 1))]

(* A tick that passes while /proc/KU/dynamic is being printed. *)
TickShown ==
  /\ shown.at = "half" => shown.ticks < MaxTicksInShow
  /\ shown' = IF shown.at = "half" THEN [shown EXCEPT !.ticks = @ + 1] ELSE shown

(* Mutant: the queues are spread before the boundary moves. *)
MutSpreadsFirst(load) ==
  /\ dynamic_turn = 0
  /\ blk_start' = blk_start + BlkMove(load)
  /\ blkHint' = Spread(BlkQueues, blk_start, BLK_END)
  /\ dynamic_turn' = 1
  /\ blk_idle' = \A c \in blk_start..BLK_END : load[c] < T_LOW
  /\ TickShown
  /\ UNCHANGED <<net_end, netHint>>
(* kerneltimer_timeover in a turn for blk: move the boundary, then spread   *)
(* the block queues over the cores of the new partition.                    *)
BlkTurn(load) ==
  /\ dynamic_turn = 0
  /\ blk_start' = blk_start + BlkMove(load)
  /\ blkHint' = Spread(BlkQueues, blk_start', BLK_END)
  /\ dynamic_turn' = 1
  /\ blk_idle' = \A c \in blk_start..BLK_END : load[c] < T_LOW
  /\ TickShown
  /\ UNCHANGED <<net_end, netHint>>

(* ... in a turn for net; the block queues are not spread again although    *)
(* blk_start may have moved.                                                *)
NetTurn(load) ==
  /\ dynamic_turn = 1
  /\ net_end' = net_end + NetMove(load)
  /\ blk_start' = IF NetPushesBlk(load) THEN blk_start + 1 ELSE blk_start
  /\ netHint' = Spread(NetQueues, NET_START, net_end')
  /\ dynamic_turn' = 0
  /\ blk_idle' = \A c \in blk_start..BLK_END : load[c] < T_LOW
  /\ TickShown
  /\ UNCHANGED blkHint

(* show_stat_dynamic prints net_end, then blk_start. *)
ShowNetEnd ==
  /\ shown.at = "idle"
  /\ shown' = [NotShowing EXCEPT !.at = "half", !.net_end = net_end]
  /\ UNCHANGED <<blk_start, net_end, dynamic_turn, blkHint, netHint, blk_idle>>
ShowBlkStart ==
  /\ shown.at = "half"
  /\ shown' = [NotShowing EXCEPT !.at = "shown", !.gap = blk_start - shown.net_end]
  /\ UNCHANGED <<blk_start, net_end, dynamic_turn, blkHint, netHint, blk_idle>>
ShowEnd ==
  /\ shown.at = "shown"
  /\ shown' = NotShowing
  /\ UNCHANGED <<blk_start, net_end, dynamic_turn, blkHint, netHint, blk_idle>>

Tick == \E load \in Loads : BlkTurn(load) \/ NetTurn(load)

Next == Tick \/ ShowNetEnd \/ ShowBlkStart \/ ShowEnd

Spec == Init /\ [][Next]_vars
(* The timer registers itself again at the end of every tick, and a read of *)
(* /proc ends.                                                              *)
FairSpec == Spec /\ WF_vars(Tick) /\ WF_vars(ShowBlkStart)
-----------------------------------------------------------------------------
(* Every variable keeps its type. *)
TypeOK ==
  /\ blk_start \in Cores /\ net_end \in Cores
  /\ dynamic_turn \in {0, 1}
  /\ blkHint \in [BlkQueues -> Cores \cup {NONE}]
  /\ netHint \in [NetQueues -> Cores \cup {NONE}]
  /\ blk_idle \in BOOLEAN
  /\ shown \in [at : {"idle", "half", "shown"}, net_end : Nat,
                ticks : 0..MaxTicksInShow, gap : Int]

(* No move, whatever the load, makes a group empty: the network queues keep *)
(* a core, the network system calls keep two, the block queues keep one.    *)
(* So no average is divided by zero.                                        *)
GroupsNonEmpty ==
  /\ NET_START <= net_end
  /\ net_end + 3 <= blk_start
  /\ blk_start <= BLK_END

(* An interrupt is never hinted to a core of the other side: network queues *)
(* stay in their partition; block queues stay in theirs when it is the net  *)
(* side's turn, and are at most one core behind before they are spread      *)
(* again.                                                                   *)
HintsInPartition ==
  /\ \A q \in NetQueues :
       netHint[q] # NONE => netHint[q] \in NET_START..net_end
  /\ \A q \in BlkQueues : blkHint[q] # NONE =>
       /\ blkHint[q] \in (blk_start - 1)..BLK_END
       /\ dynamic_turn = 1 => blkHint[q] >= blk_start

(* The two boundaries that a reader of /proc/KU/dynamic obtains, which may  *)
(* be of different ticks, leave a core for the network system calls.        *)
ShownUsable == shown.at = "shown" => shown.gap >= 2

(* When the cores that serve the block queues stay idle, all of them but    *)
(* one are given to the network system calls, for good, whatever happens on *)
(* the network side.                                                        *)
IdleBlkShrinks == <>[]blk_idle => <>[](blk_start = BLK_END)
=============================================================================

------------------------------ MODULE CrossCP ------------------------------
(***************************************************************************)
(* The controllers CROSS and PER.  Each socket in use has three groups:     *)
(* net_start..net_end serve the network queues, net_end+1..blk_start-1 run  *)
(* network system calls, blk_start..blk_end serve the block queues.  CROSS  *)
(* decides in every tick how many sockets are used, the last one first; PER *)
(* uses all.                                                                *)
(***************************************************************************)
EXTENDS Sockets

Active(n) == {NUMBER_OF_SOCKETS - i : i \in 1..n}

(* The averages of socket s; the app average is not touched. *)
Averages(load, s) ==
  LET p == part[s] IN
  [avg[s] EXCEPT
     ![NET_QUEUE_INDEX] = Mean(load, p["net_start"], p["net_end"]),
     ![NET_SYS_INDEX] = Mean(load, p["net_end"] + 1, p["blk_start"] - 1),
     ![BLK_INDEX] = Mean(load, p["blk_start"], p["blk_end"])]
Measure(load, n) ==
  [s \in Sockets |-> IF s \in Active(n) THEN Averages(load, s) ELSE avg[s]]

MutSumAvg(a, n, stray) ==   \* divided by all sockets, whatever is in use
  LET a1 == a[1][NET_QUEUE_INDEX] + a[1][NET_SYS_INDEX] + a[1][BLK_INDEX]
  IN Quotient(IF n = 1 THEN a1 ELSE a1 + stray, NUMBER_OF_SOCKETS * 3)
(* sum_avg reads the averages at i where it wrote those at                  *)
(* NUMBER_OF_SOCKETS - i: for i = 1 these are the same, for i = 2 it reads  *)
(* three words behind the arrays, whose sum is `stray'.                     *)
SumAvg(a, n, stray) ==
  LET a1 == a[1][NET_QUEUE_INDEX] + a[1][NET_SYS_INDEX] + a[1][BLK_INDEX]
  IN Quotient(IF n = 1 THEN a1 ELSE a1 + stray, n * 3)

MutSocketNumber(sum) ==
  IF T_HIGH < sum /\ socket_number < NUMBER_OF_SOCKETS THEN socket_number + 1
  ELSE IF T_LOW > sum THEN socket_number - 1
  ELSE socket_number
(* How many sockets the next partition uses. *)
SocketNumber(sum) ==
  IF T_HIGH < sum
  THEN IF socket_number < NUMBER_OF_SOCKETS THEN socket_number + 1 ELSE socket_number
  ELSE IF T_LOW > sum /\ socket_number > 1 THEN socket_number - 1
  ELSE socket_number

(* The move of blk_start on one socket: p its boundaries, a its averages,   *)
(* high the value that is compared with T_HIGH.                             *)
BlkGrows(p, a, high) ==
  /\ T_HIGH < high
  /\ a[BLK_INDEX] > a[NET_SYS_INDEX]
  /\ p["blk_start"] - p["net_end"] > 3
BlkShrinks(p, a, high) ==
  /\ IF T_HIGH < high THEN a[BLK_INDEX] < a[NET_SYS_INDEX] ELSE a[BLK_INDEX] < T_LOW
  /\ p["blk_start"] # p["blk_end"]
BlkMove(p, a, high) ==
  IF BlkGrows(p, a, high) THEN -1 ELSE IF BlkShrinks(p, a, high) THEN 1 ELSE 0

(* The move of net_end. *)
MutNetGrows(p, a) ==
  /\ T_HIGH < a[NET_QUEUE_INDEX]
  /\ a[NET_QUEUE_INDEX] > a[NET_SYS_INDEX]
  /\ p["blk_start"] - p["net_end"] > 2
NetGrows(p, a) ==
  /\ T_HIGH < a[NET_QUEUE_INDEX]
  /\ a[NET_QUEUE_INDEX] > a[NET_SYS_INDEX]
  /\ p["blk_start"] - p["net_end"] > 3
NetShrinks(p, a) ==
  /\ IF T_HIGH < a[NET_QUEUE_INDEX] THEN a[NET_QUEUE_INDEX] < a[NET_SYS_INDEX]
     ELSE a[NET_QUEUE_INDEX] < T_LOW
  /\ p["net_start"] # p["net_end"]
NetMove(p, a) ==
  IF NetGrows(p, a) THEN 1 ELSE IF NetShrinks(p, a) THEN -1 ELSE 0

(* A turn for blk on the n sockets in use, then the block queues are dealt  *)
(* to the new groups.  The T_HIGH test reads blk_queue_util_avg[i]: for     *)
(* socket 0 (i = 2) the word behind the array.                              *)
BlkTurn(n, a, stray) ==
  /\ dynamic_turn = 0
  /\ part' = [s \in Sockets |->
       IF s \notin Active(n) THEN part[s]
       ELSE [part[s] EXCEPT !["blk_start"] =
               @ + BlkMove(part[s], a[s], IF s = 0 THEN stray ELSE a[s][BLK_INDEX])]]
  /\ blkHint' = RoundRobin(BlkQueues, n, At(part', "blk_start"), At(part', "blk_end"))
  /\ dynamic_turn' = 1
  /\ UNCHANGED netHint

(* A turn for net, then the network queues are dealt. *)
MutNetTurn(n, a) ==   \* the queues are dealt to all sockets
  /\ dynamic_turn = 1
  /\ part' = [s \in Sockets |->
       IF s \notin Active(n) THEN part[s]
       ELSE [part[s] EXCEPT !["net_end"] = @ + NetMove(part[s], a[s])]]
  /\ netHint' = RoundRobin(NetQueues, 2, At(part', "net_start"), At(part', "net_end"))
  /\ dynamic_turn' = 0
  /\ UNCHANGED blkHint
NetTurn(n, a) ==
  /\ dynamic_turn = 1
  /\ part' = [s \in Sockets |->
       IF s \notin Active(n) THEN part[s]
       ELSE [part[s] EXCEPT !["net_end"] = @ + NetMove(part[s], a[s])]]
  /\ netHint' = RoundRobin(NetQueues, n, At(part', "net_start"), At(part', "net_end"))
  /\ dynamic_turn' = 0
  /\ UNCHANGED blkHint

(* One tick: measure, choose the number of sockets (CROSS), measure again   *)
(* (the boundaries have not moved), move one side's boundaries.             *)
CrossTick(load) ==
  /\ mode = "CROSS"
  /\ \E stray \in Stray :
       socket_number' = SocketNumber(SumAvg(Measure(load, socket_number), socket_number, stray))
  /\ avg' = Measure(load, IF socket_number' < socket_number THEN socket_number ELSE socket_number')
  /\ \/ \E stray \in Stray : BlkTurn(socket_number', avg', stray)
     \/ NetTurn(socket_number', avg')
  /\ UNCHANGED mode

PerTick(load) ==
  /\ mode = "PER"
  /\ socket_number' = NUMBER_OF_SOCKETS
  /\ avg' = Measure(load, NUMBER_OF_SOCKETS)
  /\ \/ \E stray \in Stray : BlkTurn(NUMBER_OF_SOCKETS, avg', stray)
     \/ NetTurn(NUMBER_OF_SOCKETS, avg')
  /\ UNCHANGED mode
=============================================================================

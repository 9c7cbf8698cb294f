------------------------------- MODULE AppCP -------------------------------
(***************************************************************************)
(* The controller APP.  Each socket has four groups of cores: network       *)
(* queues, network system calls, the application and block queues.  In      *)
(* every tick a socket moves one core from its least loaded group that can  *)
(* spare one to its most loaded group.                                      *)
(***************************************************************************)
EXTENDS Sockets

First(p, g) ==
  CASE g = NET_QUEUE_INDEX -> p["net_start"]
    [] g = NET_SYS_INDEX   -> p["net_end"] + 1
    [] g = APP_INDEX       -> p["app_start"]
    [] g = BLK_INDEX       -> p["blk_start"]
Last(p, g) ==
  CASE g = NET_QUEUE_INDEX -> p["net_end"]
    [] g = NET_SYS_INDEX   -> p["app_start"] - 1
    [] g = APP_INDEX       -> p["app_end"]
    [] g = BLK_INDEX       -> p["blk_end"]

core_counter(p) == [g \in Groups |-> Last(p, g) - First(p, g) + 1]
util_arr(load, p) == [g \in Groups |-> Mean(load, First(p, g), Last(p, g))]

(* The bubble sort of the groups' indices by utilisation, ascending: the    *)
(* comparisons of its three passes.  (The binding of o makes TLC evaluate   *)
(* `order' once.)                                                           *)
Swapped(o, k) == [o EXCEPT ![k] = o[k + 1], ![k + 1] = o[k]]
CompareSwap(order, k, util) ==
  CHOOSE r \in {IF util[o[k]] > util[o[k + 1]] THEN Swapped(o, k) ELSE o : o \in {order}} : TRUE
sort_index_arr(util) ==
  LET start == [g \in Groups |-> g]
      a1 == CompareSwap(start, 0, util)
      a2 == CompareSwap(a1, 1, util)
      a3 == CompareSwap(a2, 2, util)
      b1 == CompareSwap(a3, 0, util)
      b2 == CompareSwap(b1, 1, util)
  IN CompareSwap(b2, 0, util)

max(order) == order[3]
MutMin(order, count) == order[0]
(* The least loaded group, or the next one that has two cores. *)
min(order, count) ==
  IF count[order[0]] >= 2 THEN order[0]
  ELSE IF count[order[1]] >= 2 THEN order[1]
  ELSE IF count[order[2]] >= 2 THEN order[2]
  ELSE order[0]

(* A core goes from group `from' to group `to': every boundary between them *)
(* moves by one.  Boundary b separates groups b and b+1.                    *)
Shift(p, from, to) ==
  LET d == [b \in 0..2 |-> IF to <= b /\ b < from THEN 1
                           ELSE IF from <= b /\ b < to THEN -1 ELSE 0]
  IN [p EXCEPT !["net_end"] = @ + d[0], !["app_start"] = @ + d[1],
               !["app_end"] = @ + d[2], !["blk_start"] = @ + d[2]]

(* The new boundaries of a socket that has boundaries p and averages util. *)
Adjusted(p, util) ==
  LET count == core_counter(p)
      hi == max(sort_index_arr(util))
      lo == min(sort_index_arr(util), count)
  IN IF count[lo] >= 2 /\ util[hi] - T_CHANGE > util[lo] THEN Shift(p, lo, hi) ELSE p

(* Which queues are dealt again: the tests of max and min after the moves.  *)
Concerned(p, util, g) ==
  \/ max(sort_index_arr(util)) = g
  \/ min(sort_index_arr(util), core_counter(p)) = g
net_flag(p, util) == Concerned(p, util, 0)
blk_flag(p, util) == Concerned(p, util, 4)

(* The block queues' loop leaves a socket when blk_end + i == blk_start,    *)
(* that is after its first core or never.                                   *)
AppBlkHint(lo, hi) ==
  [q \in BlkQueues |->
     IF lo[1] # hi[1] THEN lo[1] + q
     ELSE IF lo[0] # hi[0] /\ q > 0 THEN lo[0] + q - 1
     ELSE IF q % 2 = 0 THEN lo[1] ELSE lo[0]]

AppTick(load) ==
  /\ mode = "APP"
  /\ socket_number' = NUMBER_OF_SOCKETS
  /\ avg' = [s \in Sockets |-> util_arr(load, part[s])]
  /\ part' = [s \in Sockets |-> Adjusted(part[s], avg'[s])]
  /\ netHint' = IF \E s \in Sockets : net_flag(part[s], avg'[s])
                THEN RoundRobin(NetQueues, NUMBER_OF_SOCKETS,
                                At(part', "net_start"), At(part', "net_end"))
                ELSE netHint
  /\ blkHint' = IF \E s \in Sockets : blk_flag(part[s], avg'[s])
                THEN AppBlkHint(At(part', "blk_start"), At(part', "blk_end"))
                ELSE blkHint
  /\ UNCHANGED <<mode, dynamic_turn>>
=============================================================================

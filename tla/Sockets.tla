------------------------------ MODULE Sockets ------------------------------
(***************************************************************************)
(* What the controllers for several sockets share (simple_proc.c, CROSS,    *)
(* PER and APP): the boundaries of every socket's groups of cores, the      *)
(* averages measured for the groups and the affinity hints of the queues.   *)
(***************************************************************************)
EXTENDS Integers, FiniteSetsExt

NUMBER_OF_SOCKETS == 2
Sockets == 0..(NUMBER_OF_SOCKETS - 1)

NET_QUEUE_INDEX == 0
NET_SYS_INDEX   == 1
APP_INDEX       == 2
BLK_INDEX       == 3
Groups == 0..3

CONSTANTS
  MAX_CPUS,               \* length of p_dynamic
  T_HIGH, T_LOW,          \* utilisation thresholds, in percent
  T_CHANGE,               \* APP: difference that makes a core change its group
  Modes,                  \* the builds "CROSS", "PER" and "APP" of a run
  Start,                  \* boundaries that init_simpleproc sets in each mode
  BlkQueues, NetQueues,   \* queue numbers 0..BLK_QUEUES-1, 0..NET_QUEUES-1
  Loads,                  \* what a tick can measure: p_dynamic[0..MAX_CPUS-1]
                          \* and, at MAX_CPUS, the word behind the array
  Stray,                  \* words behind the arrays of averages
  NONE                    \* a queue whose affinity hint is not set yet

Boundary == {"net_start", "net_end", "app_start", "app_end", "blk_start", "blk_end"}

VARIABLES
  mode,            \* which build of the module is loaded
  part,            \* net_start_per, net_end_per, ... of every socket
  socket_number,   \* sockets in use
  dynamic_turn,    \* 0 for blk, 1 for net (CROSS and PER)
  avg,             \* net_queue_util_avg, ..., blk_queue_util_avg
  blkHint, netHint \* core in the affinity hint of each queue

vars == <<mode, part, socket_number, dynamic_turn, avg, blkHint, netHint>>

(* C's division of an int. *)
Quotient(a, b) == IF a >= 0 THEN a \div b ELSE -((-a) \div b)

(* The average utilisation of cores lo..hi. *)
Mean(load, lo, hi) ==
  Quotient(MapThenSumSet(LAMBDA c : load[c], lo..hi), hi - lo + 1)

ASSUME CpuAssumption == MAX_CPUS \in Nat
ASSUME ThresholdAssumption == T_HIGH \in Int /\ T_LOW \in Int /\ T_CHANGE \in Nat
ASSUME ModeAssumption == Modes \subseteq {"CROSS", "PER", "APP"}
ASSUME QueueAssumption == BlkQueues \subseteq Nat /\ NetQueues \subseteq Nat
ASSUME NoneAssumption == NONE \notin Int
ASSUME StrayAssumption == Stray \subseteq Int
(* What is measured is not negative, the word behind it may be; their       *)
(* averages are numbers.                                                    *)
ASSUME LoadAssumption ==
  \A load \in Loads :
    /\ load \in [0..MAX_CPUS -> Int]
    /\ \A c \in 0..(MAX_CPUS - 1) : load[c] >= 0
    /\ \A lo, hi \in 0..MAX_CPUS : lo <= hi => Mean(load, lo, hi) \in Int
(* The boundaries of init_simpleproc: no group is empty; the app group of   *)
(* APP ends on the second core of the block group.                          *)
ASSUME StartAssumption ==
  \A m \in Modes :
    /\ Start[m] \in [Sockets -> [Boundary -> Nat]]
    /\ \A s \in Sockets :
         LET p == Start[m][s] IN
         /\ p["net_start"] <= p["net_end"]
         /\ p["blk_start"] <= p["blk_end"] /\ p["blk_end"] < MAX_CPUS
         /\ m # "APP" => p["net_end"] + 3 <= p["blk_start"]
         /\ m = "APP" => /\ p["net_end"] + 2 <= p["app_start"]
                         /\ p["app_start"] <= p["app_end"]
                         /\ p["app_end"] = p["blk_start"] + 1

(* Queues are dealt round robin to cores lo..hi of socket 1 and then, when  *)
(* n sockets are in use and n is 2, of socket 0.                            *)
RoundRobin(queues, n, lo, hi) ==
  LET n1 == hi[1] - lo[1] + 1
      n0 == IF n = 1 THEN 0 ELSE hi[0] - lo[0] + 1
  IN [q \in queues |->
        LET r == q % (n1 + n0) IN IF r < n1 THEN lo[1] + r ELSE lo[0] + (r - n1)]

At(p, b) == [s \in Sockets |-> p[s][b]]
=============================================================================

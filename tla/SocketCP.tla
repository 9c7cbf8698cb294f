------------------------------ MODULE SocketCP ------------------------------
(***************************************************************************)
(* The kernel module built for several sockets: one of the controllers      *)
(* CROSS, PER and APP, called by the timer once per TIME_STEP.              *)
(***************************************************************************)
EXTENDS CrossCP, AppCP

(* init_simpleproc *)
Init ==
  /\ mode \in Modes
  /\ part = Start[mode]
  /\ socket_number = 1
  /\ dynamic_turn = 0
  /\ avg = [s \in Sockets |-> [g \in Groups |-> 0]]
  /\ blkHint = [q \in BlkQueues |-> NONE]
  /\ netHint = [q \in NetQueues |-> NONE]

(* kerneltimer_timeover *)
Tick == \E load \in Loads : CrossTick(load) \/ PerTick(load) \/ AppTick(load)

Next == Tick
Spec == Init /\ [][Next]_vars
(* Every tick registers the next one. *)
FairSpec == Spec /\ WF_vars(Tick)
-----------------------------------------------------------------------------
(* Every variable keeps its type. *)
TypeOK ==
  /\ mode \in Modes
  /\ part \in [Sockets -> [Boundary -> Nat]]
  /\ socket_number \in 1..NUMBER_OF_SOCKETS
  /\ dynamic_turn \in {0, 1}
  /\ avg \in [Sockets -> [Groups -> Int]]
  /\ blkHint \in [BlkQueues -> Nat \cup {NONE}]
  /\ netHint \in [NetQueues -> Nat \cup {NONE}]

(* No load, however long it lasts, empties a group of any socket, so no     *)
(* average is divided by zero: CROSS and PER leave two cores for network    *)
(* system calls and one for each side's queues; APP leaves a core in each   *)
(* of the four groups.  The loops that add up p_dynamic stay on the socket, *)
(* but for APP's application group, which may end one core behind it.       *)
GroupsNonEmpty ==
  \A s \in Sockets : LET p == part[s] IN
    /\ p["net_start"] = Start[mode][s]["net_start"]
    /\ p["blk_end"] = Start[mode][s]["blk_end"]
    /\ p["net_start"] <= p["net_end"]
    /\ p["blk_start"] <= p["blk_end"]
    /\ mode # "APP" => p["net_end"] + 3 <= p["blk_start"]
    /\ mode = "APP" => /\ p["net_end"] + 2 <= p["app_start"]
                       /\ p["app_start"] <= p["app_end"]
                       /\ p["app_end"] = p["blk_start"] + 1

(* Core c serves the network (block) queues of a socket among S. *)
NetCore(c, S) == \E s \in S : c \in part[s]["net_start"]..part[s]["net_end"]
BlkCore(c, S) == \E s \in S : c \in part[s]["blk_start"]..part[s]["blk_end"]

(* No boundary moves and leaves an interrupt behind on a core that has      *)
(* gone to another group: every hint lies in its side's group as it is now, *)
(* and right after the side's turn in the group of a socket that is in use. *)
HintsInPartition ==
  /\ \A q \in NetQueues : netHint[q] # NONE =>
       /\ NetCore(netHint[q], Sockets)
       /\ mode # "APP" /\ dynamic_turn = 0 => NetCore(netHint[q], Active(socket_number))
  /\ \A q \in BlkQueues : blkHint[q] # NONE =>
       /\ BlkCore(blkHint[q], Sockets)
       /\ dynamic_turn = 1 => BlkCore(blkHint[q], Active(socket_number))

(* CROSS: when all groups of the last socket stay above T_HIGH, both        *)
(* sockets come into use and remain so: sum_avg, which is divided by the    *)
(* larger number of sockets, does not fall below T_LOW and give the second  *)
(* socket back (as long as the words behind the averages that sum_avg adds, *)
(* Stray, do not make it).                                                  *)
BusyUsesBothSockets ==
  <>[](mode = "CROSS" /\ \A g \in Groups \ {APP_INDEX} : avg[1][g] > T_HIGH)
     => <>[](socket_number = NUMBER_OF_SOCKETS)

(* APP's boundaries, seen as numbers of cores per group, follow CoreBalance *)
(* (the other controllers' states are mapped to one state of it).           *)
sizes == [s \in Sockets |->
            IF mode = "APP" THEN core_counter(part[s]) ELSE [g \in Groups |-> 0]]
loads == [s \in Sockets |-> IF mode = "APP" THEN avg[s] ELSE [g \in Groups |-> 0]]
Balanced == INSTANCE CoreBalance WITH size <- sizes, util <- loads
BalanceSpec == Balanced!Spec

(* simple_proc.c:783 and :818, `3: blk', `if net/blk queue need to be       *)
(* redistributed net/blk flag is checked': once APP has moved a socket's    *)
(* block group, the block queues are dealt to the groups as they are now.   *)
BlkQueuesFollow ==
  mode = "APP" /\ (\E s \in Sockets : part[s]["blk_start"] # Start[mode][s]["blk_start"])
    => \A q \in BlkQueues : blkHint[q] # NONE /\ BlkCore(blkHint[q], Sockets)
=============================================================================

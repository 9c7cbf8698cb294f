--------------------------- MODULE SocketCP_proof ---------------------------
(***************************************************************************)
(* Proofs about SocketCP for every number of cores and queues, all start    *)
(* boundaries that StartAssumption allows, every threshold, every load and  *)
(* every word that is read behind the arrays.                               *)
(***************************************************************************)
EXTENDS SocketCP, TLAPS

(* GroupsNonEmpty, said of one socket in a mode. *)
SocketOK(m, s, p) ==
  /\ p["net_start"] = Start[m][s]["net_start"]
  /\ p["blk_end"] = Start[m][s]["blk_end"]
  /\ p["net_start"] <= p["net_end"]
  /\ p["blk_start"] <= p["blk_end"]
  /\ m # "APP" => p["net_end"] + 3 <= p["blk_start"]
  /\ m = "APP" => /\ p["net_end"] + 2 <= p["app_start"]
                  /\ p["app_start"] <= p["app_end"]
                  /\ p["app_end"] = p["blk_start"] + 1

LEMMA SocketOKDef == GroupsNonEmpty <=> \A s \in Sockets : SocketOK(mode, s, part[s])
BY DEF GroupsNonEmpty, SocketOK

LEMMA SocketsDef == Sockets = {0, 1}
BY DEF Sockets, NUMBER_OF_SOCKETS

(* The sockets in use. *)
LEMMA ActiveDef ==
  /\ Active(1) = {1} /\ Active(2) = {0, 1}
  /\ \A n \in {1, 2} : 1 \in Active(n) /\ Active(n) \subseteq Sockets
<1>1. Active(1) = {1}
  BY DEF Active, NUMBER_OF_SOCKETS
<1>2. Active(2) = {0, 1}
  BY DEF Active, NUMBER_OF_SOCKETS
<1> QED BY <1>1, <1>2, SocketsDef

(* A socket of a start partition lies inside p_dynamic. *)
LEMMA StartInside ==
  ASSUME NEW m \in Modes, NEW s \in Sockets
  PROVE  /\ Start[m][s]["blk_end"] \in Nat /\ Start[m][s]["blk_end"] < MAX_CPUS
         /\ Start[m][s]["net_start"] \in Nat
BY StartAssumption DEF Boundary

LEMMA BoundaryNat ==
  ASSUME NEW p \in [Boundary -> Nat]
  PROVE  /\ p["net_start"] \in Nat /\ p["net_end"] \in Nat /\ p["app_start"] \in Nat
         /\ p["app_end"] \in Nat /\ p["blk_start"] \in Nat /\ p["blk_end"] \in Nat
BY DEF Boundary

LEMMA GroupsDef ==
  /\ Groups = {0, 1, 2, 3} /\ NET_QUEUE_INDEX = 0 /\ NET_SYS_INDEX = 1
  /\ APP_INDEX = 2 /\ BLK_INDEX = 3
BY DEF Groups, NET_QUEUE_INDEX, NET_SYS_INDEX, APP_INDEX, BLK_INDEX
-----------------------------------------------------------------------------
(* Round robin over one or both sockets stays in the groups it is given.    *)
LEMMA RoundRobinStays ==
  ASSUME NEW queues, queues \subseteq Nat, NEW n \in {1, 2},
         NEW lo \in [Sockets -> Nat], NEW hi \in [Sockets -> Nat],
         \A s \in Sockets : lo[s] <= hi[s]
  PROVE  /\ RoundRobin(queues, n, lo, hi) \in [queues -> Nat]
         /\ \A q \in queues : \E s \in Active(n) :
              RoundRobin(queues, n, lo, hi)[q] \in lo[s]..hi[s]
<1> DEFINE n1 == hi[1] - lo[1] + 1
           n0 == IF n = 1 THEN 0 ELSE hi[0] - lo[0] + 1
           core(q) == LET r == q % (n1 + n0)
                      IN IF r < n1 THEN lo[1] + r ELSE lo[0] + (r - n1)
<1>1. RoundRobin(queues, n, lo, hi) = [q \in queues |-> core(q)]
  BY DEF RoundRobin
<1>2. /\ lo[0] \in Nat /\ lo[1] \in Nat /\ hi[0] \in Nat /\ hi[1] \in Nat
      /\ lo[0] <= hi[0] /\ lo[1] <= hi[1]
  BY SocketsDef
<1>3. ASSUME NEW q \in queues
      PROVE  core(q) \in Nat /\ \E s \in Active(n) : core(q) \in lo[s]..hi[s]
  <2> DEFINE r == q % (n1 + n0)
             k == n1 + n0
  <2>1. n1 \in Nat /\ n0 \in Nat /\ k \in Nat /\ k > 0 /\ q \in Nat
    BY <1>2
  <2>2. r \in 0..(k - 1)
    <3> HIDE DEF n1, n0
    <3>1. q % k \in 0..(k - 1)
      <4> HIDE DEF k
      <4> QED BY <2>1
    <3> QED BY <3>1 DEF r
  <2>3. CASE r < n1
    <3>1. core(q) = lo[1] + r
      BY <2>3
    <3>2. core(q) \in Nat /\ core(q) \in lo[1]..hi[1]
      <4> HIDE DEF r, core
      <4> QED BY <3>1, <2>2, <2>3, <1>2
    <3> QED BY <3>2, ActiveDef
  <2>4. CASE ~(r < n1)
    <3>1. core(q) = lo[0] + (r - n1)
      BY <2>4
    <3>2. n = 2
      <4> HIDE DEF r
      <4>1. CASE n = 1
        BY <4>1, <2>4, <2>2, <1>2
      <4> QED BY <4>1
    <3>3. core(q) \in Nat /\ core(q) \in lo[0]..hi[0]
      <4> HIDE DEF r, core
      <4> QED BY <3>1, <3>2, <2>2, <2>4, <1>2
    <3>4. 0 \in Active(n)
      BY <3>2, ActiveDef
    <3> QED BY <3>3, <3>4
  <2> QED BY <2>3, <2>4
<1> HIDE DEF core
<1> QED BY <1>1, <1>3

LEMMA AtType ==
  ASSUME NEW p \in [Sockets -> [Boundary -> Nat]], NEW b \in Boundary
  PROVE  At(p, b) \in [Sockets -> Nat] /\ \A s \in Sockets : At(p, b)[s] = p[s][b]
BY DEF At
-----------------------------------------------------------------------------
(* CROSS and PER: averages of non-empty groups, moves that keep them so.    *)
LEMMA MeanType ==
  ASSUME NEW load \in Loads, NEW lo \in 0..MAX_CPUS, NEW hi \in 0..MAX_CPUS, lo <= hi
  PROVE  Mean(load, lo, hi) \in Int
BY LoadAssumption

LEMMA MeasureType ==
  ASSUME TypeOK, GroupsNonEmpty, mode # "APP", NEW load \in Loads, NEW n \in {1, 2}
  PROVE  Measure(load, n) \in [Sockets -> [Groups -> Int]]
<1>1. ASSUME NEW s \in Sockets
      PROVE  Averages(load, s) \in [Groups -> Int]
  <2> DEFINE p == part[s]
  <2>1. p \in [Boundary -> Nat] /\ avg[s] \in [Groups -> Int] /\ mode \in Modes
    BY DEF TypeOK
  <2>2. SocketOK(mode, s, p)
    BY SocketOKDef
  <2>3. /\ p["net_start"] \in 0..MAX_CPUS /\ p["net_end"] \in 0..MAX_CPUS
        /\ p["net_end"] + 1 \in 0..MAX_CPUS /\ p["blk_start"] - 1 \in 0..MAX_CPUS
        /\ p["blk_start"] \in 0..MAX_CPUS /\ p["blk_end"] \in 0..MAX_CPUS
        /\ p["net_start"] <= p["net_end"] /\ p["blk_start"] <= p["blk_end"]
        /\ p["net_end"] + 1 <= p["blk_start"] - 1
    <3> HIDE DEF p
    <3> QED BY <2>1, <2>2, BoundaryNat, StartInside, CpuAssumption DEF SocketOK
  <2>4. /\ Mean(load, p["net_start"], p["net_end"]) \in Int
        /\ Mean(load, p["net_end"] + 1, p["blk_start"] - 1) \in Int
        /\ Mean(load, p["blk_start"], p["blk_end"]) \in Int
    <3> HIDE DEF p
    <3> QED BY <2>3, MeanType
  <2> QED BY <2>1, <2>4 DEF Averages
<1> QED BY <1>1 DEF Measure, TypeOK

LEMMA BlkMoveKeeps ==
  ASSUME NEW m \in Modes, m # "APP", NEW s \in Sockets, NEW p \in [Boundary -> Nat],
         SocketOK(m, s, p), NEW a, NEW high
  PROVE  LET q == [p EXCEPT !["blk_start"] = @ + BlkMove(p, a, high)]
         IN q \in [Boundary -> Nat] /\ SocketOK(m, s, q)
<1> DEFINE d == BlkMove(p, a, high)
           q == [p EXCEPT !["blk_start"] = @ + d]
<1>1. /\ d \in {-1, 0, 1}
      /\ d = -1 => p["blk_start"] - p["net_end"] > 3
      /\ d = 1 => p["blk_start"] # p["blk_end"]
  BY DEF BlkMove, BlkGrows, BlkShrinks
<1> HIDE DEF d
<1>2. /\ p["net_start"] \in Nat /\ p["net_end"] \in Nat /\ p["app_start"] \in Nat
      /\ p["app_end"] \in Nat /\ p["blk_start"] \in Nat /\ p["blk_end"] \in Nat
  BY BoundaryNat
<1>3. p["blk_start"] + d \in Nat
  BY <1>1, <1>2
<1>4. q \in [Boundary -> Nat]
  BY <1>3
<1>5. /\ q["blk_start"] = p["blk_start"] + d
      /\ q["net_start"] = p["net_start"] /\ q["net_end"] = p["net_end"]
      /\ q["blk_end"] = p["blk_end"]
  BY DEF Boundary
<1> HIDE DEF q
<1>6. SocketOK(m, s, q)
  BY <1>1, <1>2, <1>5 DEF SocketOK
<1> QED BY <1>4, <1>6 DEF q, d

LEMMA NetMoveKeeps ==
  ASSUME NEW m \in Modes, m # "APP", NEW s \in Sockets, NEW p \in [Boundary -> Nat],
         SocketOK(m, s, p), NEW a
  PROVE  LET q == [p EXCEPT !["net_end"] = @ + NetMove(p, a)]
         IN q \in [Boundary -> Nat] /\ SocketOK(m, s, q)
<1> DEFINE d == NetMove(p, a)
           q == [p EXCEPT !["net_end"] = @ + d]
<1>1. /\ d \in {-1, 0, 1}
      /\ d = 1 => p["blk_start"] - p["net_end"] > 3
      /\ d = -1 => p["net_start"] # p["net_end"]
  BY DEF NetMove, NetGrows, NetShrinks
<1> HIDE DEF d
<1>2. /\ p["net_start"] \in Nat /\ p["net_end"] \in Nat /\ p["app_start"] \in Nat
      /\ p["app_end"] \in Nat /\ p["blk_start"] \in Nat /\ p["blk_end"] \in Nat
      /\ p["net_start"] <= p["net_end"]
  BY BoundaryNat DEF SocketOK
<1>3. p["net_end"] + d \in Nat
  BY <1>1, <1>2
<1>4. q \in [Boundary -> Nat]
  BY <1>3
<1>5. /\ q["net_end"] = p["net_end"] + d
      /\ q["net_start"] = p["net_start"] /\ q["blk_start"] = p["blk_start"]
      /\ q["blk_end"] = p["blk_end"]
  BY DEF Boundary
<1> HIDE DEF q
<1>6. SocketOK(m, s, q)
  BY <1>1, <1>2, <1>5 DEF SocketOK
<1> QED BY <1>4, <1>6 DEF q, d
-----------------------------------------------------------------------------
(* APP: the bubble sort orders the groups by load.                          *)
IsOrder(o) ==
  /\ o \in [Groups -> Groups]
  /\ \A g \in Groups : g = o[0] \/ g = o[1] \/ g = o[2] \/ g = o[3]

LEMMA CompareSwapIs ==
  ASSUME NEW o, NEW k, NEW u
  PROVE  CompareSwap(o, k, u) = IF u[o[k]] > u[o[k + 1]] THEN Swapped(o, k) ELSE o
<1> DEFINE v == IF u[o[k]] > u[o[k + 1]] THEN Swapped(o, k) ELSE o
           S == {IF u[x[k]] > u[x[k + 1]] THEN Swapped(x, k) ELSE x : x \in {o}}
<1>1. S = {v}
  OBVIOUS
<1>2. (CHOOSE r \in S : TRUE) \in S
  <2> HIDE DEF S, v
  <2>1. \E r \in S : TRUE
    BY <1>1
  <2> QED BY <2>1
<1>3. (CHOOSE r \in S : TRUE) = v
  <2> HIDE DEF S, v
  <2> QED BY <1>1, <1>2
<1> QED BY <1>3 DEF CompareSwap

(* One comparison: the smaller of the two comes first, the rest stays. *)
LEMMA CompareSwapSorts ==
  ASSUME NEW u \in [Groups -> Int], NEW o, IsOrder(o), NEW k \in {0, 1, 2}
  PROVE  LET r == CompareSwap(o, k, u) IN
         /\ IsOrder(r)
         /\ u[r[k]] <= u[r[k + 1]]
         /\ \/ r[k] = o[k] /\ r[k + 1] = o[k + 1]
            \/ r[k] = o[k + 1] /\ r[k + 1] = o[k]
         /\ \A i \in Groups : i # k /\ i # k + 1 => r[i] = o[i]
<1> DEFINE r == CompareSwap(o, k, u)
<1>1. o \in [Groups -> Groups] /\ k \in Groups /\ k + 1 \in Groups
  BY GroupsDef DEF IsOrder
<1>2. u[o[k]] \in Int /\ u[o[k + 1]] \in Int
  BY <1>1
<1>3. r \in [Groups -> Groups]
  BY <1>1, CompareSwapIs DEF Swapped
<1>4. /\ u[r[k]] <= u[r[k + 1]]
      /\ \/ r[k] = o[k] /\ r[k + 1] = o[k + 1]
         \/ r[k] = o[k + 1] /\ r[k + 1] = o[k]
      /\ \A i \in Groups : i # k /\ i # k + 1 => r[i] = o[i]
  <2>1. CASE u[o[k]] > u[o[k + 1]]
    <3>1. r = [o EXCEPT ![k] = o[k + 1], ![k + 1] = o[k]]
      BY <2>1, CompareSwapIs DEF Swapped
    <3>2. r[k] = o[k + 1] /\ r[k + 1] = o[k]
      BY <3>1, <1>1
    <3>3. \A i \in Groups : i # k /\ i # k + 1 => r[i] = o[i]
      BY <3>1, <1>1
    <3> QED BY <3>2, <3>3, <2>1, <1>2
  <2>2. CASE ~(u[o[k]] > u[o[k + 1]])
    <3>1. r = o
      BY <2>2, CompareSwapIs
    <3> QED BY <3>1, <2>2, <1>2
  <2> QED BY <2>1, <2>2
<1> HIDE DEF r
<1>5. \A g \in Groups : g = r[0] \/ g = r[1] \/ g = r[2] \/ g = r[3]
  <2>1. \A g \in Groups : g = o[0] \/ g = o[1] \/ g = o[2] \/ g = o[3]
    BY DEF IsOrder
  <2>2. CASE k = 0
    BY <2>1, <2>2, <1>4, GroupsDef
  <2>3. CASE k = 1
    BY <2>1, <2>3, <1>4, GroupsDef
  <2>4. CASE k = 2
    BY <2>1, <2>4, <1>4, GroupsDef
  <2> QED BY <2>2, <2>3, <2>4
<1>6. IsOrder(r)
  BY <1>3, <1>5 DEF IsOrder
<1> QED BY <1>4, <1>6 DEF r

LEMMA SortSorts ==
  ASSUME NEW u \in [Groups -> Int]
  PROVE  LET o == sort_index_arr(u) IN
         IsOrder(o) /\ u[o[0]] <= u[o[1]] /\ u[o[1]] <= u[o[2]] /\ u[o[2]] <= u[o[3]]
<1> DEFINE start == [g \in Groups |-> g]
           a1 == CompareSwap(start, 0, u)
           a2 == CompareSwap(a1, 1, u)
           a3 == CompareSwap(a2, 2, u)
           b1 == CompareSwap(a3, 0, u)
           b2 == CompareSwap(b1, 1, u)
           c1 == CompareSwap(b2, 0, u)
<1>1. IsOrder(start)
  BY GroupsDef DEF IsOrder
<1>sort. sort_index_arr(u) = c1
  BY DEF sort_index_arr
<1>val. \A o : IsOrder(o) => /\ u[o[0]] \in Int /\ u[o[1]] \in Int
                             /\ u[o[2]] \in Int /\ u[o[3]] \in Int
  BY GroupsDef DEF IsOrder
<1> HIDE DEF start
<1>2. IsOrder(a1) /\ u[a1[0]] <= u[a1[1]]
  BY <1>1, CompareSwapSorts
<1> HIDE DEF a1
<1>3. IsOrder(a2) /\ u[a2[1]] <= u[a2[2]] /\ u[a2[0]] <= u[a2[2]]
  <2>1. /\ IsOrder(a2) /\ u[a2[1]] <= u[a2[2]] /\ a2[0] = a1[0]
        /\ \/ a2[1] = a1[1] /\ a2[2] = a1[2]
           \/ a2[1] = a1[2] /\ a2[2] = a1[1]
    BY <1>2, CompareSwapSorts, GroupsDef
  <2> HIDE DEF a2
  <2> QED BY <2>1, <1>2, <1>val
<1> HIDE DEF a2
<1>4. /\ IsOrder(a3) /\ u[a3[2]] <= u[a3[3]]
      /\ u[a3[0]] <= u[a3[3]] /\ u[a3[1]] <= u[a3[3]]
  <2>1. /\ IsOrder(a3) /\ u[a3[2]] <= u[a3[3]] /\ a3[0] = a2[0] /\ a3[1] = a2[1]
        /\ \/ a3[2] = a2[2] /\ a3[3] = a2[3]
           \/ a3[2] = a2[3] /\ a3[3] = a2[2]
    BY <1>3, CompareSwapSorts, GroupsDef
  <2> HIDE DEF a3
  <2> QED BY <2>1, <1>3, <1>val
<1> HIDE DEF a3
<1>5. /\ IsOrder(b1) /\ u[b1[0]] <= u[b1[1]]
      /\ u[b1[0]] <= u[b1[3]] /\ u[b1[1]] <= u[b1[3]] /\ u[b1[2]] <= u[b1[3]]
  <2>1. /\ IsOrder(b1) /\ u[b1[0]] <= u[b1[1]] /\ b1[2] = a3[2] /\ b1[3] = a3[3]
        /\ \/ b1[0] = a3[0] /\ b1[1] = a3[1]
           \/ b1[0] = a3[1] /\ b1[1] = a3[0]
    BY <1>4, CompareSwapSorts, GroupsDef
  <2> HIDE DEF b1
  <2> QED BY <2>1, <1>4, <1>val
<1> HIDE DEF b1
<1>6. /\ IsOrder(b2) /\ u[b2[1]] <= u[b2[2]] /\ u[b2[0]] <= u[b2[2]]
      /\ u[b2[2]] <= u[b2[3]]
  <2>1. /\ IsOrder(b2) /\ u[b2[1]] <= u[b2[2]] /\ b2[0] = b1[0] /\ b2[3] = b1[3]
        /\ \/ b2[1] = b1[1] /\ b2[2] = b1[2]
           \/ b2[1] = b1[2] /\ b2[2] = b1[1]
    BY <1>5, CompareSwapSorts, GroupsDef
  <2> HIDE DEF b2
  <2> QED BY <2>1, <1>5, <1>val
<1> HIDE DEF b2
<1>7. /\ IsOrder(c1) /\ u[c1[0]] <= u[c1[1]] /\ u[c1[1]] <= u[c1[2]]
      /\ u[c1[2]] <= u[c1[3]]
  <2>1. /\ IsOrder(c1) /\ u[c1[0]] <= u[c1[1]] /\ c1[2] = b2[2] /\ c1[3] = b2[3]
        /\ \/ c1[0] = b2[0] /\ c1[1] = b2[1]
           \/ c1[0] = b2[1] /\ c1[1] = b2[0]
    BY <1>6, CompareSwapSorts, GroupsDef
  <2> HIDE DEF c1
  <2> QED BY <2>1, <1>6, <1>val
<1> HIDE DEF c1
<1> QED BY <1>7, <1>sort

(* The pair of groups that a tick looks at: the most loaded one, and the    *)
(* least loaded one of the others that has two cores, if there is one.      *)
LEMMA MaxMin ==
  ASSUME NEW u \in [Groups -> Int], NEW c \in [Groups -> Int]
  PROVE  LET hi == max(sort_index_arr(u))
             lo == min(sort_index_arr(u), c)
         IN /\ hi \in Groups /\ lo \in Groups /\ lo # hi
            /\ \A g \in Groups : u[g] <= u[hi]
            /\ c[lo] >= 2 => \A g \in Groups \ {hi} : c[g] >= 2 => u[lo] <= u[g]
            /\ c[lo] < 2 => \A g \in Groups \ {hi} : c[g] < 2
<1> DEFINE o == sort_index_arr(u)
<1>1. /\ IsOrder(o) /\ u[o[0]] <= u[o[1]] /\ u[o[1]] <= u[o[2]] /\ u[o[2]] <= u[o[3]]
  BY SortSorts
<1> HIDE DEF o
<1>2. /\ o[0] \in Groups /\ o[1] \in Groups /\ o[2] \in Groups /\ o[3] \in Groups
  BY <1>1, GroupsDef DEF IsOrder
<1>3. o[0] # o[1] /\ o[0] # o[2] /\ o[0] # o[3] /\ o[1] # o[2] /\ o[1] # o[3] /\ o[2] # o[3]
  <2>1. \A g \in Groups : g = o[0] \/ g = o[1] \/ g = o[2] \/ g = o[3]
    BY <1>1 DEF IsOrder
  <2> QED BY <2>1, <1>2, GroupsDef
<1>4. \A g \in Groups : g = o[0] \/ g = o[1] \/ g = o[2] \/ g = o[3]
  BY <1>1 DEF IsOrder
<1>5. /\ u[o[0]] \in Int /\ u[o[1]] \in Int /\ u[o[2]] \in Int /\ u[o[3]] \in Int
      /\ c[o[0]] \in Int /\ c[o[1]] \in Int /\ c[o[2]] \in Int /\ c[o[3]] \in Int
  BY <1>2
<1> DEFINE hi == o[3]
           lo == min(o, c)
<1>6. /\ lo = o[0] \/ lo = o[1] \/ lo = o[2]
      /\ c[o[0]] >= 2 => lo = o[0]
      /\ ~(c[o[0]] >= 2) /\ c[o[1]] >= 2 => lo = o[1]
      /\ ~(c[o[0]] >= 2) /\ ~(c[o[1]] >= 2) /\ c[o[2]] >= 2 => lo = o[2]
      /\ ~(c[o[0]] >= 2) /\ ~(c[o[1]] >= 2) /\ ~(c[o[2]] >= 2) => lo = o[0]
  BY DEF min
<1> HIDE DEF lo
<1>7. lo \in Groups /\ lo # hi
  BY <1>2, <1>3, <1>6
<1>8. \A g \in Groups : u[g] <= u[hi]
  BY <1>1, <1>4, <1>5
<1>9. c[lo] >= 2 => \A g \in Groups \ {hi} : c[g] >= 2 => u[lo] <= u[g]
  BY <1>1, <1>4, <1>5, <1>6
<1>10. c[lo] < 2 => \A g \in Groups \ {hi} : c[g] < 2
  BY <1>4, <1>5, <1>6
<1> QED BY <1>2, <1>7, <1>8, <1>9, <1>10 DEF o, lo, max

(* The sizes of the groups. *)
LEMMA Counts ==
  ASSUME NEW p
  PROVE  /\ core_counter(p) = [g \in Groups |-> core_counter(p)[g]]
         /\ core_counter(p)[0] = p["net_end"] - p["net_start"] + 1
         /\ core_counter(p)[1] = p["app_start"] - 1 - (p["net_end"] + 1) + 1
         /\ core_counter(p)[2] = p["app_end"] - p["app_start"] + 1
         /\ core_counter(p)[3] = p["blk_end"] - p["blk_start"] + 1
<1>1. core_counter(p) = [g \in Groups |-> Last(p, g) - First(p, g) + 1]
  BY DEF core_counter
<1>2. /\ First(p, 0) = p["net_start"] /\ Last(p, 0) = p["net_end"]
      /\ First(p, 1) = p["net_end"] + 1 /\ Last(p, 1) = p["app_start"] - 1
      /\ First(p, 2) = p["app_start"] /\ Last(p, 2) = p["app_end"]
      /\ First(p, 3) = p["blk_start"] /\ Last(p, 3) = p["blk_end"]
  BY GroupsDef DEF First, Last
<1> QED BY <1>1, <1>2, GroupsDef

LEMMA CountsType ==
  ASSUME NEW p \in [Boundary -> Nat]
  PROVE  core_counter(p) \in [Groups -> Int]
BY Counts, BoundaryNat, GroupsDef

(* A shift keeps the groups' order and overlap, takes one core from one     *)
(* group and gives one to the other.                                        *)
LEMMA ShiftKeeps ==
  ASSUME NEW s \in Sockets, NEW p \in [Boundary -> Nat], SocketOK("APP", s, p),
         NEW from \in Groups, NEW to \in Groups, from # to,
         core_counter(p)[from] >= 2
  PROVE  LET q == Shift(p, from, to) IN
         /\ q \in [Boundary -> Nat] /\ SocketOK("APP", s, q)
         /\ core_counter(q) = Balanced!Moved(core_counter(p), from, to)
         /\ (from # 0 /\ to # 0) => q["net_end"] = p["net_end"]
<1> DEFINE q == Shift(p, from, to)
           d == [b \in 0..2 |-> IF to <= b /\ b < from THEN 1
                                ELSE IF from <= b /\ b < to THEN -1 ELSE 0]
<1>1. q = [p EXCEPT !["net_end"] = @ + d[0], !["app_start"] = @ + d[1],
                    !["app_end"] = @ + d[2], !["blk_start"] = @ + d[2]]
  BY DEF Shift
<1>2. /\ d[0] = (IF to <= 0 /\ 0 < from THEN 1 ELSE IF from <= 0 /\ 0 < to THEN -1 ELSE 0)
      /\ d[1] = (IF to <= 1 /\ 1 < from THEN 1 ELSE IF from <= 1 /\ 1 < to THEN -1 ELSE 0)
      /\ d[2] = (IF to <= 2 /\ 2 < from THEN 1 ELSE IF from <= 2 /\ 2 < to THEN -1 ELSE 0)
  OBVIOUS
<1> HIDE DEF d
<1>3. /\ q["net_start"] = p["net_start"] /\ q["blk_end"] = p["blk_end"]
      /\ q["net_end"] = p["net_end"] + d[0] /\ q["app_start"] = p["app_start"] + d[1]
      /\ q["app_end"] = p["app_end"] + d[2] /\ q["blk_start"] = p["blk_start"] + d[2]
  BY <1>1 DEF Boundary
<1>4. /\ p["net_start"] \in Nat /\ p["net_end"] \in Nat /\ p["app_start"] \in Nat
      /\ p["app_end"] \in Nat /\ p["blk_start"] \in Nat /\ p["blk_end"] \in Nat
  BY BoundaryNat
<1>5. /\ p["net_start"] <= p["net_end"] /\ p["blk_start"] <= p["blk_end"]
      /\ p["net_end"] + 2 <= p["app_start"] /\ p["app_start"] <= p["app_end"]
      /\ p["app_end"] = p["blk_start"] + 1
  BY DEF SocketOK
<1>6. /\ from = 0 => p["net_end"] >= p["net_start"] + 1
      /\ from = 1 => p["app_start"] >= p["net_end"] + 3
      /\ from = 2 => p["app_end"] >= p["app_start"] + 1
      /\ from = 3 => p["blk_end"] >= p["blk_start"] + 1
  BY <1>4, Counts
<1>7. from \in {0, 1, 2, 3} /\ to \in {0, 1, 2, 3}
  BY GroupsDef
<1>8. /\ d[0] \in {-1, 0, 1} /\ d[1] \in {-1, 0, 1} /\ d[2] \in {-1, 0, 1}
  BY <1>2, <1>7
<1>9. /\ p["net_end"] + d[0] \in Nat /\ p["app_start"] + d[1] \in Nat
      /\ p["app_end"] + d[2] \in Nat /\ p["blk_start"] + d[2] \in Nat
      /\ p["net_start"] <= p["net_end"] + d[0]
      /\ p["blk_start"] + d[2] <= p["blk_end"]
      /\ p["net_end"] + d[0] + 2 <= p["app_start"] + d[1]
      /\ p["app_start"] + d[1] <= p["app_end"] + d[2]
  BY <1>2, <1>4, <1>5, <1>6, <1>7
<1>10. q \in [Boundary -> Nat]
  BY <1>1, <1>9
<1> HIDE DEF q
<1>11. SocketOK("APP", s, q)
  BY <1>3, <1>4, <1>5, <1>8, <1>9 DEF SocketOK
<1>12. core_counter(q) = Balanced!Moved(core_counter(p), from, to)
  <2>1. \A g \in Groups : core_counter(q)[g]
           = IF g = from THEN core_counter(p)[g] - 1
             ELSE IF g = to THEN core_counter(p)[g] + 1 ELSE core_counter(p)[g]
    BY Counts, <1>2, <1>3, <1>4, <1>7, GroupsDef
  <2> QED BY <2>1, Counts DEF Balanced!Moved
<1>13. (from # 0 /\ to # 0) => q["net_end"] = p["net_end"]
  BY <1>2, <1>3, <1>4, <1>7
<1> QED BY <1>10, <1>11, <1>12, <1>13 DEF q

(* What a tick of APP does to one socket. *)
LEMMA AdjustedKeeps ==
  ASSUME NEW s \in Sockets, NEW p \in [Boundary -> Nat], SocketOK("APP", s, p),
         NEW u \in [Groups -> Int]
  PROVE  LET q == Adjusted(p, u) IN
         /\ q \in [Boundary -> Nat] /\ SocketOK("APP", s, q)
         /\ Balanced!Balance(core_counter(p), u, core_counter(q))
         /\ ~net_flag(p, u) => q["net_end"] = p["net_end"]
<1> DEFINE c == core_counter(p)
           o == sort_index_arr(u)
           hi == max(o)
           lo == min(o, c)
           q == Adjusted(p, u)
<1>1. c \in [Groups -> Int]
  BY CountsType
<1>2. /\ hi \in Groups /\ lo \in Groups /\ lo # hi
      /\ \A g \in Groups : u[g] <= u[hi]
      /\ c[lo] >= 2 => \A g \in Groups \ {hi} : c[g] >= 2 => u[lo] <= u[g]
      /\ c[lo] < 2 => \A g \in Groups \ {hi} : c[g] < 2
  BY <1>1, MaxMin
<1>3. /\ c[lo] >= 2 /\ u[hi] - T_CHANGE > u[lo] => q = Shift(p, lo, hi)
      /\ ~(c[lo] >= 2 /\ u[hi] - T_CHANGE > u[lo]) => q = p
  BY DEF Adjusted
<1>4. ~net_flag(p, u) => hi # 0 /\ lo # 0
  BY DEF net_flag, Concerned
<1>5. T_CHANGE \in Nat /\ u[hi] \in Int /\ u[lo] \in Int /\ c[lo] \in Int
  BY <1>1, <1>2, ThresholdAssumption
<1>6. \A g \in Groups : u[g] \in Int /\ c[g] \in Int
  BY <1>1
<1> HIDE DEF c, hi, lo, q, o
<1>7. CASE c[lo] >= 2 /\ u[hi] - T_CHANGE > u[lo]
  <2>1. q = Shift(p, lo, hi)
    BY <1>3, <1>7
  <2>2. /\ q \in [Boundary -> Nat] /\ SocketOK("APP", s, q)
        /\ core_counter(q) = Balanced!Moved(c, lo, hi)
        /\ (lo # 0 /\ hi # 0) => q["net_end"] = p["net_end"]
    BY <2>1, <1>2, <1>7, ShiftKeeps DEF c
  <2>3. Balanced!Transfer(c, u, lo, hi)
    BY <1>2, <1>5, <1>7 DEF Balanced!Transfer, Balanced!Busiest, Balanced!Spare
  <2>4. Balanced!Balance(c, u, core_counter(q))
    BY <2>2, <2>3, <1>2 DEF Balanced!Balance
  <2> QED BY <2>2, <2>4, <1>4 DEF c, q
<1>8. CASE ~(c[lo] >= 2 /\ u[hi] - T_CHANGE > u[lo])
  <2>1. q = p
    BY <1>3, <1>8
  <2>2. ASSUME NEW l \in Groups, NEW h \in Groups, Balanced!Transfer(c, u, l, h)
        PROVE  FALSE
    <3>1. /\ \A g \in Groups : u[g] <= u[h]
          /\ l # h /\ c[l] >= 2 /\ u[h] - u[l] > T_CHANGE
      BY <2>2 DEF Balanced!Transfer, Balanced!Busiest, Balanced!Spare
    <3>2. u[h] = u[hi]
      BY <3>1, <1>2, <1>6
    <3>3. l # hi
      BY <3>1, <3>2, <1>5, <1>6
    <3>4. c[lo] >= 2 /\ u[lo] <= u[l]
      BY <3>1, <3>3, <1>2, <1>6
    <3> QED BY <3>1, <3>2, <3>4, <1>5, <1>6, <1>8
  <2>3. Balanced!Balance(c, u, core_counter(q))
    BY <2>1, <2>2 DEF Balanced!Balance, c
  <2> QED BY <2>1, <2>3 DEF c, q
<1> QED BY <1>7, <1>8

LEMMA UtilType ==
  ASSUME TypeOK, GroupsNonEmpty, mode = "APP", NEW load \in Loads, NEW s \in Sockets
  PROVE  util_arr(load, part[s]) \in [Groups -> Int]
<1> DEFINE p == part[s]
<1>1. p \in [Boundary -> Nat] /\ mode \in Modes /\ SocketOK(mode, s, p)
  BY SocketOKDef DEF TypeOK
<1>2. ASSUME NEW g \in Groups
      PROVE  First(p, g) \in 0..MAX_CPUS /\ Last(p, g) \in 0..MAX_CPUS /\ First(p, g) <= Last(p, g)
  <2>1. /\ First(p, 0) = p["net_start"] /\ Last(p, 0) = p["net_end"]
        /\ First(p, 1) = p["net_end"] + 1 /\ Last(p, 1) = p["app_start"] - 1
        /\ First(p, 2) = p["app_start"] /\ Last(p, 2) = p["app_end"]
        /\ First(p, 3) = p["blk_start"] /\ Last(p, 3) = p["blk_end"]
    BY GroupsDef DEF First, Last
  <2>2. /\ p["net_start"] <= p["net_end"] /\ p["blk_start"] <= p["blk_end"]
        /\ p["net_end"] + 2 <= p["app_start"] /\ p["app_start"] <= p["app_end"]
        /\ p["app_end"] = p["blk_start"] + 1 /\ p["blk_end"] < MAX_CPUS
    BY <1>1, StartInside DEF SocketOK
  <2>3. /\ p["net_start"] \in Nat /\ p["net_end"] \in Nat /\ p["app_start"] \in Nat
        /\ p["app_end"] \in Nat /\ p["blk_start"] \in Nat /\ p["blk_end"] \in Nat
    BY <1>1, BoundaryNat
  <2> HIDE DEF p
  <2> QED BY <2>1, <2>2, <2>3, GroupsDef, CpuAssumption
<1> HIDE DEF p
<1>3. util_arr(load, p) \in [Groups -> Int]
  BY <1>2, MeanType DEF util_arr
<1> QED BY <1>3 DEF p
-----------------------------------------------------------------------------
(* The inductive invariant.  HintsInPartition holds of APP's block queues   *)
(* only because they are never given a hint (blk_flag tests for group 4).   *)
AppBlkUnset == mode = "APP" => \A q \in BlkQueues : blkHint[q] = NONE
Inv == TypeOK /\ GroupsNonEmpty /\ HintsInPartition /\ AppBlkUnset

LEMMA InvInit == Init => Inv
<1> SUFFICES ASSUME Init PROVE Inv
  OBVIOUS
<1>1. part \in [Sockets -> [Boundary -> Nat]] /\ mode \in Modes
  BY StartAssumption DEF Init
<1>2. TypeOK
  BY <1>1 DEF Init, TypeOK, NUMBER_OF_SOCKETS
<1>3. GroupsNonEmpty
  BY <1>1, StartAssumption DEF Init, GroupsNonEmpty
<1>4. HintsInPartition /\ AppBlkUnset
  BY DEF Init, HintsInPartition, AppBlkUnset
<1> QED BY <1>2, <1>3, <1>4 DEF Inv

(* A turn of CROSS or PER with n sockets in use. *)
LEMMA BlkTurnKeeps ==
  ASSUME Inv, mode # "APP", mode' = mode, NEW n \in {1, 2}, socket_number' = n,
         avg' \in [Sockets -> [Groups -> Int]], NEW stray,
         BlkTurn(n, avg', stray)
  PROVE  Inv'
<1> DEFINE new(s) == [part[s] EXCEPT !["blk_start"] =
               @ + BlkMove(part[s], avg'[s], IF s = 0 THEN stray ELSE avg'[s][BLK_INDEX])]
<1>1. part' = [s \in Sockets |-> IF s \notin Active(n) THEN part[s] ELSE new(s)]
  BY DEF BlkTurn
<1>2. mode \in Modes /\ part \in [Sockets -> [Boundary -> Nat]]
  BY DEF Inv, TypeOK
<1>3. ASSUME NEW s \in Sockets
      PROVE  new(s) \in [Boundary -> Nat] /\ SocketOK(mode, s, new(s))
             /\ new(s)["net_start"] = part[s]["net_start"] /\ new(s)["net_end"] = part[s]["net_end"]
  <2>1. part[s] \in [Boundary -> Nat] /\ SocketOK(mode, s, part[s])
    BY <1>2, SocketOKDef DEF Inv
  <2>2. new(s)["net_start"] = part[s]["net_start"] /\ new(s)["net_end"] = part[s]["net_end"]
    BY <2>1 DEF Boundary
  <2> QED BY <2>1, <2>2, <1>2, BlkMoveKeeps
<1> HIDE DEF new
<1>4. /\ part' \in [Sockets -> [Boundary -> Nat]]
      /\ \A s \in Sockets : /\ SocketOK(mode, s, part'[s])
                             /\ part'[s]["net_start"] = part[s]["net_start"]
                             /\ part'[s]["net_end"] = part[s]["net_end"]
  BY <1>1, <1>2, <1>3, SocketOKDef DEF Inv
<1>5. GroupsNonEmpty'
  BY <1>4 DEF GroupsNonEmpty, SocketOK
<1> DEFINE lo == At(part', "blk_start")
           hi == At(part', "blk_end")
<1>6. /\ blkHint' = RoundRobin(BlkQueues, n, lo, hi)
      /\ netHint' = netHint /\ dynamic_turn' = 1
  BY DEF BlkTurn
<1>7. /\ lo \in [Sockets -> Nat] /\ hi \in [Sockets -> Nat]
      /\ \A s \in Sockets : lo[s] = part'[s]["blk_start"] /\ hi[s] = part'[s]["blk_end"]
  BY <1>4, AtType DEF Boundary
<1>8. \A s \in Sockets : lo[s] <= hi[s]
  BY <1>4, <1>7 DEF SocketOK
<1> HIDE DEF lo, hi
<1>9. /\ blkHint' \in [BlkQueues -> Nat]
      /\ \A q \in BlkQueues : \E s \in Active(n) : blkHint'[q] \in lo[s]..hi[s]
  BY <1>6, <1>7, <1>8, RoundRobinStays, QueueAssumption
<1>10. Active(n) \subseteq Sockets
  BY ActiveDef
<1>11. \A q \in BlkQueues : \E s \in Active(n) :
          blkHint'[q] \in part'[s]["blk_start"]..part'[s]["blk_end"]
  BY <1>7, <1>9, <1>10
<1>12. TypeOK'
  BY <1>2, <1>4, <1>6, <1>9 DEF Inv, TypeOK, NUMBER_OF_SOCKETS
<1>13. HintsInPartition'
  <2>1. \A q \in BlkQueues : BlkCore(blkHint[q], Sockets)' /\ BlkCore(blkHint[q], Active(socket_number))'
    BY <1>10, <1>11 DEF BlkCore
  <2>2. \A q \in NetQueues : netHint'[q] # NONE => NetCore(netHint[q], Sockets)'
    <3>1. \A q \in NetQueues : netHint[q] # NONE =>
             \E s \in Sockets : netHint[q] \in part[s]["net_start"]..part[s]["net_end"]
      BY DEF Inv, HintsInPartition, NetCore
    <3> QED BY <3>1, <1>4, <1>6 DEF NetCore
  <2> QED BY <2>1, <2>2, <1>6 DEF HintsInPartition
<1>14. AppBlkUnset'
  BY DEF AppBlkUnset
<1> QED BY <1>5, <1>12, <1>13, <1>14 DEF Inv

LEMMA NetTurnKeeps ==
  ASSUME Inv, mode # "APP", mode' = mode, NEW n \in {1, 2}, socket_number' = n,
         avg' \in [Sockets -> [Groups -> Int]],
         NetTurn(n, avg')
  PROVE  Inv'
<1> DEFINE new(s) == [part[s] EXCEPT !["net_end"] = @ + NetMove(part[s], avg'[s])]
<1>1. part' = [s \in Sockets |-> IF s \notin Active(n) THEN part[s] ELSE new(s)]
  BY DEF NetTurn
<1>2. mode \in Modes /\ part \in [Sockets -> [Boundary -> Nat]]
  BY DEF Inv, TypeOK
<1>3. ASSUME NEW s \in Sockets
      PROVE  new(s) \in [Boundary -> Nat] /\ SocketOK(mode, s, new(s))
             /\ new(s)["blk_start"] = part[s]["blk_start"] /\ new(s)["blk_end"] = part[s]["blk_end"]
  <2>1. part[s] \in [Boundary -> Nat] /\ SocketOK(mode, s, part[s])
    BY <1>2, SocketOKDef DEF Inv
  <2>2. new(s)["blk_start"] = part[s]["blk_start"] /\ new(s)["blk_end"] = part[s]["blk_end"]
    BY <2>1 DEF Boundary
  <2> QED BY <2>1, <2>2, <1>2, NetMoveKeeps
<1> HIDE DEF new
<1>4. /\ part' \in [Sockets -> [Boundary -> Nat]]
      /\ \A s \in Sockets : /\ SocketOK(mode, s, part'[s])
                             /\ part'[s]["blk_start"] = part[s]["blk_start"]
                             /\ part'[s]["blk_end"] = part[s]["blk_end"]
  BY <1>1, <1>2, <1>3, SocketOKDef DEF Inv
<1>5. GroupsNonEmpty'
  BY <1>4 DEF GroupsNonEmpty, SocketOK
<1> DEFINE lo == At(part', "net_start")
           hi == At(part', "net_end")
<1>6. /\ netHint' = RoundRobin(NetQueues, n, lo, hi)
      /\ blkHint' = blkHint /\ dynamic_turn' = 0
  BY DEF NetTurn
<1>7. /\ lo \in [Sockets -> Nat] /\ hi \in [Sockets -> Nat]
      /\ \A s \in Sockets : lo[s] = part'[s]["net_start"] /\ hi[s] = part'[s]["net_end"]
  BY <1>4, AtType DEF Boundary
<1>8. \A s \in Sockets : lo[s] <= hi[s]
  BY <1>4, <1>7 DEF SocketOK
<1> HIDE DEF lo, hi
<1>9. /\ netHint' \in [NetQueues -> Nat]
      /\ \A q \in NetQueues : \E s \in Active(n) : netHint'[q] \in lo[s]..hi[s]
  BY <1>6, <1>7, <1>8, RoundRobinStays, QueueAssumption
<1>10. Active(n) \subseteq Sockets
  BY ActiveDef
<1>11. \A q \in NetQueues : \E s \in Active(n) :
          netHint'[q] \in part'[s]["net_start"]..part'[s]["net_end"]
  BY <1>7, <1>9, <1>10
<1>12. TypeOK'
  BY <1>2, <1>4, <1>6, <1>9 DEF Inv, TypeOK, NUMBER_OF_SOCKETS
<1>13. HintsInPartition'
  <2>1. \A q \in NetQueues : NetCore(netHint[q], Sockets)' /\ NetCore(netHint[q], Active(socket_number))'
    BY <1>10, <1>11 DEF NetCore
  <2>2. \A q \in BlkQueues : blkHint'[q] # NONE => BlkCore(blkHint[q], Sockets)'
    <3>1. \A q \in BlkQueues : blkHint[q] # NONE =>
             \E s \in Sockets : blkHint[q] \in part[s]["blk_start"]..part[s]["blk_end"]
      BY DEF Inv, HintsInPartition, BlkCore
    <3> QED BY <3>1, <1>4, <1>6 DEF BlkCore
  <2> QED BY <2>1, <2>2, <1>6 DEF HintsInPartition
<1>14. AppBlkUnset'
  BY DEF AppBlkUnset
<1> QED BY <1>5, <1>12, <1>13, <1>14 DEF Inv

LEMMA CrossTickKeeps ==
  ASSUME Inv, NEW load \in Loads, CrossTick(load)
  PROVE  Inv'
<1>1. mode = "CROSS" /\ mode' = mode
  BY DEF CrossTick
<1>2. socket_number \in {1, 2}
  BY DEF Inv, TypeOK, NUMBER_OF_SOCKETS
<1>3. socket_number' \in {1, 2}
  BY <1>2 DEF CrossTick, SocketNumber, NUMBER_OF_SOCKETS
<1>4. avg' \in [Sockets -> [Groups -> Int]]
  <2>1. \A n \in {1, 2} : Measure(load, n) \in [Sockets -> [Groups -> Int]]
    BY <1>1, MeasureType DEF Inv
  <2>2. PICK n \in {1, 2} : avg' = Measure(load, n)
    BY <1>2, <1>3 DEF CrossTick
  <2> QED BY <2>1, <2>2
<1>5. \/ \E stray \in Stray : BlkTurn(socket_number', avg', stray)
      \/ NetTurn(socket_number', avg')
  BY DEF CrossTick
<1> QED BY <1>1, <1>3, <1>4, <1>5, BlkTurnKeeps, NetTurnKeeps

LEMMA PerTickKeeps ==
  ASSUME Inv, NEW load \in Loads, PerTick(load)
  PROVE  Inv'
<1>1. mode = "PER" /\ mode' = mode /\ socket_number' = 2
  BY DEF PerTick, NUMBER_OF_SOCKETS
<1>2. avg' \in [Sockets -> [Groups -> Int]]
  BY <1>1, MeasureType DEF Inv, PerTick, NUMBER_OF_SOCKETS
<1>3. (\E stray \in Stray : BlkTurn(2, avg', stray)) \/ NetTurn(2, avg')
  BY DEF PerTick, NUMBER_OF_SOCKETS
<1> QED BY <1>1, <1>2, <1>3, BlkTurnKeeps, NetTurnKeeps

(* A tick of APP, socket by socket. *)
LEMMA AppTickMoves ==
  ASSUME TypeOK, GroupsNonEmpty, NEW load \in Loads, AppTick(load)
  PROVE  /\ mode = "APP" /\ mode' = mode
         /\ avg' \in [Sockets -> [Groups -> Int]]
         /\ part' \in [Sockets -> [Boundary -> Nat]]
         /\ \A s \in Sockets :
              /\ SocketOK("APP", s, part'[s])
              /\ Balanced!Balance(core_counter(part[s]), avg'[s], core_counter(part'[s]))
              /\ ~net_flag(part[s], avg'[s]) => part'[s]["net_end"] = part[s]["net_end"]
<1>1. /\ mode = "APP" /\ mode' = mode
      /\ avg' = [s \in Sockets |-> util_arr(load, part[s])]
      /\ part' = [s \in Sockets |-> Adjusted(part[s], avg'[s])]
  BY DEF AppTick
<1>2. avg' \in [Sockets -> [Groups -> Int]]
  BY <1>1, UtilType
<1>3. ASSUME NEW s \in Sockets
      PROVE  /\ part'[s] \in [Boundary -> Nat]
             /\ SocketOK("APP", s, part'[s])
             /\ Balanced!Balance(core_counter(part[s]), avg'[s], core_counter(part'[s]))
             /\ ~net_flag(part[s], avg'[s]) => part'[s]["net_end"] = part[s]["net_end"]
  <2>1. part[s] \in [Boundary -> Nat] /\ SocketOK("APP", s, part[s])
    BY <1>1, SocketOKDef DEF TypeOK
  <2>2. avg'[s] \in [Groups -> Int] /\ part'[s] = Adjusted(part[s], avg'[s])
    BY <1>1, <1>2
  <2> QED BY <2>1, <2>2, AdjustedKeeps
<1>4. part' \in [Sockets -> [Boundary -> Nat]]
  BY <1>1, <1>3
<1> QED BY <1>1, <1>2, <1>3, <1>4

LEMMA AppTickKeeps ==
  ASSUME Inv, NEW load \in Loads, AppTick(load)
  PROVE  Inv'
<1>1. /\ mode = "APP" /\ mode' = mode
      /\ avg' \in [Sockets -> [Groups -> Int]]
      /\ part' \in [Sockets -> [Boundary -> Nat]]
      /\ \A s \in Sockets :
           /\ SocketOK("APP", s, part'[s])
           /\ ~net_flag(part[s], avg'[s]) => part'[s]["net_end"] = part[s]["net_end"]
  BY AppTickMoves DEF Inv
<1>2. GroupsNonEmpty'
  BY <1>1 DEF GroupsNonEmpty, SocketOK
<1>3. \A s \in Sockets : ~blk_flag(part[s], avg'[s])
  <2>1. ASSUME NEW s \in Sockets
        PROVE  ~blk_flag(part[s], avg'[s])
    <3>1. avg'[s] \in [Groups -> Int] /\ core_counter(part[s]) \in [Groups -> Int]
      BY <1>1, CountsType DEF Inv, TypeOK
    <3>2. /\ max(sort_index_arr(avg'[s])) \in Groups
          /\ min(sort_index_arr(avg'[s]), core_counter(part[s])) \in Groups
      BY <3>1, MaxMin
    <3>3. 4 \notin Groups
      BY GroupsDef
    <3> QED BY <3>2, <3>3 DEF blk_flag, Concerned
  <2> QED BY <2>1
<1>4. blkHint' = blkHint /\ \A q \in BlkQueues : blkHint[q] = NONE
  BY <1>1, <1>3 DEF AppTick, Inv, AppBlkUnset
<1> DEFINE lo == At(part', "net_start")
           hi == At(part', "net_end")
<1>5. /\ lo \in [Sockets -> Nat] /\ hi \in [Sockets -> Nat]
      /\ \A s \in Sockets : lo[s] = part'[s]["net_start"] /\ hi[s] = part'[s]["net_end"]
  BY <1>1, AtType DEF Boundary
<1>6. \A s \in Sockets : lo[s] <= hi[s]
  BY <1>1, <1>5 DEF SocketOK
<1> HIDE DEF lo, hi
<1>7. ASSUME \E s \in Sockets : net_flag(part[s], avg'[s])
      PROVE  /\ netHint' \in [NetQueues -> Nat]
             /\ \A q \in NetQueues : NetCore(netHint[q], Sockets)'
  <2>1. netHint' = RoundRobin(NetQueues, 2, lo, hi)
    BY <1>7 DEF AppTick, lo, hi, NUMBER_OF_SOCKETS
  <2>2. /\ netHint' \in [NetQueues -> Nat]
        /\ \A q \in NetQueues : \E s \in Active(2) : netHint'[q] \in lo[s]..hi[s]
    BY <2>1, <1>5, <1>6, RoundRobinStays, QueueAssumption
  <2>3. Active(2) \subseteq Sockets
    BY ActiveDef
  <2> QED BY <2>2, <2>3, <1>5 DEF NetCore
<1>8. ASSUME ~\E s \in Sockets : net_flag(part[s], avg'[s])
      PROVE  /\ netHint' = netHint
             /\ \A q \in NetQueues : netHint'[q] # NONE => NetCore(netHint[q], Sockets)'
  <2>1. netHint' = netHint
    BY <1>8 DEF AppTick
  <2>2. \A s \in Sockets : /\ part'[s]["net_end"] = part[s]["net_end"]
                           /\ part'[s]["net_start"] = part[s]["net_start"]
    BY <1>1, <1>8, SocketOKDef DEF Inv, SocketOK
  <2>3. \A q \in NetQueues : netHint[q] # NONE =>
           \E s \in Sockets : netHint[q] \in part[s]["net_start"]..part[s]["net_end"]
    BY DEF Inv, HintsInPartition, NetCore
  <2> QED BY <2>1, <2>2, <2>3 DEF NetCore
<1>9. /\ netHint' \in [NetQueues -> Nat \cup {NONE}]
      /\ \A q \in NetQueues : netHint'[q] # NONE => NetCore(netHint[q], Sockets)'
  BY <1>7, <1>8 DEF Inv, TypeOK
<1>10. TypeOK'
  <2>1. socket_number' = 2 /\ dynamic_turn' = dynamic_turn
    BY DEF AppTick, NUMBER_OF_SOCKETS
  <2>2. 1..NUMBER_OF_SOCKETS = {1, 2}
    BY DEF NUMBER_OF_SOCKETS
  <2> QED BY <2>1, <2>2, <1>1, <1>4, <1>9 DEF Inv, TypeOK
<1>11. HintsInPartition'
  BY <1>1, <1>4, <1>9 DEF HintsInPartition
<1>12. AppBlkUnset'
  BY <1>4 DEF AppBlkUnset
<1> QED BY <1>2, <1>10, <1>11, <1>12 DEF Inv

LEMMA InvNext == Inv /\ [Next]_vars => Inv'
<1> SUFFICES ASSUME Inv, [Next]_vars PROVE Inv'
  OBVIOUS
<1>1. CASE Next
  BY <1>1, CrossTickKeeps, PerTickKeeps, AppTickKeeps DEF Next, Tick
<1>2. CASE UNCHANGED vars
  BY <1>2 DEF vars, Inv, TypeOK, GroupsNonEmpty, HintsInPartition, NetCore, BlkCore, AppBlkUnset
<1> QED BY <1>1, <1>2

LEMMA Invariance == Spec => []Inv
BY InvInit, InvNext, PTL DEF Spec

(* Every variable of the controllers keeps its type. *)
THEOREM TypeCorrect == Spec => []TypeOK
<1>1. Inv => TypeOK
  BY DEF Inv
<1> QED BY <1>1, Invariance, PTL

(* No sequence of loads empties a group of CROSS, PER or APP: no average is *)
(* divided by zero.                                                         *)
THEOREM NoEmptyGroup == Spec => []GroupsNonEmpty
<1>1. Inv => GroupsNonEmpty
  BY DEF Inv
<1> QED BY <1>1, Invariance, PTL

(* Interrupts are hinted to cores of their own side, of a socket in use     *)
(* after the side's turn.                                                   *)
THEOREM HintsOnTheirSide == Spec => []HintsInPartition
<1>1. Inv => HintsInPartition
  BY DEF Inv
<1> QED BY <1>1, Invariance, PTL
-----------------------------------------------------------------------------
(* APP implements CoreBalance. *)
LEMMA SizesNat ==
  ASSUME TypeOK, GroupsNonEmpty
  PROVE  sizes \in [Sockets -> [Groups -> Nat]] /\ loads \in [Sockets -> [Groups -> Int]]
<1>1. ASSUME mode = "APP", NEW s \in Sockets
      PROVE  core_counter(part[s]) \in [Groups -> Nat]
  <2>1. part[s] \in [Boundary -> Nat] /\ SocketOK("APP", s, part[s])
    BY <1>1, SocketOKDef DEF TypeOK
  <2>2. \A g \in Groups : core_counter(part[s])[g] \in Nat
    BY <2>1, Counts, BoundaryNat, GroupsDef DEF SocketOK
  <2> QED BY <2>2, Counts
<1>2. sizes \in [Sockets -> [Groups -> Nat]]
  BY <1>1 DEF sizes
<1>3. loads \in [Sockets -> [Groups -> Int]]
  BY DEF loads, TypeOK
<1> QED BY <1>2, <1>3

LEMMA BalanceStep ==
  ASSUME Inv, Inv', [Next]_vars
  PROVE  [Balanced!Next]_<<sizes, loads>>
<1>1. CASE mode = "APP" /\ mode' = "APP" /\ \E load \in Loads : AppTick(load)
  <2>1. PICK load \in Loads : AppTick(load)
    BY <1>1
  <2>2. \A s \in Sockets :
           Balanced!Balance(core_counter(part[s]), avg'[s], core_counter(part'[s]))
    BY <2>1, AppTickMoves DEF Inv
  <2>3. \A s \in Sockets : sizes[s] = core_counter(part[s]) /\ loads'[s] = avg'[s]
    BY <1>1 DEF sizes, loads
  <2>4. \A s \in Sockets : sizes'[s] = core_counter(part'[s])
    BY <1>1 DEF sizes, core_counter, First, Last
  <2>5. loads' \in [Sockets -> [Groups -> Int]]
    <3>1. avg' \in [Sockets -> [Groups -> Int]]
      BY DEF Inv, TypeOK
    <3> QED BY <1>1, <3>1 DEF loads
  <2>6. Balanced!Next
    BY <2>2, <2>3, <2>4, <2>5 DEF Balanced!Next
  <2> QED BY <2>6
<1>2. CASE mode # "APP" /\ mode' = mode
  BY <1>2 DEF sizes, loads
<1>3. CASE UNCHANGED vars
  BY <1>3 DEF vars, sizes, loads, core_counter, First, Last
<1>4. CASE Next
  <2>1. PICK load \in Loads : CrossTick(load) \/ PerTick(load) \/ AppTick(load)
    BY <1>4 DEF Next, Tick
  <2>2. CASE CrossTick(load)
    BY <2>2, <1>2 DEF CrossTick
  <2>3. CASE PerTick(load)
    BY <2>3, <1>2 DEF PerTick
  <2>4. CASE AppTick(load)
    BY <2>4, <1>1 DEF AppTick
  <2> QED BY <2>1, <2>2, <2>3, <2>4
<1> QED BY <1>3, <1>4

(* The numbers of cores that APP gives to the four groups of each socket    *)
(* change as CoreBalance says.                                              *)
THEOREM AppBalances == Spec => BalanceSpec
<1>1. Init => Balanced!Init
  BY InvInit, SizesNat DEF Inv, Balanced!Init
<1>2. Inv /\ Inv' /\ [Next]_vars => [Balanced!Next]_<<sizes, loads>>
  BY BalanceStep
<1> QED BY <1>1, <1>2, Invariance, PTL DEF Spec, BalanceSpec, Balanced!Spec
=============================================================================

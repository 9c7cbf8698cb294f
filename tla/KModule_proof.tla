--------------------------- MODULE KModule_proof ---------------------------
(***************************************************************************)
(* Proofs about the life cycle of the kernel module, for any number of      *)
(* cores, loads and ticks.                                                  *)
(***************************************************************************)
EXTENDS KModule, TLAPS

Outcomes == [ok : BOOLEAN, oom : {"no", "entry", "kmalloc"}]
Quiet == ~timer /\ tick = "none"

(* What the three properties rest on: a load starts with a clean /proc      *)
(* unless the last one failed in kmalloc; the timer is quiet while the      *)
(* module is loaded, and once it has been deleted with no handler running;  *)
(* only a load that went well makes the module live.                        *)
LifeInv ==
  /\ load \in Outcomes /\ prev \in Outcomes
  /\ step \in Nat
  /\ mod = "loading" => Quiet /\ load = NoLoad
  /\ mod = "loading" /\ step = 0 => proc = {} \/ prev.oom = "kmalloc"
  /\ mod \in {"leaving", "absent"} /\ ~overlap => Quiet
  /\ HasCode => load.ok
  /\ UnloadSafe
  /\ OneFailureAfterLeak
  /\ ProcClean

LEMMA InitLife == Init => LifeInv
BY DEF Init, LifeInv, Outcomes, Quiet, NoLoad, HasCode, UnloadSafe, OneFailureAfterLeak, ProcClean

(* A failing call of init_simpleproc, in a load that has begun with `oom'   *)
(* being what ran out of memory.                                            *)
LEMMA FailureKeepsLife ==
  ASSUME LifeInv, mod = "loading",
         NEW oom \in {"no", "entry", "kmalloc"}, InitFails(oom),
         oom # "kmalloc" => proc' = {},
         oom = "no" => prev.oom = "kmalloc"
  PROVE  LifeInv'
BY DEF LifeInv, InitFails, Outcomes, Quiet, NoLoad, HasCode, UnloadSafe,
       OneFailureAfterLeak, ProcClean

LEMMA NextLife == LifeInv /\ [Next]_vars => LifeInv'
<1> SUFFICES ASSUME LifeInv, [Next]_vars PROVE LifeInv'
  OBVIOUS
<1> USE DEF LifeInv, Outcomes, Quiet, NoLoad, HasCode, UnloadSafe, OneFailureAfterLeak, ProcClean
<1>1. CASE Insmod
  BY <1>1 DEF Insmod
<1>2. CASE ProcMkdir
  <2>1. CASE "KU" \notin proc /\ proc' = {"KU"} /\ UNCHANGED ptrmng /\ InitGoesOn
    BY <1>2, <2>1 DEF ProcMkdir, InitGoesOn, loadVars
  <2>2. ASSUME NEW oom \in {"entry"} \cup (IF "KU" \in proc THEN {"no"} ELSE {}),
               proc' = OnMkdirFailure, InitFails(oom)
        PROVE  LifeInv'
    <3>1. proc' = {}
      BY <2>2 DEF OnMkdirFailure, RemoveAll
    <3>2. oom = "no" => prev.oom = "kmalloc"
      BY <1>2, <2>2 DEF ProcMkdir
    <3>3. oom \in {"no", "entry", "kmalloc"}
      BY <2>2
    <3>4. mod = "loading"
      BY <1>2 DEF ProcMkdir
    <3> QED
      BY <2>2, <3>1, <3>2, <3>3, <3>4, FailureKeepsLife
  <2> QED
    BY <1>2, <2>1, <2>2 DEF ProcMkdir
<1>3. CASE ProcCreate
  <2>1. CASE proc' = proc \cup {Entries[step]} /\ UNCHANGED ptrmng /\ InitGoesOn
    BY <1>3, <2>1 DEF ProcCreate, InitGoesOn, loadVars
  <2>2. CASE proc' = OnCreateFailure(step) /\ InitFails("entry")
    <3>1. proc' = {}
      BY <2>2 DEF OnCreateFailure, RemoveAll
    <3>2. mod = "loading"
      BY <1>3 DEF ProcCreate
    <3> QED
      BY <2>2, <3>1, <3>2, FailureKeepsLife
  <2> QED
    BY <1>3, <2>1, <2>2 DEF ProcCreate
<1>4. CASE Kmalloc
  <2>1. CASE ptrmng' = "allocated" /\ InitGoesOn
    BY <1>4, <2>1 DEF Kmalloc, InitGoesOn, loadVars
  <2>2. CASE InitFails("kmalloc")
    BY <1>4, <2>2, FailureKeepsLife DEF Kmalloc
  <2> QED
    BY <1>4, <2>1, <2>2 DEF Kmalloc
<1>5. CASE StartTimer
  BY <1>5 DEF StartTimer
<1>6. CASE TickStep
  BY <1>6 DEF TickStep, Expire, Sample, Control, Rearm, lifeVars, loadVars
<1>7. CASE DelTimer
  BY <1>7 DEF DelTimer, loadVars
<1>8. CASE ExitStep
  BY <1>8 DEF ExitStep, Kfree, RemoveEntries, RemoveAll, Names, loadVars
<1>9. CASE Oops
  BY <1>9 DEF Oops, loadVars
<1>10. CASE TimePasses
  BY <1>10 DEF TimePasses, lifeVars, loadVars
<1>11. CASE UNCHANGED vars
  BY <1>11 DEF vars, lifeVars, loadVars
<1> QED
  BY <1>1, <1>2, <1>3, <1>4, <1>5, <1>6, <1>7, <1>8, <1>9, <1>10, <1>11 DEF Next, InitStep

LEMMA Life == Spec => []LifeInv
BY InitLife, NextLife, PTL DEF Spec

(* Code or memory of the unloaded module is used only after rmmod has met a *)
(* running handler or a load has failed in kmalloc.                         *)
THEOREM UnloadIsSafe == Spec => []UnloadSafe
<1>1. LifeInv => UnloadSafe
  BY DEF LifeInv
<1> QED
  BY <1>1, Life, PTL

(* A load that gets its memory fails only right after one that failed in    *)
(* kmalloc.                                                                 *)
THEOREM LeakCostsOneLoad == Spec => []OneFailureAfterLeak
<1>1. LifeInv => OneFailureAfterLeak
  BY DEF LifeInv
<1> QED
  BY <1>1, Life, PTL

(* Whatever else fails, init_simpleproc and exit_simpleproc leave nothing   *)
(* in /proc.                                                                *)
THEOREM ProcStaysClean == Spec => []ProcClean
<1>1. LifeInv => ProcClean
  BY DEF LifeInv
<1> QED
  BY <1>1, Life, PTL
-----------------------------------------------------------------------------
(* The percentages.  Counter f of core c has been read in the tick that is  *)
(* under way, and the core's percentages have not yet been computed.        *)
Pending(c, f) == tick = "sample" /\ c = cpu /\ \E i \in DOMAIN Order : i < field /\ f = Order[i]

(* No time is lost or counted twice: a counter is what was last read of it  *)
(* plus what is unread, and what was read since the last percentages is     *)
(* what was measured.                                                       *)
Accounted ==
  \A c \in Cpus, f \in Fields :
    /\ cpustat[c][f] = after[c][f] + unread[c][f]
    /\ after[c][f] = before[c][f] + (IF Pending(c, f) THEN measured[c][f] ELSE 0)

(* The tick is through with core c, whose percentages are then its shares.  *)
Through(c) == tick = "rearm" \/ (tick = "sample" /\ c < cpu)

LEMMA DivBounds ==
  ASSUME NEW a \in Nat, NEW n \in Nat, n > 0
  PROVE  /\ a \div n \in Nat
         /\ (a \div n) * n <= a
         /\ a < (a \div n) * n + n
BY Z3

(* The quotient q of idle*100 by busy + idle, in the terms of IsShare. *)
LEMMA ShareBounds ==
  ASSUME NEW q \in Nat, NEW busy \in Nat, NEW idle \in Nat, idle > 0,
         q * (busy + idle) <= idle * 100,
         idle * 100 < q * (busy + idle) + (busy + idle)
  PROVE  /\ q <= 100
         /\ 100 * busy <= (100 - q) * (busy + idle)
         /\ (100 - q - 1) * (busy + idle) < 100 * busy
<1> DEFINE n == busy + idle
<1>1. (100 - q) * n = 100 * n - q * n
  OBVIOUS
<1>2. (100 - q - 1) * n = 100 * n - q * n - n
  OBVIOUS
<1>3. q <= 100
  <2>1. SUFFICES ASSUME q >= 101 PROVE FALSE
    OBVIOUS
  <2>2. q * n >= 101 * n
    BY <2>1
  <2> QED
    BY <2>2
<1>4. n = busy + idle /\ q * n <= idle * 100 /\ idle * 100 < q * n + n
  OBVIOUS
<1> HIDE DEF n
<1>5. 100 * busy <= (100 - q) * n /\ (100 - q - 1) * n < 100 * busy
  BY <1>1, <1>2, <1>4
<1> QED
  BY <1>3, <1>5 DEF n

(* Without idle time the code divides 100 by busy + 1. *)
LEMMA NoIdleBounds ==
  ASSUME NEW q \in Nat, NEW busy \in Nat,
         q * (busy + 1) <= 100, 100 < q * (busy + 1) + (busy + 1)
  PROVE  /\ busy = 0 => q = 100
         /\ busy > 0 => q < 100
         /\ busy >= 3 => q < 30
         /\ busy >= 100 => q = 0
<1>1. busy = 0 => q = 100
  OBVIOUS
<1>2. ASSUME busy > 0, q >= 100 PROVE FALSE
  <2>1. q * (busy + 1) >= 100 * (busy + 1)
    BY <1>2
  <2> QED
    BY <1>2, <2>1
<1>3. ASSUME busy >= 3, q >= 30 PROVE FALSE
  <2>1. q * (busy + 1) >= 30 * (busy + 1)
    BY <1>3
  <2> QED
    BY <1>3, <2>1
<1>4. ASSUME busy >= 100, q >= 1 PROVE FALSE
  <2>1. q * (busy + 1) >= 1 * (busy + 1)
    BY <1>4
  <2> QED
    BY <1>4, <2>1
<1> QED
  BY <1>1, <1>2, <1>3, <1>4

LEMMA PercentIsShare ==
  ASSUME NEW busy \in Nat, NEW idle \in Nat
  PROVE  /\ Percent(busy, idle) \in 0..100
         /\ IsShare(Percent(busy, idle), busy, idle)
<1> DEFINE i == IF idle = 0 THEN 1 ELSE idle
           q == (i * 100) \div (busy + i)
<1>1. i \in Nat /\ i > 0
  OBVIOUS
<1>2. i * 100 \in Nat /\ busy + i \in Nat /\ busy + i > 0
  BY <1>1
<1>3. q \in Nat /\ q * (busy + i) <= i * 100 /\ i * 100 < q * (busy + i) + (busy + i)
  <2> HIDE DEF i
  <2> QED
    BY <1>2, DivBounds
<1>4. Percent(busy, idle) = 100 - q
  BY DEF Percent
<1>5. /\ q <= 100
      /\ 100 * busy <= (100 - q) * (busy + i)
      /\ (100 - q - 1) * (busy + i) < 100 * busy
  <2> HIDE DEF q, i
  <2> QED
    BY <1>1, <1>3, ShareBounds
<1>6. CASE idle = 0
  <2>1. i = 1
    BY <1>6
  <2>2. q * (busy + 1) <= 100 /\ 100 < q * (busy + 1) + (busy + 1)
    <3> HIDE DEF q, i
    <3> QED
      BY <1>3, <2>1
  <2> HIDE DEF q, i
  <2>3. /\ busy = 0 => q = 100
        /\ busy > 0 => q < 100
        /\ busy >= 3 => q < 30
        /\ busy >= 100 => q = 0
    BY <1>3, <2>2, NoIdleBounds
  <2> QED
    BY <1>3, <1>4, <1>5, <1>6, <2>3 DEF IsShare
<1>7. CASE idle # 0
  <2>1. i = idle
    BY <1>7
  <2> HIDE DEF q, i
  <2> QED
    BY <1>3, <1>4, <1>5, <1>7, <2>1 DEF IsShare
<1> QED
  BY <1>6, <1>7

LEMMA OrderFacts ==
  /\ Len(Order) = 5 /\ DOMAIN Order = 1..5
  /\ Fields = {"user", "system", "idle", "irq", "softirq"}
  /\ \A i \in 1..5 : Order[i] \in Fields
  /\ \A i, j \in 1..5 : Order[i] = Order[j] => i = j
<1>1. Len(Order) = 5 /\ DOMAIN Order = 1..5
  BY DEF Order
<1>2. /\ Order[1] = "user" /\ Order[2] = "system" /\ Order[3] = "idle"
      /\ Order[4] = "irq" /\ Order[5] = "softirq"
  BY DEF Order
<1>3. Fields = {"user", "system", "idle", "irq", "softirq"}
  BY <1>1, <1>2 DEF Fields
<1> HIDE DEF Order
<1> QED
  BY <1>1, <1>2, <1>3

LEMMA EntriesFacts ==
  /\ Len(Entries) = 5 /\ DOMAIN Entries = 1..5
  /\ \A i \in 1..5 : Entries[i] \in Names
BY DEF Entries, Names

(* The two halves of TypeOK: the sampling and the life cycle. *)
UsageTypes ==
  /\ cpustat \in [Cpus -> Times] /\ before \in [Cpus -> Times] /\ after \in [Cpus -> Times]
  /\ p_user \in [Cpus -> 0..100] /\ p_system \in [Cpus -> 0..100]
  /\ p_irq \in [Cpus -> 0..100] /\ p_total \in [Cpus -> 0..100]
  /\ p_dynamic \in [Cpus -> 0..100]
  /\ cpu \in 0..MAX_CPUS /\ field \in 1..6
  /\ growths \in 0..MaxGrowths
  /\ unread \in [Cpus -> Times] /\ measured \in [Cpus -> Times]
LifeTypes ==
  /\ mod \in {"absent", "loading", "live", "leaving", "oops"}
  /\ step \in 0..7
  /\ proc \subseteq Names
  /\ ptrmng \in {"null", "allocated", "freed"}
  /\ timer \in BOOLEAN /\ tick \in {"none", "sample", "rearm"}
  /\ loads \in 0..MaxLoads
  /\ load \in Outcomes /\ prev \in Outcomes
  /\ overlap \in BOOLEAN

LEMMA TypeHalves == TypeOK <=> UsageTypes /\ LifeTypes
BY OrderFacts, EntriesFacts DEF TypeOK, UsageTypes, LifeTypes, Outcomes

LEMMA LifeTypesKept == LifeTypes /\ [Next]_vars => LifeTypes'
<1> SUFFICES ASSUME LifeTypes, [Next]_vars PROVE LifeTypes'
  OBVIOUS
<1> USE EntriesFacts DEF LifeTypes, Outcomes, NoLoad
<1>1. CASE Insmod
  BY <1>1, LoadsAssumption DEF Insmod
<1>2. CASE ProcMkdir
  BY <1>2 DEF ProcMkdir, InitGoesOn, InitFails, OnMkdirFailure, RemoveAll, Names, loadVars
<1>3. CASE ProcCreate
  BY <1>3 DEF ProcCreate, InitGoesOn, InitFails, OnCreateFailure, RemoveAll, loadVars
<1>4. CASE Kmalloc
  BY <1>4 DEF Kmalloc, InitGoesOn, InitFails, loadVars
<1>5. CASE StartTimer
  <2>1. timer' \in BOOLEAN
    BY <1>5 DEF StartTimer
  <2>2. load' \in Outcomes
    BY <1>5 DEF StartTimer
  <2> QED
    BY <1>5, <2>1, <2>2 DEF StartTimer
<1>6. CASE TickStep
  BY <1>6 DEF TickStep, Expire, Sample, Control, Rearm, lifeVars, loadVars
<1>7. CASE DelTimer
  BY <1>7 DEF DelTimer, loadVars
<1>8. CASE ExitStep
  BY <1>8 DEF ExitStep, Kfree, RemoveEntries, RemoveAll, loadVars
<1>9. CASE Oops
  BY <1>9 DEF Oops, loadVars
<1>10. CASE TimePasses
  BY <1>10 DEF TimePasses, lifeVars, loadVars
<1>11. CASE UNCHANGED vars
  BY <1>11 DEF vars, lifeVars, loadVars
<1> QED
  BY <1>1, <1>2, <1>3, <1>4, <1>5, <1>6, <1>7, <1>8, <1>9, <1>10, <1>11 DEF Next, InitStep

(* The part of the invariant that the sampling changes. *)
UsageInv == UsageTypes /\ Accounted /\ \A c \in Cpus : Through(c) => SharesOf(c)

LEMMA SumOfTimes ==
  ASSUME NEW t \in Times, NEW g \in Times
  PROVE  Plus(t, g) \in Times /\ \A f \in Fields : Plus(t, g)[f] = t[f] + g[f]
BY DEF Plus, Times

LEMMA ZeroTimes ==
  /\ AllZero \in [Cpus -> Times] /\ NoUse \in [Cpus -> 0..100]
  /\ \A c \in Cpus, f \in Fields : AllZero[c][f] = 0
<1>1. Zero \in Times /\ \A f \in Fields : Zero[f] = 0
  BY DEF Zero, Times
<1>2. AllZero \in [Cpus -> Times] /\ \A c \in Cpus : AllZero[c] = Zero
  BY <1>1 DEF AllZero
<1>3. NoUse \in [Cpus -> 0..100]
  BY DEF NoUse
<1> QED
  BY <1>1, <1>2, <1>3

LEMMA InitUsage == Init => UsageInv
<1> SUFFICES ASSUME Init PROVE UsageInv
  OBVIOUS
<1>1. /\ cpustat = AllZero /\ before = AllZero /\ after = AllZero
      /\ p_user = NoUse /\ p_system = NoUse /\ p_irq = NoUse
      /\ p_total = NoUse /\ p_dynamic = NoUse
      /\ cpu = 0 /\ field = 1 /\ growths = 0
      /\ unread = AllZero /\ measured = AllZero /\ tick = "none"
  BY DEF Init, UsageInit
<1>2. UsageTypes
  BY <1>1, ZeroTimes, CpuAssumption, GrowthAssumption DEF UsageTypes
<1>3. Accounted
  BY <1>1, ZeroTimes DEF Accounted, Pending
<1> QED
  BY <1>1, <1>2, <1>3 DEF UsageInv, Through

(* insmod starts the accounting again; the counters go on. *)
LEMMA InsmodUsage == UsageInv /\ Insmod => UsageInv'
<1> SUFFICES ASSUME UsageInv, Insmod PROVE UsageInv'
  OBVIOUS
<1>1. tick = "none" /\ tick' = "none" /\ FreshUsage
  BY DEF Insmod
<1>3. UsageTypes'
  BY <1>1, ZeroTimes DEF UsageInv, UsageTypes, FreshUsage
<1>4. Accounted'
  <2> SUFFICES ASSUME NEW c \in Cpus, NEW f \in Fields
               PROVE  /\ cpustat'[c][f] = after'[c][f] + unread'[c][f]
                      /\ after'[c][f] = before'[c][f] + 0
    BY <1>1 DEF Accounted, Pending
  <2>1. after'[c][f] = 0 /\ before'[c][f] = 0 /\ unread'[c][f] = cpustat[c][f]
        /\ cpustat' = cpustat
    BY <1>1, ZeroTimes DEF FreshUsage
  <2>2. cpustat[c][f] \in Nat
    BY DEF UsageInv, UsageTypes, Times
  <2> QED
    BY <2>1, <2>2
<1> QED
  BY <1>1, <1>3, <1>4 DEF UsageInv, Through

(* The counters go on at any moment, also between two reads of a tick. *)
LEMMA GrowUsage ==
  ASSUME UsageInv, NEW c \in Cpus, NEW g \in Growth, Grow(c, g), UNCHANGED tick
  PROVE  UsageInv'
<1>1. g \in Times
  BY GrowthAssumption
<1>2. cpustat[c] \in Times /\ unread[c] \in Times
  BY DEF UsageInv, UsageTypes
<1>3. /\ Plus(cpustat[c], g) \in Times /\ Plus(unread[c], g) \in Times
      /\ \A f \in Fields : /\ Plus(cpustat[c], g)[f] = cpustat[c][f] + g[f]
                           /\ Plus(unread[c], g)[f] = unread[c][f] + g[f]
  BY <1>1, <1>2, SumOfTimes
<1>4. /\ cpustat' = [cpustat EXCEPT ![c] = Plus(cpustat[c], g)]
      /\ unread' = [unread EXCEPT ![c] = Plus(unread[c], g)]
      /\ growths < MaxGrowths /\ growths' = growths + 1
      /\ UNCHANGED <<before, after, p_user, p_system, p_irq, p_total, p_dynamic,
                     cpu, field, measured, tick>>
  BY DEF Grow, percentages
<1>5. UsageTypes'
  BY <1>3, <1>4, GrowthAssumption DEF UsageInv, UsageTypes
<1>6. Accounted'
  <2> SUFFICES ASSUME NEW d \in Cpus, NEW f \in Fields
               PROVE  /\ cpustat'[d][f] = after'[d][f] + unread'[d][f]
                      /\ after'[d][f] = before'[d][f] + (IF Pending(d, f)' THEN measured'[d][f] ELSE 0)
    BY DEF Accounted
  <2>1. Pending(d, f)' = Pending(d, f)
    BY <1>4 DEF Pending
  <2>2. /\ cpustat[d][f] \in Nat /\ unread[d][f] \in Nat /\ after[d][f] \in Nat /\ g[f] \in Nat
    BY <1>1 DEF UsageInv, UsageTypes, Times
  <2>3. /\ cpustat[d][f] = after[d][f] + unread[d][f]
        /\ after[d][f] = before[d][f] + (IF Pending(d, f) THEN measured[d][f] ELSE 0)
    BY DEF UsageInv, Accounted
  <2>4. CASE d = c
    <3>1. cpustat'[d][f] = cpustat[d][f] + g[f] /\ unread'[d][f] = unread[d][f] + g[f]
      BY <1>3, <1>4, <2>4 DEF UsageInv, UsageTypes
    <3> QED
      BY <1>4, <2>1, <2>2, <2>3, <3>1
  <2>5. CASE d # c
    <3>1. cpustat'[d] = cpustat[d] /\ unread'[d] = unread[d]
      BY <1>4, <2>5 DEF UsageInv, UsageTypes
    <3> QED
      BY <1>4, <2>1, <2>3, <3>1
  <2> QED
    BY <2>4, <2>5
<1>7. ASSUME NEW d \in Cpus, Through(d)' PROVE SharesOf(d)'
  BY <1>4, <1>7 DEF UsageInv, Through, SharesOf
<1> QED
  BY <1>5, <1>6, <1>7 DEF UsageInv

(* A counter is read: what was unread of it becomes what is measured. *)
LEMMA ReadUsage ==
  ASSUME UsageInv, tick = "sample", ReadCounter, UNCHANGED tick
  PROVE  UsageInv'
<1> DEFINE g == Order[field]
<1>1. /\ cpu \in Cpus /\ field \in 1..5 /\ g \in Fields
      /\ \A i \in 1..5 : Order[i] = g => i = field
  BY OrderFacts DEF ReadCounter
<1> HIDE DEF g
<1>2. /\ after' = [after EXCEPT ![cpu][g] = cpustat[cpu][g]]
      /\ measured' = [measured EXCEPT ![cpu][g] = unread[cpu][g]]
      /\ unread' = [unread EXCEPT ![cpu][g] = 0]
      /\ field' = field + 1
      /\ UNCHANGED <<cpustat, before, p_user, p_system, p_irq, p_total, p_dynamic,
                     cpu, growths, tick>>
  BY DEF ReadCounter, percentages, g
<1>3. UsageTypes'
  BY <1>1, <1>2 DEF UsageInv, UsageTypes, Times
<1>4. Accounted'
  <2> SUFFICES ASSUME NEW d \in Cpus, NEW f \in Fields
               PROVE  /\ cpustat'[d][f] = after'[d][f] + unread'[d][f]
                      /\ after'[d][f] = before'[d][f] + (IF Pending(d, f)' THEN measured'[d][f] ELSE 0)
    BY DEF Accounted
  <2>1. /\ cpustat[d][f] \in Nat /\ unread[d][f] \in Nat /\ after[d][f] \in Nat
        /\ before[d][f] \in Nat /\ measured[d][f] \in Nat
    BY DEF UsageInv, UsageTypes, Times
  <2>2. /\ cpustat[d][f] = after[d][f] + unread[d][f]
        /\ after[d][f] = before[d][f] + (IF Pending(d, f) THEN measured[d][f] ELSE 0)
    BY DEF UsageInv, Accounted
  <2>3. CASE d = cpu /\ f = g
    <3>1. ~Pending(d, f) /\ Pending(d, f)'
      BY <1>1, <1>2, <2>3, OrderFacts DEF Pending, g
    <3>2. /\ after'[d][f] = cpustat[d][f] /\ unread'[d][f] = 0
          /\ measured'[d][f] = unread[d][f] /\ before'[d][f] = before[d][f]
          /\ cpustat'[d][f] = cpustat[d][f]
      BY <1>2, <2>3 DEF UsageInv, UsageTypes, Times
    <3> QED
      BY <2>1, <2>2, <3>1, <3>2
  <2>4. CASE ~(d = cpu /\ f = g)
    <3>1. Pending(d, f)' = Pending(d, f)
      <4>1. \A i \in 1..5 : f = Order[i] /\ d = cpu => (i < field <=> i < field')
        BY <1>1, <1>2, <2>4 DEF g
      <4> QED
        BY <1>2, <4>1, OrderFacts DEF Pending
    <3>2. /\ after'[d][f] = after[d][f] /\ unread'[d][f] = unread[d][f]
          /\ measured'[d][f] = measured[d][f] /\ before'[d][f] = before[d][f]
          /\ cpustat'[d][f] = cpustat[d][f]
      BY <1>2, <2>4 DEF UsageInv, UsageTypes, Times
    <3> QED
      BY <2>2, <3>1, <3>2
  <2> QED
    BY <2>3, <2>4
<1>5. ASSUME NEW d \in Cpus, Through(d)' PROVE SharesOf(d)'
  <2>1. d # cpu /\ Through(d)
    BY <1>1, <1>2, <1>5 DEF Through, Cpus
  <2>2. measured'[d] = measured[d]
    BY <1>1, <1>2, <2>1 DEF UsageInv, UsageTypes
  <2> QED
    BY <1>2, <2>1, <2>2 DEF UsageInv, SharesOf
<1> QED
  BY <1>3, <1>4, <1>5 DEF UsageInv

(* All counters of a core have been read: what each has grown since the     *)
(* last percentages is what was measured, and Percent turns it into shares. *)
LEMMA ComputeUsage ==
  ASSUME UsageInv, tick = "sample", Compute, UNCHANGED tick
  PROVE  UsageInv'
<1> DEFINE d == [f \in Fields |-> after[cpu][f] - before[cpu][f]]
           irq == d.irq + d.softirq
           total == d.user + d.system + irq
           m == measured[cpu]
<1>1. cpu \in Cpus /\ field = 6
  BY OrderFacts DEF Compute, UsageInv, UsageTypes
<1>2. m \in Times
  BY <1>1 DEF UsageInv, UsageTypes
<1>3. \A f \in Fields : m[f] \in Nat /\ d[f] = m[f]
  <2> SUFFICES ASSUME NEW f \in Fields PROVE m[f] \in Nat /\ d[f] = m[f]
    OBVIOUS
  <2>1. PICK i \in 1..5 : f = Order[i]
    BY OrderFacts DEF Fields
  <2>2. Pending(cpu, f)
    BY <1>1, <2>1, OrderFacts DEF Pending
  <2>3. after[cpu][f] = before[cpu][f] + m[f]
    BY <1>1, <2>2 DEF UsageInv, Accounted
  <2>4. after[cpu][f] \in Nat /\ before[cpu][f] \in Nat /\ m[f] \in Nat
    BY <1>1, <1>2 DEF UsageInv, UsageTypes, Times
  <2> QED
    BY <2>3, <2>4
<1>4. /\ d.user = m.user /\ d.system = m.system /\ d.idle = m.idle
      /\ d.irq = m.irq /\ d.softirq = m.softirq
      /\ m.user \in Nat /\ m.system \in Nat /\ m.idle \in Nat
      /\ m.irq \in Nat /\ m.softirq \in Nat
  <2> HIDE DEF d, m
  <2> QED
    BY <1>3, OrderFacts
<1>5. /\ p_user' = [p_user EXCEPT ![cpu] = Percent(d.user, d.idle)]
      /\ p_system' = [p_system EXCEPT ![cpu] = Percent(d.system, d.idle)]
      /\ p_irq' = [p_irq EXCEPT ![cpu] = Percent(irq, d.idle)]
      /\ p_total' = [p_total EXCEPT ![cpu] = Percent(total, d.idle)]
      /\ p_dynamic' = [p_dynamic EXCEPT ![cpu] = Percent(total, d.idle)]
      /\ before' = [before EXCEPT ![cpu] = after[cpu]]
      /\ cpu' = cpu + 1 /\ field' = 1
      /\ UNCHANGED <<cpustat, after, growths, unread, measured, tick>>
  BY DEF Compute, Save
<1> HIDE DEF d, m
<1>6. irq \in Nat /\ total \in Nat
  BY <1>4
<1>7. /\ Percent(d.user, d.idle) \in 0..100 /\ IsShare(Percent(d.user, d.idle), m.user, m.idle)
      /\ Percent(d.system, d.idle) \in 0..100 /\ IsShare(Percent(d.system, d.idle), m.system, m.idle)
  BY <1>4, PercentIsShare
<1>8. /\ Percent(irq, d.idle) \in 0..100 /\ IsShare(Percent(irq, d.idle), irq, m.idle)
      /\ Percent(total, d.idle) \in 0..100 /\ IsShare(Percent(total, d.idle), total, m.idle)
  <2> HIDE DEF irq, total
  <2> QED
    BY <1>4, <1>6, PercentIsShare
<1>9. irq = m.irq + m.softirq /\ total = m.user + m.system + (m.irq + m.softirq)
  BY <1>4
<1> HIDE DEF irq, total
<1>10. UsageTypes'
  BY <1>1, <1>5, <1>7, <1>8, CpuAssumption DEF UsageInv, UsageTypes, Cpus
<1>11. Accounted'
  <2> SUFFICES ASSUME NEW c \in Cpus, NEW f \in Fields
               PROVE  /\ cpustat'[c][f] = after'[c][f] + unread'[c][f]
                      /\ after'[c][f] = before'[c][f] + (IF Pending(c, f)' THEN measured'[c][f] ELSE 0)
    BY DEF Accounted
  <2>1. /\ cpustat[c][f] = after[c][f] + unread[c][f]
        /\ after[c][f] = before[c][f] + (IF Pending(c, f) THEN measured[c][f] ELSE 0)
    BY DEF UsageInv, Accounted
  <2>2. ~Pending(c, f)'
    BY <1>5, OrderFacts DEF Pending
  <2>3. before'[c][f] = after[c][f]
    <3>1. CASE c = cpu
      BY <1>5, <3>1 DEF UsageInv, UsageTypes
    <3>2. CASE c # cpu
      <4>1. before'[c] = before[c] /\ ~Pending(c, f) /\ before[c][f] \in Nat
        BY <1>5, <3>2 DEF UsageInv, UsageTypes, Pending, Times
      <4> QED
        BY <2>1, <4>1
    <3> QED
      BY <3>1, <3>2
  <2>4. after[c][f] \in Nat
    BY DEF UsageInv, UsageTypes, Times
  <2> QED
    BY <1>5, <2>1, <2>2, <2>3, <2>4
<1>12. ASSUME NEW c \in Cpus, Through(c)' PROVE SharesOf(c)'
  <2>1. CASE c = cpu
    <3>1. /\ p_user'[c] = Percent(d.user, d.idle) /\ p_system'[c] = Percent(d.system, d.idle)
          /\ p_irq'[c] = Percent(irq, d.idle) /\ p_total'[c] = Percent(total, d.idle)
          /\ p_dynamic'[c] = p_total'[c] /\ measured'[c] = m
      BY <1>5, <2>1 DEF UsageInv, UsageTypes, m
    <3> QED
      BY <1>7, <1>8, <1>9, <3>1 DEF SharesOf
  <2>2. CASE c # cpu
    <3>1. Through(c)
      BY <1>1, <1>5, <1>12, <2>2 DEF Through, Cpus
    <3>2. /\ p_user'[c] = p_user[c] /\ p_system'[c] = p_system[c]
          /\ p_irq'[c] = p_irq[c] /\ p_total'[c] = p_total[c]
          /\ p_dynamic'[c] = p_dynamic[c] /\ measured'[c] = measured[c]
      BY <1>5, <2>2 DEF UsageInv, UsageTypes
    <3>3. SharesOf(c)
      BY <3>1 DEF UsageInv
    <3> QED
      BY <3>2, <3>3 DEF SharesOf
  <2> QED
    BY <2>1, <2>2
<1> QED
  BY <1>10, <1>11, <1>12 DEF UsageInv

(* A step that leaves the sampling alone, and the handler where it is. *)
LEMMA IdleUsage ==
  ASSUME UsageInv, UNCHANGED <<cpuVars, tick>>
  PROVE  UsageInv'
<1>1. UNCHANGED <<cpustat, before, after, p_user, p_system, p_irq, p_total, p_dynamic,
                  cpu, field, growths, unread, measured, tick>>
  BY DEF cpuVars, percentages
<1>2. UsageTypes'
  BY <1>1 DEF UsageInv, UsageTypes
<1>3. Accounted'
  BY <1>1 DEF UsageInv, Accounted, Pending
<1>4. ASSUME NEW c \in Cpus, Through(c)' PROVE SharesOf(c)'
  BY <1>1, <1>4 DEF UsageInv, Through, SharesOf
<1> QED
  BY <1>2, <1>3, <1>4 DEF UsageInv

(* The handler starts: no counter has been read.  It ends: all have been,   *)
(* and turned into percentages.                                             *)
LEMMA HandlerUsage ==
  ASSUME UsageInv, LifeTypes, Expire \/ Control \/ Rearm
  PROVE  UsageInv'
<1>1. /\ UNCHANGED <<cpustat, before, after, p_user, p_system, p_irq, p_total, p_dynamic,
                     growths, unread, measured>>
      /\ cpu' \in {cpu, 0} /\ field' \in {field, 1}
  <2>1. CASE Expire
    BY <2>1 DEF Expire, percentages
  <2>2. CASE Control
    BY <2>2 DEF Control, cpuVars, percentages
  <2>3. CASE Rearm
    BY <2>3 DEF Rearm, cpuVars, percentages
  <2> QED
    BY <2>1, <2>2, <2>3
<1>2. UsageTypes'
  BY <1>1, CpuAssumption DEF UsageInv, UsageTypes
<1>3. \A c \in Cpus, f \in Fields : ~Pending(c, f) /\ ~Pending(c, f)'
  BY OrderFacts DEF Expire, Control, Rearm, Pending, Sampled
<1>4. Accounted'
  BY <1>1, <1>3 DEF UsageInv, Accounted
<1>5. ASSUME NEW c \in Cpus, Through(c)' PROVE SharesOf(c)'
  <2>1. Through(c)
    <3>1. CASE Expire
      BY <1>5, <3>1 DEF Through, Expire, Cpus
    <3>2. CASE Control
      <4>1. tick = "sample" /\ cpu \notin Cpus /\ cpu \in 0..MAX_CPUS
        BY <3>2 DEF Control, Sampled, UsageInv, UsageTypes
      <4>2. c < cpu
        BY <4>1, CpuAssumption DEF Cpus
      <4> QED
        BY <4>1, <4>2 DEF Through
    <3>3. CASE Rearm
      BY <3>3 DEF Through, Rearm
    <3> QED
      BY <3>1, <3>2, <3>3
  <2> QED
    BY <1>1, <2>1 DEF UsageInv, SharesOf
<1> QED
  BY <1>2, <1>4, <1>5 DEF UsageInv

LEMMA NextUsage == UsageInv /\ LifeTypes /\ [Next]_vars => UsageInv'
<1> SUFFICES ASSUME UsageInv, LifeTypes, [Next]_vars PROVE UsageInv'
  OBVIOUS
<1>1. CASE Insmod
  BY <1>1, InsmodUsage
<1>2. CASE InitStep
  <2>1. UNCHANGED <<cpuVars, tick>>
    BY <1>2 DEF InitStep, ProcMkdir, ProcCreate, Kmalloc, StartTimer, InitGoesOn, InitFails
  <2> QED
    BY <2>1, IdleUsage
<1>3. CASE Sample
  <2>1. tick = "sample" /\ UNCHANGED tick /\ (ReadCounter \/ Compute)
    BY <1>3 DEF Sample, lifeVars
  <2> QED
    BY <2>1, ReadUsage, ComputeUsage
<1>4. CASE Expire \/ Control \/ Rearm
  BY <1>4, HandlerUsage
<1>5. CASE DelTimer \/ ExitStep \/ Oops
  <2>1. UNCHANGED <<cpuVars, tick>>
    BY <1>5 DEF DelTimer, ExitStep, Kfree, RemoveEntries, Oops
  <2> QED
    BY <2>1, IdleUsage
<1>6. CASE TimePasses
  BY <1>6, GrowUsage DEF TimePasses, lifeVars
<1>7. CASE UNCHANGED vars
  BY <1>7, IdleUsage DEF vars, lifeVars
<1> QED
  BY <1>1, <1>2, <1>3, <1>4, <1>5, <1>6, <1>7 DEF Next, TickStep

LEMMA InitTypes == Init => LifeTypes
<1> SUFFICES ASSUME Init PROVE LifeTypes
  OBVIOUS
<1>1. timer \in BOOLEAN /\ overlap \in BOOLEAN
  BY DEF Init
<1>2. load \in Outcomes /\ prev \in Outcomes
  BY DEF Init, Outcomes, NoLoad
<1>3. loads \in 0..MaxLoads /\ step \in 0..7
  BY LoadsAssumption DEF Init
<1> QED
  BY <1>1, <1>2, <1>3 DEF Init, LifeTypes

LEMMA Sampling == Spec => [](UsageInv /\ LifeTypes)
<1>1. Init => UsageInv /\ LifeTypes
  BY InitUsage, InitTypes
<1>2. UsageInv /\ LifeTypes /\ [Next]_vars => (UsageInv /\ LifeTypes)'
  BY NextUsage, LifeTypesKept
<1> QED
  BY <1>1, <1>2, PTL DEF Spec

(* Every variable of the module and of its timer keeps its type; the        *)
(* percentages in particular stay between 0 and 100.                        *)
THEOREM TypeCorrect == Spec => []TypeOK
<1>1. UsageInv /\ LifeTypes => TypeOK
  BY TypeHalves DEF UsageInv
<1> QED
  BY <1>1, Sampling, PTL

(* The percentages from which kerneltimer_timeover moves the boundaries are *)
(* the shares of the time that passed since the tick before, on every core  *)
(* and however the counters grow while they are read.                       *)
THEOREM PercentagesExact == Spec => []SharesExact
<1>1. UsageInv => SharesExact
  BY DEF UsageInv, SharesExact, Through
<1> QED
  BY <1>1, Sampling, PTL
=============================================================================

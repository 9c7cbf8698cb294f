------------------------------ MODULE CpuUsage ------------------------------
(***************************************************************************)
(* The utilisation of the cores (kerneltimer_timeover, first part).  A tick *)
(* reads the time counters that the kernel keeps for each core, one after   *)
(* the other while they go on, and turns what passed since the last tick    *)
(* into percentages.  The counters nice and iowait are read and saved too,  *)
(* but nothing uses them.  A 64-bit counter of clock ticks does not wrap.   *)
(***************************************************************************)
EXTENDS Integers, Sequences

CONSTANTS
  MAX_CPUS,      \* the cores are 0..MAX_CPUS-1
  Growth,        \* by how much a core's counters may grow at once
  MaxGrowths     \* bound: how often counters grow

(* The counters, in the order in which a tick reads them. *)
Order == <<"user", "system", "idle", "irq", "softirq">>
Fields == {Order[i] : i \in DOMAIN Order}
Cpus == 0..(MAX_CPUS - 1)
Times == [Fields -> Nat]

ASSUME CpuAssumption == MAX_CPUS \in Nat \ {0}
ASSUME GrowthAssumption == Growth \subseteq Times /\ MaxGrowths \in Nat

VARIABLES
  cpustat,             \* the kernel's counters of each core
  before, after,       \* their values at the last tick, at this one
  p_user, p_system, p_irq, p_total, p_dynamic,
  cpu, field,          \* what the tick reads next
  growths,             \* how often counters grew
  unread, measured     \* history: time since a counter was last read; time
                       \* between its last two readings

percentages == <<p_user, p_system, p_irq, p_total, p_dynamic>>
cpuVars == <<cpustat, before, after, percentages, cpu, field, growths, unread, measured>>

Zero == [f \in Fields |-> 0]
AllZero == [c \in Cpus |-> Zero]
NoUse == [c \in Cpus |-> 0]

(* The module's variables when it is loaded; the counters run since boot. *)
FreshUsage ==
  /\ before' = AllZero /\ after' = AllZero
  /\ p_user' = NoUse /\ p_system' = NoUse /\ p_irq' = NoUse
  /\ p_total' = NoUse /\ p_dynamic' = NoUse
  /\ unread' = cpustat /\ measured' = AllZero
  /\ UNCHANGED <<cpustat, cpu, field, growths>>

UsageInit ==
  /\ cpustat = AllZero
  /\ before = AllZero /\ after = AllZero
  /\ p_user = NoUse /\ p_system = NoUse /\ p_irq = NoUse
  /\ p_total = NoUse /\ p_dynamic = NoUse
  /\ cpu = 0 /\ field = 1 /\ growths = 0
  /\ unread = AllZero /\ measured = AllZero

(* Time passes on core c. *)
Plus(t, g) == [f \in Fields |-> t[f] + g[f]]
Grow(c, g) ==
  /\ growths < MaxGrowths
  /\ growths' = growths + 1
  /\ cpustat' = [cpustat EXCEPT ![c] = Plus(@, g)]
  /\ unread' = [unread EXCEPT ![c] = Plus(@, g)]
  /\ UNCHANGED <<before, after, percentages, cpu, field, measured>>

(* after[i].f = kcpustat_cpu(i).cpustat[f] *)
ReadCounter ==
  /\ cpu \in Cpus /\ field \in DOMAIN Order
  /\ LET f == Order[field]
     IN /\ after' = [after EXCEPT ![cpu][f] = cpustat[cpu][f]]
        /\ measured' = [measured EXCEPT ![cpu][f] = unread[cpu][f]]
        /\ unread' = [unread EXCEPT ![cpu][f] = 0]
  /\ field' = field + 1
  /\ UNCHANGED <<cpustat, before, percentages, cpu, growths>>

(* 100 - idle*100/(busy + idle), where at least one clock tick is idle. *)
MutPercentOfBusy(busy, idle) == 100 - (idle * 100) \div (busy + 1)
Percent(busy, idle) ==
  LET i == IF idle = 0 THEN 1 ELSE idle IN 100 - (i * 100) \div (busy + i)

MutSave(c) == [before EXCEPT ![c] = [after[c] EXCEPT !.softirq = before[c].softirq]]
Save(c) == [before EXCEPT ![c] = after[c]]

(* The percentages of the core, whose counters have all been read. *)
Compute ==
  /\ cpu \in Cpus /\ field \notin DOMAIN Order
  /\ LET d == [f \in Fields |-> after[cpu][f] - before[cpu][f]]
         irq == d.irq + d.softirq
         total == d.user + d.system + irq
     IN /\ p_user' = [p_user EXCEPT ![cpu] = Percent(d.user, d.idle)]
        /\ p_system' = [p_system EXCEPT ![cpu] = Percent(d.system, d.idle)]
        /\ p_irq' = [p_irq EXCEPT ![cpu] = Percent(irq, d.idle)]
        /\ p_total' = [p_total EXCEPT ![cpu] = Percent(total, d.idle)]
        /\ p_dynamic' = [p_dynamic EXCEPT ![cpu] = Percent(total, d.idle)]
  /\ before' = Save(cpu)
  /\ cpu' = cpu + 1 /\ field' = 1
  /\ UNCHANGED <<cpustat, after, growths, unread, measured>>

Sampled == cpu \notin Cpus
-----------------------------------------------------------------------------
(* p is the share of busy in busy + idle, rounded up to a whole percent.    *)
(* With no idle time at all it is 0 for a core that did nothing, above      *)
(* T_HIGH for one that did a little and 100 for one that did much.          *)
IsShare(p, busy, idle) ==
  /\ idle > 0 => (p - 1) * (busy + idle) < 100 * busy /\ 100 * busy <= p * (busy + idle)
  /\ idle = 0 => /\ (busy = 0) = (p = 0)
                 /\ busy >= 3 => p > 70
                 /\ busy >= 100 => p = 100
                 /\ p <= 100
SharesOf(c) ==
  LET t == measured[c]
      irq == t.irq + t.softirq
      busy == t.user + t.system + irq
  IN /\ IsShare(p_user[c], t.user, t.idle)
     /\ IsShare(p_system[c], t.system, t.idle)
     /\ IsShare(p_irq[c], irq, t.idle)
     /\ IsShare(p_total[c], busy, t.idle)
     /\ p_dynamic[c] = p_total[c]
=============================================================================

----------------------------- MODULE MCKModule -----------------------------
(***************************************************************************)
(* An instance of KModule for TLC: one core and four kinds of growth: idle  *)
(* time, work of every kind with little idle time, work without idle time   *)
(* (also what a tickless kernel shows of a core that is still idle), and    *)
(* much work.                                                               *)
(***************************************************************************)
EXTENDS KModule

Time(user, system, idle, irq, softirq) ==
  [f \in Fields |-> CASE f = "user" -> user [] f = "system" -> system
                      [] f = "idle" -> idle [] f = "irq" -> irq
                      [] f = "softirq" -> softirq]
FourGrowths ==
  {Time(0, 0, 7, 0, 0), Time(3, 2, 1, 1, 2), Time(0, 1, 0, 0, 3), Time(100, 0, 0, 60, 0)}
=============================================================================

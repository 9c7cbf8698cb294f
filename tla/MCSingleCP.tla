----------------------------- MODULE MCSingleCP -----------------------------
(***************************************************************************)
(* An instance of SingleCP for TLC, with the numbers of simple_proc.c.  A   *)
(* load is a step function over the cores: one level up to a first cut, a   *)
(* second up to another, a third behind it.  The levels lie below T_LOW     *)
(* and, two of them, so that averages can be ordered either way, above      *)
(* T_HIGH; the averages of mixed groups lie between the thresholds, too.    *)
(***************************************************************************)
EXTENDS SingleCP

Levels == {10, 75, 95}
Step(a, b, x, y, z) ==
  [c \in Cores |-> IF c <= a THEN x ELSE IF c <= b THEN y ELSE z]
StepLoads ==
  {Step(a, b, x, y, z) : a \in Cores, b \in Cores,
                         x \in Levels, y \in Levels, z \in Levels}
TwentyQueues == 0..19
EightQueues == 0..7
=============================================================================

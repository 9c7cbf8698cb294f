---------------------------- MODULE MCPlacement ----------------------------
(***************************************************************************)
(* An instance of Placement for TLC: a socket of five cores, on which the   *)
(* boundaries have three positions, and two workers, both for network calls *)
(* or one of each kind.                                                     *)
(***************************************************************************)
EXTENDS Placement, TLC

CONSTANTS w1, w2
TwoWorkers == {w1, w2}
TwoKinds == {w1 :> "net" @@ w2 :> k : k \in {"net", "file"}}

(* The first load gives cores to the network side, the second to the block  *)
(* side.                                                                    *)
SideLoads ==
  {[c \in Cores |-> IF c = 0 THEN 95 ELSE IF c < 4 THEN 10 ELSE 35],
   [c \in Cores |-> IF c <= 1 THEN 10 ELSE IF c = 2 THEN 50 ELSE 95]}
=============================================================================

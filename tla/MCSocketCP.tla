----------------------------- MODULE MCSocketCP -----------------------------
(***************************************************************************)
(* Instances of SocketCP for TLC.                                           *)
(***************************************************************************)
EXTENDS SocketCP, TLC

Bounds(ns, ne, as, ae, bs, be) ==
  "net_start" :> ns @@ "net_end" :> ne @@ "app_start" :> as @@
  "app_end" :> ae @@ "blk_start" :> bs @@ "blk_end" :> be

(* Two sockets of six cores. *)
SixCross == 0 :> Bounds(0, 1, 0, 0, 4, 5) @@ 1 :> Bounds(6, 7, 0, 0, 10, 11)
SixApp   == 0 :> Bounds(0, 0, 2, 4, 3, 5) @@ 1 :> Bounds(6, 6, 8, 10, 9, 11)
SixCores == "CROSS" :> SixCross @@ "PER" :> SixCross @@ "APP" :> SixApp

(* The server of simple_proc.c: two sockets of ten. *)
TenCores == "APP" :> (0 :> Bounds(0, 1, 4, 8, 7, 9) @@ 1 :> Bounds(10, 11, 14, 18, 17, 19))

(* The load of a socket is x on its first cores, y on the middle ones and z *)
(* on the last; w is the word behind p_dynamic.                             *)
Thirds(x, y, z) == [c \in 0..5 |-> IF c < 2 THEN x ELSE IF c < 4 THEN y ELSE z]
Both(f, g, w) == [c \in 0..12 |-> IF c < 6 THEN f[c] ELSE IF c < 12 THEN g[c - 6] ELSE w]
Shapes ==
  {Thirds(95, 10, 10), Thirds(10, 95, 10), Thirds(10, 10, 95),
   Thirds(10, 10, 10), Thirds(95, 95, 95), Thirds(80, 95, 80)}
Calm == Thirds(50, 50, 50)
(* The sockets are loaded alike, or the first is between the thresholds.    *)
SixLoads ==
  {Both(f, f, -400) : f \in Shapes} \cup {Both(Calm, f, 400) : f \in Shapes}

(* One core of the second socket is busy. *)
TenLoads == {[c \in 0..20 |-> IF c = b THEN 100 ELSE 10] : b \in 10..19}

FourQueues == 0..3
FiveQueues == 0..4
TwentyQueues == 0..19
EightQueues == 0..7
ThreeModes == {"CROSS", "PER", "APP"}
AppMode == {"APP"}
StrayWords == {0, 400}
=============================================================================

---------------------------- MODULE CoreBalance ----------------------------
(***************************************************************************)
(* What the controller APP promises, without cores and boundaries: a socket *)
(* is a number of cores per group.  In a tick the groups' loads are         *)
(* measured and a core goes to a most loaded group if, and only if, some    *)
(* other group has two cores and a load that is lower by more than          *)
(* T_CHANGE; a least loaded one of those gives it.                          *)
(***************************************************************************)
EXTENDS Integers

CONSTANTS Sockets, Groups, T_CHANGE

VARIABLES size, util

Init ==
  /\ size \in [Sockets -> [Groups -> Nat]]
  /\ util \in [Sockets -> [Groups -> Int]]

Busiest(u) == {g \in Groups : \A h \in Groups : u[h] <= u[g]}
Spare(c, hi) == {g \in Groups \ {hi} : c[g] >= 2}

(* Group hi may ask for a core, and lo is to give it. *)
Transfer(c, u, lo, hi) ==
  /\ hi \in Busiest(u)
  /\ lo \in Spare(c, hi)
  /\ \A g \in Spare(c, hi) : u[lo] <= u[g]
  /\ u[hi] - u[lo] > T_CHANGE

Moved(c, lo, hi) ==
  [g \in Groups |-> IF g = lo THEN c[g] - 1 ELSE IF g = hi THEN c[g] + 1 ELSE c[g]]

(* The new sizes d of a socket whose sizes are c and whose loads are u. *)
Balance(c, u, d) ==
  \/ \E lo, hi \in Groups : Transfer(c, u, lo, hi) /\ d = Moved(c, lo, hi)
  \/ d = c /\ ~\E lo, hi \in Groups : Transfer(c, u, lo, hi)

Next ==
  /\ util' \in [Sockets -> [Groups -> Int]]
  /\ \A s \in Sockets :
       \E c \in {size[s]}, u \in {util'[s]}, d \in {size'[s]} : Balance(c, u, d)

Spec == Init /\ [][Next]_<<size, util>>
=============================================================================

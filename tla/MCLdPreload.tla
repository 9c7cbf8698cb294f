---------------------------- MODULE MCLdPreload ----------------------------
(***************************************************************************)
(* Instances of LdPreload for TLC: which thread uses which wrappers.        *)
(***************************************************************************)
EXTENDS LdPreload, TLC

EntrySymmetry == Permutations(Entries)

(* One thread makes descriptors and uses every wrapper, the other shuts     *)
(* them down and closes them.                                               *)
CONSTANT t1
SafetyCalls ==
  [t \in Threads |-> IF t = t1 THEN Interposed ELSE {shutdown, close}]

(* One thread makes descriptors and accepts, the other reads files, shuts   *)
(* descriptors down and closes them: an accept and a read may wait in the   *)
(* kernel at once, but not on one descriptor.                               *)
LifecycleCalls ==
  [t \in Threads |-> IF t = t1 THEN {socket, open, accept}
                     ELSE {read, shutdown, close}]

Everyone(calls) == [t \in Threads |-> calls]
SocketAccept == Everyone({socket, accept})
EpollClose == Everyone({epoll_create, close})
=============================================================================

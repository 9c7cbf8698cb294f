------------------------------- MODULE MCIpc -------------------------------
(***************************************************************************)
(* Instances of Ipc for TLC.  Callers are model values; the run that looks  *)
(* for a counterexample uses them symmetrically, the one with a liveness    *)
(* property does not.                                                       *)
(***************************************************************************)
EXTENDS Ipc, TLC

CallerSymmetry == Permutations(Callers)
=============================================================================

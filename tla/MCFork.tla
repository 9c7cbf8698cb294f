------------------------------- MODULE MCFork -------------------------------
(***************************************************************************)
(* An instance of Fork for TLC: two threads that use one descriptor one at  *)
(* a time, of which one may fork at any moment.                             *)
(***************************************************************************)
EXTENDS Fork
=============================================================================

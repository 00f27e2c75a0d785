----------------------------- MODULE MCScheduler -----------------------------
(* Small instances of Scheduler for TLC. *)
EXTENDS Scheduler

MCQuantum == (L0 :> 1) @@ (L1 :> 1) @@ (L2 :> 2)
=============================================================================

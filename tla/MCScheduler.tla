----------------------------- MODULE MCScheduler -----------------------------
(* The scheduler with few tasks and requests that may overlap. *)
EXTENDS Scheduler, TLC

Symmetry ==
    {f @@ g : f \in Permutations(Requests), g \in Permutations(Valid)}
=============================================================================

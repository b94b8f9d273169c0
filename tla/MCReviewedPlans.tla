-------------------------- MODULE MCReviewedPlans --------------------------
(* Small instances of ReviewedPlans for TLC.                                *)
EXTENDS ReviewedPlans, TLC

(* Processes are interchangeable, and so are the versions of the plan.      *)
Interchangeable == Permutations(Proc) \cup Permutations(Ver)
=============================================================================

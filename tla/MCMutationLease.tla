-------------------------- MODULE MCMutationLease --------------------------
(* Small instances of MutationLease for TLC.                                *)
EXTENDS MutationLease, TLC

(* Processes are interchangeable; identities are not, Fresh picks the least.*)
Interchangeable == Permutations(Proc)

Anywhere     == PC
=============================================================================

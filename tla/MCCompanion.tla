---------------------------- MODULE MCCompanion ----------------------------
(***************************************************************************)
(* Model checking of companion transactions and their recovery: the plans  *)
(* are interchangeable, each with a transaction of its own.                *)
(***************************************************************************)
EXTENDS IntegrationRecovery, TLC

Symmetry == Permutations(Tx)

=============================================================================

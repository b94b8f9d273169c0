---------------------------- MODULE MCGovernance ----------------------------
(* Small instances of Governance for TLC.                                   *)
EXTENDS Governance, TLC

(* Plans of one kind are interchangeable, and so are the user's contents.   *)
Interchangeable == Permutations(Quar) \cup Permutations(Rest) \cup Permutations(Content)
=============================================================================

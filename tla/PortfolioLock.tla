--------------------------- MODULE PortfolioLock ---------------------------
(* What the portfolio lease promises: a lock that at most one process       *)
(* holds, that is taken only when it is free, and that a holder which dies  *)
(* or fails to release leaves stranded until it is recovered.  Nothing is   *)
(* promised once an owner has been suspended for longer than the lease says.*)
CONSTANT Proc
VARIABLE lock

LockTypeOK == lock \in Proc \cup {"free", "stranded", "overslept"}

Init == lock = "free"

Acquire(p) == lock = "free" /\ lock' = p
Release(p) == lock = p /\ lock' = "free"
Strand     == lock \in Proc \cup {"free"} /\ lock' = "stranded"
Recover    == lock = "stranded" /\ lock' = "free"
Oversleep  == lock' = "overslept"

Next == \/ \E p \in Proc : Acquire(p) \/ Release(p)
        \/ Strand
        \/ Recover
        \/ Oversleep

Spec == Init /\ [][Next]_lock
=============================================================================

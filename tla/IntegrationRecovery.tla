------------------------ MODULE IntegrationRecovery ------------------------
(***************************************************************************)
(* Recovery of an interrupted companion transaction                        *)
(* (packages/integrations/src/integration-recovery.ts), composed with the  *)
(* transactions themselves: classification of the evidence, a reviewed     *)
(* recovery plan bound to it, and its application, which rolls back or     *)
(* finalizes with the artifacts that the recovery log proves.              *)
(***************************************************************************)
EXTENDS CompanionTransaction

(* classifyIntegrationRecoveryEvidence: the record of the transaction, at  *)
(* the head of the journal, decides between finalizing and rolling back.   *)
Way(t) ==
    LET recorded == \E i \in 1..Len(journal) : journal[i] = t IN
    IF rec[t].state # "prepared" /\ RecordHead = t THEN "finalize"
    ELSE IF recorded \/ rec[t].state \in {"committed", "cleanup-pending"} THEN "unknown"
    ELSE "rollback"

Recoverable(t) == Unresolved = {t} /\ Way(t) # "unknown"

-----------------------------------------------------------------------------
(* The programs of recovery, from the recorded evidence alone.             *)

Proved(r, role) == r.proof[role] # "none"

(* A transaction that is only prepared has no proofs and moves nothing.    *)
RollbackTree(p, r) ==
    LET claim == IF Proved(r, "installed") THEN "claimNew" ELSE "claimStage"
        upgrade == IF Proved(r, "installed") /\ Proved(r, "backup")
                   THEN <<"claimNew", "restoreOld", "delete">>
                   ELSE When(Proved(r, "stage"), <<"claimStage", "delete">>)
                        \o When(Proved(r, "backup"), <<"restoreOld">>)
    IN  CASE p.kind = "create"  -> When(Proved(r, "stage"), <<claim, "delete">>)
          [] p.kind = "upgrade" -> upgrade
          [] p.kind = "remove"  -> When(Proved(r, "backup"), <<"putBack">>)
          [] OTHER              -> <<>>

(* A backup that was already claimed for cleanup may be torn or gone; one  *)
(* that was not must be whole where it was proved to be.                   *)
FinalizeTree(p, r) ==
    When(p.kind = "upgrade" /\ ~Proved(r, "cleanup"), <<"claimBackup">>)
    \o When(p.kind = "upgrade" \/ (p.kind = "remove" /\ Proved(r, "backup")),
            <<"delete", "endTree*">>)

\* A mutant: the rollback cleans the tree up instead of putting it back.
RollbackFinalizesTree(p, r) ==
    When("report" \in r.art, <<"undoReport">>) \o FinalizeTree(p, r)
    \o When("config" \in r.art, <<"claimConfig", "undoConfig">>) \o <<"rolled-back", "closed">>

\* A mutant: the rollback forgets the configuration.
RollbackSkipsConfig(p, r) ==
    When("report" \in r.art, <<"undoReport">>) \o RollbackTree(p, r) \o <<"rolled-back", "closed">>

Rollback(p, r) ==
    When("report" \in r.art, <<"undoReport">>)
    \o RollbackTree(p, r)
    \o When("config" \in r.art, <<"claimConfig", "undoConfig">>)
    \o <<"rolled-back", "closed">>

Finalize(p, r) ==
    When(r.state \in {"mutating", "recovery-required"}, <<"committed">>)
    \o When("report" \in r.art \ r.steps, <<"endReport", "endReport*">>)
    \o When("config" \in r.art \ r.steps, <<"endConfig", "endConfig*">>)
    \o When("tree" \notin r.steps, FinalizeTree(p, r))
    \o <<"closed">>

-----------------------------------------------------------------------------

(* planIntegrationRecovery: the plan carries a digest of the latest state. *)
ReviewRecovery(t) ==
    /\ Recoverable(t)
    /\ advice' = [tx |-> t, way |-> Way(t), seq |-> rec[t].seq]
    /\ UNCHANGED <<plan, claimed, files, rec, run, receipt, faults, crashes,
                   edits, gone, clean>>

\* A mutant: what was reviewed may have changed since.
StillRecoverable(t) == Recoverable(t)

StillReviewed(t) == Recoverable(t) /\ Way(t) = advice.way /\ rec[t].seq = advice.seq

(* applyIntegrationRecoveryPlan: the plan is used up under the lease, and  *)
(* refused when the evidence is no longer what was reviewed.               *)
ApplyRecovery ==
    LET t == advice.tx IN
    /\ run.phase = "idle" /\ advice # NoAdvice
    /\ advice' = NoAdvice
    /\ IF StillReviewed(t)
       THEN /\ run' = [Idle EXCEPT !.kind = advice.way, !.phase = advice.way, !.tx = t,
                                   !.todo = IF advice.way = "rollback"
                                            THEN Rollback(plan[t], rec[t])
                                            ELSE Finalize(plan[t], rec[t])]
            /\ receipt' = NoReceipt
       ELSE UNCHANGED <<run, receipt>>
    /\ UNCHANGED <<plan, claimed, files, rec, faults, crashes, edits, gone, clean>>

Next == Step \/ Around \/ ApplyRecovery \/ \E t \in Tx : ReviewRecovery(t)

Spec == Init /\ [][Next]_vars

-----------------------------------------------------------------------------
(* Properties.                                                             *)

(* Every variable stays in its type.                                       *)
TypeOK ==
    /\ claimed \subseteq Tx
    /\ tree \in [Place -> {Nothing, Base, User, Torn} \cup Tx]
    /\ config \in {Nothing, Base, User} \cup Tx
    /\ side \in [Tx -> SUBSET {"tmp", "bak"}]
    /\ report \in {Base} \cup Tx /\ kept \in [Tx -> {Nothing, Base} \cup Tx]
    /\ journal \in Seq({Base, Other} \cup Tx)
    /\ \A t \in Tx : /\ rec[t].seq \in Nat
                     /\ rec[t].art \subseteq {"config", "report"}
                     /\ rec[t].steps \subseteq {"config", "report", "tree"}
    /\ run.tx \in Tx \cup {Nothing}
    /\ run.phase \in {"idle", "forward", "undo", "finish", "stop", "rollback", "finalize"}
    /\ faults \in 0..FaultLimit /\ crashes \in 0..CrashLimit /\ edits \in 0..EditLimit

Residue(t) == (\E name \in {"stage", "backup", "cleanup"} : tree[PlaceOf(name, t)] # Nothing)
              \/ side[t] # {} \/ kept[t] # Nothing
Recorded(t) == \E i \in 1..Len(journal) : journal[i] = t

(* What a person writes after the last look at it may stand in the place   *)
(* of what a transaction left or put back.                                 *)
Was(now, what) == now = what \/ (edits > 0 /\ now = User)

(* All is as it was reviewed, once revalidation found it so and bound the  *)
(* transaction to its record; before that nothing is touched.              *)
Restored(t) ==
    /\ report # t /\ ~Recorded(t)
    /\ rec[t].bound => Was(tree[Home], plan[t].tree) /\ Was(config, plan[t].config)

Installed(t) ==
    /\ Was(tree[Home], CASE plan[t].kind \in {"create", "upgrade"} -> t
                         [] plan[t].kind = "remove" -> Nothing
                         [] OTHER -> plan[t].tree)
    /\ Was(config, IF plan[t].hook THEN t ELSE plan[t].config)
    /\ report = t

(* At most one transaction is ever unresolved, so recovery always knows    *)
(* which one is meant (recovery intents are created only when the log is   *)
(* clear, companion-transaction.ts:813).                                   *)
OneInFlight == Cardinality(Unresolved) <= 1

(* The record is the commit point: while its transaction is unresolved and *)
(* it is the latest record, everything it says is in place.  Nothing after *)
(* the append undoes, and nothing before it is left out.                   *)
RecordedMeansDone ==
    \A t \in Unresolved : RecordHead = t => Installed(t)

(* No tree is lost on the way: while an upgrade or a removal is unresolved *)
(* and not recorded, the companion it replaces is whole at one of the      *)
(* places of the transaction, or a person wrote over it.                   *)
PreviousKept ==
    \A t \in Unresolved :
        plan[t].kind \in {"upgrade", "remove"} /\ rec[t].state # "prepared" /\ ~Recorded(t) =>
            \/ plan[t].tree \in gone
            \/ \E p \in {Home} \cup {PlaceOf(n, t) : n \in {"backup", "cleanup"}} :
                   tree[p] = plan[t].tree

(* The answer of an apply is true: rolled back means that all is as it was *)
(* and nothing private remains; ready means that all is in place, and,     *)
(* without a warning, that nothing private remains.                        *)
AnswersHold ==
    receipt.by = "apply" =>
        /\ receipt.outcome = "rolled-back" => Restored(receipt.tx) /\ ~Residue(receipt.tx)
        /\ receipt.outcome = "ready" =>
             /\ Installed(receipt.tx)
             /\ ~receipt.warned => ~Residue(receipt.tx) /\ receipt.tx \notin Unresolved

(* Recovery after deaths alone, none of which came between an effect and   *)
(* its record, never fails, and what it recovers is back or in place.      *)
CleanDeathRecovers ==
    receipt.by \in {"rollback", "finalize"} /\ clean /\ faults = 0 /\ edits = 0 =>
        /\ receipt.outcome = "recovered"
        /\ IF receipt.by = "rollback" THEN Restored(receipt.tx) ELSE Installed(receipt.tx)

(* docs/architecture.md:99-101: uncertain I/O preserves recovery evidence *)
(* rather than guessing; whatever the moment of death, a transaction that  *)
(* recovery reports as rolled back has its previous companion back.        *)
RecoveryRestores ==
    receipt.by = "rollback" /\ receipt.outcome = "recovered" =>
        Restored(receipt.tx)

=============================================================================

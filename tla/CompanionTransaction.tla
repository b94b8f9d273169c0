------------------------ MODULE CompanionTransaction ------------------------
(***************************************************************************)
(* The coordinator of packages/integrations/src/companion-transaction.ts:  *)
(* one reviewed change of a Harness configuration (the Hook), of the       *)
(* companion tree and of the readiness report, ended by one lifecycle      *)
(* record, over the durable recovery log of                                *)
(* packages/store/src/integration-recovery-store.ts.                       *)
(*                                                                         *)
(* The coordinator is sequential under the mutation lease (MutationLease), *)
(* so one run exists at a time.  Its remaining steps are a queue, todo: a  *)
(* step whose name ends in * appends to the recovery log what the step     *)
(* before it did, and a failure replaces the queue by that of the matching *)
(* catch block.  What is concurrent with the run is death at any step, a   *)
(* person who writes to the configuration or to the companion, and reviews.*)
(***************************************************************************)
EXTENDS Naturals, Sequences, FiniteSets

CONSTANTS
    Tx,          \* reviewed plans; a transaction is named by its plan
    Nothing,     \* no file, no tree, no transaction
    Base,        \* what an earlier transaction left: tree, file, report, record
    Other,       \* the record of an earlier transaction for another Harness
    User,        \* what a person writes
    Torn,        \* a tree of which some entries were deleted
    FaultLimit,  \* bound: operations that report failure
    CrashLimit,  \* bound: deaths of the process
    EditLimit    \* bound: writes by a person
                 \* (each is one less once a second plan has been reviewed)

ASSUME LimitsAreNaturals ==
    FaultLimit \in Nat /\ CrashLimit \in Nat /\ EditLimit \in Nat

ASSUME NamesAreDistinct ==
    /\ Cardinality({Nothing, Base, Other, User, Torn}) = 5
    /\ {Nothing, Base, Other, User, Torn} \cap Tx = {}

VARIABLES
    plan,        \* what was reviewed and the evidence it was reviewed against
    claimed,     \* plans that were used up
    tree,        \* the tree at the companion path and at each private sibling
    config,      \* the Harness configuration
    side,        \* the temporary and the backup beside the configuration
    report,      \* the transaction whose readiness report is the latest
    kept,        \* the report saved in the central backup of each transaction
    journal,     \* lifecycle records, newest first
    rec,         \* the latest state of each transaction in the recovery log
    run,         \* the operation under the lease; it is lost when it dies
    receipt,     \* the last answer, until something else happens
    advice,      \* the reviewed recovery plan: transaction, way and evidence
    faults, crashes, edits,
    gone,        \* history: what a person wrote over
    clean        \* history: no death came between an effect and its record

files == <<tree, config, side, report, kept, journal>>
vars == <<plan, claimed, files, rec, run, receipt, advice, faults, crashes,
          edits, gone, clean>>

-----------------------------------------------------------------------------
(* The recovery log.                                                       *)

Home == <<"companion">>
Place == {Home} \cup ({"stage", "backup", "cleanup"} \X Tx)
PlaceOf(name, t) == IF name = "companion" THEN Home ELSE <<name, t>>

Role == {"stage", "backup", "installed", "cleanup"}

NoRecord == [state |-> "none", seq |-> 0, bound |-> FALSE,
             proof |-> [r \in Role |-> "none"], art |-> {}, steps |-> {}]

Allowed(state) ==
    CASE state = "prepared"          -> {"mutating", "rolled-back"}
      [] state = "mutating"          -> {"mutating", "recovery-required",
                                         "rolled-back", "committed"}
      [] state = "recovery-required" -> {"rolled-back", "committed"}
      [] state = "rolled-back"       -> {"closed"}
      [] state = "committed"         -> {"committed", "cleanup-pending", "closed"}
      [] state = "cleanup-pending"   -> {"cleanup-pending", "closed"}
      [] OTHER                       -> {}

(* A state may follow another: the transition is allowed, a proof never    *)
(* changes, evidence is added only while mutating or committed, steps      *)
(* complete only once committed, and mutation begins bound to its record.  *)
Legal(old, new) ==
    /\ new.state \in Allowed(old.state)
    /\ new.state = "mutating" => new.bound
    /\ new.bound # old.bound => old.state = "prepared"
    /\ \A r \in Role : old.proof[r] # "none" => new.proof[r] = old.proof[r]
    /\ new.proof # old.proof \/ new.art # old.art =>
           new.state \in {"mutating", "recovery-required", "committed"}
    /\ new.steps # old.steps => new.state \in {"committed", "cleanup-pending"}

Unresolved == {t \in Tx : rec[t].state \notin {"none", "rolled-back", "closed"}}

(* What each recording step appends to the log.                            *)
Noted(step, r) ==
    LET next == [r EXCEPT !.seq = @ + 1] IN
    CASE step = "bind"       -> [next EXCEPT !.state = "mutating", !.bound = TRUE]
      [] step = "stage*"     -> [next EXCEPT !.state = "mutating", !.proof["stage"] = "stage"]
      [] step = "backup*"    -> [next EXCEPT !.state = "mutating", !.proof["backup"] = "backup"]
      [] step = "install*"   -> [next EXCEPT !.state = "mutating", !.proof["installed"] = "companion"]
      [] step = "remove*"    -> [next EXCEPT !.state = "mutating", !.proof["backup"] = "cleanup"]
      [] step = "unmoved*"   -> [next EXCEPT !.state = "mutating", !.proof["backup"] = "companion"]
      [] step = "config*"    -> [next EXCEPT !.state = "mutating", !.art = @ \cup {"config"}]
      [] step = "report*"    -> [next EXCEPT !.state = "mutating", !.art = @ \cup {"report"}]
      [] step = "endReport*" -> [next EXCEPT !.steps = @ \cup {"report"}]
      [] step = "endTree*"   -> [next EXCEPT !.steps = @ \cup {"tree"}]
      [] step = "endConfig*" -> [next EXCEPT !.steps = @ \cup {"config"}]
      [] step = "cleanup*"   -> [next EXCEPT !.state = "committed", !.proof["cleanup"] = "cleanup"]
      [] OTHER               -> [next EXCEPT !.state = step]

NoteStep == {"bind", "stage*", "backup*", "install*", "remove*", "unmoved*",
             "config*", "report*", "endReport*", "endTree*", "endConfig*",
             "cleanup*", "committed", "recovery-required", "rolled-back",
             "cleanup-pending", "closed"}

-----------------------------------------------------------------------------
(* The programs: what the coordinator does for a plan, how it finishes     *)
(* after the record, and how it compensates for the steps it has done.     *)

When(condition, queue) == IF condition THEN queue ELSE <<>>

Forward(p) ==
    <<"check", "bind">>
    \o When(p.kind \in {"create", "upgrade"}, <<"stage", "stage*">>)
    \o When(p.kind = "upgrade", <<"backup", "backup*">>)
    \o When(p.kind \in {"create", "upgrade"}, <<"install", "prove", "install*">>)
    \o (IF p.hook THEN <<"config", "config*", "config=">> ELSE <<"config?">>)
    \o When(p.kind = "remove", <<"remove", "remove*">>)
    \o <<"keep", "report*", "report", "record">>

(* After the record each artifact is finished by itself.                    *)
EndTree(p) ==
    When(p.kind = "upgrade", <<"claimBackup">>)
    \o When(p.kind \in {"upgrade", "remove"}, <<"delete", "endTree*">>)

EndConfig(p) == When(p.hook, <<"endConfig", "endConfig*">>)

Finish(p) ==
    <<"committed", "endReport", "endReport*">> \o EndTree(p) \o EndConfig(p) \o <<"closed">>

NewClaim(did) == IF "install" \in did THEN "claimNew" ELSE "claimStage"

\* A mutant: an upgrade is undone as if nothing had been backed up.
UndoAsCreate(did) == When("stage" \in did, <<NewClaim(did), "delete">>)

UndoTree(did) ==
    IF {"backup", "prove"} \subseteq did THEN <<"claimNew", "restoreOld", "delete">>
    ELSE When("backup" \in did, <<"restoreOld">>)
         \o When("stage" \in did, <<NewClaim(did), "delete">>)

Undo(did) ==
    When("report" \in did, <<"undoReport">>)
    \o When("remove" \in did, <<"putBack">>)
    \o When("config=" \in did, <<"claimConfig", "undoConfig">>)
    \o UndoTree(did)
    \o <<"rolled-back", "closed">>

(* After a failure in the committed phase the rest of that artifact is     *)
(* skipped, the others are still finished, and nothing is closed.           *)
AfterWarning(step, how, p) ==
    LET atCleanup == step \in {"delete", "endTree*"} \/ (step = "claimBackup" /\ how = "moved")
        others == CASE step \in {"endReport", "endReport*"} -> EndTree(p) \o EndConfig(p)
                    [] step \in {"claimBackup", "delete", "endTree*", "cleanup*"} ->
                          When(atCleanup, <<"cleanup*">>) \o EndConfig(p)
                    [] OTHER -> <<>>
    IN  CASE step = "committed" -> <<"recovery-required">>
          [] step \in {"recovery-required", "cleanup-pending"} -> <<>>
          [] OTHER -> others \o <<"cleanup-pending">>

-----------------------------------------------------------------------------
(* The run: the step it is at, how it goes on, and how it goes wrong.      *)

Idle == [kind |-> "none", phase |-> "idle", tx |-> Nothing, todo |-> <<>>,
         did |-> {}, warned |-> FALSE, synced |-> TRUE]
NoPlan == [kind |-> "none yet", hook |-> FALSE, tree |-> Nothing,
           config |-> Nothing, head |-> Nothing]
NoAdvice == [tx |-> Nothing, way |-> "none", seq |-> 0]
NoReceipt == [tx |-> Nothing, by |-> "none", outcome |-> "none", warned |-> FALSE]

At(step) == run.todo # <<>> /\ Head(run.todo) = step

(* The record is the commit point: after it the coordinator only goes on.  *)
Advance(step) ==
    run' = IF step = "record"
           THEN [run EXCEPT !.phase = "finish", !.todo = Finish(plan[run.tx])]
           ELSE [run EXCEPT !.todo = Tail(@), !.did = @ \cup {step}]

(* A failed restoration of the previous tree puts the new one back.        *)
PutNew(step) == When(step = "restoreOld" /\ "claimNew" \in run.did, <<"putNew">>)

(* how: "no" when nothing happened, "moved" or "unknown" when the outcome  *)
(* is uncertain and the handle does or does not know the tree's new place. *)
\* A mutant: a failure of the append of the record counts as definite.
UncertainButRecord(step, how) == how # "no" /\ step # "record"

IsUncertain(step, how) == how # "no"

Failed(step, how, synced) ==
    LET stop(queue) == [run EXCEPT !.phase = "stop", !.todo = queue, !.synced = synced]
        where == IF how = "moved" THEN "remove*" ELSE "unmoved*"
    IN  run' = CASE run.phase = "forward" /\ ~IsUncertain(step, how) ->
                      [run EXCEPT !.phase = "undo", !.todo = Undo(run.did)]
                 [] run.phase = "forward" /\ IsUncertain(step, how) ->
                      stop(When(step = "remove", <<where>>) \o <<"recovery-required">>)
                 [] run.phase = "undo" -> stop(PutNew(step) \o <<"recovery-required">>)
                 [] run.phase \in {"rollback", "finalize"} -> stop(PutNew(step))
                 [] run.phase = "finish" ->
                      [run EXCEPT !.todo = AfterWarning(step, how, plan[run.tx]),
                                  !.warned = TRUE, !.synced = synced]
                 [] run.phase = "stop" -> stop(Tail(run.todo))

(* Of the bounds, what plans reviewed beyond the first use up.             *)
Extra == IF Cardinality({t \in Tx : plan[t] # NoPlan}) > 1 THEN 1 ELSE 0

Fault == faults + Extra < FaultLimit /\ faults' = faults + 1
FromOutside == <<plan, claimed, receipt, advice, crashes, edits, gone, clean>>

(* An operation on the files: it succeeds when it is possible; it is       *)
(* refused, or fails, leaving what Cleaned says; or its outcome is         *)
(* uncertain, and it may or may not have happened.                         *)
Try(step, possible, Effect, Cleaned) ==
    /\ At(step)
    /\ UNCHANGED <<rec, FromOutside>>
    /\ \/ possible /\ Effect /\ Advance(step) /\ UNCHANGED faults
       \/ ~possible /\ Cleaned /\ Failed(step, "no", run.synced) /\ UNCHANGED faults
       \/ Fault /\ Cleaned /\ Failed(step, "no", run.synced)
       \/ /\ Fault
          /\ \/ possible /\ Effect /\ \E how \in {"moved", "unknown"} :
                                         Failed(step, how, run.synced)
             \/ UNCHANGED files /\ Failed(step, "unknown", run.synced)

(* An append to the recovery log.  When it is uncertain and did happen,    *)
(* the run's own idea of the sequence is stale and all it appends later is *)
(* refused.  Publication of a file whose artifact could not be recorded    *)
(* removes the files it had prepared.                                      *)
Note(step) ==
    LET t == run.tx
        n == Noted(step, rec[t])
        possible == run.synced /\ Legal(rec[t], n)
        Forget ==
            /\ side' = IF run.phase = "forward" /\ step = "config*"
                       THEN [side EXCEPT ![t] = {}] ELSE side
            /\ kept' = IF run.phase = "forward" /\ step = "report*"
                       THEN [kept EXCEPT ![t] = Nothing] ELSE kept
            /\ UNCHANGED <<tree, config, report, journal>>
    IN  /\ At(step)
        /\ UNCHANGED FromOutside
        /\ \/ /\ possible /\ Advance(step) /\ rec' = [rec EXCEPT ![t] = n]
              /\ UNCHANGED <<files, faults>>
           \/ ~possible /\ Forget /\ Failed(step, "no", run.synced) /\ UNCHANGED <<rec, faults>>
           \/ Fault /\ Forget /\ Failed(step, "no", run.synced) /\ UNCHANGED rec
           \/ /\ Fault /\ possible /\ Forget
              /\ \/ rec' = [rec EXCEPT ![t] = n] /\ Failed(step, "unknown", FALSE)
                 \/ UNCHANGED rec /\ Failed(step, "unknown", run.synced)

-----------------------------------------------------------------------------
(* Steps that move, write and delete trees.  A move needs the exact tree   *)
(* at its source and nothing at its destination.                           *)

MoveStep == {"backup", "install", "remove", "putBack", "putNew", "claimNew",
             "claimStage", "claimBackup", "restoreOld"}

Route(step, t) ==
    LET old == plan[t].tree
        put == IF rec[t].proof["backup"] = "none" THEN "cleanup" ELSE rec[t].proof["backup"]
        way(from, to, what) ==
            [from |-> PlaceOf(from, t), to |-> PlaceOf(to, t), what |-> what]
    IN  CASE step = "backup"      -> way("companion", "backup", old)
          [] step = "install"     -> way("stage", "companion", t)
          [] step = "remove"      -> way("companion", "cleanup", old)
          [] step = "putBack"     -> way(put, "companion", old)
          [] step = "putNew"      -> way("cleanup", "companion", t)
          [] step = "claimNew"    -> way("companion", "cleanup", t)
          [] step = "claimStage"  -> way("stage", "cleanup", t)
          [] step = "claimBackup" -> way("backup", "cleanup", old)
          [] step = "restoreOld"  -> way("backup", "companion", old)

MoveTree(step) ==
    LET w == Route(step, run.tx) IN
    Try(step, tree[w.from] = w.what /\ tree[w.to] = Nothing,
        /\ tree' = [tree EXCEPT ![w.from] = Nothing, ![w.to] = w.what]
        /\ UNCHANGED <<config, side, report, kept, journal>>,
        UNCHANGED files)

StageTree ==
    Try("stage", tree[PlaceOf("stage", run.tx)] = Nothing,
        /\ tree' = [tree EXCEPT ![PlaceOf("stage", run.tx)] = run.tx]
        /\ UNCHANGED <<config, side, report, kept, journal>>,
        UNCHANGED files)

ProveInstalled == Try("prove", tree[Home] = run.tx, UNCHANGED files, UNCHANGED files)

(* Deletion goes entry by entry: the tree is torn before it is gone.       *)
TearTree ==
    LET p == PlaceOf("cleanup", run.tx) IN
    /\ At("delete") /\ tree[p] \notin {Nothing, Torn}
    /\ tree' = [tree EXCEPT ![p] = Torn]
    /\ run' = [run EXCEPT !.did = @ \cup {"tear"}]
    /\ UNCHANGED <<config, side, report, kept, journal, rec, faults, FromOutside>>

DeleteTree ==
    LET p == PlaceOf("cleanup", run.tx) IN
    Try("delete", TRUE,
        /\ tree[p] \in {Nothing, Torn}
        /\ tree' = [tree EXCEPT ![p] = Nothing]
        /\ UNCHANGED <<config, side, report, kept, journal>>,
        UNCHANGED files)

-----------------------------------------------------------------------------
(* Steps on the Harness configuration.                                     *)

Writes(p) == {"tmp"} \cup (IF p.config = Nothing THEN {} ELSE {"bak"})
HasBackup(t) == plan[t].config # Nothing => "bak" \in side[t]

InspectConfig ==
    Try("config?", config = plan[run.tx].config, UNCHANGED files, UNCHANGED files)

StageConfig ==
    LET t == run.tx IN
    Try("config", config = plan[t].config,
        /\ side' = [side EXCEPT ![t] = Writes(plan[t])]
        /\ UNCHANGED <<tree, config, report, kept, journal>>,
        UNCHANGED files)

(* The rename looks at nothing: what a person wrote since the last look at *)
(* the configuration is replaced.                                          *)
PublishConfig ==
    LET t == run.tx IN
    Try("config=", TRUE,
        /\ config' = t
        /\ side' = [side EXCEPT ![t] = @ \ {"tmp"}]
        /\ UNCHANGED <<tree, report, kept, journal>>,
        side' = [side EXCEPT ![t] = {}] /\ UNCHANGED <<tree, config, report, kept, journal>>)

(* A restoration that finds the configuration as it was removes what it    *)
(* had prepared (after a restart: only while the temporary shows that it   *)
(* was never published); else it takes the published file away first and   *)
(* then puts the backup in its place.  Where no file was, that is all.     *)
ClaimConfig ==
    LET t == run.tx
        untouched == /\ config = plan[t].config
                     /\ run.phase = "rollback" => "tmp" \in side[t]
    IN  Try("claimConfig", untouched \/ (config = t /\ HasBackup(t)),
            /\ config' = IF untouched THEN config ELSE Nothing
            /\ side' = IF untouched THEN [side EXCEPT ![t] = {}] ELSE side
            /\ UNCHANGED <<tree, report, kept, journal>>,
            UNCHANGED files)

RestoreConfig ==
    LET t == run.tx
        pending == "bak" \in side[t]
    IN  Try("undoConfig", pending => config = Nothing,
            /\ config' = IF pending THEN plan[t].config ELSE config
            /\ side' = [side EXCEPT ![t] = {}]
            /\ UNCHANGED <<tree, report, kept, journal>>,
            UNCHANGED files)

FinalizeConfig ==
    LET t == run.tx IN
    Try("endConfig", config = t /\ HasBackup(t),
        /\ side' = [side EXCEPT ![t] = {}]
        /\ UNCHANGED <<tree, config, report, kept, journal>>,
        UNCHANGED files)

-----------------------------------------------------------------------------
(* Steps on the readiness report.  The central backup is written before    *)
(* its binding is recorded, the binding before the report is published; a  *)
(* failed publication restores from the backup by itself.                  *)

KeepReport ==
    LET t == run.tx IN
    Try("keep", TRUE,
        /\ kept' = [kept EXCEPT ![t] = report]
        /\ UNCHANGED <<tree, config, side, report, journal>>,
        UNCHANGED files)

PublishReport ==
    LET t == run.tx IN
    Try("report", report = kept[t],
        report' = t /\ UNCHANGED <<tree, config, side, kept, journal>>,
        kept' = [kept EXCEPT ![t] = Nothing] /\ UNCHANGED <<tree, config, side, report, journal>>)

\* A mutant: the saved report is not looked for before it is put back.
RestoreReportBlind ==
    LET t == run.tx IN
    Try("undoReport", TRUE,
        /\ report' = kept[t] /\ kept' = [kept EXCEPT ![t] = Nothing]
        /\ UNCHANGED <<tree, config, side, journal>>,
        UNCHANGED files)

RestoreReport ==
    LET t == run.tx IN
    Try("undoReport", kept[t] # Nothing /\ report \in {t, kept[t]},
        /\ report' = kept[t]
        /\ kept' = [kept EXCEPT ![t] = Nothing]
        /\ UNCHANGED <<tree, config, side, journal>>,
        UNCHANGED files)

FinalizeReport ==
    LET t == run.tx IN
    Try("endReport", kept[t] # Nothing /\ report = t,
        /\ kept' = [kept EXCEPT ![t] = Nothing]
        /\ UNCHANGED <<tree, config, side, report, journal>>,
        UNCHANGED files)

AppendRecord ==
    Try("record", TRUE,
        /\ journal' = <<run.tx>> \o journal
        /\ UNCHANGED <<tree, config, side, report, kept>>,
        UNCHANGED files)

-----------------------------------------------------------------------------
(* Review, and the ends of a run.                                          *)

Removal(p) == p.kind \in {"retain", "remove"}
RecordHead == IF journal = <<>> THEN Nothing ELSE Head(journal)

(* What the records say: whether this Harness is a consumer of the         *)
(* companion, and what its tree and the configuration were left as.        *)
Connected == RecordHead = Base \/ (RecordHead \in Tx /\ ~Removal(plan[RecordHead]))

RecordedTree ==
    LET p == plan[RecordHead] IN
    IF RecordHead \in {Base, Other} THEN Base
    ELSE IF RecordHead = Nothing \/ p.kind = "remove" THEN Nothing
    ELSE IF p.kind \in {"create", "upgrade"} THEN RecordHead ELSE p.tree

RecordedConfig ==
    IF RecordHead = Base \/ plan[RecordHead].hook THEN RecordHead
    ELSE plan[RecordHead].config

(* The managed Hook is in the configuration, or is not; either may hold of *)
(* a file that a person wrote.                                             *)
MayHook ==
    LET removed == config \in Tx /\ Removal(plan[config]) IN
    (IF config # Nothing /\ ~removed THEN {TRUE} ELSE {})
    \cup (IF config \in {Nothing, User} \/ removed THEN {FALSE} ELSE {})

Reviewed(kind, hook) ==
    [kind |-> kind, hook |-> hook, tree |-> tree[Home], config |-> config,
     head |-> RecordHead]

(* What a review offers: a new companion where the records know of none,   *)
(* an upgrade or none of the one they know, with the Hook where it is not  *)
(* there yet; and a disconnection of a consumer whose configuration is as  *)
(* it was left, which removes the companion unless it has other consumers. *)
Offers ==
    LET apply == IF tree[Home] = Nothing THEN {"create"} ELSE {"upgrade", "none"}
        hooks == IF Connected THEN MayHook \ {FALSE} ELSE MayHook
    IN  (apply \X {~h : h \in hooks})
        \cup (IF Connected /\ tree[Home] # Nothing /\ config = RecordedConfig
              THEN {"retain", "remove"} \X {TRUE} ELSE {})

Review(t) ==
    /\ plan[t] = NoPlan /\ Unresolved = {} /\ tree[Home] = RecordedTree
    /\ (\E u \in Tx : plan[u] # NoPlan) =>
           faults < FaultLimit /\ crashes < CrashLimit /\ edits < EditLimit
    /\ \E offer \in Offers : plan' = [plan EXCEPT ![t] = Reviewed(offer[1], offer[2])]
    /\ UNCHANGED <<claimed, files, rec, run, receipt, advice, faults, crashes, edits, gone, clean>>

Answer(t, by, outcome, warned) ==
    receipt' = [tx |-> t, by |-> by, outcome |-> outcome, warned |-> warned]

\* A mutant: only a transaction that asks for recovery is in the way.
NoneRequired == \A t \in Tx : rec[t].state # "recovery-required"

NoneUnresolved == Unresolved = {}

(* Under the lease the plan is used up; while a transaction is unresolved  *)
(* nothing begins; the intent is durable before anything is touched.       *)
Begin(t) ==
    /\ run.phase = "idle" /\ plan[t] # NoPlan /\ t \notin claimed
    /\ claimed' = claimed \cup {t}
    /\ \/ /\ ~NoneUnresolved /\ Answer(t, "apply", "recovery-required", FALSE)
          /\ UNCHANGED <<rec, run, faults>>
       \/ /\ NoneUnresolved
          /\ rec' = [rec EXCEPT ![t].state = "prepared"]
          /\ run' = [Idle EXCEPT !.kind = "apply", !.phase = "forward", !.tx = t,
                                 !.todo = Forward(plan[t])]
          /\ receipt' = NoReceipt /\ UNCHANGED faults
       \/ /\ NoneUnresolved /\ Fault /\ UNCHANGED run
          /\ \/ UNCHANGED rec /\ Answer(t, "apply", "rolled-back", FALSE)
             \/ UNCHANGED rec /\ Answer(t, "apply", "recovery-required", FALSE)
             \/ /\ rec' = [rec EXCEPT ![t].state = "prepared"]
                /\ Answer(t, "apply", "recovery-required", FALSE)
    /\ UNCHANGED <<plan, files, advice, crashes, edits, gone, clean>>

\* A mutant: revalidation does not look at the companion.
FreshButTree(t) == config = plan[t].config /\ RecordHead = plan[t].head

(* Revalidation: planning again, under the lease, gives the same plan.     *)
Fresh(t) ==
    /\ tree[Home] = plan[t].tree /\ config = plan[t].config /\ RecordHead = plan[t].head

(* A plan may also have expired since.                                     *)
Revalidate ==
    /\ At("check")
    /\ \/ Fresh(run.tx) /\ Advance("check")
       \/ Failed("check", "no", TRUE)
    /\ UNCHANGED <<files, rec, faults, FromOutside>>

Outcome ==
    CASE run.phase = "undo"   -> "rolled-back"
      [] run.phase = "finish" -> "ready"
      [] run.phase = "stop"   -> "recovery-required"
      [] OTHER                -> "recovered"

End ==
    /\ run.phase # "idle" /\ run.todo = <<>>
    /\ Answer(run.tx, run.kind, Outcome, run.warned)
    /\ run' = Idle
    /\ UNCHANGED <<plan, claimed, files, rec, advice, faults, crashes, edits, gone, clean>>

-----------------------------------------------------------------------------
(* What happens around a run.                                              *)

(* The step before the next one had an effect of which recovery can find   *)
(* no record, or that it cannot do again.                                  *)
Midway ==
    LET removes == plan[run.tx].kind = "remove" \/ rec[run.tx].proof["cleanup"] # "none" IN
    \/ run.phase \in {"forward", "finish", "finalize"}
       /\ \E s \in {"backup*", "prove", "install*", "remove*", "endReport*"} : At(s)
    \/ run.phase \in {"finish", "finalize"}
       /\ \/ At("endConfig*") /\ plan[run.tx].config # Nothing
          \/ (At("delete") \/ At("endTree*")) /\ ~removes
    \/ run.phase \in {"undo", "rollback"} /\ run.did # {}

Die ==
    /\ run.phase # "idle" /\ crashes + Extra < CrashLimit
    /\ crashes' = crashes + 1
    /\ clean' = (clean /\ ~Midway)
    /\ run' = Idle /\ receipt' = NoReceipt
    /\ UNCHANGED <<plan, claimed, files, rec, advice, faults, edits, gone>>

EditCompanion ==
    /\ edits + Extra < EditLimit /\ edits' = edits + 1
    /\ gone' = gone \cup {tree[Home]}
    /\ tree' = [tree EXCEPT ![Home] = User]
    /\ receipt' = NoReceipt
    /\ UNCHANGED <<plan, claimed, config, side, report, kept, journal, rec, run, advice,
                   faults, crashes, clean>>

EditConfig ==
    /\ edits + Extra < EditLimit /\ edits' = edits + 1
    /\ config' = User
    /\ receipt' = NoReceipt
    /\ UNCHANGED <<plan, claimed, tree, side, report, kept, journal, rec, run, advice,
                   faults, crashes, gone, clean>>

Init ==
    /\ plan = [t \in Tx |-> NoPlan] /\ claimed = {}
    /\ \E head \in {Nothing, Base, Other} :
         /\ tree = [p \in Place |-> IF p = Home /\ head # Nothing THEN Base ELSE Nothing]
         /\ config \in IF head = Base THEN {Base} ELSE {Nothing, User}
         /\ journal = IF head = Nothing THEN <<>> ELSE <<head>>
    /\ side = [t \in Tx |-> {}]
    /\ report = Base /\ kept = [t \in Tx |-> Nothing]
    /\ rec = [t \in Tx |-> NoRecord]
    /\ run = Idle /\ receipt = NoReceipt /\ advice = NoAdvice
    /\ faults = 0 /\ crashes = 0 /\ edits = 0
    /\ gone = {} /\ clean = TRUE

Step ==
    \/ Revalidate \/ StageTree \/ ProveInstalled \/ TearTree \/ DeleteTree
    \/ InspectConfig \/ StageConfig \/ PublishConfig \/ ClaimConfig
    \/ RestoreConfig \/ FinalizeConfig
    \/ KeepReport \/ PublishReport \/ RestoreReport \/ FinalizeReport
    \/ AppendRecord \/ End
    \/ \E s \in MoveStep : MoveTree(s)
    \/ \E s \in NoteStep : Note(s)

Around == Die \/ EditCompanion \/ EditConfig \/ \E t \in Tx : Review(t) \/ Begin(t)

=============================================================================

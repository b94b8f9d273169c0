----------------------------- MODULE Governance -----------------------------
(* Quarantine and restore of one Skill directory (packages/governance).     *)
(*                                                                          *)
(* Operations take no lock: quarantines and restores of the same Skill run  *)
(* side by side, while the user edits, deletes and creates the directory at *)
(* the active path.  A directory tree is its identity (inode) and its       *)
(* content (fingerprint); every edit by the user makes a new content.       *)
EXTENDS Naturals, FiniteSets

CONSTANTS
    Quar, Rest,     \* reviewed quarantine and restore plans, each applied once
    Content,        \* contents the user gives the Skill, each once
    Mixed,          \* content of an incomplete or torn copy
    NoTree,         \* no directory at that path
    NoPlan,
    CrashLimit      \* bound: how many operations are cut short by a death

Op == Quar \cup Rest

ASSUME GovernanceConstants ==
    /\ Quar \cap Rest = {} /\ Op \cap Content = {}
    /\ Mixed \notin Content
    /\ NoTree \notin [ino : Op \cup Content, content : Content \cup {Mixed}]
    /\ NoPlan \notin [content : Content, of : Quar]
    /\ CrashLimit \in Nat

VARIABLES
    active,         \* the tree at the active path
    rollback,       \* per quarantine: the reviewed tree moved aside
    vault,          \* per quarantine: the private verified copy
    staging,        \* per operation: a copy being prepared
    aside,          \* per operation: a tree renamed to be removed
    plan,           \* per operation: reviewed content, and the quarantine's vault
    src,            \* per operation: identity captured by validation
    pc,
    flags,          \* per operation: what has been done so far
    log,            \* journal records
    wanted,         \* contents of the user, those they replaced or deleted excepted
    fresh,          \* contents the user has not used yet
    crashes

trees == <<active, rollback, vault, staging, aside>>
user  == <<wanted, fresh>>
vars == <<active, rollback, vault, staging, aside, plan, src, pc, flags, log, wanted, fresh,
          crashes>>

Tree == [ino : Op \cup Content, content : Content \cup {Mixed}]
Plan == [content : Content, of : Quar]

TryQ == {"Q.copy", "Q.verify", "Q.check", "Q.move", "Q.moved", "Q.vault", "Q.log",
         "Q.confirm", "Q.drop"}
TryR == {"R.copy", "R.verify", "R.look", "R.move", "R.check", "R.log", "R.confirm", "R.take",
         "R.remove"}
Undo == {"U.look", "U.back", "U.check", "U.take", "U.recheck", "U.clean"}
PC   == {"idle", "planned", "over"} \cup TryQ \cup TryR \cup Undo
Running == TryQ \cup TryR \cup Undo
Flags == {"moved", "restored", "logged", "drift", "vaultOwned"}

Init ==
    /\ \E c \in Content : /\ active = [ino |-> c, content |-> c]
                          /\ wanted = {c} /\ fresh = Content \ {c}
    /\ rollback = [q \in Quar |-> NoTree]
    /\ vault = [q \in Quar |-> NoTree]
    /\ staging = [o \in Op |-> NoTree]
    /\ aside = [o \in Op |-> NoTree]
    /\ plan = [o \in Op |-> NoPlan]
    /\ src = [o \in Op |-> o]
    /\ pc = [o \in Op |-> "idle"]
    /\ flags = [o \in Op |-> {}]
    /\ log = {}
    /\ crashes = 0

Record(o, status) == [op |-> o, status |-> status, of |-> plan[o].of]
Quarantined(q) == \E l \in log : l.op = q /\ l.status = "quarantined"
Restored(q)    == \E l \in log : l.of = q /\ l.status = "restored"

(* Fingerprint of a tree; identity and fingerprint (assertOwnedDirectory).  *)
Holds(t, c) == t # NoTree /\ t.content = c
Is(t, i, c) == Holds(t, c) /\ t.ino = i

Reviewed(o) == plan[o].content
Vault(o)    == vault[plan[o].of]

Goto(o, label) == pc' = [pc EXCEPT ![o] = label]
Mark(o, flag)  == flags' = [flags EXCEPT ![o] = @ \cup {flag}]

(* Mutant of Throw: every failure is compensated, a journaled one too.      *)
UndoAlways(o, why) ==
    /\ Goto(o, "U.look")
    /\ flags' = [flags EXCEPT ![o] = @ \cup why]

(* The catch block: a journaled operation is a success whose cleanup is     *)
(* pending, any other failure is compensated.                               *)
Throw(o, why) ==
    IF "logged" \in flags[o]
    THEN Goto(o, "over") /\ UNCHANGED flags
    ELSE Goto(o, "U.look") /\ flags' = [flags EXCEPT ![o] = @ \cup why]

Drift == {"drift"}     \* SOURCE_DRIFT or VAULT_DRIFT: no failure record
Other == {}

-----------------------------------------------------------------------------
(* planQuarantine and applyQuarantinePlan.                                  *)

PlanQuarantine(q) ==
    /\ pc[q] = "idle" /\ active # NoTree /\ active.content \in Content
    /\ plan' = [plan EXCEPT ![q] = [content |-> active.content, of |-> q]]
    /\ Goto(q, "planned")
    /\ UNCHANGED <<trees, src, flags, log, user, crashes>>

ApplyQuarantine(q) ==
    /\ pc[q] = "planned"
    /\ \/ /\ Holds(active, Reviewed(q))
          /\ src' = [src EXCEPT ![q] = active.ino]
          /\ Goto(q, "Q.copy")
       \/ /\ ~Holds(active, Reviewed(q))
          /\ Goto(q, "over")
          /\ UNCHANGED src
    /\ UNCHANGED <<trees, plan, flags, log, user, crashes>>

(* The copy is torn when the user edits while it runs, incomplete when it   *)
(* fails half-way.                                                          *)
QuarantineCopy(q) ==
    /\ pc[q] = "Q.copy"
    /\ \/ /\ active # NoTree
          /\ \E c \in {active.content, Mixed} :
               staging' = [staging EXCEPT ![q] = [ino |-> q, content |-> c]]
          /\ Goto(q, "Q.verify")
          /\ UNCHANGED flags
       \/ /\ staging' = [staging EXCEPT ![q] = [ino |-> q, content |-> Mixed]]
          /\ Throw(q, Other)
    /\ UNCHANGED <<active, rollback, vault, aside, plan, src, log, user, crashes>>

QuarantineVerify(q) ==
    /\ pc[q] = "Q.verify"
    /\ IF Is(staging[q], q, Reviewed(q))
       THEN Goto(q, "Q.check") /\ UNCHANGED flags
       ELSE Throw(q, Other)
    /\ UNCHANGED <<trees, plan, src, log, user, crashes>>

QuarantineCheck(q) ==
    /\ pc[q] = "Q.check"
    /\ IF Is(active, src[q], Reviewed(q))
       THEN Goto(q, "Q.move") /\ UNCHANGED flags
       ELSE Throw(q, Drift)
    /\ UNCHANGED <<trees, plan, src, log, user, crashes>>

(* The rename moves whatever is at the active path by now.                  *)
QuarantineMove(q) ==
    /\ pc[q] = "Q.move"
    /\ \/ /\ active # NoTree
          /\ rollback' = [rollback EXCEPT ![q] = active]
          /\ active' = NoTree
          /\ Mark(q, "moved") /\ Goto(q, "Q.moved")
       \/ /\ active = NoTree
          /\ Throw(q, Other)
          /\ UNCHANGED <<active, rollback>>
    /\ UNCHANGED <<vault, staging, aside, plan, src, log, user, crashes>>

(* Mutant of QuarantineMoved: the moved tree is not looked at again.        *)
TrustMoved(q) ==
    /\ pc[q] = "Q.moved"
    /\ Goto(q, "Q.vault")
    /\ UNCHANGED <<trees, plan, src, flags, log, user, crashes>>

QuarantineMoved(q) ==
    /\ pc[q] = "Q.moved"
    /\ IF Is(rollback[q], src[q], Reviewed(q))
       THEN Goto(q, "Q.vault") /\ UNCHANGED flags
       ELSE Throw(q, Drift)
    /\ UNCHANGED <<trees, plan, src, log, user, crashes>>

QuarantineVault(q) ==
    /\ pc[q] = "Q.vault"
    /\ vault' = [vault EXCEPT ![q] = staging[q]]
    /\ staging' = [staging EXCEPT ![q] = NoTree]
    /\ Goto(q, "Q.log")
    /\ UNCHANGED <<active, rollback, aside, plan, src, flags, log, user, crashes>>

(* appendGovernanceTransaction: write, sync, then onDurable.  A failed      *)
(* append may have left the record in the journal.                          *)
Append(o, status, next) ==
    \/ /\ log' = log \cup {Record(o, status)}
       /\ Mark(o, "logged") /\ Goto(o, next)
    \/ /\ log' \in {log, log \cup {Record(o, status)}}
       /\ Throw(o, Other)

QuarantineLog(q) ==
    /\ pc[q] = "Q.log"
    /\ Append(q, "quarantined", "Q.confirm")
    /\ UNCHANGED <<trees, plan, src, user, crashes>>

QuarantineConfirm(q) ==
    /\ pc[q] = "Q.confirm"
    /\ IF Is(vault[q], q, Reviewed(q))
       THEN Goto(q, "Q.drop") /\ UNCHANGED flags
       ELSE Throw(q, Drift)
    /\ UNCHANGED <<trees, plan, src, log, user, crashes>>

QuarantineDrop(q) ==
    /\ pc[q] = "Q.drop"
    /\ rollback' = IF Is(rollback[q], src[q], Reviewed(q))
                   THEN [rollback EXCEPT ![q] = NoTree] ELSE rollback
    /\ Goto(q, "over")
    /\ UNCHANGED <<active, vault, staging, aside, plan, src, flags, log, user, crashes>>

-----------------------------------------------------------------------------
(* planRestore and applyRestorePlan.                                        *)

(* Mutant of PlanRestore: the plan names its own transaction directory.     *)
PlanRestoreOwn(r) ==
    /\ pc[r] = "idle" /\ active = NoTree
    /\ \E q \in Quar :
         /\ Quarantined(q) /\ Holds(vault[q], Reviewed(q))
         /\ plan' = [plan EXCEPT ![r] = [content |-> Reviewed(q), of |-> r]]
    /\ Goto(r, "planned")
    /\ UNCHANGED <<trees, src, flags, log, user, crashes>>

PlanRestore(r) ==
    /\ pc[r] = "idle" /\ active = NoTree
    /\ \E q \in Quar :
         /\ Quarantined(q) /\ Holds(vault[q], Reviewed(q))
         /\ plan' = [plan EXCEPT ![r] = [content |-> Reviewed(q), of |-> q]]
    /\ Goto(r, "planned")
    /\ UNCHANGED <<trees, src, flags, log, user, crashes>>

ApplyRestore(r) ==
    /\ pc[r] = "planned"
    /\ \/ /\ ~Restored(plan[r].of)
          /\ active = NoTree
          /\ Holds(Vault(r), Reviewed(r))
          /\ src' = [src EXCEPT ![r] = Vault(r).ino]
          /\ Goto(r, "R.copy")
       \/ /\ \/ Restored(plan[r].of)
             \/ active # NoTree
             \/ ~Holds(Vault(r), Reviewed(r))
          /\ Goto(r, "over")
          /\ UNCHANGED src
    /\ UNCHANGED <<trees, plan, flags, log, user, crashes>>

RestoreCopy(r) ==
    /\ pc[r] = "R.copy"
    /\ \/ /\ Is(Vault(r), src[r], Reviewed(r))
          /\ \E c \in {Reviewed(r), Mixed} :
               staging' = [staging EXCEPT ![r] = [ino |-> r, content |-> c]]
          /\ Goto(r, "R.verify")
          /\ UNCHANGED flags
       \/ /\ Is(Vault(r), src[r], Reviewed(r))                    \* copying fails
          /\ staging' = [staging EXCEPT ![r] = [ino |-> r, content |-> Mixed]]
          /\ Throw(r, Other)
       \/ /\ ~Is(Vault(r), src[r], Reviewed(r))
          /\ Throw(r, Drift)
          /\ UNCHANGED staging
    /\ UNCHANGED <<active, rollback, vault, aside, plan, src, log, user, crashes>>

RestoreVerify(r) ==
    /\ pc[r] = "R.verify"
    /\ IF Is(staging[r], r, Reviewed(r))
       THEN Goto(r, "R.look") /\ UNCHANGED flags
       ELSE Throw(r, Other)
    /\ UNCHANGED <<trees, plan, src, log, user, crashes>>

RestoreLook(r) ==
    /\ pc[r] = "R.look"
    /\ IF active = NoTree
       THEN Goto(r, "R.move") /\ UNCHANGED flags
       ELSE Throw(r, Other)
    /\ UNCHANGED <<trees, plan, src, log, user, crashes>>

(* A rename onto a directory that is not empty fails.                       *)
RestoreMove(r) ==
    /\ pc[r] = "R.move"
    /\ \/ /\ active = NoTree
          /\ active' = staging[r]
          /\ staging' = [staging EXCEPT ![r] = NoTree]
          /\ Mark(r, "restored") /\ Goto(r, "R.check")
       \/ /\ active # NoTree
          /\ Throw(r, Other)
          /\ UNCHANGED <<active, staging>>
    /\ UNCHANGED <<rollback, vault, aside, plan, src, log, user, crashes>>

RestoreCheck(r) ==
    /\ pc[r] = "R.check"
    /\ IF Is(active, r, Reviewed(r))
       THEN Goto(r, "R.log") /\ UNCHANGED flags
       ELSE Throw(r, Drift)
    /\ UNCHANGED <<trees, plan, src, log, user, crashes>>

RestoreLog(r) ==
    /\ pc[r] = "R.log"
    /\ Append(r, "restored", "R.confirm")
    /\ UNCHANGED <<trees, plan, src, user, crashes>>

(* Cleanup starts only while both copies are the reviewed ones.             *)
RestoreConfirm(r) ==
    /\ pc[r] = "R.confirm"
    /\ IF Is(active, r, Reviewed(r)) /\ Is(Vault(r), src[r], Reviewed(r))
       THEN Goto(r, "R.take") ELSE Goto(r, "over")
    /\ UNCHANGED <<trees, plan, src, flags, log, user, crashes>>

RestoreTake(r) ==
    /\ pc[r] = "R.take"
    /\ IF Is(Vault(r), src[r], Reviewed(r))
       THEN /\ aside' = [aside EXCEPT ![r] = Vault(r)]
            /\ vault' = [vault EXCEPT ![plan[r].of] = NoTree]
            /\ Goto(r, "R.remove")
       ELSE Goto(r, "over") /\ UNCHANGED <<aside, vault>>
    /\ UNCHANGED <<active, rollback, staging, plan, src, flags, log, user, crashes>>

RestoreRemove(r) ==
    /\ pc[r] = "R.remove"
    /\ aside' = [aside EXCEPT ![r] = NoTree]
    /\ Goto(r, "over")
    /\ UNCHANGED <<active, rollback, vault, staging, plan, src, flags, log, user, crashes>>

-----------------------------------------------------------------------------
(* Compensation.  "over" without a "failed" record and without "logged" is  *)
(* drift, or TRANSACTION_RECOVERY_FAILED.                                   *)

UndoLook(o) ==
    /\ pc[o] = "U.look"
    /\ \/ /\ "moved" \in flags[o] /\ active = NoTree
          /\ Goto(o, IF Is(rollback[o], src[o], Reviewed(o)) THEN "U.back" ELSE "over")
          /\ UNCHANGED flags
       \/ /\ "restored" \in flags[o]
          /\ Goto(o, "U.check")
          /\ IF Is(Vault(o), src[o], Reviewed(o)) THEN Mark(o, "vaultOwned")
             ELSE UNCHANGED flags
       \/ /\ "restored" \notin flags[o] /\ ("moved" \notin flags[o] \/ active # NoTree)
          /\ Goto(o, "U.clean")
          /\ UNCHANGED flags
    /\ UNCHANGED <<trees, plan, src, log, user, crashes>>

UndoBack(q) ==
    /\ pc[q] = "U.back"
    /\ IF active = NoTree
       THEN /\ active' = rollback[q]
            /\ rollback' = [rollback EXCEPT ![q] = NoTree]
            /\ Goto(q, "U.check")
       ELSE Goto(q, "over") /\ UNCHANGED <<active, rollback>>
    /\ UNCHANGED <<vault, staging, aside, plan, src, flags, log, user, crashes>>

(* What the operation has put at the active path: the source of a           *)
(* quarantine stays there, the copy of a restore goes if the vault is whole.*)
UndoCheck(o) ==
    /\ pc[o] = "U.check"
    /\ IF o \in Quar
       THEN Goto(o, IF Is(active, src[o], Reviewed(o)) THEN "U.clean" ELSE "over")
       ELSE Goto(o, IF active = NoTree \/ active.ino # o THEN "U.clean"
                    ELSE IF active.content # Reviewed(o) THEN "over"
                    ELSE IF "vaultOwned" \in flags[o] THEN "U.take" ELSE "U.clean")
    /\ UNCHANGED <<trees, plan, src, flags, log, user, crashes>>

UndoTake(r) ==
    /\ pc[r] = "U.take"
    /\ IF active # NoTree
       THEN /\ aside' = [aside EXCEPT ![r] = active]
            /\ active' = NoTree
            /\ Goto(r, "U.recheck")
       ELSE Goto(r, "U.clean") /\ UNCHANGED <<aside, active>>
    /\ UNCHANGED <<rollback, vault, staging, plan, src, flags, log, user, crashes>>

(* Mutant of UndoRecheck: what was renamed is removed without a look.       *)
RemoveTaken(r) ==
    /\ pc[r] = "U.recheck"
    /\ aside' = [aside EXCEPT ![r] = NoTree]
    /\ Goto(r, "U.clean")
    /\ UNCHANGED <<active, rollback, vault, staging, plan, src, flags, log, user, crashes>>

(* A tree that is not the restored one goes back, or stays aside when the   *)
(* path is taken.                                                           *)
UndoRecheck(r) ==
    /\ pc[r] = "U.recheck"
    /\ \/ /\ Is(aside[r], r, Reviewed(r))
          /\ aside' = [aside EXCEPT ![r] = NoTree]
          /\ UNCHANGED active
       \/ /\ ~Is(aside[r], r, Reviewed(r)) /\ active = NoTree
          /\ active' = aside[r]
          /\ aside' = [aside EXCEPT ![r] = NoTree]
       \/ /\ ~Is(aside[r], r, Reviewed(r)) /\ active # NoTree
          /\ UNCHANGED <<active, aside>>
    /\ Goto(r, "U.clean")
    /\ UNCHANGED <<rollback, vault, staging, plan, src, flags, log, user, crashes>>

(* Private copies that are still exactly the operation's own go; a failure  *)
(* record follows unless the failure was drift or the journal refuses it.   *)
UndoClean(o) ==
    /\ pc[o] = "U.clean"
    /\ vault' = [q \in Quar |-> IF q = o /\ Is(vault[q], q, Reviewed(q))
                                THEN NoTree ELSE vault[q]]
    /\ staging' = IF Is(staging[o], o, Reviewed(o))
                  THEN [staging EXCEPT ![o] = NoTree] ELSE staging
    /\ \/ UNCHANGED log
       \/ "drift" \notin flags[o] /\ log' = log \cup {Record(o, "failed")}
    /\ Goto(o, "over")
    /\ UNCHANGED <<active, rollback, aside, plan, src, flags, user, crashes>>

-----------------------------------------------------------------------------
(* Failures injected at any boundary, process deaths, and the user.         *)

Fail(o) ==
    /\ pc[o] \in TryQ \cup TryR
    /\ Throw(o, Other)
    /\ UNCHANGED <<trees, plan, src, log, user, crashes>>

Crash(o) ==
    /\ crashes < CrashLimit /\ pc[o] \in Running
    /\ crashes' = crashes + 1
    /\ Goto(o, "over")
    /\ UNCHANGED <<trees, plan, src, flags, log, user>>

UserEdit ==
    /\ active # NoTree
    /\ \E c \in fresh :
         /\ active' = [active EXCEPT !.content = c]
         /\ wanted' = (wanted \ {active.content}) \cup {c}
         /\ fresh' = fresh \ {c}
    /\ UNCHANGED <<rollback, vault, staging, aside, plan, src, pc, flags, log, crashes>>

UserDelete ==
    /\ active # NoTree
    /\ active' = NoTree
    /\ wanted' = wanted \ {active.content}
    /\ UNCHANGED <<rollback, vault, staging, aside, plan, src, pc, flags, log, fresh, crashes>>

UserCreate ==
    /\ active = NoTree
    /\ \E c \in fresh :
         /\ active' = [ino |-> c, content |-> c]
         /\ wanted' = wanted \cup {c}
         /\ fresh' = fresh \ {c}
    /\ UNCHANGED <<rollback, vault, staging, aside, plan, src, pc, flags, log, crashes>>

Quarantine(q) ==
    \/ PlanQuarantine(q) \/ ApplyQuarantine(q) \/ QuarantineCopy(q) \/ QuarantineVerify(q)
    \/ QuarantineCheck(q) \/ QuarantineMove(q) \/ QuarantineMoved(q) \/ QuarantineVault(q)
    \/ QuarantineLog(q) \/ QuarantineConfirm(q) \/ QuarantineDrop(q) \/ UndoBack(q)

Restore(r) ==
    \/ PlanRestore(r) \/ ApplyRestore(r) \/ RestoreCopy(r) \/ RestoreVerify(r)
    \/ RestoreLook(r) \/ RestoreMove(r) \/ RestoreCheck(r) \/ RestoreLog(r)
    \/ RestoreConfirm(r) \/ RestoreTake(r) \/ RestoreRemove(r) \/ UndoTake(r)
    \/ UndoRecheck(r)

Either(o) == UndoLook(o) \/ UndoCheck(o) \/ UndoClean(o) \/ Fail(o) \/ Crash(o)

Next ==
    \/ \E q \in Quar : Quarantine(q)
    \/ \E r \in Rest : Restore(r)
    \/ \E o \in Op : Either(o)
    \/ UserEdit \/ UserDelete \/ UserCreate

Spec == Init /\ [][Next]_vars

-----------------------------------------------------------------------------
TypeOK ==
    /\ active \in Tree \cup {NoTree}
    /\ rollback \in [Quar -> Tree \cup {NoTree}]
    /\ vault \in [Quar -> Tree \cup {NoTree}]
    /\ staging \in [Op -> Tree \cup {NoTree}]
    /\ aside \in [Op -> Tree \cup {NoTree}]
    /\ plan \in [Op -> Plan \cup {NoPlan}]
    /\ src \in [Op -> Op \cup Content]
    /\ pc \in [Op -> PC]
    /\ flags \in [Op -> SUBSET Flags]
    /\ log \subseteq [op : Op, status : {"quarantined", "restored", "failed"}, of : Quar]
    /\ wanted \subseteq Content /\ fresh \subseteq Content
    /\ crashes \in Nat

(* Whatever two operations, their failures and compensations do to one      *)
(* another, no content the user still wants disappears: it is at the active *)
(* path, in a vault, in a rollback, or renamed aside and kept ("failure     *)
(* recovery preserves at least one fingerprint-verified copy").  A copy in  *)
(* staging does not count.                                                  *)
NothingLost ==
    \A c \in wanted :
        \/ Holds(active, c)
        \/ \E q \in Quar : Holds(rollback[q], c) \/ Holds(vault[q], c)
        \/ \E o \in Op : Holds(aside[o], c)

(* A quarantine that has reported success still has its verified copy in    *)
(* the vault until a restore of it has succeeded, whatever competing        *)
(* restores and their compensations do to the vault.                        *)
RecordBacked ==
    \A q \in Quar :
        "logged" \in flags[q] =>
            \/ Holds(vault[q], Reviewed(q))
            \/ \E r \in Rest : "logged" \in flags[r] /\ plan[r].of = q

(* A quarantine that was journaled has moved the reviewed content and no    *)
(* edit made after the review.                                              *)
MovesOnlyReviewed ==
    \A q \in Quar : Quarantined(q) /\ rollback[q] # NoTree => Holds(rollback[q], Reviewed(q))

(* A quarantine is restored at most once ("Quarantine was already restored")*)
RestoredOnce ==
    \A k, l \in log : k.status = "restored" /\ l.status = "restored" /\ k.of = l.of => k = l

=============================================================================

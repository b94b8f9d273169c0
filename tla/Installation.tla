---------------------------- MODULE Installation ----------------------------
(* Installing a Skill at one destination and rolling installations back     *)
(* (packages/installer), under the portfolio lease.                         *)
(*                                                                          *)
(* The lease is the lock PortfolioLock that MutationLease implements.       *)
(* Trees are compared by fingerprint only, as the installer does.           *)
EXTENDS Naturals

CONSTANTS
    Inst,           \* reviewed installation plans, each applied once
    Back,           \* rollback requests
    Source,         \* contents of inspected sources
    Own,            \* contents the user makes, each once
    Mixed,          \* an incomplete tree
    None,           \* no tree
    UserDuring,     \* may the user write while a mutation runs?
    CrashLimit      \* bound: how many mutations are cut short by a death

Op == Inst \cup Back
Content == Source \cup Own \cup {Mixed}

ASSUME InstallationConstants ==
    /\ Inst \cap Back = {} /\ Source \cap Own = {}
    /\ Mixed \notin Source \cup Own /\ None \notin Content \cup Inst
    /\ "free" \notin Op /\ "stranded" \notin Op
    /\ UserDuring \in BOOLEAN /\ CrashLimit \in Nat

VARIABLES
    dest,           \* the tree at the destination
    copy,           \* per plan: the temporary copy beside the destination
    backup,         \* per plan: the replaced tree
    aside,          \* per rollback: the installed tree moved aside
    plan,           \* per plan: new content, and the content to be replaced
    target,         \* per rollback: the installation to roll back
    record,         \* per plan: status of its last journal record; "doubtful"
                    \* is "installed" in a record whose append failed
    pc,
    lock,           \* the portfolio lease
    wanted,         \* the user's own contents, those they replaced excepted
    crashes

Lease == INSTANCE PortfolioLock WITH Proc <- Op

trees == <<dest, copy, backup, aside>>
vars  == <<dest, copy, backup, aside, plan, target, record, pc, lock, wanted, crashes>>

InstallAt  == {"I.check", "I.copy", "I.recheck", "I.backup", "I.place", "I.log",
               "U.remove", "U.back", "U.copy"}
RollbackAt == {"R.check", "R.move", "R.backup", "R.remove", "R.log", "R.undo"}
PC == {"idle", "planned", "release", "over"} \cup InstallAt \cup RollbackAt

Init ==
    /\ dest \in Own \cup {None}
    /\ wanted = {dest} \ {None}
    /\ copy = [i \in Inst |-> None]
    /\ backup = [i \in Inst |-> None]
    /\ aside = [b \in Back |-> None]
    /\ plan = [i \in Inst |-> [new |-> None, old |-> None]]
    /\ target = [b \in Back |-> None]
    /\ record = [i \in Inst |-> "none"]
    /\ pc = [o \in Op |-> "idle"]
    /\ Lease!Init
    /\ crashes = 0

Goto(o, label) == pc' = [pc EXCEPT ![o] = label]

-----------------------------------------------------------------------------
(* planInstallation, applyInstallationPlan.                                 *)

(* Mutant of PlanInstall: content that is already installed is planned too. *)
PlanNoop(i) ==
    /\ pc[i] = "idle"
    /\ \E s \in Source \cup {dest} : plan' = [plan EXCEPT ![i] = [new |-> s, old |-> dest]]
    /\ Goto(i, "planned")
    /\ UNCHANGED <<trees, target, record, lock, wanted, crashes>>

PlanInstall(i) ==
    /\ pc[i] = "idle"
    /\ \E s \in Source \ {dest} : plan' = [plan EXCEPT ![i] = [new |-> s, old |-> dest]]
    /\ Goto(i, "planned")
    /\ UNCHANGED <<trees, target, record, lock, wanted, crashes>>

(* Mutant of StartInstall: the installation does not wait for the lease.    *)
InstallUnlocked(i) ==
    /\ pc[i] = "planned"
    /\ Goto(i, "I.check")
    /\ UNCHANGED <<trees, plan, target, record, lock, wanted, crashes>>

StartInstall(i) ==
    /\ pc[i] = "planned"
    /\ Lease!Acquire(i)
    /\ Goto(i, "I.check")
    /\ UNCHANGED <<trees, plan, target, record, wanted, crashes>>

(* Refused when the plan has expired or the source or destination drifted.  *)
InstallCheck(i) ==
    /\ pc[i] = "I.check"
    /\ \/ dest = plan[i].old /\ Goto(i, "I.copy")
       \/ Goto(i, "release")
    /\ UNCHANGED <<trees, plan, target, record, lock, wanted, crashes>>

(* A copy that cannot be completed stays; one that differs is removed.      *)
InstallCopy(i) ==
    /\ pc[i] = "I.copy"
    /\ \/ /\ copy' = [copy EXCEPT ![i] = plan[i].new]
          /\ Goto(i, "I.recheck")
       \/ /\ copy' \in {copy, [copy EXCEPT ![i] = Mixed]}
          /\ Goto(i, "release")
    /\ UNCHANGED <<dest, backup, aside, plan, target, record, lock, wanted, crashes>>

InstallRecheck(i) ==
    /\ pc[i] = "I.recheck"
    /\ Goto(i, IF dest # plan[i].old THEN "U.copy"
               ELSE IF plan[i].old = None THEN "I.place" ELSE "I.backup")
    /\ UNCHANGED <<trees, plan, target, record, lock, wanted, crashes>>

InstallBackup(i) ==
    /\ pc[i] = "I.backup"
    /\ IF dest # None
       THEN /\ backup' = [backup EXCEPT ![i] = dest]
            /\ dest' = None
            /\ Goto(i, "I.place")
       ELSE Goto(i, "U.copy") /\ UNCHANGED <<dest, backup>>
    /\ UNCHANGED <<copy, aside, plan, target, record, lock, wanted, crashes>>

(* A rename onto a directory that is not empty fails.                       *)
InstallPlace(i) ==
    /\ pc[i] = "I.place"
    /\ IF dest = None
       THEN /\ dest' = copy[i]
            /\ copy' = [copy EXCEPT ![i] = None]
            /\ Goto(i, "I.log")
       ELSE Goto(i, "U.back") /\ UNCHANGED <<dest, copy>>
    /\ UNCHANGED <<backup, aside, plan, target, record, lock, wanted, crashes>>

(* An append that fails may have written its record all the same; the       *)
(* installation is undone, and the journal goes on to tell of it.           *)
InstallLog(i) ==
    /\ pc[i] = "I.log"
    /\ \/ record' = [record EXCEPT ![i] = "installed"] /\ Goto(i, "release")
       \/ record' \in {record, [record EXCEPT ![i] = "doubtful"]} /\ Goto(i, "U.remove")
    /\ UNCHANGED <<trees, plan, target, lock, wanted, crashes>>

UndoRemove(i) ==
    /\ pc[i] = "U.remove"
    /\ dest' = None
    /\ Goto(i, "U.back")
    /\ UNCHANGED <<copy, backup, aside, plan, target, record, lock, wanted, crashes>>

(* Mutant of UndoBack: the backup is left behind.                           *)
UndoWithoutBackup(i) ==
    /\ pc[i] = "U.back"
    /\ backup' = [backup EXCEPT ![i] = None]
    /\ Goto(i, "U.copy")
    /\ UNCHANGED <<dest, copy, aside, plan, target, record, lock, wanted, crashes>>

UndoBack(i) ==
    /\ pc[i] = "U.back"
    /\ \/ /\ backup[i] # None /\ dest = None
          /\ dest' = backup[i]
          /\ backup' = [backup EXCEPT ![i] = None]
          /\ Goto(i, "U.copy")
       \/ /\ backup[i] # None /\ dest # None                      \* ENOTEMPTY
          /\ Goto(i, "release")
          /\ UNCHANGED <<dest, backup>>
       \/ /\ backup[i] = None
          /\ Goto(i, "U.copy")
          /\ UNCHANGED <<dest, backup>>
    /\ UNCHANGED <<copy, aside, plan, target, record, lock, wanted, crashes>>

UndoCopy(i) ==
    /\ pc[i] = "U.copy"
    /\ copy' = [copy EXCEPT ![i] = None]
    /\ Goto(i, "release")
    /\ UNCHANGED <<dest, backup, aside, plan, target, record, lock, wanted, crashes>>

-----------------------------------------------------------------------------
(* rollbackInstallation.                                                    *)

Recorded(i) == record[i] \in {"installed", "doubtful"}

StartRollback(b) ==
    /\ pc[b] = "idle"
    /\ \E i \in Inst : record[i] # "none" /\ target' = [target EXCEPT ![b] = i]
    /\ Lease!Acquire(b)
    /\ Goto(b, "R.check")
    /\ UNCHANGED <<trees, plan, record, wanted, crashes>>

RollbackCheck(b) ==
    /\ pc[b] = "R.check"
    /\ LET i == target[b] IN
         Goto(b, IF Recorded(i) /\ dest = plan[i].new THEN "R.move" ELSE "release")
    /\ UNCHANGED <<trees, plan, target, record, lock, wanted, crashes>>

RollbackMove(b) ==
    /\ pc[b] = "R.move"
    /\ IF dest # None
       THEN /\ aside' = [aside EXCEPT ![b] = dest]
            /\ dest' = None
            /\ Goto(b, "R.backup")
       ELSE Goto(b, "release") /\ UNCHANGED <<aside, dest>>
    /\ UNCHANGED <<copy, backup, plan, target, record, lock, wanted, crashes>>

(* Mutant of RollbackBackup: the backup is not compared with the record.    *)
PlaceAnyBackup(b) ==
    /\ pc[b] = "R.backup"
    /\ LET i == target[b] IN
         IF plan[i].old # None /\ backup[i] # None
         THEN dest' = backup[i] /\ backup' = [backup EXCEPT ![i] = None]
         ELSE UNCHANGED <<dest, backup>>
    /\ Goto(b, "R.remove")
    /\ UNCHANGED <<copy, aside, plan, target, record, lock, wanted, crashes>>

RollbackBackup(b) ==
    /\ pc[b] = "R.backup"
    /\ LET i == target[b] IN
       \/ /\ plan[i].old = None
          /\ Goto(b, "R.remove")
          /\ UNCHANGED <<dest, backup>>
       \/ /\ plan[i].old # None /\ backup[i] = plan[i].old /\ dest = None
          /\ dest' = backup[i]
          /\ backup' = [backup EXCEPT ![i] = None]
          /\ Goto(b, "R.remove")
       \/ /\ plan[i].old # None /\ (backup[i] # plan[i].old \/ dest # None)
          /\ Goto(b, "R.undo")
          /\ UNCHANGED <<dest, backup>>
    /\ UNCHANGED <<copy, aside, plan, target, record, lock, wanted, crashes>>

RollbackRemove(b) ==
    /\ pc[b] = "R.remove"
    /\ \/ aside' = [aside EXCEPT ![b] = None] /\ Goto(b, "R.log")
       \/ aside' \in {aside, [aside EXCEPT ![b] = Mixed]} /\ Goto(b, "R.undo")
    /\ UNCHANGED <<dest, copy, backup, plan, target, record, lock, wanted, crashes>>

RollbackUndo(b) ==
    /\ pc[b] = "R.undo"
    /\ IF dest = None
       THEN /\ dest' = aside[b]
            /\ aside' = [aside EXCEPT ![b] = None]
       ELSE UNCHANGED <<dest, aside>>                              \* ENOTEMPTY
    /\ Goto(b, "release")
    /\ UNCHANGED <<copy, backup, plan, target, record, lock, wanted, crashes>>

RollbackLog(b) ==
    /\ pc[b] = "R.log"
    /\ record' \in {record, [record EXCEPT ![target[b]] = "rolled-back"]}
    /\ Goto(b, "release")
    /\ UNCHANGED <<trees, plan, target, lock, wanted, crashes>>

-----------------------------------------------------------------------------
(* The lease, deaths and the user.                                          *)

Release(o) ==
    /\ pc[o] = "release"
    /\ Lease!Release(o)
    /\ Goto(o, "over")
    /\ UNCHANGED <<trees, plan, target, record, wanted, crashes>>

Crash(o) ==
    /\ crashes < CrashLimit /\ lock = o
    /\ Lease!Strand
    /\ crashes' = crashes + 1
    /\ Goto(o, "over")
    /\ UNCHANGED <<trees, plan, target, record, wanted>>

Recover ==
    /\ Lease!Recover
    /\ UNCHANGED <<trees, plan, target, record, pc, wanted, crashes>>

Allowed == UserDuring \/ lock \notin Op

(* The user edits, creates or deletes the Skill at the destination.         *)
UserWrite ==
    /\ Allowed
    /\ \E c \in Own \ wanted :
         /\ \A i \in Inst : c # backup[i] /\ c # plan[i].old
         /\ c # dest /\ \A b \in Back : c # aside[b]
         /\ dest' = c
         /\ wanted' = (wanted \ {dest}) \cup {c}
    /\ UNCHANGED <<copy, backup, aside, plan, target, record, pc, lock, crashes>>

UserDelete ==
    /\ Allowed /\ dest # None
    /\ dest' = None
    /\ wanted' = wanted \ {dest}
    /\ UNCHANGED <<copy, backup, aside, plan, target, record, pc, lock, crashes>>

Install(i) ==
    \/ PlanInstall(i) \/ StartInstall(i) \/ InstallCheck(i) \/ InstallCopy(i)
    \/ InstallRecheck(i) \/ InstallBackup(i) \/ InstallPlace(i) \/ InstallLog(i)
    \/ UndoRemove(i) \/ UndoBack(i) \/ UndoCopy(i)

Rollback(b) ==
    \/ StartRollback(b) \/ RollbackCheck(b) \/ RollbackMove(b) \/ RollbackBackup(b)
    \/ RollbackRemove(b) \/ RollbackUndo(b) \/ RollbackLog(b)

Next ==
    \/ \E i \in Inst : Install(i)
    \/ \E b \in Back : Rollback(b)
    \/ \E o \in Op : Release(o) \/ Crash(o)
    \/ Recover \/ UserWrite \/ UserDelete

Spec == Init /\ [][Next]_vars

-----------------------------------------------------------------------------
TypeOK ==
    /\ dest \in Content \cup {None}
    /\ copy \in [Inst -> Content \cup {None}]
    /\ backup \in [Inst -> Content \cup {None}]
    /\ aside \in [Back -> Content \cup {None}]
    /\ plan \in [Inst -> [new : Source \cup {None}, old : Content \cup {None}]]
    /\ \A i \in Inst :
         pc[i] \in {"planned"} \cup InstallAt => plan[i].new \in Source \ {plan[i].old}
    /\ target \in [Back -> Inst \cup {None}]
    /\ \A b \in Back : pc[b] \in RollbackAt => target[b] \in Inst
    /\ record \in [Inst -> {"none", "installed", "doubtful", "rolled-back"}]
    /\ pc \in [Op -> PC]
    /\ lock \in Op \cup {"free", "stranded"}
    /\ wanted \subseteq Own
    /\ crashes \in Nat

(* The backup of every installation that succeeded is the content it        *)
(* replaced ("that record's backup must still match the original            *)
(* fingerprint"), until a rollback has put it back.                         *)
BackupMatches ==
    \A i \in Inst :
        record[i] = "installed" /\ plan[i].old # None =>
            \/ backup[i] = plan[i].old
            \/ backup[i] = None /\ \E b \in Back : target[b] = i

(* No content the user made and still wants is lost: it is at the           *)
(* destination, or kept as a backup or beside the destination.              *)
NothingLost ==
    \A c \in wanted :
        \/ dest = c
        \/ \E i \in Inst : backup[i] = c
        \/ \E b \in Back : aside[b] = c

(* A rollback removes only content it has fingerprinted as the installed    *)
(* one ("rollback ... stop when evidence has drifted"). The code checks the *)
(* destination before it moves the tree aside and not again before removal. *)
RollbackGuarded ==
    \A b \in Back : pc[b] = "R.remove" => aside[b] = plan[target[b]].new

(* A rollback that is journaled has put the replaced content back, also one *)
(* of an installation whose append failed and left its record.              *)
RollbackRestores ==
    [][\A i \in Inst : Recorded(i) /\ record'[i] = "rolled-back" =>
         dest = plan[i].old]_vars

=============================================================================

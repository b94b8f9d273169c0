--------------------------- MODULE InstallerProofs ---------------------------
(***************************************************************************)
(* Proofs about the installer.  Of installation and rollback, for every    *)
(* number of plans, rollbacks, sources and process deaths, as long as the  *)
(* user does not write at the destination while a mutation runs.  Of the   *)
(* staging of sources, for every number of calls, files, failures, deaths  *)
(* and edits: what is installed is what was inspected (Base and Rest), a   *)
(* plan that was shown has its preview (Shown), and nothing is left without*)
(* a reason (LeftInv).                                                     *)
(***************************************************************************)
EXTENDS Installation, StagedPreviews, TLAPS

(* An operation at work.                                                    *)
Busy(o) == pc[o] \in InstallAt \cup RollbackAt \cup {"release"}

(* Who works holds the lease.                                               *)
BusyHoldsLock == \A o \in Op : Busy(o) => lock = o

(* What an installation knows at each of its steps.                         *)
Installing(i) ==
    /\ pc[i] \in {"idle", "planned"} \cup InstallAt =>
         record[i] = "none" \/ (record[i] = "doubtful" /\ pc[i] \in {"U.remove", "U.back", "U.copy"})
    /\ pc[i] \in {"idle", "planned", "I.check", "I.copy", "I.recheck", "I.backup"} =>
         backup[i] = None
    /\ pc[i] \in {"I.recheck", "I.backup", "I.place"} => copy[i] = plan[i].new
    /\ pc[i] = "I.backup" => dest = plan[i].old /\ dest # None
    /\ pc[i] \in {"I.place", "I.log"} /\ plan[i].old # None => backup[i] = plan[i].old
    /\ pc[i] \in {"I.log", "U.remove"} => dest = plan[i].new
    /\ record[i] # "none" => plan[i].new \in Source

(* What a rollback knows at each of its steps.                              *)
Rolling(b) ==
    /\ pc[b] = "idle" => target[b] = None
    /\ pc[b] \in {"idle", "R.check", "R.move"} => aside[b] = None
    /\ pc[b] \in RollbackAt \ {"R.check"} => Recorded(target[b])
    /\ pc[b] = "R.move" => dest = plan[target[b]].new
    /\ pc[b] \in {"R.backup", "R.remove"} => aside[b] = plan[target[b]].new
    /\ pc[b] = "R.backup" => dest = None
    /\ pc[b] \in {"R.remove", "R.log"} => dest = plan[target[b]].old

StepInv ==
    /\ BusyHoldsLock
    /\ \A i \in Inst : Installing(i)
    /\ \A b \in Back : Rolling(b)

InstInv == TypeOK /\ StepInv /\ BackupMatches /\ NothingLost

-----------------------------------------------------------------------------
LEMMA InstallTypeInit == Init => TypeOK
  BY InstallationConstants DEF Init, TypeOK, Op, Content, PC, InstallAt, RollbackAt, Lease!Init

(* A step to a label keeps the types of pc, of the plans being applied and  *)
(* of the targets of rollbacks.                                             *)
LEMMA GotoKeepsType ==
  ASSUME NEW o \in Op, NEW label \in PC \ {"planned"}, TypeOK, Goto(o, label),
         UNCHANGED <<plan, target>>,
         o \in Inst /\ label \in InstallAt => pc[o] \in {"planned"} \cup InstallAt,
         o \in Back /\ label \in RollbackAt => pc[o] \in RollbackAt
  PROVE  /\ pc' \in [Op -> PC]
         /\ \A i \in Inst : pc'[i] \in {"planned"} \cup InstallAt =>
              plan'[i].new \in Source \ {plan'[i].old}
         /\ \A b \in Back : pc'[b] \in RollbackAt => target'[b] \in Inst
<1>1. pc' \in [Op -> PC]
  BY DEF Goto, TypeOK
<1>2. ASSUME NEW p \in Op PROVE pc'[p] = IF p = o THEN label ELSE pc[p]
  BY DEF Goto, TypeOK
<1>3. ASSUME NEW i \in Inst, pc'[i] \in {"planned"} \cup InstallAt
      PROVE  pc[i] \in {"planned"} \cup InstallAt
  BY <1>2, <1>3 DEF Op
<1>4. ASSUME NEW b \in Back, pc'[b] \in RollbackAt PROVE pc[b] \in RollbackAt
  BY <1>2, <1>4 DEF Op
<1> QED
  BY <1>1, <1>3, <1>4 DEF TypeOK

LEMMA InstallTypeStep == TypeOK /\ [Next]_vars => TypeOK'
<1> SUFFICES ASSUME TypeOK, [Next]_vars PROVE TypeOK'
  OBVIOUS
<1> USE InstallationConstants DEF trees
<1> /\ {"idle", "planned", "release", "over"} \cup InstallAt \cup RollbackAt \subseteq PC
    /\ {"planned", "release", "over"} \cap InstallAt = {}
    /\ {"planned", "release", "over"} \cap RollbackAt = {}
    /\ InstallAt \cap RollbackAt = {}
  BY DEF PC, InstallAt, RollbackAt
<1>1. CASE UNCHANGED vars
  BY <1>1 DEF TypeOK, vars
<1>2. ASSUME NEW i \in Inst, Install(i) PROVE TypeOK'
  <2> USE DEF InstallAt
  <2> i \in Op /\ i \notin Back
    BY DEF Op
  <2>1. CASE PlanInstall(i)
    BY <2>1 DEF PlanInstall, Goto, TypeOK, Op, Content
  <2>2. CASE StartInstall(i)
    BY <2>2, GotoKeepsType DEF StartInstall, TypeOK, Lease!Acquire
  <2>3. CASE InstallCheck(i) \/ InstallRecheck(i)
    BY <2>3, GotoKeepsType DEF InstallCheck, InstallRecheck, TypeOK
  <2>4. CASE InstallCopy(i)
    <3>1. copy' \in [Inst -> Content \cup {None}]
      BY <2>4 DEF InstallCopy, TypeOK, Content
    <3> QED
      BY <2>4, <3>1, GotoKeepsType DEF InstallCopy, TypeOK
  <2>5. CASE InstallBackup(i)
    <3>1. dest' \in Content \cup {None} /\ backup' \in [Inst -> Content \cup {None}]
      BY <2>5 DEF InstallBackup, TypeOK
    <3>2. \E label \in {"I.place", "U.copy"} : Goto(i, label)
      BY <2>5 DEF InstallBackup
    <3> QED
      BY <2>5, <3>1, <3>2, GotoKeepsType DEF InstallBackup, TypeOK
  <2>6. CASE InstallPlace(i)
    <3>1. dest' \in Content \cup {None} /\ copy' \in [Inst -> Content \cup {None}]
      BY <2>6 DEF InstallPlace, TypeOK
    <3>2. \E label \in {"I.log", "U.back"} : Goto(i, label)
      BY <2>6 DEF InstallPlace
    <3> QED
      BY <2>6, <3>1, <3>2, GotoKeepsType DEF InstallPlace, TypeOK
  <2>7. CASE InstallLog(i)
    BY <2>7, GotoKeepsType DEF InstallLog, TypeOK
  <2>8. CASE UndoRemove(i)
    BY <2>8, GotoKeepsType DEF UndoRemove, TypeOK
  <2>9. CASE UndoBack(i)
    <3>1. dest' \in Content \cup {None} /\ backup' \in [Inst -> Content \cup {None}]
      BY <2>9 DEF UndoBack, TypeOK
    <3>2. \E label \in {"U.copy", "release"} : Goto(i, label)
      BY <2>9 DEF UndoBack
    <3> QED
      BY <2>9, <3>1, <3>2, GotoKeepsType DEF UndoBack, TypeOK
  <2>10. CASE UndoCopy(i)
    BY <2>10, GotoKeepsType DEF UndoCopy, TypeOK
  <2> QED
    BY <1>2, <2>1, <2>2, <2>3, <2>4, <2>5, <2>6, <2>7, <2>8, <2>9, <2>10 DEF Install
<1>3. ASSUME NEW b \in Back, Rollback(b) PROVE TypeOK'
  <2> USE DEF RollbackAt
  <2> b \in Op /\ b \notin Inst
    BY DEF Op
  <2>1. CASE StartRollback(b)
    <3>1. pc' \in [Op -> PC] /\ target' \in [Back -> Inst \cup {None}]
      BY <2>1 DEF StartRollback, Goto, TypeOK
    <3>2. \A i \in Inst : pc'[i] = pc[i]
      BY <2>1 DEF StartRollback, Goto, TypeOK, Op
    <3>3. \A a \in Back : pc'[a] \in RollbackAt => target'[a] \in Inst
      BY <2>1 DEF StartRollback, Goto, TypeOK, Op
    <3> QED
      BY <2>1, <3>1, <3>2, <3>3 DEF StartRollback, TypeOK, Lease!Acquire
  <2>2. CASE RollbackCheck(b)
    BY <2>2, GotoKeepsType DEF RollbackCheck, TypeOK
  <2>3. CASE RollbackMove(b)
    <3>1. dest' \in Content \cup {None} /\ aside' \in [Back -> Content \cup {None}]
      BY <2>3 DEF RollbackMove, TypeOK
    <3>2. \E label \in {"R.backup", "release"} : Goto(b, label)
      BY <2>3 DEF RollbackMove
    <3> QED
      BY <2>3, <3>1, <3>2, GotoKeepsType DEF RollbackMove, TypeOK
  <2>4. CASE RollbackBackup(b)
    <3>1. dest' \in Content \cup {None} /\ backup' \in [Inst -> Content \cup {None}]
      BY <2>4 DEF RollbackBackup, TypeOK
    <3> QED
      BY <2>4, <3>1, GotoKeepsType DEF RollbackBackup, TypeOK
  <2>5. CASE RollbackRemove(b)
    <3>1. aside' \in [Back -> Content \cup {None}]
      BY <2>5 DEF RollbackRemove, TypeOK, Content
    <3> QED
      BY <2>5, <3>1, GotoKeepsType DEF RollbackRemove, TypeOK
  <2>6. CASE RollbackUndo(b)
    <3>1. dest' \in Content \cup {None} /\ aside' \in [Back -> Content \cup {None}]
      BY <2>6 DEF RollbackUndo, TypeOK
    <3> QED
      BY <2>6, <3>1, GotoKeepsType DEF RollbackUndo, TypeOK
  <2>7. CASE RollbackLog(b)
    <3>1. record' \in [Inst -> {"none", "installed", "doubtful", "rolled-back"}]
      BY <2>7 DEF RollbackLog, TypeOK
    <3> QED
      BY <2>7, <3>1, GotoKeepsType DEF RollbackLog, TypeOK
  <2> QED
    BY <1>3, <2>1, <2>2, <2>3, <2>4, <2>5, <2>6, <2>7 DEF Rollback
<1>4. ASSUME NEW o \in Op, Release(o) \/ Crash(o) PROVE TypeOK'
  BY <1>4, GotoKeepsType DEF Release, Crash, Lease!Release, Lease!Strand, TypeOK
<1>5. CASE Recover \/ UserWrite \/ UserDelete
  BY <1>5 DEF Recover, UserWrite, UserDelete, Lease!Recover, TypeOK, Content
<1> QED
  BY <1>1, <1>2, <1>3, <1>4, <1>5 DEF Next

(* Every variable of the installer has its type, and a plan that is being   *)
(* applied replaces something by a source that differs from it.             *)
THEOREM InstallTypeCorrect == Spec => []TypeOK
  BY InstallTypeInit, InstallTypeStep, PTL DEF Spec

-----------------------------------------------------------------------------
LEMMA InstInvInit == Init => InstInv
<1> SUFFICES ASSUME Init PROVE InstInv
  OBVIOUS
<1>1. TypeOK
  BY InstallTypeInit
<1>2. StepInv
  BY InstallationConstants DEF Init, StepInv, BusyHoldsLock, Busy, Installing, Rolling, Op,
     InstallAt, RollbackAt
<1>3. BackupMatches /\ NothingLost
  BY DEF Init, BackupMatches, NothingLost
<1> QED
  BY <1>1, <1>2, <1>3 DEF InstInv

LEMMA InstInvStep == ~UserDuring /\ InstInv /\ [Next]_vars => InstInv'
<1> SUFFICES ASSUME ~UserDuring, InstInv, [Next]_vars PROVE InstInv'
  OBVIOUS
<1> USE InstallationConstants
    DEF trees, Goto, Recorded, InstInv, StepInv, BusyHoldsLock, Busy, InstallAt, RollbackAt, Op
<1>0. TypeOK'
  BY InstallTypeStep
<1>1. CASE UNCHANGED vars
  BY <1>0, <1>1 DEF vars, Installing, Rolling, BackupMatches, NothingLost
<1>2. ASSUME NEW i \in Inst, Install(i) PROVE InstInv'
  <2>1. CASE PlanInstall(i)
    <3>1. BusyHoldsLock'
      BY <2>1 DEF PlanInstall, TypeOK
    <3>2. \A j \in Inst : Installing(j)'
      BY <2>1 DEF PlanInstall, Installing, Rolling, TypeOK
    <3>3. \A a \in Back : Rolling(a)'
      BY <2>1 DEF PlanInstall, Installing, Rolling, TypeOK
    <3>4. BackupMatches'
      BY <2>1 DEF PlanInstall, Installing, Rolling, BackupMatches, TypeOK
    <3>5. NothingLost'
      BY <2>1 DEF PlanInstall, Installing, Rolling, NothingLost, TypeOK, Content
    <3> QED
      BY <1>0, <3>1, <3>2, <3>3, <3>4, <3>5
  <2>2. CASE StartInstall(i)
    <3>1. BusyHoldsLock'
      BY <2>2 DEF StartInstall, TypeOK, Lease!Acquire
    <3>2. \A j \in Inst : Installing(j)'
      BY <2>2 DEF StartInstall, Installing, Rolling, TypeOK, Lease!Acquire
    <3>3. \A a \in Back : Rolling(a)'
      BY <2>2 DEF StartInstall, Installing, Rolling, TypeOK, Lease!Acquire
    <3>4. BackupMatches'
      BY <2>2 DEF StartInstall, Installing, Rolling, BackupMatches, TypeOK
    <3>5. NothingLost'
      BY <2>2 DEF StartInstall, Installing, Rolling, NothingLost, TypeOK, Content
    <3> QED
      BY <1>0, <3>1, <3>2, <3>3, <3>4, <3>5
  <2>3. CASE InstallCheck(i)
    <3>1. BusyHoldsLock'
      BY <2>3 DEF InstallCheck, TypeOK
    <3>2. \A j \in Inst : Installing(j)'
      BY <2>3 DEF InstallCheck, Installing, Rolling, TypeOK
    <3>3. \A a \in Back : Rolling(a)'
      BY <2>3 DEF InstallCheck, Installing, Rolling, TypeOK
    <3>4. BackupMatches'
      BY <2>3 DEF InstallCheck, Installing, Rolling, BackupMatches, TypeOK
    <3>5. NothingLost'
      BY <2>3 DEF InstallCheck, Installing, Rolling, NothingLost, TypeOK, Content
    <3> QED
      BY <1>0, <3>1, <3>2, <3>3, <3>4, <3>5
  <2>4. CASE InstallCopy(i)
    <3>1. BusyHoldsLock'
      BY <2>4 DEF InstallCopy, TypeOK
    <3>2. \A j \in Inst : Installing(j)'
      BY <2>4 DEF InstallCopy, Installing, Rolling, TypeOK
    <3>3. \A a \in Back : Rolling(a)'
      BY <2>4 DEF InstallCopy, Installing, Rolling, TypeOK
    <3>4. BackupMatches'
      BY <2>4 DEF InstallCopy, Installing, Rolling, BackupMatches, TypeOK
    <3>5. NothingLost'
      BY <2>4 DEF InstallCopy, Installing, Rolling, NothingLost, TypeOK, Content
    <3> QED
      BY <1>0, <3>1, <3>2, <3>3, <3>4, <3>5
  <2>5. CASE InstallRecheck(i)
    <3>1. BusyHoldsLock'
      BY <2>5 DEF InstallRecheck, TypeOK
    <3>2. \A j \in Inst : Installing(j)'
      BY <2>5 DEF InstallRecheck, Installing, Rolling, TypeOK
    <3>3. \A a \in Back : Rolling(a)'
      BY <2>5 DEF InstallRecheck, Installing, Rolling, TypeOK
    <3>4. BackupMatches'
      BY <2>5 DEF InstallRecheck, Installing, Rolling, BackupMatches, TypeOK
    <3>5. NothingLost'
      BY <2>5 DEF InstallRecheck, Installing, Rolling, NothingLost, TypeOK, Content
    <3> QED
      BY <1>0, <3>1, <3>2, <3>3, <3>4, <3>5
  <2>6. CASE InstallBackup(i)
    <3>1. BusyHoldsLock'
      BY <2>6 DEF InstallBackup, TypeOK
    <3>2. \A j \in Inst : Installing(j)'
      BY <2>6 DEF InstallBackup, Installing, Rolling, TypeOK
    <3>3. \A a \in Back : Rolling(a)'
      BY <2>6 DEF InstallBackup, Installing, Rolling, TypeOK
    <3>4. BackupMatches'
      BY <2>6 DEF InstallBackup, Installing, Rolling, BackupMatches, TypeOK
    <3>5. NothingLost'
      BY <2>6 DEF InstallBackup, Installing, Rolling, NothingLost, TypeOK, Content
    <3> QED
      BY <1>0, <3>1, <3>2, <3>3, <3>4, <3>5
  <2>7. CASE InstallPlace(i)
    <3>1. BusyHoldsLock'
      BY <2>7 DEF InstallPlace, TypeOK
    <3>2. \A j \in Inst : Installing(j)'
      BY <2>7 DEF InstallPlace, Installing, Rolling, TypeOK
    <3>3. \A a \in Back : Rolling(a)'
      BY <2>7 DEF InstallPlace, Installing, Rolling, TypeOK
    <3>4. BackupMatches'
      BY <2>7 DEF InstallPlace, Installing, Rolling, BackupMatches, TypeOK
    <3>5. NothingLost'
      BY <2>7 DEF InstallPlace, Installing, Rolling, NothingLost, TypeOK, Content
    <3> QED
      BY <1>0, <3>1, <3>2, <3>3, <3>4, <3>5
  <2>8. CASE InstallLog(i)
    <3>1. BusyHoldsLock'
      BY <2>8 DEF InstallLog, TypeOK
    <3>2. \A j \in Inst : Installing(j)'
      BY <2>8 DEF InstallLog, Installing, Rolling, TypeOK
    <3>3. \A a \in Back : Rolling(a)'
      BY <2>8 DEF InstallLog, Installing, Rolling, TypeOK
    <3>4. BackupMatches'
      BY <2>8 DEF InstallLog, Installing, Rolling, BackupMatches, TypeOK
    <3>5. NothingLost'
      BY <2>8 DEF InstallLog, Installing, Rolling, NothingLost, TypeOK, Content
    <3> QED
      BY <1>0, <3>1, <3>2, <3>3, <3>4, <3>5
  <2>9. CASE UndoRemove(i)
    <3>1. BusyHoldsLock'
      BY <2>9 DEF UndoRemove, TypeOK
    <3>2. \A j \in Inst : Installing(j)'
      BY <2>9 DEF UndoRemove, Installing, Rolling, TypeOK
    <3>3. \A a \in Back : Rolling(a)'
      BY <2>9 DEF UndoRemove, Installing, Rolling, TypeOK
    <3>4. BackupMatches'
      BY <2>9 DEF UndoRemove, Installing, Rolling, BackupMatches, TypeOK
    <3>5. NothingLost'
      BY <2>9 DEF UndoRemove, Installing, Rolling, NothingLost, TypeOK, Content
    <3> QED
      BY <1>0, <3>1, <3>2, <3>3, <3>4, <3>5
  <2>10. CASE UndoBack(i)
    <3>1. BusyHoldsLock'
      BY <2>10 DEF UndoBack, TypeOK
    <3>2. \A j \in Inst : Installing(j)'
      BY <2>10 DEF UndoBack, Installing, Rolling, TypeOK
    <3>3. \A a \in Back : Rolling(a)'
      BY <2>10 DEF UndoBack, Installing, Rolling, TypeOK
    <3>4. BackupMatches'
      BY <2>10 DEF UndoBack, Installing, Rolling, BackupMatches, TypeOK
    <3>5. NothingLost'
      BY <2>10 DEF UndoBack, Installing, Rolling, NothingLost, TypeOK, Content
    <3> QED
      BY <1>0, <3>1, <3>2, <3>3, <3>4, <3>5
  <2>11. CASE UndoCopy(i)
    <3>1. BusyHoldsLock'
      BY <2>11 DEF UndoCopy, TypeOK
    <3>2. \A j \in Inst : Installing(j)'
      BY <2>11 DEF UndoCopy, Installing, Rolling, TypeOK
    <3>3. \A a \in Back : Rolling(a)'
      BY <2>11 DEF UndoCopy, Installing, Rolling, TypeOK
    <3>4. BackupMatches'
      BY <2>11 DEF UndoCopy, Installing, Rolling, BackupMatches, TypeOK
    <3>5. NothingLost'
      BY <2>11 DEF UndoCopy, Installing, Rolling, NothingLost, TypeOK, Content
    <3> QED
      BY <1>0, <3>1, <3>2, <3>3, <3>4, <3>5
  <2> QED
    BY <1>2, <2>1, <2>2, <2>3, <2>4, <2>5, <2>6, <2>7, <2>8, <2>9, <2>10, <2>11 DEF Install
<1>3. ASSUME NEW b \in Back, Rollback(b) PROVE InstInv'
  <2>1. CASE StartRollback(b)
    <3>1. BusyHoldsLock'
      BY <2>1 DEF StartRollback, TypeOK, Lease!Acquire
    <3>2. \A j \in Inst : Installing(j)'
      BY <2>1 DEF StartRollback, Installing, Rolling, TypeOK, Lease!Acquire
    <3>3. \A a \in Back : Rolling(a)'
      BY <2>1 DEF StartRollback, Installing, Rolling, TypeOK, Lease!Acquire
    <3>4. BackupMatches'
      BY <2>1 DEF StartRollback, Installing, Rolling, BackupMatches, TypeOK
    <3>5. NothingLost'
      BY <2>1 DEF StartRollback, Installing, Rolling, NothingLost, TypeOK, Content
    <3> QED
      BY <1>0, <3>1, <3>2, <3>3, <3>4, <3>5
  <2>2. CASE RollbackCheck(b)
    <3>1. BusyHoldsLock'
      BY <2>2 DEF RollbackCheck, TypeOK
    <3>2. \A j \in Inst : Installing(j)'
      BY <2>2 DEF RollbackCheck, Installing, Rolling, TypeOK
    <3>3. \A a \in Back : Rolling(a)'
      BY <2>2 DEF RollbackCheck, Installing, Rolling, TypeOK
    <3>4. BackupMatches'
      BY <2>2 DEF RollbackCheck, Installing, Rolling, BackupMatches, TypeOK
    <3>5. NothingLost'
      BY <2>2 DEF RollbackCheck, Installing, Rolling, NothingLost, TypeOK, Content
    <3> QED
      BY <1>0, <3>1, <3>2, <3>3, <3>4, <3>5
  <2>3. CASE RollbackMove(b)
    <3>1. BusyHoldsLock'
      BY <2>3 DEF RollbackMove, TypeOK
    <3>2. \A j \in Inst : Installing(j)'
      BY <2>3 DEF RollbackMove, Installing, Rolling, TypeOK
    <3>3. \A a \in Back : Rolling(a)'
      BY <2>3 DEF RollbackMove, Installing, Rolling, TypeOK
    <3>4. BackupMatches'
      BY <2>3 DEF RollbackMove, Installing, Rolling, BackupMatches, TypeOK
    <3>5. NothingLost'
      BY <2>3 DEF RollbackMove, Installing, Rolling, NothingLost, TypeOK, Content
    <3> QED
      BY <1>0, <3>1, <3>2, <3>3, <3>4, <3>5
  <2>4. CASE RollbackBackup(b)
    <3>1. BusyHoldsLock'
      BY <2>4 DEF RollbackBackup, TypeOK
    <3>2. \A j \in Inst : Installing(j)'
      BY <2>4 DEF RollbackBackup, Installing, Rolling, TypeOK
    <3>3. \A a \in Back : Rolling(a)'
      BY <2>4 DEF RollbackBackup, Installing, Rolling, TypeOK
    <3>4. BackupMatches'
      BY <2>4 DEF RollbackBackup, Installing, Rolling, BackupMatches, TypeOK
    <3>5. NothingLost'
      BY <2>4 DEF RollbackBackup, Installing, Rolling, NothingLost, TypeOK, Content
    <3> QED
      BY <1>0, <3>1, <3>2, <3>3, <3>4, <3>5
  <2>5. CASE RollbackRemove(b)
    <3>1. BusyHoldsLock'
      BY <2>5 DEF RollbackRemove, TypeOK
    <3>2. \A j \in Inst : Installing(j)'
      BY <2>5 DEF RollbackRemove, Installing, Rolling, TypeOK
    <3>3. \A a \in Back : Rolling(a)'
      BY <2>5 DEF RollbackRemove, Installing, Rolling, TypeOK
    <3>4. BackupMatches'
      BY <2>5 DEF RollbackRemove, Installing, Rolling, BackupMatches, TypeOK
    <3>5. NothingLost'
      BY <2>5 DEF RollbackRemove, Installing, Rolling, NothingLost, TypeOK, Content
    <3> QED
      BY <1>0, <3>1, <3>2, <3>3, <3>4, <3>5
  <2>6. CASE RollbackUndo(b)
    <3>1. BusyHoldsLock'
      BY <2>6 DEF RollbackUndo, TypeOK
    <3>2. \A j \in Inst : Installing(j)'
      BY <2>6 DEF RollbackUndo, Installing, Rolling, TypeOK
    <3>3. \A a \in Back : Rolling(a)'
      BY <2>6 DEF RollbackUndo, Installing, Rolling, TypeOK
    <3>4. BackupMatches'
      BY <2>6 DEF RollbackUndo, Installing, Rolling, BackupMatches, TypeOK
    <3>5. NothingLost'
      BY <2>6 DEF RollbackUndo, Installing, Rolling, NothingLost, TypeOK, Content
    <3> QED
      BY <1>0, <3>1, <3>2, <3>3, <3>4, <3>5
  <2>7. CASE RollbackLog(b)
    <3>1. BusyHoldsLock'
      BY <2>7 DEF RollbackLog, TypeOK
    <3>2. \A j \in Inst : Installing(j)'
      BY <2>7 DEF RollbackLog, Installing, Rolling, TypeOK
    <3>3. \A a \in Back : Rolling(a)'
      BY <2>7 DEF RollbackLog, Installing, Rolling, TypeOK
    <3>4. BackupMatches'
      BY <2>7 DEF RollbackLog, Installing, Rolling, BackupMatches, TypeOK
    <3>5. NothingLost'
      BY <2>7 DEF RollbackLog, Installing, Rolling, NothingLost, TypeOK, Content
    <3> QED
      BY <1>0, <3>1, <3>2, <3>3, <3>4, <3>5
  <2> QED
    BY <1>3, <2>1, <2>2, <2>3, <2>4, <2>5, <2>6, <2>7 DEF Rollback
<1>4. ASSUME NEW o \in Op, Release(o) \/ Crash(o) PROVE InstInv'
  <2>1. BusyHoldsLock'
    BY <1>4 DEF Release, Crash, Lease!Release, Lease!Strand, TypeOK
  <2>2. \A j \in Inst : Installing(j)'
    BY <1>4 DEF Release, Crash, Lease!Release, Lease!Strand, Installing, TypeOK
  <2>3. \A a \in Back : Rolling(a)'
    BY <1>4 DEF Release, Crash, Lease!Release, Lease!Strand, Rolling, TypeOK
  <2>4. BackupMatches' /\ NothingLost'
    BY <1>4 DEF Release, Crash, Lease!Release, Lease!Strand, BackupMatches, NothingLost,
       TypeOK
  <2> QED
    BY <1>0, <2>1, <2>2, <2>3, <2>4
<1>5. CASE Recover \/ UserWrite \/ UserDelete
  <2>1. BusyHoldsLock'
    BY <1>5 DEF Recover, UserWrite, UserDelete, Allowed, Lease!Recover, TypeOK
  <2>2. \A j \in Inst : Installing(j)'
    BY <1>5 DEF Recover, UserWrite, UserDelete, Allowed, Lease!Recover, Installing, TypeOK
  <2>3. \A a \in Back : Rolling(a)'
    BY <1>5 DEF Recover, UserWrite, UserDelete, Allowed, Lease!Recover, Rolling, TypeOK
  <2>4. BackupMatches' /\ NothingLost'
    BY <1>5 DEF Recover, UserWrite, UserDelete, Allowed, Lease!Recover, BackupMatches, NothingLost,
       TypeOK
  <2> QED
    BY <1>0, <2>1, <2>2, <2>3, <2>4
<1> QED
  BY <1>1, <1>2, <1>3, <1>4, <1>5 DEF Next

(* The backup of every installation in force is the content it replaced,    *)
(* until a rollback puts it back, for any number of installations and       *)
(* rollbacks of one destination, their failures and deaths.                 *)
THEOREM BackupMatchesHolds ==
  ASSUME ~UserDuring
  PROVE  Spec => []BackupMatches
<1>1. InstInv /\ [Next]_vars => InstInv'
  BY InstInvStep
<1>2. InstInv => BackupMatches
  BY DEF InstInv
<1> QED
  BY <1>1, <1>2, InstInvInit, PTL DEF Spec

(* No content the user made and still wants is lost by installations,       *)
(* rollbacks, their failures and compensations, or deaths in between.       *)
THEOREM NothingLostHolds ==
  ASSUME ~UserDuring
  PROVE  Spec => []NothingLost
<1>1. InstInv /\ [Next]_vars => InstInv'
  BY InstInvStep
<1>2. InstInv => NothingLost
  BY DEF InstInv
<1> QED
  BY <1>1, <1>2, InstInvInit, PTL DEF Spec

LEMMA RollbackRestoresStep ==
  InstInv /\ [Next]_vars =>
    [\A i \in Inst : Recorded(i) /\ record'[i] = "rolled-back" =>
       dest = plan[i].old]_vars
<1> SUFFICES ASSUME InstInv, Next, NEW i \in Inst,
                    Recorded(i), record'[i] = "rolled-back"
             PROVE  dest = plan[i].old
  OBVIOUS
<1>1. \E b \in Back : RollbackLog(b)
  <2>1. record' # record /\ record \in [Inst -> {"none", "installed", "doubtful", "rolled-back"}]
    BY DEF Recorded, InstInv, TypeOK
  <2>2. ASSUME NEW j \in Inst, InstallLog(j) PROVE FALSE
    <3>1. \E s \in {"installed", "doubtful"} : record' = [record EXCEPT ![j] = s]
      BY <2>1, <2>2 DEF InstallLog
    <3>2. record'[i] = record[i] \/ record'[i] \in {"installed", "doubtful"}
      BY <2>1, <3>1
    <3> QED
      BY <3>2 DEF Recorded
  <2>3. ~\E j \in Inst : Install(j)
    <3>1. SUFFICES ASSUME NEW j \in Inst, Install(j) PROVE record' = record
      BY <2>1
    <3> QED
      BY <2>2, <3>1 DEF Install, PlanInstall, StartInstall, InstallCheck, InstallCopy,
         InstallRecheck, InstallBackup, InstallPlace, UndoRemove, UndoBack, UndoCopy
  <2> QED
    BY <2>1, <2>3 DEF Next, Rollback, StartRollback, RollbackCheck, RollbackMove,
       RollbackBackup, RollbackRemove, RollbackUndo, Release, Crash, Recover, UserWrite,
       UserDelete
<1>2. PICK b \in Back : RollbackLog(b)
  BY <1>1
<1>3. target[b] = i /\ pc[b] = "R.log"
  <2>1. record \in [Inst -> {"none", "installed", "doubtful", "rolled-back"}]
    BY DEF InstInv, TypeOK
  <2> QED
    BY <1>2, <2>1 DEF RollbackLog, Recorded
<1> QED
  BY <1>3 DEF InstInv, StepInv, Rolling

(* A rollback that is journaled has put the replaced content back, however  *)
(* installations and rollbacks of the destination follow one another.       *)
THEOREM RollbackRestoresHolds ==
  ASSUME ~UserDuring
  PROVE  Spec => RollbackRestores
<1>1. InstInv /\ [Next]_vars => InstInv'
  BY InstInvStep
<1> QED
  BY <1>1, InstInvInit, RollbackRestoresStep, PTL DEF Spec, RollbackRestores

-----------------------------------------------------------------------------
(* The staging of sources.                                                  *)

USE DEF Bytes, Sources, NoSource, Step, Entry, Smooth, clocks, content

Creating(c) == run[c].at \in {"describe", "stage", "inspect"}
Late == {"resolve", "check", "copy", "verify", "settle"}

(* Before the source has been inspected nothing is planned or installed.    *)
Early == purpose = "none" \/ \E c \in StagingCall : Creating(c)

EarlyNothing ==
    Early =>
        /\ stored \in {"none", "forgotten"} /\ agreed = NoSource
        /\ installed = NoSource /\ uses = 0
        /\ \A d \in StagingCall :
              run[d].at \notin Late \cup {"plan", "write", "print", "discard", "seek"}

OneCreator ==
    /\ \A c, d \in StagingCall : Creating(c) /\ Creating(d) => c = d
    /\ \A c \in StagingCall : Creating(c) => purpose # "none"

(* Who does what.                                                           *)
Roles ==
    \A c \in StagingCall :
        /\ run[c].who = "server" => purpose = "dashboard"
        /\ run[c].who = "command" /\ run[c].at \in Late \cup {"plan", "write"} => purpose = "install"
        /\ run[c].at \in {"claim", "resolve"} => run[c].next = "claim"
        /\ run[c].next = "claim" => run[c].who = "command" /\ purpose = "install"
        /\ run[c].at = "seek" => run[c].who = "server"
        /\ run[c].at \in {"write", "print", "discard"} => run[c].who = "command"
        /\ run[c].next \in {"idle", "claim"}
        /\ run[c].then \in {"idle", "sweep", "read"}

OneInside == \A c, d \in StagingCall : Inside(c) /\ Inside(d) => c = d

(* The one that writes the plan of the command does so once.                *)
OneWriter ==
    \A c \in StagingCall :
        run[c].who = "command" /\ run[c].at \in {"plan", "write"} =>
            /\ uses = 0 /\ stored \in {"none", "forgotten"}
            /\ \A d \in StagingCall : run[d].at \notin Late
            /\ \A d \in StagingCall :
                  run[d].at \in {"plan", "write", "print", "discard"} => d = c

UnusedWhileApplied ==
    /\ stored = "pending" => uses = 0
    /\ \A c \in StagingCall : run[c].at \in Late => uses = 0

Verified == \A c \in StagingCall : run[c].at = "settle" => copied = agreed

(* While the directory has no metadata nobody removes it.                   *)
Unclaimed == \A d \in StagingCall : run[d].at # "move"
BornWell ==
    /\ purpose = "none" => place = NoDirectory /\ Unclaimed
    /\ \A c \in StagingCall :
          run[c].at = "describe" => place \in Directory /\ ~place.described /\ Unclaimed

-----------------------------------------------------------------------------
(* What the helpers do to the run of their call, and to no other.           *)
RunOK == run \in [StagingCall -> Job]
Others(c) == \A d \in StagingCall \ {c} : run'[d] = run[d]

LEMMA GoesRuns ==
    ASSUME RunOK, NEW c \in StagingCall, NEW step \in Step, Goes(c, step)
    PROVE  RunOK' /\ Others(c) /\ run'[c].at = step /\ run'[c].who = run[c].who
           /\ run'[c].next = run[c].next /\ run'[c].then = run[c].then
BY DEF RunOK, Goes, Others, Job

LEMMA LoopsRuns ==
    ASSUME RunOK, NEW c \in StagingCall, NEW step \in Step,
           NEW left \in SUBSET (PreviewFile \cup Entry), Loops(c, step, left)
    PROVE  RunOK' /\ Others(c) /\ run'[c].at = step /\ run'[c].who = run[c].who
           /\ run'[c].next = run[c].next /\ run'[c].then = run[c].then
<1> DEFINE job == [run[c] EXCEPT !.at = step, !.left = left]
<1>1. run[c] \in Job
  BY DEF RunOK
<1>2. job \in Job
  BY <1>1 DEF Job
<1>3. run' = [run EXCEPT ![c] = job]
  BY DEF Loops
<1>4. RunOK' /\ Others(c) /\ run'[c] = job
  BY <1>2, <1>3 DEF RunOK, Others
<1> QED BY <1>1, <1>4 DEF Job

LEMMA RemovesRuns ==
    ASSUME RunOK, NEW c \in StagingCall, NEW step \in Step, NEW then \in Step,
           Removes(c, step, then)
    PROVE  RunOK' /\ Others(c) /\ run'[c].at = step /\ run'[c].who = run[c].who
           /\ run'[c].next = run[c].next /\ run'[c].then = then
<1> DEFINE job == [run[c] EXCEPT !.at = step, !.then = then]
<1>1. run[c] \in Job
  BY DEF RunOK
<1>2. job \in Job
  BY <1>1 DEF Job
<1>3. run' = [run EXCEPT ![c] = job]
  BY DEF Removes
<1>4. RunOK' /\ Others(c) /\ run'[c] = job
  BY <1>2, <1>3 DEF RunOK, Others
<1> QED BY <1>1, <1>4 DEF Job

LEMMA EndsRuns ==
    ASSUME RunOK, NEW c \in StagingCall, Ends(c)
    PROVE  RunOK' /\ Others(c) /\ run'[c] = Idle
BY DEF RunOK, Ends, Others, Idle, At, Job

LEMMA ReturnsRuns ==
    ASSUME RunOK, NEW c \in StagingCall, NEW step \in Step, Returns(c, step)
    PROVE  RunOK' /\ Others(c) /\ run'[c].at = step
           /\ \/ run'[c] = Idle
              \/ run'[c].who = run[c].who /\ run'[c].next = run[c].next /\ run'[c].then = "idle"
<1>1. CASE step = "idle"
  <2>1. Ends(c)
    BY <1>1 DEF Returns
  <2> QED BY <1>1, <2>1, EndsRuns DEF Idle, At
<1>2. CASE step # "idle"
  <2>1. Removes(c, step, "idle")
    BY <1>2 DEF Returns, Removes
  <2>2. "idle" \in Step
    OBVIOUS
  <2> QED BY SMTT(30), <2>1, <2>2, RemovesRuns
<1> QED BY <1>1, <1>2

LEMMA GivesUpRuns ==
    ASSUME RunOK, NEW c \in StagingCall, GivesUp(c)
    PROVE  RunOK' /\ Others(c)
           /\ \/ run'[c] = Idle
              \/ run'[c].at = "read" /\ run'[c].who = run[c].who
                 /\ run'[c].next = run[c].next /\ run'[c].then = "idle"
<1>1. CASE run[c].who = "command"
  <2>1. Removes(c, "read", "idle")
    BY <1>1 DEF GivesUp
  <2>2. {"read", "idle"} \subseteq Step
    OBVIOUS
  <2> QED BY <2>1, <2>2, RemovesRuns
<1>2. CASE run[c].who # "command"
  BY <1>2, EndsRuns DEF GivesUp
<1> QED BY <1>1, <1>2

LEMMA VisitsRuns ==
    ASSUME RunOK, NEW c \in StagingCall, NEW step \in Step, NEW e, Visits(c, e, step)
    PROVE  RunOK' /\ Others(c) /\ run'[c].at = step /\ run'[c].who = run[c].who
           /\ run'[c].next = run[c].next /\ run'[c].then = "sweep"
<1> DEFINE job == [run[c] EXCEPT !.left = run[c].left \ {e}, !.at = step, !.then = "sweep"]
<1>1. run[c] \in Job
  BY DEF RunOK
<1>2. job \in Job
  BY <1>1 DEF Job
<1>3. run' = [run EXCEPT ![c] = job]
  BY DEF Visits
<1>4. RunOK' /\ Others(c) /\ run'[c] = job
  BY <1>2, <1>3 DEF RunOK, Others
<1> QED BY <1>1, <1>4 DEF Job

(* A run goes on as its step says.                                          *)
Follows(c, steps) ==
    /\ RunOK' /\ Others(c)
    /\ run'[c].at \in steps
    /\ \/ run'[c] = Idle
       \/ /\ run'[c].who = run[c].who /\ run'[c].next = run[c].next
          /\ run'[c].then \in {run[c].then, "idle", "sweep", "read"}

LEMMA RunSteps ==
    ASSUME StagingTypeOK, NEW c \in StagingCall
    PROVE  /\ Unproven(c) => Follows(c, {"idle"})
           /\ Describe(c) => Follows(c, {"stage", "move"})
           /\ StageFile(c) => Follows(c, {"stage", "inspect"})
           /\ StageFails(c) => Follows(c, {"read", "idle"})
           /\ Inspect(c) => Follows(c, {"read", "idle", "plan"})
           /\ Plan(c) => Follows(c, {"read", "idle", "write"})
           /\ WritePlan(c) => Follows(c, {"print", "read", "idle"})
           /\ PrintPlan(c) => Follows(c, {"idle", "discard"})
           /\ Discard(c) => Follows(c, {"read", "idle"})
           /\ Read(c) => Follows(c, {"move", run[c].then})
           /\ Move(c) => Follows(c, {"wipe", run[c].then})
           /\ Wipe(c) => Follows(c, {"wipe", run[c].then})
           /\ WipeFails(c) => Follows(c, {run[c].then})
           /\ Sweep(c) => Follows(c, {"sweep", "move", "wipe", run[c].next})
           /\ Claim(c) => Follows(c, {"read", "resolve", "idle"})
           /\ Resolve(c) => Follows(c, {"read", "idle", "move", "check", "plan"})
           /\ Check(c) => Follows(c, {"copy", "read", "idle"})
           /\ CopyFile(c) => Follows(c, {"copy", "verify", "read", "idle"})
           /\ Verify(c) => Follows(c, {"settle", "read", "idle"})
           /\ Settle(c) => Follows(c, {"read", "idle"})
<1>1. RunOK /\ run[c] \in Job /\ run[c].then \in Step /\ run[c].next \in Step
  BY DEF StagingTypeOK, RunOK, Job
<1>2. Idle.at = "idle"
  BY DEF Idle, At
<1> USE <1>1, <1>2 DEF Follows
<1>3. Unproven(c) => Follows(c, {"idle"})
  BY EndsRuns DEF Unproven
<1>4. Describe(c) => Follows(c, {"stage", "move"})
  BY SMTT(30), LoopsRuns, RemovesRuns DEF Describe
<1>5. StageFile(c) => Follows(c, {"stage", "inspect"})
  BY LoopsRuns DEF StageFile, Job
<1>6. StageFails(c) => Follows(c, {"read", "idle"})
  BY GivesUpRuns DEF StageFails
<1>7. Inspect(c) => Follows(c, {"read", "idle", "plan"})
  BY GivesUpRuns, GoesRuns, EndsRuns DEF Inspect
<1>8. Plan(c) => Follows(c, {"read", "idle", "write"})
  BY GivesUpRuns, GoesRuns, EndsRuns DEF Plan
<1>9. WritePlan(c) => Follows(c, {"print", "read", "idle"})
  BY GivesUpRuns, GoesRuns DEF WritePlan
<1>10. PrintPlan(c) => Follows(c, {"idle", "discard"})
  BY EndsRuns, GoesRuns DEF PrintPlan
<1>11. Discard(c) => Follows(c, {"read", "idle"})
  BY EndsRuns, GivesUpRuns DEF Discard
<1>12. Read(c) => Follows(c, {"move", run[c].then})
  BY GoesRuns, ReturnsRuns DEF Read
<1>13. Move(c) => Follows(c, {"wipe", run[c].then})
  BY GoesRuns, ReturnsRuns DEF Move
<1>14. Wipe(c) => Follows(c, {"wipe", run[c].then})
  <2>1. CASE UNCHANGED run
    BY <2>1 DEF Wipe, Others, RunOK
  <2>2. ASSUME Wipe(c), ~UNCHANGED run PROVE Returns(c, run[c].then)
    BY <2>2 DEF Wipe
  <2> QED BY <2>1, <2>2, ReturnsRuns
<1>15. WipeFails(c) => Follows(c, {run[c].then})
  BY ReturnsRuns DEF WipeFails
<1>16. Sweep(c) => Follows(c, {"sweep", "move", "wipe", run[c].next})
  BY ReturnsRuns, VisitsRuns DEF Sweep
<1>17. Claim(c) => Follows(c, {"read", "resolve", "idle"})
  BY GoesRuns, EndsRuns DEF Claim
<1>18. Resolve(c) => Follows(c, {"read", "idle", "move", "check", "plan"})
  BY SMTT(30), GoesRuns, RemovesRuns, GivesUpRuns DEF Resolve
<1>19. Check(c) => Follows(c, {"copy", "read", "idle"})
  BY LoopsRuns, GivesUpRuns DEF Check
<1>20. CopyFile(c) => Follows(c, {"copy", "verify", "read", "idle"})
  BY GoesRuns, LoopsRuns, GivesUpRuns DEF CopyFile, Job
<1>21. Verify(c) => Follows(c, {"settle", "read", "idle"})
  BY GoesRuns, GivesUpRuns DEF Verify
<1>22. Settle(c) => Follows(c, {"read", "idle"})
  BY GivesUpRuns DEF Settle
<1> QED BY <1>3, <1>4, <1>5, <1>6, <1>7, <1>8, <1>9, <1>10, <1>11, <1>12, <1>13, <1>14, <1>15,
           <1>16, <1>17, <1>18, <1>19, <1>20, <1>21, <1>22

-----------------------------------------------------------------------------
(* The part of the invariant that speaks of the directory and the calls.    *)
Base == StagingTypeOK /\ BornWell /\ OneCreator /\ Roles

LEMMA DirectoryTyped ==
    ASSUME NEW d \in Directory, NEW b \in BOOLEAN
    PROVE  /\ [d EXCEPT !.described = b] \in Directory
           /\ \A f \in PreviewFile, x \in Bytes : [d EXCEPT !.file[f] = x] \in Directory
           /\ [d EXCEPT !.described = b].described = b
           /\ Bare(b) \in Directory
BY DEF Directory, Bare

(* Directories stay directories, whatever a call does to them.              *)
LEMMA DirectoriesTyped ==
    ASSUME StagingTypeOK, NEW c \in StagingCall
    PROVE  /\ Describe(c) /\ place \in Directory => place' \in Directory
           /\ StageFile(c) => place' \in Directory
           /\ Move(c) => {place', tombstone'} \subseteq Directory \cup {NoDirectory}
                         /\ past' \subseteq {"plan", "preview", "grace"}
           /\ Wipe(c) => tombstone' \in Directory \cup {NoDirectory}
           /\ CopyFile(c) => copied' \in Sources
           /\ Plan(c) => past' \subseteq {"plan", "preview", "grace"}
<1>1. /\ place \in Directory \cup {NoDirectory} /\ tombstone \in Directory \cup {NoDirectory}
      /\ past \subseteq {"plan", "preview", "grace"} /\ copied \in Sources
      /\ Bare(FALSE) \in Directory /\ NoDirectory \notin Directory
  BY StagingConstants DEF StagingTypeOK, Bare, Directory
<1>2. Describe(c) /\ place \in Directory => place' \in Directory
  BY DirectoryTyped DEF Describe
<1>3. ASSUME StageFile(c) PROVE place' \in Directory
  <2> DEFINE here == IF place = NoDirectory THEN Bare(FALSE) ELSE place
  <2>1. here \in Directory
    BY <1>1
  <2>2. PICK f \in run[c].left : place' = [here EXCEPT !.file[f] = "reviewed"]
    BY <1>3 DEF StageFile
  <2>3. CASE f \in PreviewFile
    BY <2>1, <2>2, <2>3, DirectoryTyped
  <2>4. CASE f \notin PreviewFile
    <3> HIDE DEF here
    <3>1. here.file \in [PreviewFile -> Bytes]
      BY <2>1 DEF Directory
    <3>2. [here.file EXCEPT ![f] = "reviewed"] = here.file
      BY <2>4, <3>1
    <3>3. place' = here
      BY <2>1, <2>2, <3>2 DEF Directory
    <3> QED BY <2>1, <3>3
  <2> QED BY <2>3, <2>4
<1>4. Move(c) => {place', tombstone'} \subseteq Directory \cup {NoDirectory}
                 /\ past' \subseteq {"plan", "preview", "grace"}
  BY <1>1 DEF Move
<1>5. ASSUME Wipe(c) PROVE tombstone' \in Directory \cup {NoDirectory}
  <2>1. CASE tombstone' = NoDirectory
    BY <2>1
  <2>2. CASE Described(tombstone) /\ tombstone' = [tombstone EXCEPT !.described = FALSE]
    BY <1>1, <2>2, DirectoryTyped DEF Described
  <2>3. ASSUME NEW f \in PreviewFile, tombstone # NoDirectory,
               tombstone' = [tombstone EXCEPT !.file[f] = "none"]
        PROVE  tombstone' \in Directory
    BY <1>1, <2>3, DirectoryTyped
  <2> QED BY <1>5, <2>1, <2>2, <2>3 DEF Wipe
<1>6. ASSUME CopyFile(c) PROVE copied' \in Sources
  <2>1. CASE place = NoDirectory
    BY <1>1, <1>6, <2>1 DEF CopyFile
  <2>2. CASE place # NoDirectory /\ ~UNCHANGED copied
    <3>1. PICK f \in run[c].left : copied' = [copied EXCEPT ![f] = place.file[f]]
      BY <1>6, <2>2 DEF CopyFile
    <3>2. place.file \in [PreviewFile -> Bytes] /\ copied \in [PreviewFile -> Bytes]
      BY <1>1, <2>2 DEF Directory
    <3> QED BY <3>1, <3>2
  <2> QED BY <1>1, <2>1, <2>2
<1>7. Plan(c) => past' \subseteq {"plan", "preview", "grace"}
  BY <1>1 DEF Plan
<1> QED BY <1>2, <1>3, <1>4, <1>5, <1>6, <1>7

LEMMA BaseStep == Base /\ [StagingNext]_stagingVars => Base'
<1> SUFFICES ASSUME Base, [StagingNext]_stagingVars PROVE Base'
  OBVIOUS
<1> USE StagingConstants DEF Base, StagingTypeOK, BornWell, Unclaimed, OneCreator, Creating, Roles,
        Late, Directory, Bare, RunOK, Follows, Others, Begins, Trouble
<1>0. NoDirectory \notin Directory /\ Idle = At("command", "idle") /\ Idle.at = "idle" /\ Idle.who = "command"
      /\ Idle.next = "idle" /\ Idle.then = "idle"
  BY DEF Idle, At
<1>1. CASE UNCHANGED stagingVars
  BY <1>1 DEF stagingVars
<1>2. ASSUME NEW c \in StagingCall, StagingStep(c) PROVE Base'
  <2> USE <1>0
  <2>1. ASSUME NEW p \in {"install", "dashboard", "refresh"}, Create(c, p) PROVE Base'
    BY <2>1 DEF Create, Free, At, Job
  <2>2. CASE Unproven(c)
    BY <2>2, RunSteps DEF Unproven
  <2>3. CASE Describe(c)
    <3>1. Follows(c, {"stage", "move"})
      BY <2>3, RunSteps
    <3>2. StagingTypeOK'
      <4>1. place \in Directory
        BY <2>3 DEF Describe
      <4>2. place' \in Directory
        BY <2>3, <4>1, DirectoriesTyped
      <4>3. run' \in [StagingCall -> Job]
        BY <3>1
      <4> QED BY <2>3, <4>2, <4>3 DEF Describe
    <3>3. BornWell'
      BY <2>3, <3>1 DEF Describe
    <3>4. OneCreator'
      BY <2>3, <3>1 DEF Describe
    <3>5. Roles'
      BY <2>3, <3>1 DEF Describe
    <3> QED BY <3>2, <3>3, <3>4, <3>5
  <2>4. CASE StageFile(c)
    <3>1. Follows(c, {"stage", "inspect"})
      BY <2>4, RunSteps
    <3>2. StagingTypeOK'
      <4>1. place' \in Directory
        BY <2>4, DirectoriesTyped
      <4>2. run' \in [StagingCall -> Job]
        BY <3>1
      <4> QED BY <2>4, <4>1, <4>2 DEF StageFile
    <3>3. BornWell'
      BY <2>4, <3>1 DEF StageFile
    <3>4. OneCreator'
      BY <2>4, <3>1 DEF StageFile
    <3>5. Roles'
      BY <2>4, <3>1 DEF StageFile
    <3> QED BY <3>2, <3>3, <3>4, <3>5
  <2>5. CASE StageFails(c)
    BY <2>5, RunSteps DEF StageFails
  <2>6. CASE Inspect(c)
    <3>1. Follows(c, {"read", "idle", "plan"})
      BY <2>6, RunSteps
    <3>2. StagingTypeOK'
      BY <2>6, <3>1 DEF Inspect
    <3>3. BornWell'
      BY <2>6, <3>1 DEF Inspect
    <3>4. OneCreator'
      BY <2>6, <3>1 DEF Inspect
    <3>5. Roles'
      <4>1. run'[c].at = "plan" => purpose = "install"
        BY <2>6, GoesRuns, GivesUpRuns, EndsRuns DEF Inspect
      <4> QED BY <2>6, <3>1, <4>1 DEF Inspect
    <3> QED BY <3>2, <3>3, <3>4, <3>5
  <2>7. CASE Plan(c)
    <3>1. Follows(c, {"read", "idle", "write"})
      BY <2>7, RunSteps
    <3>2. StagingTypeOK'
      <4>1. run' \in [StagingCall -> Job]
        BY <3>1
      <4>2. stored' \in {stored, "pending"} /\ uses' \in {uses, 0} /\ told' \in {told, TRUE}
        BY <2>7 DEF Plan
      <4>3. past' \subseteq {"plan", "preview", "grace"}
        BY <2>7, DirectoriesTyped
      <4>4. UNCHANGED <<purpose, place, tombstone, agreed, copied, installed, cut, clocks>>
        BY <2>7 DEF Plan
      <4>5. stored' \in {"none", "pending", "spent", "forgotten"} /\ uses' \in Nat
        BY <4>2
      <4>6. told' \in BOOLEAN
        BY <4>2
      <4> HIDE DEF Directory
      <4> QED BY <4>1, <4>3, <4>4, <4>5, <4>6
    <3>3. BornWell'
      BY <2>7, <3>1 DEF Plan, Unchanged
    <3>4. OneCreator'
      BY <2>7, <3>1 DEF Plan, Unchanged
    <3>5. Roles'
      <4>1. run'[c].at = "write" => run[c].who = "command" /\ run'[c].who = "command"
        <5>1. GivesUp(c) => run'[c].at # "write"
          BY GivesUpRuns
        <5>2. Ends(c) => run'[c].at # "write"
          BY EndsRuns
        <5>3. run[c].who = "command" => run'[c] = Idle \/ run'[c].who = "command"
          BY <3>1
        <5> QED BY <2>7, <5>1, <5>2, <5>3 DEF Plan
      <4> QED BY <2>7, <3>1, <4>1 DEF Plan, Unchanged
    <3> QED BY <3>2, <3>3, <3>4, <3>5
  <2>8. CASE WritePlan(c)
    BY <2>8, RunSteps DEF WritePlan
  <2>9. CASE PrintPlan(c)
    <3>1. Follows(c, {"idle", "discard"})
      BY <2>9, RunSteps
    <3>2. StagingTypeOK'
      BY ZenonT(60), <2>9, <3>1 DEF PrintPlan
    <3>3. BornWell'
      BY <2>9, <3>1 DEF PrintPlan
    <3>4. OneCreator'
      BY <2>9, <3>1 DEF PrintPlan
    <3>5. Roles'
      BY <2>9, <3>1 DEF PrintPlan
    <3> QED BY <3>2, <3>3, <3>4, <3>5
  <2>10. CASE Discard(c)
    BY <2>10, RunSteps DEF Discard
  <2>11. CASE Read(c)
    <3>1. Follows(c, {"move", run[c].then})
      BY <2>11, RunSteps
    <3>2. StagingTypeOK'
      BY <2>11, <3>1 DEF Read, Described
    <3>3. BornWell'
      <4>1. run'[c].at = "move" => Described(place)
        BY <2>11, GoesRuns, ReturnsRuns DEF Read
      <4>2. Described(place) => purpose # "none" /\ \A d \in StagingCall : run[d].at # "describe"
        BY DEF Described
      <4> QED BY <2>11, <3>1, <4>1, <4>2 DEF Read
    <3>4. OneCreator'
      BY <2>11, <3>1 DEF Read, Described
    <3>5. Roles'
      BY <2>11, <3>1 DEF Read, Described
    <3> QED BY <3>2, <3>3, <3>4, <3>5
  <2>12. CASE Move(c)
    <3>1. Follows(c, {"wipe", run[c].then})
      BY <2>12, RunSteps
    <3>2. StagingTypeOK'
      <4>1. {place', tombstone'} \subseteq Directory \cup {NoDirectory}
            /\ past' \subseteq {"plan", "preview", "grace"}
        BY <2>12, DirectoriesTyped
      <4>2. run' \in [StagingCall -> Job]
        BY <3>1
      <4> QED BY <2>12, <4>1, <4>2 DEF Move
    <3>3. BornWell'
      BY <2>12, <3>1 DEF Move
    <3>4. OneCreator'
      BY <2>12, <3>1 DEF Move
    <3>5. Roles'
      BY <2>12, <3>1 DEF Move
    <3> QED BY <3>2, <3>3, <3>4, <3>5
  <2>13. CASE Wipe(c)
    <3>1. Follows(c, {"wipe", run[c].then})
      BY <2>13, RunSteps
    <3>2. StagingTypeOK'
      <4>1. tombstone' \in Directory \cup {NoDirectory}
        BY <2>13, DirectoriesTyped
      <4>2. run' \in [StagingCall -> Job]
        BY <3>1
      <4> QED BY <2>13, <4>1, <4>2 DEF Wipe
    <3>3. BornWell'
      BY <2>13, <3>1 DEF Wipe, Described
    <3>4. OneCreator'
      BY <2>13, <3>1 DEF Wipe, Described
    <3>5. Roles'
      BY <2>13, <3>1 DEF Wipe, Described
    <3> QED BY <3>2, <3>3, <3>4, <3>5
  <2>14. CASE WipeFails(c)
    BY <2>14, RunSteps DEF WipeFails
  <2>15. CASE Sweep(c)
    <3>1. Follows(c, {"sweep", "move", "wipe", run[c].next})
      BY <2>15, RunSteps
    <3>2. StagingTypeOK'
      BY <2>15, <3>1 DEF Sweep, Described
    <3>3. BornWell'
      <4>1. run'[c].at = "move" => Described(place)
        BY <2>15, ReturnsRuns, VisitsRuns DEF Sweep
      <4>2. Described(place) => purpose # "none" /\ \A d \in StagingCall : run[d].at # "describe"
        BY DEF Described
      <4> QED BY <2>15, <3>1, <4>1, <4>2 DEF Sweep
    <3>4. OneCreator'
      BY <2>15, <3>1 DEF Sweep, Described
    <3>5. Roles'
      BY <2>15, <3>1 DEF Sweep, Described
    <3> QED BY <3>2, <3>3, <3>4, <3>5
  <2>16. CASE Claim(c)
    BY <2>16, RunSteps DEF Claim
  <2>17. CASE Resolve(c)
    <3>1. Follows(c, {"read", "idle", "move", "check", "plan"})
      BY <2>17, RunSteps
    <3>2. StagingTypeOK'
      BY <2>17, <3>1 DEF Resolve, Described
    <3>3. BornWell'
      <4>1. run'[c].at = "move" => Described(place)
        BY ZenonT(60), <2>17, GoesRuns, RemovesRuns, GivesUpRuns DEF Resolve
      <4>2. Described(place) => purpose # "none" /\ \A d \in StagingCall : run[d].at # "describe"
        BY DEF Described
      <4> QED BY <2>17, <3>1, <4>1, <4>2 DEF Resolve
    <3>4. OneCreator'
      BY <2>17, <3>1 DEF Resolve, Described
    <3>5. Roles'
      BY <2>17, <3>1 DEF Resolve, Described
    <3> QED BY <3>2, <3>3, <3>4, <3>5
  <2>18. CASE Check(c)
    BY <2>18, RunSteps DEF Check, Unchanged
  <2>19. CASE CopyFile(c)
    <3>1. Follows(c, {"copy", "verify", "read", "idle"})
      BY <2>19, RunSteps
    <3>2. StagingTypeOK'
      <4>1. copied' \in Sources
        BY <2>19, DirectoriesTyped
      <4>2. run' \in [StagingCall -> Job]
        BY <3>1
      <4> QED BY <2>19, <4>1, <4>2 DEF CopyFile
    <3>3. BornWell'
      BY <2>19, <3>1 DEF CopyFile
    <3>4. OneCreator'
      BY <2>19, <3>1 DEF CopyFile
    <3>5. Roles'
      BY <2>19, <3>1 DEF CopyFile
    <3> QED BY <3>2, <3>3, <3>4, <3>5
  <2>20. CASE Verify(c)
    BY <2>20, RunSteps DEF Verify
  <2>21. CASE Settle(c)
    BY <2>21, RunSteps DEF Settle
  <2>22. CASE Clean(c)
    BY <2>22 DEF Clean, Free, At, Job
  <2>23. CASE Apply(c)
    <3>1. RunOK' /\ Others(c) /\ run'[c].who = "command" /\ run'[c].at = "sweep"
          /\ run'[c].next = "claim" /\ run'[c].then = "idle"
      BY ZenonT(60), <2>23 DEF Apply, At, Job
    <3> QED BY <2>23, <3>1 DEF Apply
  <2>24. CASE PlanAgain(c)
    BY <2>24 DEF PlanAgain, Free, At, Job
  <2>25. CASE Commit(c)
    BY <2>25 DEF Commit, Free, At, Job
  <2>26. CASE Dies(c)
    <3>1. /\ run' \in [StagingCall -> Job]
          /\ \A d \in StagingCall : run'[d] \in {Idle, run[d]}
      BY <2>26 DEF Dies, Job, At
    <3>2. StagingTypeOK'
      BY <2>26, <3>1 DEF Dies
    <3>3. BornWell'
      BY <2>26, <3>1 DEF Dies
    <3>4. OneCreator'
      BY <2>26, <3>1 DEF Dies
    <3>5. Roles'
      BY <2>26, <3>1 DEF Dies
    <3> QED BY <3>2, <3>3, <3>4, <3>5
  <2> QED BY <1>2, <2>1, <2>2, <2>3, <2>4, <2>5, <2>6, <2>7, <2>8, <2>9, <2>10, <2>11, <2>12, <2>13, <2>14, <2>15, <2>16, <2>17, <2>18, <2>19, <2>20, <2>21, <2>22, <2>23, <2>24, <2>25, <2>26 DEF StagingStep
<1>3. ASSUME NEW t \in {"plan", "preview", "grace"}, Pass(t) PROVE Base'
  BY <1>3 DEF Pass
<1>4. CASE EditSource
  BY <1>4 DEF EditSource
<1> QED BY <1>1, <1>2, <1>3, <1>4 DEF StagingNext
-----------------------------------------------------------------------------
(* The rest of it speaks of the plan and of what is installed.              *)
Rest == EarlyNothing /\ OneInside /\ OneWriter /\ UnusedWhileApplied /\ Verified
        /\ InstalledAsInspected

Planning == {"plan", "write", "print", "discard", "seek"}

(* A call that only stages, cleans up or gives up.                          *)
LEMMA QuietStep ==
    ASSUME Base, Rest, NEW c \in StagingCall, Others(c),
           UNCHANGED <<purpose, stored, agreed, content>>,
           run'[c].at \notin Late \cup Planning,
           Creating(c)' => Creating(c),
           run'[c].next = "claim" => run[c].next = "claim"
    PROVE  Rest'
<1> USE DEF Base, Rest, Others, Late, Planning
<1>1. EarlyNothing'
  BY DEF EarlyNothing, Early, Creating
<1>2. OneInside'
  BY DEF OneInside, Inside
<1>3. OneWriter'
  BY DEF OneWriter
<1>4. UnusedWhileApplied' /\ Verified' /\ InstalledAsInspected'
  BY DEF UnusedWhileApplied, Verified, InstalledAsInspected
<1> QED BY <1>1, <1>2, <1>3, <1>4

LEMMA RestStep == Base /\ Rest /\ [StagingNext]_stagingVars => Rest'
<1> SUFFICES ASSUME Base, Rest, [StagingNext]_stagingVars PROVE Rest'
  OBVIOUS
<1>1. CASE UNCHANGED stagingVars
  BY <1>1 DEF stagingVars, Rest, EarlyNothing, Early, Creating, OneInside, Inside, OneWriter,
     UnusedWhileApplied, Verified, InstalledAsInspected
<1>2. ASSUME NEW c \in StagingCall, StagingStep(c) PROVE Rest'
  <2> USE DEF Late, Planning
  <2>0. /\ Idle.at = "idle" /\ Idle.who = "command" /\ Idle.next = "idle" /\ Idle.then = "idle"
        /\ run \in [StagingCall -> Job]
        /\ run[c].then \in {"idle", "sweep", "read"} /\ run[c].next \in {"idle", "claim"}
    BY DEF Idle, At, Base, StagingTypeOK, Roles
  <2>1. ASSUME NEW p \in {"install", "dashboard", "refresh"}, Create(c, p) PROVE Rest'
    <3>1. /\ purpose = "none" /\ Others(c) /\ run'[c].at = "describe" /\ run'[c].next = "idle"
          /\ UNCHANGED <<stored, agreed, content>>
      BY <2>1, <2>0 DEF Create, At, Others
    <3>2. EarlyNothing' /\ OneInside' /\ UnusedWhileApplied' /\ Verified' /\ InstalledAsInspected'
      BY <3>1 DEF Rest, EarlyNothing, Early, Creating, OneInside, Inside, UnusedWhileApplied,
         Verified, InstalledAsInspected, Others
    <3>3. OneWriter'
      BY <3>1 DEF Rest, EarlyNothing, Early, OneWriter, Others
    <3> QED BY <3>2, <3>3 DEF Rest
  <2>2. CASE Unproven(c)
    BY <2>0, <2>2, RunSteps, QuietStep DEF Unproven, Base, Follows, Creating
  <2>3. CASE Describe(c)
    BY <2>0, <2>3, RunSteps, QuietStep DEF Describe, Base, Follows, Creating
  <2>4. CASE StageFile(c)
    BY <2>0, <2>4, RunSteps, QuietStep DEF StageFile, Base, Follows, Creating
  <2>5. CASE StageFails(c)
    BY <2>0, <2>5, RunSteps, QuietStep DEF StageFails, Base, Follows, Creating
  <2>6. CASE Inspect(c)
    <3>1. Follows(c, {"read", "idle", "plan"})
      BY <2>0, <2>6, RunSteps DEF Inspect, Base
    <3> USE <2>0, <3>1 DEF Rest, Follows, Others, Inspect
    <3>2. EarlyNothing'
      BY <2>6 DEF EarlyNothing, Early, Creating, Base, OneCreator
    <3>3. OneInside'
      BY <2>6 DEF OneInside, Inside, Base, Roles
    <3>4. OneWriter'
      BY <2>6 DEF OneWriter, EarlyNothing, Early, Creating, Base, Roles
    <3>5. UnusedWhileApplied'
      BY <2>6 DEF UnusedWhileApplied, OneInside, Inside, EarlyNothing, Early, Creating, Base, Roles
    <3>6. Verified'
      BY <2>6 DEF Verified, OneInside, Inside, EarlyNothing, Early, Creating
    <3>7. InstalledAsInspected'
      BY <2>6 DEF InstalledAsInspected, Verified, UnusedWhileApplied, EarlyNothing, Early, Creating
    <3> QED BY <3>2, <3>3, <3>4, <3>5, <3>6, <3>7 DEF Rest
  <2>7. CASE Plan(c)
    <3>1. Follows(c, {"read", "idle", "write"})
      BY <2>0, <2>7, RunSteps DEF Plan, Base
    <3> USE <2>0, <3>1 DEF Rest, Follows, Others, Plan
    <3>2. EarlyNothing'
      BY <2>7 DEF EarlyNothing, Early, Creating, Base, OneCreator
    <3>3. OneInside'
      BY <2>7 DEF OneInside, Inside, Base, Roles
    <3>4. OneWriter'
      BY <2>7 DEF OneWriter, EarlyNothing, Early, Creating, Base, Roles
    <3>5. UnusedWhileApplied'
      BY <2>7 DEF UnusedWhileApplied, OneInside, Inside, EarlyNothing, Early, Creating, Base, Roles
    <3>6. Verified'
      BY <2>7 DEF Verified, OneInside, Inside, EarlyNothing, Early, Creating
    <3>7. InstalledAsInspected'
      BY <2>7 DEF InstalledAsInspected, Verified, UnusedWhileApplied, EarlyNothing, Early, Creating
    <3> QED BY <3>2, <3>3, <3>4, <3>5, <3>6, <3>7 DEF Rest
  <2>8. CASE WritePlan(c)
    <3>1. Follows(c, {"print", "read", "idle"})
      BY <2>0, <2>8, RunSteps DEF WritePlan, Base
    <3> USE <2>0, <3>1 DEF Rest, Follows, Others, WritePlan
    <3>2. EarlyNothing'
      BY <2>8 DEF EarlyNothing, Early, Creating, Base, OneCreator
    <3>3. OneInside'
      BY <2>8 DEF OneInside, Inside, Base, Roles
    <3>4. OneWriter'
      BY <2>8 DEF OneWriter, EarlyNothing, Early, Creating, Base, Roles
    <3>5. UnusedWhileApplied'
      BY <2>8 DEF UnusedWhileApplied, OneWriter, Base, Roles
    <3>6. Verified'
      BY <2>8 DEF Verified, OneInside, Inside, EarlyNothing, Early, Creating
    <3>7. InstalledAsInspected'
      BY <2>8 DEF InstalledAsInspected, Verified, UnusedWhileApplied, EarlyNothing, Early, Creating
    <3> QED BY <3>2, <3>3, <3>4, <3>5, <3>6, <3>7 DEF Rest
  <2>9. CASE PrintPlan(c)
    <3>1. Follows(c, {"idle", "discard"})
      BY <2>0, <2>9, RunSteps DEF PrintPlan, Base
    <3> USE <2>0, <3>1 DEF Rest, Follows, Others, PrintPlan
    <3>2. EarlyNothing'
      BY <2>9 DEF EarlyNothing, Early, Creating, Base, OneCreator
    <3>3. OneInside'
      BY <2>9 DEF OneInside, Inside, Base, Roles
    <3>4. OneWriter'
      BY <2>9 DEF OneWriter, EarlyNothing, Early, Creating, Base, Roles
    <3>5. UnusedWhileApplied'
      BY <2>9 DEF UnusedWhileApplied, OneInside, Inside, EarlyNothing, Early, Creating, Base, Roles
    <3>6. Verified'
      BY <2>9 DEF Verified, OneInside, Inside, EarlyNothing, Early, Creating
    <3>7. InstalledAsInspected'
      BY <2>9 DEF InstalledAsInspected, Verified, UnusedWhileApplied, EarlyNothing, Early, Creating
    <3> QED BY <3>2, <3>3, <3>4, <3>5, <3>6, <3>7 DEF Rest
  <2>10. CASE Discard(c)
    <3>1. Follows(c, {"read", "idle"})
      BY <2>0, <2>10, RunSteps DEF Discard, Base
    <3> USE <2>0, <3>1 DEF Rest, Follows, Others, Discard
    <3>2. EarlyNothing'
      BY <2>10 DEF EarlyNothing, Early, Creating, Base, OneCreator
    <3>3. OneInside'
      BY <2>10 DEF OneInside, Inside, Base, Roles
    <3>4. OneWriter'
      BY <2>10 DEF OneWriter, EarlyNothing, Early, Creating, Base, Roles
    <3>5. UnusedWhileApplied'
      BY <2>10 DEF UnusedWhileApplied, OneInside, Inside, EarlyNothing, Early, Creating, Base, Roles
    <3>6. Verified'
      BY <2>10 DEF Verified, OneInside, Inside, EarlyNothing, Early, Creating
    <3>7. InstalledAsInspected'
      BY <2>10 DEF InstalledAsInspected, Verified, UnusedWhileApplied, EarlyNothing, Early, Creating
    <3> QED BY <3>2, <3>3, <3>4, <3>5, <3>6, <3>7 DEF Rest
  <2>11. CASE Read(c)
    BY <2>0, <2>11, RunSteps, QuietStep DEF Read, Base, Follows, Creating
  <2>12. CASE Move(c)
    BY <2>0, <2>12, RunSteps, QuietStep DEF Move, Base, Follows, Creating
  <2>13. CASE Wipe(c)
    BY <2>0, <2>13, RunSteps, QuietStep DEF Wipe, Base, Follows, Creating
  <2>14. CASE WipeFails(c)
    BY <2>0, <2>14, RunSteps, QuietStep DEF WipeFails, Base, Follows, Creating
  <2>15. CASE Sweep(c)
    BY <2>0, <2>15, RunSteps, QuietStep DEF Sweep, Base, Follows, Creating
  <2>16. CASE Claim(c)
    <3>1. Follows(c, {"read", "resolve", "idle"})
      BY <2>16, RunSteps DEF Base
    <3>2. CASE stored # "pending"
      <4>1. run'[c] = Idle /\ UNCHANGED <<purpose, stored, agreed, content>>
        BY <2>0, <2>16, <3>2, EndsRuns DEF Claim, RunOK
      <4> QED BY <2>0, <3>1, <4>1, QuietStep DEF Follows, Creating
    <3>3. CASE stored = "pending"
      <4>1. /\ stored' = "spent" /\ UNCHANGED <<purpose, agreed, content>> /\ ~Early /\ uses = 0
            /\ run[c].at = "claim" /\ run[c].next = "claim" /\ run'[c].next \in {"idle", "claim"}
            /\ run'[c].at \in {"read", "resolve", "idle"}
        BY <2>0, <2>16, <3>1, <3>3 DEF Claim, Follows, Rest, EarlyNothing, UnusedWhileApplied,
           Base, Roles
      <4> USE <3>1, <3>3, <4>1 DEF Rest, Follows, Others
      <4>2. EarlyNothing'
        BY DEF EarlyNothing, Early, Creating
      <4>3. OneInside'
        BY DEF OneInside, Inside
      <4>4. OneWriter'
        BY DEF OneWriter
      <4>5. UnusedWhileApplied' /\ Verified' /\ InstalledAsInspected'
        BY DEF UnusedWhileApplied, Verified, InstalledAsInspected
      <4> QED BY <4>2, <4>3, <4>4, <4>5
    <3> QED BY <3>2, <3>3
  <2>17. CASE Resolve(c)
    <3>1. /\ RunOK' /\ Others(c) /\ run'[c].at \in {"read", "idle", "move", "check", "plan"}
          /\ run'[c].next \in {"idle", run[c].next}
          /\ run'[c].at = "check" => run[c].at = "resolve" /\ run'[c].next = run[c].next
          /\ run'[c].at = "plan" => run[c].at = "seek" /\ run'[c].who = run[c].who
      BY SMTT(30), <2>0, <2>17, GoesRuns, RemovesRuns, GivesUpRuns DEF Resolve, RunOK
    <3>2. CASE run'[c].at \notin {"check", "plan"}
      BY <2>0, <2>17, <3>1, <3>2, QuietStep DEF Resolve, Creating
    <3>3. CASE run'[c].at = "check"
      <4> USE <2>17, <3>1, <3>3 DEF Rest, Resolve, Others
      <4>1. run[c].next = "claim" /\ uses = 0 /\ ~Early
            /\ \A d \in StagingCall : run[d].who = "command" => run[d].at \notin {"plan", "write"}
        BY DEF Base, Roles, UnusedWhileApplied, EarlyNothing, OneWriter
      <4>2. EarlyNothing'
        BY <4>1 DEF EarlyNothing, Early, Creating
      <4>3. OneInside'
        BY <4>1 DEF OneInside, Inside
      <4>4. OneWriter'
        BY <4>1 DEF OneWriter
      <4>5. UnusedWhileApplied' /\ Verified' /\ InstalledAsInspected'
        BY <4>1 DEF UnusedWhileApplied, Verified, InstalledAsInspected
      <4> QED BY <4>2, <4>3, <4>4, <4>5
    <3>4. CASE run'[c].at = "plan"
      <4> USE <2>17, <3>1, <3>4 DEF Rest, Resolve, Others
      <4>1. run'[c].who = "server" /\ ~Early /\ purpose = "dashboard"
            /\ \A d \in StagingCall : run[d].who = "command" => run[d].at \notin {"plan", "write"}
        BY DEF Base, Roles, EarlyNothing
      <4>2. EarlyNothing'
        BY <4>1 DEF EarlyNothing, Early, Creating
      <4>3. OneInside'
        BY <2>0, <4>1 DEF OneInside, Inside
      <4>4. OneWriter'
        BY <4>1 DEF OneWriter
      <4>5. UnusedWhileApplied' /\ Verified' /\ InstalledAsInspected'
        BY <4>1 DEF UnusedWhileApplied, Verified, InstalledAsInspected
      <4> QED BY <4>2, <4>3, <4>4, <4>5
    <3> QED BY <3>1, <3>2, <3>3, <3>4
  <2>18. CASE Check(c)
    <3>1. Follows(c, {"copy", "read", "idle"})
      BY <2>0, <2>18, RunSteps DEF Check, Base
    <3> USE <2>0, <3>1 DEF Rest, Follows, Others, Check
    <3>2. EarlyNothing'
      BY <2>18 DEF EarlyNothing, Early, Creating, Base, OneCreator
    <3>3. OneInside'
      BY <2>18 DEF OneInside, Inside, Base, Roles
    <3>4. OneWriter'
      BY <2>18 DEF OneWriter, EarlyNothing, Early, Creating, Base, Roles
    <3>5. UnusedWhileApplied'
      BY <2>18 DEF UnusedWhileApplied, OneInside, Inside, EarlyNothing, Early, Creating, Base, Roles
    <3>6. Verified'
      BY <2>18 DEF Verified, OneInside, Inside, EarlyNothing, Early, Creating
    <3>7. InstalledAsInspected'
      BY <2>18 DEF InstalledAsInspected, Verified, UnusedWhileApplied, EarlyNothing, Early, Creating
    <3> QED BY <3>2, <3>3, <3>4, <3>5, <3>6, <3>7 DEF Rest
  <2>19. CASE CopyFile(c)
    <3>1. Follows(c, {"copy", "verify", "read", "idle"})
      BY <2>0, <2>19, RunSteps DEF CopyFile, Base
    <3> USE <2>0, <3>1 DEF Rest, Follows, Others, CopyFile
    <3>2. EarlyNothing'
      BY <2>19 DEF EarlyNothing, Early, Creating, Base, OneCreator
    <3>3. OneInside'
      BY <2>19 DEF OneInside, Inside, Base, Roles
    <3>4. OneWriter'
      BY <2>19 DEF OneWriter, EarlyNothing, Early, Creating, Base, Roles
    <3>5. UnusedWhileApplied'
      BY <2>19 DEF UnusedWhileApplied, OneInside, Inside, EarlyNothing, Early, Creating, Base, Roles
    <3>6. Verified'
      BY <2>19 DEF Verified, OneInside, Inside, EarlyNothing, Early, Creating
    <3>7. InstalledAsInspected'
      BY <2>19 DEF InstalledAsInspected, Verified, UnusedWhileApplied, EarlyNothing, Early, Creating
    <3> QED BY <3>2, <3>3, <3>4, <3>5, <3>6, <3>7 DEF Rest
  <2>20. CASE Verify(c)
    <3>1. Follows(c, {"settle", "read", "idle"})
      BY <2>0, <2>20, RunSteps DEF Verify, Base
    <3> USE <2>0, <3>1 DEF Rest, Follows, Others, Verify
    <3>2. EarlyNothing'
      BY <2>20 DEF EarlyNothing, Early, Creating, Base, OneCreator
    <3>3. OneInside'
      BY <2>20 DEF OneInside, Inside, Base, Roles
    <3>4. OneWriter'
      BY <2>20 DEF OneWriter, EarlyNothing, Early, Creating, Base, Roles
    <3>5. UnusedWhileApplied'
      BY <2>20 DEF UnusedWhileApplied, OneInside, Inside, EarlyNothing, Early, Creating, Base, Roles
    <3>6. Verified'
      <4>1. run'[c].at = "settle" => copied = agreed
        <5>1. copied # agreed => GivesUp(c)
          BY <2>20
        <5>2. GivesUp(c) => run'[c].at # "settle"
          BY GivesUpRuns DEF RunOK
        <5> QED BY <5>1, <5>2
      <4> QED BY <2>20, <4>1 DEF Verified
    <3>7. InstalledAsInspected'
      BY <2>20 DEF InstalledAsInspected, Verified, UnusedWhileApplied, EarlyNothing, Early, Creating
    <3> QED BY <3>2, <3>3, <3>4, <3>5, <3>6, <3>7 DEF Rest
  <2>21. CASE Settle(c)
    <3>1. Follows(c, {"read", "idle"})
      BY <2>0, <2>21, RunSteps DEF Settle, Base
    <3> USE <2>0, <3>1 DEF Rest, Follows, Others, Settle
    <3>2. EarlyNothing'
      BY <2>21 DEF EarlyNothing, Early, Creating, Base, OneCreator
    <3>3. OneInside'
      BY <2>21 DEF OneInside, Inside, Base, Roles
    <3>4. OneWriter'
      BY <2>21 DEF OneWriter, EarlyNothing, Early, Creating, Base, Roles
    <3>5. UnusedWhileApplied'
      BY <2>21 DEF UnusedWhileApplied, OneInside, Inside, EarlyNothing, Early, Creating, Base, Roles
    <3>6. Verified'
      BY <2>21 DEF Verified, OneInside, Inside, EarlyNothing, Early, Creating
    <3>7. InstalledAsInspected'
      BY <2>21 DEF InstalledAsInspected, Verified, UnusedWhileApplied, EarlyNothing, Early, Creating
    <3> QED BY <3>2, <3>3, <3>4, <3>5, <3>6, <3>7 DEF Rest
  <2>22. CASE Clean(c)
    <3>1. run' = [run EXCEPT ![c] = [At("command", "sweep") EXCEPT !.left = Entry]]
      BY <2>22 DEF Clean
    <3>2. Others(c) /\ run'[c].at = "sweep" /\ run'[c].next = "idle"
      BY <2>0, <3>1 DEF At, Others
    <3> QED BY <2>22, <3>2, QuietStep DEF Clean, Creating
  <2>23. CASE Apply(c)
    <3>1. Others(c) /\ run'[c].at = "sweep" /\ run'[c].next = "claim" /\ run'[c].who = "command"
      BY <2>0, <2>23 DEF Apply, At, Others
    <3> USE <2>0, <3>1 DEF Rest, LeaseFree, Others, Apply
    <3>2. EarlyNothing'
      BY <2>23 DEF EarlyNothing, Early, Creating, Base, OneCreator
    <3>3. OneInside'
      BY <2>23 DEF OneInside, Inside, Base, Roles
    <3>4. OneWriter'
      BY <2>23 DEF OneWriter, EarlyNothing, Early, Creating, Base, Roles
    <3>5. UnusedWhileApplied'
      BY <2>23 DEF UnusedWhileApplied, OneInside, Inside, EarlyNothing, Early, Creating, Base, Roles
    <3>6. Verified'
      BY <2>23 DEF Verified, OneInside, Inside, EarlyNothing, Early, Creating
    <3>7. InstalledAsInspected'
      BY <2>23 DEF InstalledAsInspected, Verified, UnusedWhileApplied, EarlyNothing, Early, Creating
    <3> QED BY <3>2, <3>3, <3>4, <3>5, <3>6, <3>7 DEF Rest
  <2>24. CASE PlanAgain(c)
    <3>1. Others(c) /\ run'[c].at = "seek" /\ run'[c].next = "idle" /\ run'[c].who = "server"
      BY <2>0, <2>24 DEF PlanAgain, At, Others
    <3> USE <2>0, <3>1 DEF Rest, LeaseFree, Others, PlanAgain
    <3>2. EarlyNothing'
      BY <2>24 DEF EarlyNothing, Early, Creating, Base, OneCreator
    <3>3. OneInside'
      BY <2>24 DEF OneInside, Inside, Base, Roles
    <3>4. OneWriter'
      BY <2>24 DEF OneWriter, EarlyNothing, Early, Creating, Base, Roles
    <3>5. UnusedWhileApplied'
      BY <2>24 DEF UnusedWhileApplied, OneInside, Inside, EarlyNothing, Early, Creating, Base, Roles
    <3>6. Verified'
      BY <2>24 DEF Verified, OneInside, Inside, EarlyNothing, Early, Creating
    <3>7. InstalledAsInspected'
      BY <2>24 DEF InstalledAsInspected, Verified, UnusedWhileApplied, EarlyNothing, Early, Creating
    <3> QED BY <3>2, <3>3, <3>4, <3>5, <3>6, <3>7 DEF Rest
  <2>25. CASE Commit(c)
    <3>1. Others(c) /\ run'[c].at = "check" /\ run'[c].next = "idle" /\ run'[c].who = "server"
      BY <2>0, <2>25 DEF Commit, At, Others
    <3> USE <2>0, <3>1 DEF Rest, LeaseFree, Others, Commit
    <3>2. EarlyNothing'
      BY <2>25 DEF EarlyNothing, Early, Creating, Base, OneCreator
    <3>3. OneInside'
      BY <2>25 DEF OneInside, Inside, Base, Roles
    <3>4. OneWriter'
      BY <2>25 DEF OneWriter, EarlyNothing, Early, Creating, Base, Roles
    <3>5. UnusedWhileApplied'
      BY <2>25 DEF UnusedWhileApplied, OneInside, Inside, EarlyNothing, Early, Creating, Base, Roles
    <3>6. Verified'
      BY <2>25 DEF Verified, OneInside, Inside, EarlyNothing, Early, Creating
    <3>7. InstalledAsInspected'
      BY <2>25 DEF InstalledAsInspected, Verified, UnusedWhileApplied, EarlyNothing, Early, Creating
    <3> QED BY <3>2, <3>3, <3>4, <3>5, <3>6, <3>7 DEF Rest
  <2>26. CASE Dies(c)
    <3>1. /\ \A d \in StagingCall : run'[d] \in {Idle, run[d]}
          /\ stored' \in {stored, "forgotten"} /\ UNCHANGED <<purpose, agreed, content>>
      BY <2>0, <2>26 DEF Dies
    <3> USE <2>0, <3>1 DEF Rest
    <3>2. EarlyNothing'
      BY DEF EarlyNothing, Early, Creating
    <3>3. OneInside'
      BY DEF OneInside, Inside
    <3>4. OneWriter'
      BY DEF OneWriter
    <3>5. UnusedWhileApplied' /\ Verified' /\ InstalledAsInspected'
      BY DEF UnusedWhileApplied, Verified, InstalledAsInspected
    <3> QED BY <3>2, <3>3, <3>4, <3>5
  <2> QED BY <1>2, <2>1, <2>2, <2>3, <2>4, <2>5, <2>6, <2>7, <2>8, <2>9, <2>10, <2>11, <2>12, <2>13, <2>14, <2>15, <2>16, <2>17, <2>18, <2>19, <2>20, <2>21, <2>22, <2>23, <2>24, <2>25, <2>26 DEF StagingStep
<1>3. ASSUME NEW t \in {"plan", "preview", "grace"}, Pass(t) PROVE Rest'
  BY <1>3 DEF Pass, Rest, EarlyNothing, Early, Creating, OneInside, Inside, OneWriter,
     UnusedWhileApplied, Verified, InstalledAsInspected
<1>4. CASE EditSource
  BY <1>4 DEF EditSource, Rest, EarlyNothing, Early, Creating, OneInside, Inside, OneWriter,
     UnusedWhileApplied, Verified, InstalledAsInspected
<1> QED BY <1>1, <1>2, <1>3, <1>4 DEF StagingNext

LEMMA StagingBegins == StagingInit => Base /\ Rest
<1> SUFFICES ASSUME StagingInit PROVE Base /\ Rest
  OBVIOUS
<1>1. Idle \in Job /\ Idle.at = "idle" /\ Idle.who = "command" /\ Idle.next = "idle"
      /\ Idle.then = "idle"
  BY DEF Idle, At, Job
<1>2. \A c \in StagingCall : run[c] = Idle
  BY DEF StagingInit
<1>3. StagingTypeOK
  <2>1. run \in [StagingCall -> Job]
    BY <1>1 DEF StagingInit
  <2>2. {agreed, copied, installed} \subseteq Sources
    BY DEF StagingInit
  <2>3. begun \in 0..StagingCalls /\ faults \in 0..StagingFaults /\ edited \in 0..SourceEdits
    BY StagingConstants DEF StagingInit
  <2> QED BY <2>1, <2>2, <2>3 DEF StagingInit, StagingTypeOK
<1>4. BornWell /\ OneCreator /\ Roles
  BY <1>1, <1>2 DEF StagingInit, BornWell, Unclaimed, OneCreator, Creating, Roles, Late
<1>5. Rest
  BY <1>1, <1>2 DEF StagingInit, Rest, EarlyNothing, OneInside, Inside, OneWriter,
     UnusedWhileApplied, Verified, InstalledAsInspected, Late
<1> QED BY <1>3, <1>4, <1>5 DEF Base

(* The variables keep their types.                                          *)
THEOREM StagingTypeCorrect == StagingSpec => []StagingTypeOK
<1>1. StagingInit => Base
  BY StagingBegins
<1>2. Base => StagingTypeOK
  BY DEF Base
<1> QED BY <1>1, <1>2, BaseStep, PTL DEF StagingSpec

(* What is installed is what was inspected, and a plan installs once:      *)
(* applyInstallationPlan, the claim of a command and the commit of the     *)
(* server, for every number of calls, files, failures and edits.           *)
THEOREM InstalledAsInspectedHolds == StagingSpec => []InstalledAsInspected
<1>1. Base /\ Rest /\ [StagingNext]_stagingVars => Base' /\ Rest'
  BY BaseStep, RestStep
<1>2. Rest => InstalledAsInspected
  BY DEF Rest
<1> QED BY <1>1, <1>2, StagingBegins, PTL DEF StagingSpec
-----------------------------------------------------------------------------
(* A shown plan has its preview.  Until the preview expires nobody removes  *)
(* it while it is made, while a plan of it is made, written or printed,     *)
(* while a shown plan is pending, or while the server may plan it again.    *)
Plans(c)  == run[c].who = "command" /\ run[c].at \in {"plan", "write"}
Prints(c) == run[c].at \in {"print", "discard"}

Awaited ==
    \/ Early
    \/ \E c \in StagingCall : Plans(c)
    \/ stored = "pending" /\ (told \/ \E c \in StagingCall : run[c].at = "print")
    \/ purpose = "dashboard" /\ agreed # NoSource

NotRemoved == \A c \in StagingCall : run[c].at \notin {"read", "move"} /\ run[c].then # "read"

Whole ==
    /\ purpose = "none" \/ (\E c \in StagingCall : run[c].at = "describe") \/ Described(place)
    /\ \A f \in PreviewFile : agreed[f] # "none" => place.file[f] # "none"

KeptUntilExpiry == "preview" \notin past /\ Awaited => NotRemoved /\ Whole

(* Only an expired preview is read again after it has been removed.         *)
ReadAgain == \A c \in StagingCall : run[c].then = "read" => "preview" \in past

(* One call plans and prints for a command, and nothing is shown before.    *)
OnePrinter ==
    /\ \A c, d \in StagingCall : (Plans(c) \/ Prints(c)) /\ (Plans(d) \/ Prints(d)) => c = d
    /\ \A c \in StagingCall : Prints(c) => purpose = "install"
    /\ Early \/ (\E c \in StagingCall : Plans(c)) => ~told

(* A command installs a plan it has claimed; the server plans what it has   *)
(* inspected.                                                               *)
PlanBehind ==
    \A c \in StagingCall :
        /\ run[c].who = "command" /\ run[c].at \in Late => stored = "spent"
        /\ run[c].who = "server" /\ run[c].at \in {"seek", "plan"} => agreed # NoSource

Shown == KeptUntilExpiry /\ ReadAgain /\ OnePrinter /\ PlanBehind

-----------------------------------------------------------------------------
(* Who gives up: a command goes to expire the preview, the server returns.  *)
LEMMA GivesUpAs ==
    ASSUME RunOK, NEW c \in StagingCall, GivesUp(c)
    PROVE  \/ run[c].who = "command" /\ run'[c].who = "command" /\ run'[c].at = "read"
           \/ run[c].who = "server" /\ run'[c] = Idle
<1>1. run[c].who \in {"command", "server"}
  BY DEF RunOK, Job
<1>2. CASE run[c].who = "command"
  <2>1. Removes(c, "read", "idle")
    BY <1>2 DEF GivesUp
  <2>2. {"read", "idle"} \subseteq Step
    OBVIOUS
  <2> QED BY <1>2, <2>1, <2>2, RemovesRuns
<1>3. CASE run[c].who = "server"
  BY <1>3, EndsRuns DEF GivesUp
<1> QED BY <1>1, <1>2, <1>3

(* Where a call goes from where it was.                                     *)
LEMMA WhereTo ==
    ASSUME Base, NEW c \in StagingCall
    PROVE  /\ StageFails(c) => run'[c].at \in {"read", "idle"}
           /\ WritePlan(c) => \/ run'[c].at = "print" /\ run'[c].who = "command" /\ stored' = "pending"
                              \/ run'[c].at = "read" /\ stored' \in {"none", "pending"}
           /\ PrintPlan(c) => \/ run'[c].at = "idle" /\ told' = TRUE
                              \/ run'[c].at = "discard" /\ UNCHANGED told
           /\ Discard(c) => \/ run'[c].at = "read" /\ stored' = "spent"
                            \/ run'[c].at = "idle" /\ UNCHANGED stored
           /\ Plan(c) => \/ run'[c].at = "read" /\ run[c].who = "command" /\ UNCHANGED <<stored, past, told>>
                         \/ run'[c].at = "idle" /\ run[c].who = "server" /\ UNCHANGED <<stored, past, told>>
                         \/ run'[c].at = "write" /\ run[c].who = "command" /\ UNCHANGED <<stored, past, told>>
                         \/ run'[c].at = "idle" /\ run[c].who = "server" /\ stored' = "pending"
                            /\ past' = past \ {"plan"} /\ told' = TRUE
           /\ Claim(c) => \/ stored = "pending" /\ stored' = "spent" /\ run'[c].who = "command"
                             /\ run'[c].at \in {"read", "resolve"}
                          \/ stored # "pending" /\ UNCHANGED stored /\ run'[c].at = "idle"
           /\ Resolve(c) =>
                \/ ~Described(place) /\ run'[c].at = IF run[c].who = "command" THEN "read" ELSE "idle"
                \/ Expired /\ run'[c].at = "move"
                \/ run'[c].at = IF run[c].at = "resolve" THEN "check" ELSE "plan"
           /\ Check(c) \/ CopyFile(c) \/ Verify(c) =>
                \/ run'[c].at = "read" /\ run[c].who = "command"
                \/ run'[c].at = "idle" /\ run[c].who = "server"
                \/ run'[c].at \in Late \ {"resolve"} /\ run'[c].who = run[c].who
           /\ Settle(c) => \/ run'[c].at = "read" /\ run[c].who = "command"
                           \/ run'[c].at = "idle" /\ run[c].who = "server"
<1>1. RunOK /\ run[c] \in Job
  BY DEF Base, StagingTypeOK, RunOK
<1>2. Idle.at = "idle" /\ Idle.who = "command"
  BY DEF Idle, At
<1>3. /\ run[c].at \in {"write", "print", "discard"} => run[c].who = "command"
      /\ run[c].at = "claim" => run[c].who = "command"
  BY DEF Base, Roles
<1> USE <1>1, <1>2
<1>4. StageFails(c) => run'[c].at \in {"read", "idle"}
  BY GivesUpRuns DEF StageFails
<1>5. WritePlan(c) => \/ run'[c].at = "print" /\ run'[c].who = "command" /\ stored' = "pending"
                      \/ run'[c].at = "read" /\ stored' \in {"none", "pending"}
  BY <1>3, GivesUpAs, GoesRuns DEF WritePlan
<1>6. PrintPlan(c) => \/ run'[c].at = "idle" /\ told' = TRUE
                      \/ run'[c].at = "discard" /\ UNCHANGED told
  BY EndsRuns, GoesRuns DEF PrintPlan
<1>7. Discard(c) => \/ run'[c].at = "read" /\ stored' = "spent"
                    \/ run'[c].at = "idle" /\ UNCHANGED stored
  BY <1>3, EndsRuns, GivesUpAs DEF Discard
<1>8. Plan(c) => \/ run'[c].at = "read" /\ run[c].who = "command" /\ UNCHANGED <<stored, past, told>>
                 \/ run'[c].at = "idle" /\ run[c].who = "server" /\ UNCHANGED <<stored, past, told>>
                 \/ run'[c].at = "write" /\ run[c].who = "command" /\ UNCHANGED <<stored, past, told>>
                 \/ run'[c].at = "idle" /\ run[c].who = "server" /\ stored' = "pending"
                    /\ past' = past \ {"plan"} /\ told' = TRUE
  BY GivesUpAs, GoesRuns, EndsRuns DEF Plan
<1>9. Claim(c) => \/ stored = "pending" /\ stored' = "spent" /\ run'[c].who = "command"
                     /\ run'[c].at \in {"read", "resolve"}
                  \/ stored # "pending" /\ UNCHANGED stored /\ run'[c].at = "idle"
  BY <1>3, GoesRuns, EndsRuns DEF Claim
<1>10. Resolve(c) =>
         \/ ~Described(place) /\ run'[c].at = IF run[c].who = "command" THEN "read" ELSE "idle"
         \/ Expired /\ run'[c].at = "move"
         \/ run'[c].at = IF run[c].at = "resolve" THEN "check" ELSE "plan"
  BY SMTT(30), GivesUpAs, GoesRuns, RemovesRuns DEF Resolve
<1>11. Check(c) \/ CopyFile(c) \/ Verify(c) =>
         \/ run'[c].at = "read" /\ run[c].who = "command"
         \/ run'[c].at = "idle" /\ run[c].who = "server"
         \/ run'[c].at \in Late \ {"resolve"} /\ run'[c].who = run[c].who
  <2>1. Check(c) => GivesUp(c) \/ Loops(c, "copy", PreviewFile)
    BY DEF Check
  <2>2. CopyFile(c) => GivesUp(c) \/ Goes(c, "verify")
                       \/ \E f \in run[c].left : Loops(c, "copy", run[c].left \ {f})
    BY DEF CopyFile
  <2>3. Verify(c) => GivesUp(c) \/ Goes(c, "settle")
    BY DEF Verify
  <2>4. \A f : run[c].left \ {f} \in SUBSET (PreviewFile \cup Entry)
    BY DEF Job
  <2> QED BY <2>1, <2>2, <2>3, <2>4, GivesUpAs, GoesRuns, LoopsRuns DEF Late
<1>12. Settle(c) => \/ run'[c].at = "read" /\ run[c].who = "command"
                    \/ run'[c].at = "idle" /\ run[c].who = "server"
  BY GivesUpAs DEF Settle
<1> QED BY <1>4, <1>5, <1>6, <1>7, <1>8, <1>9, <1>10, <1>11, <1>12

(* A call that begins, and the calls that end with a death.                 *)
LEMMA BeginsOrDies ==
    ASSUME Base, NEW c \in StagingCall
    PROVE  /\ \A p \in {"install", "dashboard", "refresh"} : Create(c, p) =>
                 Others(c) /\ run[c] = Idle /\ run'[c].at = "describe" /\ run'[c].then = "idle"
           /\ Clean(c) \/ Apply(c) =>
                 Others(c) /\ run[c] = Idle /\ run'[c].at = "sweep" /\ run'[c].then = "idle"
           /\ PlanAgain(c) =>
                 Others(c) /\ run[c] = Idle /\ run'[c].at = "seek" /\ run'[c].then = "idle"
           /\ Commit(c) =>
                 Others(c) /\ run[c] = Idle /\ run'[c].at = "check" /\ run'[c].then = "idle"
                 /\ run'[c].who = "server"
           /\ Dies(c) =>
                 /\ \A d \in StagingCall : run'[d] \in {Idle, run[d]}
                 /\ stored' # stored => stored' = "forgotten" /\ purpose = "dashboard"
           /\ Idle.at = "idle" /\ Idle.then = "idle" /\ Idle.who = "command"
<1>1. run \in [StagingCall -> Job]
  BY DEF Base, StagingTypeOK
<1>2. Dies(c) /\ stored' # stored => stored' = "forgotten" /\ purpose = "dashboard"
  <2>1. run[c].who \in {"command", "server"}
    BY <1>1 DEF Job
  <2> QED BY <2>1 DEF Dies, Base, Roles
<1>3. Dies(c) => \A d \in StagingCall : run'[d] \in {Idle, run[d]}
  BY <1>1 DEF Dies
<1>4. ASSUME NEW p \in {"install", "dashboard", "refresh"}, Create(c, p)
      PROVE  Others(c) /\ run[c] = Idle /\ run'[c].at = "describe" /\ run'[c].then = "idle"
  BY <1>1, <1>4 DEF Create, Free, Others, At
<1>5. Clean(c) \/ Apply(c) =>
        Others(c) /\ run[c] = Idle /\ run'[c].at = "sweep" /\ run'[c].then = "idle"
  BY <1>1 DEF Clean, Apply, Free, Others, At
<1>6. PlanAgain(c) =>
        Others(c) /\ run[c] = Idle /\ run'[c].at = "seek" /\ run'[c].then = "idle"
  BY <1>1 DEF PlanAgain, Free, Others, At
<1>7. Commit(c) => Others(c) /\ run[c] = Idle /\ run'[c].at = "check" /\ run'[c].then = "idle"
                   /\ run'[c].who = "server"
  BY <1>1 DEF Commit, Free, Others, At
<1>8. Idle.at = "idle" /\ Idle.then = "idle" /\ Idle.who = "command"
  BY DEF Idle, At
<1> QED BY <1>2, <1>3, <1>4, <1>5, <1>6, <1>7, <1>8

LEMMA PlanBehindStep ==
    Base /\ Rest /\ PlanBehind /\ [StagingNext]_stagingVars => PlanBehind'
<1> SUFFICES ASSUME Base, Rest, PlanBehind, [StagingNext]_stagingVars PROVE PlanBehind'
  OBVIOUS
<1>1. CASE UNCHANGED stagingVars
  BY <1>1 DEF stagingVars, PlanBehind
<1>2. ASSUME NEW c \in StagingCall, StagingStep(c) PROVE PlanBehind'
  <2> USE DEF Late
  <2>1. RunOK /\ run[c] \in Job /\ RunOK' /\ run'[c] \in Job
    <3>1. Base'
      BY <1>2, BaseStep DEF StagingNext
    <3> QED BY <3>1 DEF Base, StagingTypeOK, RunOK
  <2>2. /\ \A d \in StagingCall : run[d].who = "server" => purpose = "dashboard"
        /\ \A d \in StagingCall : run[d].who = "command" /\ run[d].at \in Late \cup {"plan", "write"}
                                    => purpose = "install"
        /\ \A d \in StagingCall : run[d].at = "seek" => run[d].who = "server"
    BY DEF Base, Roles
  <2>3. ASSUME Others(c), agreed' = agreed \/ agreed' # NoSource,
               stored' = stored \/ stored' = "spent" \/ purpose = "dashboard"
                       \/ (run[c].who = "command" /\ run[c].at = "write"),
               run'[c].at \in Late /\ run'[c].who = "command" => stored' = "spent",
               run'[c].at \in {"seek", "plan"} /\ run'[c].who = "server" => agreed' # NoSource
        PROVE  PlanBehind'
    <3>1. ASSUME NEW d \in StagingCall, d # c, run[d].who = "command", run[d].at \in Late
          PROVE  stored' = "spent"
      <4>1. stored = "spent" /\ purpose # "dashboard"
        BY <2>2, <3>1 DEF PlanBehind
      <4>2. ~(run[c].who = "command" /\ run[c].at = "write")
        BY <3>1 DEF Rest, OneWriter
      <4> QED BY <2>3, <4>1, <4>2
    <3> QED BY <2>3, <3>1 DEF PlanBehind, Others
  <2> USE <2>1 DEF Follows
  <2>4. ASSUME NEW p \in {"install", "dashboard", "refresh"}, Create(c, p) PROVE PlanBehind'
    BY <2>3, <2>4, BeginsOrDies DEF Create
  <2>5. CASE Unproven(c) \/ Describe(c) \/ StageFile(c) \/ StageFails(c)
    <3>1. Others(c) /\ run'[c].at \in {"idle", "stage", "move", "inspect", "read"}
          /\ UNCHANGED <<stored, agreed>>
      BY <2>5, RunSteps DEF Base, Unproven, Describe, StageFile, StageFails
    <3> QED BY <2>3, <3>1
  <2>6. CASE Inspect(c)
    <3>1. Others(c) /\ run'[c].at \in {"read", "idle", "plan"} /\ UNCHANGED stored
          /\ (agreed' = agreed \/ agreed' # NoSource)
      BY <2>6, RunSteps DEF Base, Inspect
    <3>2. run'[c].at = "plan" => agreed' # NoSource
      <4>1. run'[c].at = "plan" => Goes(c, "plan")
        BY <2>6, GivesUpRuns, EndsRuns, BeginsOrDies DEF Inspect
      <4> DEFINE found == IF place = NoDirectory THEN NoSource ELSE place.file
                 right == found # NoSource /\ (purpose = "install" => found = Staged)
      <4>2. CASE ~right \/ purpose = "refresh"
        BY <2>6, <4>2, GivesUpRuns, BeginsOrDies DEF Inspect
      <4>3. CASE right /\ purpose # "refresh"
        BY <2>6, <4>3 DEF Inspect
      <4> QED BY <4>2, <4>3
    <3> QED BY <2>3, <3>1, <3>2
  <2>7. CASE Plan(c)
    <3>1. Others(c) /\ UNCHANGED agreed /\ run[c].at = "plan"
      BY <2>7, RunSteps DEF Base, Plan
    <3>2. run'[c].at \in {"read", "idle", "write"} /\ (stored' # stored => purpose = "dashboard")
      BY <2>2, <2>7, WhereTo
    <3> QED BY <2>3, <3>1, <3>2
  <2>8. CASE WritePlan(c)
    <3>1. Others(c) /\ UNCHANGED agreed /\ run'[c].at \in {"print", "read", "idle"}
          /\ run[c].at = "write" /\ run[c].who = "command"
      BY <2>8, RunSteps DEF Base, WritePlan, Roles
    <3> QED BY <2>3, <3>1
  <2>9. CASE PrintPlan(c) \/ Discard(c)
    <3>1. Others(c) /\ UNCHANGED agreed /\ run'[c].at \in {"idle", "discard", "read"}
          /\ stored' \in {stored, "spent"}
      BY <2>9, RunSteps DEF Base, PrintPlan, Discard
    <3> QED BY <2>3, <3>1
  <2>10. CASE Read(c) \/ Move(c) \/ Wipe(c) \/ WipeFails(c) \/ Sweep(c)
    <3>1. Others(c) /\ UNCHANGED <<stored, agreed>>
      BY <2>10, RunSteps DEF Base, Read, Move, Wipe, WipeFails, Sweep
    <3>2. run'[c].at \in {"move", "wipe", "sweep", "idle", "claim", "read"}
      BY <2>10, RunSteps DEF Base, Roles
    <3> QED BY <2>3, <3>1, <3>2
  <2>11. CASE Claim(c)
    BY <2>3, <2>11, WhereTo, RunSteps DEF Base, Claim
  <2>12. CASE Resolve(c)
    <3>1. Others(c) /\ UNCHANGED <<stored, agreed>> /\ run[c].at \in {"resolve", "seek"}
          /\ (run'[c].who = run[c].who \/ run'[c] = Idle)
      BY <2>12, RunSteps DEF Base, Resolve
    <3>2. run'[c].at \in {"read", "idle", "move", "check", "plan"}
          /\ (run'[c].at = "check" => run[c].at = "resolve")
      BY <2>12, WhereTo, <3>1
    <3>3. run'[c].at = "plan" => run[c].at = "seek"
      BY <2>12, WhereTo, <3>1
    <3> QED BY <2>3, <3>1, <3>2, <3>3, BeginsOrDies DEF PlanBehind
  <2>13. CASE Check(c) \/ CopyFile(c) \/ Verify(c)
    <3>1. Others(c) /\ UNCHANGED <<stored, agreed>> /\ run[c].at \in Late
      BY <2>13, RunSteps DEF Base, Check, CopyFile, Verify
    <3>2. \/ run'[c].at \in {"read", "idle"}
          \/ run'[c].at \in Late /\ run'[c].who = run[c].who
      BY <2>13, WhereTo
    <3> QED BY <2>3, <3>1, <3>2 DEF PlanBehind
  <2>14. CASE Settle(c)
    BY <2>3, <2>14, RunSteps DEF Base, Settle
  <2>15. CASE Clean(c) \/ Apply(c)
    BY <2>3, <2>15, BeginsOrDies DEF Clean, Apply
  <2>16. CASE PlanAgain(c)
    BY <2>3, <2>16, BeginsOrDies DEF PlanAgain
  <2>17. CASE Commit(c)
    BY <2>3, <2>17, BeginsOrDies DEF Commit
  <2>18. CASE Dies(c)
    <3>1. /\ \A d \in StagingCall : run'[d] \in {Idle, run[d]}
          /\ stored' # stored => purpose = "dashboard"
          /\ UNCHANGED agreed /\ Idle.at = "idle"
      BY <2>18, BeginsOrDies DEF Dies
    <3> QED BY <2>2, <3>1 DEF PlanBehind
  <2> QED BY <1>2, <2>4, <2>5, <2>6, <2>7, <2>8, <2>9, <2>10, <2>11, <2>12, <2>13, <2>14, <2>15,
             <2>16, <2>17, <2>18 DEF StagingStep
<1>3. CASE (\E t \in {"plan", "preview", "grace"} : Pass(t)) \/ EditSource
  BY <1>3 DEF Pass, EditSource, PlanBehind
<1> QED BY <1>1, <1>2, <1>3 DEF StagingNext

LEMMA ReadAgainStep ==
    Base /\ ReadAgain /\ [StagingNext]_stagingVars => ReadAgain'
<1> SUFFICES ASSUME Base, ReadAgain, [StagingNext]_stagingVars PROVE ReadAgain'
  OBVIOUS
<1>1. CASE UNCHANGED stagingVars
  BY <1>1 DEF stagingVars, ReadAgain
<1>2. ASSUME NEW c \in StagingCall, StagingStep(c) PROVE ReadAgain'
  <2>1. RunOK /\ run[c] \in Job /\ run[c].then \in Step /\ run[c].next \in Step
    BY DEF Base, StagingTypeOK, RunOK, Job
  <2>2. "preview" \in past => "preview" \in past'
    <3>1. \A p \in {"install", "dashboard", "refresh"} : Create(c, p) => UNCHANGED past
      BY DEF Create
    <3> QED BY <1>2, <3>1 DEF StagingStep, Unproven, Describe, StageFile, StageFails, Inspect,
          Plan, WritePlan, PrintPlan, Discard, Read, Move, Wipe, WipeFails, Clean, Sweep, Apply,
          Claim, Resolve, PlanAgain, Commit, Check, CopyFile, Verify, Settle, Dies
  <2>3. \A d \in StagingCall \ {c} : run'[d] \in {Idle, run[d]}
    BY <1>2, BeginsOrDies, RunSteps DEF Base, StagingStep, Follows, Others
  <2>4. Idle.then = "idle"
    BY BeginsOrDies
  <2>5. run'[c].then \in {run[c].then, "idle", "sweep"} \/ Resolve(c)
    <3> USE <2>1, <2>4
    <3>1. CASE \/ \E p \in {"install", "dashboard", "refresh"} : Create(c, p)
               \/ Clean(c) \/ Apply(c) \/ PlanAgain(c) \/ Commit(c) \/ Dies(c)
      BY <3>1, BeginsOrDies
    <3>2. CASE Unproven(c) \/ StageFile(c) \/ StageFails(c) \/ Inspect(c)
      BY <3>2, EndsRuns, LoopsRuns, GivesUpRuns, GoesRuns
         DEF Unproven, StageFile, StageFails, Inspect, Job
    <3>3. CASE Describe(c)
      BY <3>3, LoopsRuns, RemovesRuns DEF Describe
    <3>4. CASE Plan(c) \/ WritePlan(c) \/ PrintPlan(c) \/ Discard(c)
      BY <3>4, EndsRuns, GivesUpRuns, GoesRuns DEF Plan, WritePlan, PrintPlan, Discard
    <3>5. CASE Read(c) \/ Move(c) \/ Wipe(c) \/ WipeFails(c)
      BY <3>5, ReturnsRuns, GoesRuns DEF Read, Move, Wipe, WipeFails
    <3>6. CASE Sweep(c)
      BY <3>6, ReturnsRuns, VisitsRuns DEF Sweep
    <3>7. CASE Claim(c) \/ Check(c) \/ CopyFile(c) \/ Verify(c) \/ Settle(c)
      BY <3>7, EndsRuns, GivesUpRuns, GoesRuns, LoopsRuns
         DEF Claim, Check, CopyFile, Verify, Settle, Job
    <3> QED BY <1>2, <3>1, <3>2, <3>3, <3>4, <3>5, <3>6, <3>7 DEF StagingStep
  <2>6. Resolve(c) /\ ~Expired => run'[c].then \in {run[c].then, "idle"}
    BY <2>1, <2>4, GivesUpRuns, GoesRuns DEF Resolve
  <2> QED BY <2>2, <2>3, <2>4, <2>5, <2>6 DEF ReadAgain, Expired
<1>3. CASE (\E t \in {"plan", "preview", "grace"} : Pass(t)) \/ EditSource
  BY <1>3 DEF Pass, EditSource, ReadAgain
<1> QED BY <1>1, <1>2, <1>3 DEF StagingNext

(* Nothing becomes awaited: what is planned was being created, what is      *)
(* shown was planned.                                                       *)
LEMMA PlanningStep ==
    ASSUME Base, Rest, NEW c \in StagingCall, StagingStep(c)
    PROVE  /\ \A d \in StagingCall \ {c} : run'[d] \in {Idle, run[d]}
           /\ purpose' = purpose \/ (purpose = "none" /\ run'[c].at = "describe")
           /\ Early' => Early
           /\ Plans(c)' => Plans(c) \/ Creating(c)
           /\ Prints(c)' => Prints(c) \/ Plans(c)
           /\ run'[c].at = "print" => Plans(c)
           /\ told' # told => \/ run[c].at = "print" /\ UNCHANGED stored /\ run'[c].at = "idle"
                              \/ run[c].who = "server" /\ run[c].at = "plan" /\ run'[c].at = "idle"
           /\ stored' = "pending" /\ stored # "pending" =>
                  Plans(c) \/ (run[c].who = "server" /\ run[c].at = "plan")
           /\ agreed' # agreed => Creating(c)
<1> DEFINE A1 == \A d \in StagingCall \ {c} : run'[d] \in {Idle, run[d]}
           A2 == purpose' = purpose \/ (purpose = "none" /\ run'[c].at = "describe")
           A3 == Creating(c)' => Creating(c) \/ purpose = "none"
           A4 == Plans(c)' => Plans(c) \/ Creating(c)
           A5 == Prints(c)' => Prints(c) \/ Plans(c)
           A6 == run'[c].at = "print" => Plans(c)
           A7 == told' # told => \/ run[c].at = "print" /\ UNCHANGED stored /\ run'[c].at = "idle"
                                 \/ run[c].who = "server" /\ run[c].at = "plan" /\ run'[c].at = "idle"
           A8 == stored' = "pending" /\ stored # "pending" =>
                     Plans(c) \/ (run[c].who = "server" /\ run[c].at = "plan")
           A9 == agreed' # agreed => Creating(c)
           All == A1 /\ A2 /\ A3 /\ A4 /\ A5 /\ A6 /\ A7 /\ A8 /\ A9
<1>0. Idle.at = "idle" /\ Idle.who = "command" /\ RunOK
  BY BeginsOrDies DEF Base, StagingTypeOK, RunOK
<1>1. All
  <2> USE <1>0 DEF Plans, Prints, Creating, Follows, Others, Late
  <2>1. ASSUME NEW p \in {"install", "dashboard", "refresh"}, Create(c, p) PROVE All
    BY <2>1, BeginsOrDies DEF Create
  <2>2. CASE Unproven(c)
    BY <2>2, RunSteps DEF Base, Unproven
  <2>3. CASE Describe(c)
    BY <2>3, RunSteps DEF Base, Describe
  <2>4. CASE StageFile(c)
    BY <2>4, RunSteps DEF Base, StageFile
  <2>5. CASE StageFails(c)
    BY <2>5, RunSteps DEF Base, StageFails
  <2>6. CASE Inspect(c)
    BY <2>6, RunSteps DEF Base, Inspect
  <2>7. CASE Plan(c)
    BY <2>7, RunSteps, WhereTo DEF Base, Plan
  <2>8. CASE WritePlan(c)
    <3>1. run[c].who = "command" /\ run[c].at = "write"
      BY <2>8 DEF Base, Roles, WritePlan
    <3> QED BY <2>8, <3>1, RunSteps DEF Base, WritePlan
  <2>9. CASE PrintPlan(c)
    BY <2>9, RunSteps, WhereTo DEF Base, PrintPlan
  <2>10. CASE Discard(c)
    BY <2>10, RunSteps DEF Base, Discard
  <2>11. CASE Read(c) \/ Move(c) \/ Wipe(c) \/ WipeFails(c) \/ Sweep(c)
    <3>1. Others(c) /\ UNCHANGED <<purpose, stored, agreed, told>>
      BY <2>11, RunSteps DEF Base, Read, Move, Wipe, WipeFails, Sweep
    <3>2. run'[c].at \in {"move", "wipe", "sweep", "idle", "claim", "read"}
      BY <2>11, RunSteps DEF Base, Roles
    <3> QED BY <3>1, <3>2
  <2>12. CASE Claim(c)
    BY <2>12, RunSteps DEF Base, Claim
  <2>13. CASE Resolve(c)
    <3>1. Others(c) /\ UNCHANGED <<purpose, stored, agreed, told>>
          /\ (run'[c].who = run[c].who \/ run'[c] = Idle)
          /\ run'[c].at \in {"read", "idle", "move", "check", "plan"}
      BY <2>13, RunSteps DEF Base, Resolve
    <3>2. run'[c].at = "plan" => run[c].at = "seek"
      BY <2>13, <3>1, WhereTo DEF Resolve
    <3>3. run[c].at = "seek" => run[c].who = "server"
      BY DEF Base, Roles
    <3> QED BY <3>1, <3>2, <3>3
  <2>14. CASE Check(c) \/ CopyFile(c) \/ Verify(c) \/ Settle(c)
    <3>1. Others(c) /\ UNCHANGED <<purpose, agreed, told>> /\ stored' \in {stored, "spent"}
          /\ run'[c].at \in {"copy", "verify", "settle", "read", "idle"}
      BY <2>14, RunSteps DEF Base, Check, CopyFile, Verify, Settle
    <3> QED BY <3>1
  <2>15. CASE Clean(c) \/ Apply(c)
    BY <2>15, BeginsOrDies DEF Clean, Apply
  <2>16. CASE PlanAgain(c)
    BY <2>16, BeginsOrDies DEF PlanAgain
  <2>17. CASE Commit(c)
    BY <2>17, BeginsOrDies DEF Commit
  <2>18. CASE Dies(c)
    <3>1. /\ \A d \in StagingCall : run'[d] \in {Idle, run[d]}
          /\ UNCHANGED <<purpose, agreed, told>> /\ stored' \in {stored, "forgotten"}
      BY <2>18, BeginsOrDies DEF Dies
    <3>2. run'[c] = Idle
      BY <2>18, <3>1 DEF Dies, RunOK, Job
    <3> QED BY <3>1, <3>2
  <2> QED BY <2>1, <2>2, <2>3, <2>4, <2>5, <2>6, <2>7, <2>8, <2>9, <2>10, <2>11, <2>12, <2>13,
             <2>14, <2>15, <2>16, <2>17, <2>18 DEF StagingStep
<1>2. Early' => Early
  BY <1>0, <1>1 DEF Early, Creating
<1> QED BY <1>1, <1>2

LEMMA OnePrinterStep ==
    Base /\ Rest /\ OnePrinter /\ [StagingNext]_stagingVars => OnePrinter'
<1> SUFFICES ASSUME Base, Rest, OnePrinter, [StagingNext]_stagingVars PROVE OnePrinter'
  OBVIOUS
<1>1. CASE UNCHANGED stagingVars
  BY <1>1 DEF stagingVars, OnePrinter, Plans, Prints, Early, Creating
<1>2. ASSUME NEW c \in StagingCall, StagingStep(c) PROVE OnePrinter'
  <2>1. Idle.at = "idle" /\ Idle.who = "command"
    BY BeginsOrDies
  <2>2. \A d \in StagingCall \ {c} : (Plans(d)' => Plans(d)) /\ (Prints(d)' => Prints(d))
    BY <1>2, <2>1, PlanningStep DEF Plans, Prints
  <2>3. /\ \A d \in StagingCall : Early => ~Plans(d) /\ ~Prints(d) /\ run[d].at # "plan"
        /\ \A d \in StagingCall : run[d].who = "server" => purpose = "dashboard"
        /\ \A d \in StagingCall : Plans(d) => purpose = "install"
        /\ purpose = "none" \/ Creating(c) => Early
    BY DEF Rest, EarlyNothing, Plans, Prints, Base, Roles, Early
  <2>4. \A d, e \in StagingCall : (Plans(d) \/ Prints(d))' /\ (Plans(e) \/ Prints(e))' => d = e
    BY <1>2, <2>2, <2>3, PlanningStep DEF OnePrinter
  <2>5. \A d \in StagingCall : Prints(d)' => purpose' = "install"
    BY <1>2, <2>2, <2>3, PlanningStep DEF OnePrinter
  <2>6. ASSUME Early' \/ \E d \in StagingCall : Plans(d)' PROVE ~told'
    <3>1. ~told
      BY <1>2, <2>2, <2>3, <2>6, PlanningStep DEF OnePrinter
    <3>2. ASSUME told' # told PROVE FALSE
      <4>1. ~Early
        BY <1>2, <2>3, <3>2, PlanningStep DEF Prints
      <4>2. PICK d \in StagingCall : Plans(d)'
        BY <1>2, <2>6, <4>1, PlanningStep
      <4>3. d # c
        BY <1>2, <3>2, <4>2, PlanningStep DEF Plans
      <4>4. Plans(d) /\ purpose = "install"
        BY <2>2, <2>3, <4>2, <4>3
      <4>5. run[c].at = "print"
        BY <1>2, <2>3, <3>2, <4>4, PlanningStep
      <4> QED BY <4>3, <4>4, <4>5 DEF OnePrinter, Prints
    <3>3. told \in BOOLEAN /\ told' \in BOOLEAN
      <4>1. Base'
        BY <1>2, BaseStep DEF StagingNext
      <4> QED BY <4>1 DEF Base, StagingTypeOK
    <3> QED BY <3>1, <3>2, <3>3
  <2> QED BY <2>4, <2>5, <2>6 DEF OnePrinter
<1>3. CASE (\E t \in {"plan", "preview", "grace"} : Pass(t)) \/ EditSource
  BY <1>3 DEF Pass, EditSource, OnePrinter, Plans, Prints, Early, Creating
<1> QED BY <1>1, <1>2, <1>3 DEF StagingNext

(* Who leaves the creation of a preview leaves nothing that is awaited,     *)
(* unless it goes on to plan, or the server has something to plan.          *)
LEMMA CreatorGone ==
    ASSUME Base, Rest, NEW c \in StagingCall, Creating(c), ~Creating(c)', ~Plans(c)',
           \A d \in StagingCall \ {c} : run'[d] \in {Idle, run[d]},
           UNCHANGED <<purpose, agreed>>, stored' \in {stored, "forgotten"}
    PROVE  ~Awaited'
<1>1. /\ stored \in {"none", "forgotten"} /\ agreed = NoSource /\ purpose # "none"
      /\ \A d \in StagingCall : ~Plans(d)
      /\ \A d \in StagingCall : Creating(d) => d = c
      /\ Idle.at = "idle"
  BY BeginsOrDies DEF Rest, EarlyNothing, Early, Plans, Base, OneCreator
<1>2. ~Early'
  BY <1>1 DEF Early, Creating
<1>3. \A d \in StagingCall : ~Plans(d)'
  BY <1>1 DEF Plans
<1> QED BY <1>1, <1>2, <1>3 DEF Awaited

(* Until it expires, nobody goes to remove a preview that is awaited.       *)
LEMMA NobodyRemoves ==
    ASSUME Base, Rest, Shown, NEW c \in StagingCall, StagingStep(c),
           "preview" \notin past', Awaited, Awaited'
    PROVE  run'[c].at \notin {"read", "move"}
<1> USE DEF Late
<1>0. /\ "preview" \notin past /\ NotRemoved /\ Whole
      /\ Idle.at = "idle" /\ Idle.who = "command"
      /\ \A d \in StagingCall \ {c} : run'[d] \in {Idle, run[d]}
  <2>1. "preview" \in past => "preview" \in past'
    <3>1. \A p \in {"install", "dashboard", "refresh"} : Create(c, p) => UNCHANGED past
      BY DEF Create
    <3> QED BY <3>1 DEF StagingStep, Unproven, Describe, StageFile, StageFails, Inspect,
          Plan, WritePlan, PrintPlan, Discard, Read, Move, Wipe, WipeFails, Clean, Sweep, Apply,
          Claim, Resolve, PlanAgain, Commit, Check, CopyFile, Verify, Settle, Dies
  <2> QED BY <2>1, BeginsOrDies, PlanningStep DEF Shown, KeptUntilExpiry
<1>1. /\ run[c].at \notin {"read", "move"} /\ run[c].then \notin {"read", "move"}
      /\ run[c].next \notin {"read", "move"}
  BY <1>0 DEF NotRemoved, Base, Roles
<1>2. SUFFICES ASSUME run'[c].at \in {"read", "move"} PROVE FALSE
  OBVIOUS
<1>3. \A d \in StagingCall : d # c => (Plans(d)' => Plans(d)) /\ (Creating(d)' => Creating(d))
                                      /\ (run'[d].at = "print" => run[d].at = "print")
  BY <1>0 DEF Plans, Creating
<1>4. ~Plans(c)' /\ ~Creating(c)' /\ run'[c].at # "print"
  BY <1>2 DEF Plans, Creating
(* Not awaited any more: a command whose plan is used up, or not shown.     *)
<1>5. ASSUME UNCHANGED <<purpose, agreed>>, purpose = "install", ~Early,
             \A d \in StagingCall : Plans(d) => d = c,
             stored' # "pending" \/ (~told' /\ \A d \in StagingCall : run[d].at = "print" => d = c)
      PROVE  FALSE
  <2>1. ~Early'
    BY <1>5, PlanningStep
  <2>2. \A d \in StagingCall : ~Plans(d)'
    BY <1>3, <1>4, <1>5
  <2>3. ~(stored' = "pending" /\ (told' \/ \E d \in StagingCall : run'[d].at = "print"))
    BY <1>3, <1>4, <1>5
  <2> QED BY <1>5, <2>1, <2>2, <2>3 DEF Awaited
<1>6. ASSUME NEW p \in {"install", "dashboard", "refresh"}, Create(c, p) PROVE FALSE
  BY <1>2, <1>6, BeginsOrDies
<1>7. CASE Unproven(c) \/ StageFile(c)
  BY <1>2, <1>7, RunSteps DEF Base, Follows
<1>8. CASE Describe(c) \/ StageFails(c)
  BY <1>0, <1>4, <1>8, CreatorGone DEF Describe, StageFails, Creating
<1>9. CASE Inspect(c)
  <2>1. UNCHANGED <<purpose, stored>>
    BY <1>9 DEF Inspect
  <2>2. UNCHANGED agreed
    <3> DEFINE found == IF place = NoDirectory THEN NoSource ELSE place.file
               right == found # NoSource /\ (purpose = "install" => found = Staged)
    <3>1. CASE ~right \/ purpose = "refresh"
      BY <1>9, <3>1 DEF Inspect
    <3>2. CASE right /\ purpose # "refresh"
      <4>1. Goes(c, "plan") \/ Ends(c)
        BY <1>9, <3>2 DEF Inspect
      <4> QED BY <1>0, <1>2, <4>1, GoesRuns, EndsRuns DEF Base, StagingTypeOK, RunOK
    <3> QED BY <3>1, <3>2
  <2> QED BY <1>0, <1>4, <1>9, <2>1, <2>2, CreatorGone DEF Inspect, Creating
<1>10. CASE Plan(c)
  <2>1. run[c].who = "command" /\ run[c].at = "plan" /\ UNCHANGED <<stored, told, purpose, agreed>>
    BY <1>2, <1>10, WhereTo DEF Plan
  <2>2. /\ purpose = "install" /\ ~Early /\ stored # "pending"
        /\ \A d \in StagingCall : Plans(d) => d = c
    BY <2>1 DEF Base, Roles, Rest, EarlyNothing, OneWriter, Plans
  <2> QED BY <1>5, <2>1, <2>2
<1>11. CASE WritePlan(c)
  <2>1. run[c].who = "command" /\ run[c].at = "write" /\ UNCHANGED <<told, purpose, agreed>>
    BY <1>11 DEF WritePlan, Base, Roles
  <2>2. /\ purpose = "install" /\ ~Early /\ ~told
        /\ \A d \in StagingCall : (Plans(d) => d = c) /\ (run[d].at = "print" => d = c)
    BY <2>1 DEF Base, Roles, Rest, EarlyNothing, OneWriter, Plans, Shown, OnePrinter
  <2> QED BY <1>5, <2>1, <2>2
<1>12. CASE PrintPlan(c)
  BY <1>2, <1>12, WhereTo
<1>13. CASE Discard(c)
  <2>1. run[c].at = "discard" /\ UNCHANGED <<told, purpose, agreed>> /\ stored' = "spent"
    BY <1>2, <1>13, WhereTo DEF Discard
  <2>2. purpose = "install" /\ ~Early /\ \A d \in StagingCall : Plans(d) => d = c
    BY <2>1 DEF Rest, EarlyNothing, Prints, Shown, OnePrinter
  <2> QED BY <1>5, <2>1, <2>2
<1>14. CASE Read(c) \/ Move(c)
  BY <1>1, <1>14 DEF Read, Move
<1>15. CASE Wipe(c) \/ WipeFails(c)
  BY <1>1, <1>2, <1>15, RunSteps DEF Base, Follows
<1>16. CASE Sweep(c)
  <2>1. RunOK /\ {"move", "wipe", "sweep"} \subseteq Step /\ run[c].next \in Step
    BY DEF Base, StagingTypeOK, RunOK, Job
  <2> QED BY <1>0, <1>1, <1>2, <1>16, <2>1, ReturnsRuns, VisitsRuns DEF Sweep, Expired
<1>17. CASE Claim(c)
  <2>1. /\ run[c].at = "claim" /\ UNCHANGED <<told, purpose, agreed>>
        /\ stored = "pending" /\ stored' = "spent"
    BY <1>2, <1>17, WhereTo DEF Claim
  <2>2. purpose = "install" /\ ~Early /\ \A d \in StagingCall : ~Plans(d)
    BY <2>1 DEF Base, Roles, Rest, EarlyNothing, OneWriter, Plans
  <2> QED BY <1>5, <2>1, <2>2
<1>18. CASE Resolve(c)
  <2>1. run[c].who = "command" /\ run[c].at = "resolve" /\ ~Described(place)
    BY <1>0, <1>2, <1>18, WhereTo DEF Resolve, Expired, Base, Roles
  <2>2. purpose = "install" /\ ~Early
    BY <2>1 DEF Base, Roles, Rest, EarlyNothing
  <2> QED BY <1>0, <2>1, <2>2 DEF Whole, Early, Creating
<1>19. CASE Check(c) \/ CopyFile(c) \/ Verify(c) \/ Settle(c)
  <2>1. run[c].who = "command" /\ run[c].at \in Late /\ UNCHANGED <<told, purpose, agreed>>
        /\ stored' \in {stored, "spent"}
    BY <1>2, <1>19, WhereTo DEF Check, CopyFile, Verify, Settle
  <2>2. /\ purpose = "install" /\ ~Early /\ stored = "spent"
        /\ \A d \in StagingCall : ~Plans(d)
    BY <2>1 DEF Base, Roles, Rest, EarlyNothing, OneWriter, Plans, Shown, PlanBehind
  <2> QED BY <1>5, <2>1, <2>2
<1>20. CASE Clean(c) \/ Apply(c) \/ PlanAgain(c) \/ Commit(c)
  BY <1>2, <1>20, BeginsOrDies
<1>21. CASE Dies(c)
  BY <1>0, <1>1, <1>2, <1>21, BeginsOrDies
<1> QED BY <1>6, <1>7, <1>8, <1>9, <1>10, <1>11, <1>12, <1>13, <1>14, <1>15, <1>16, <1>17, <1>18,
           <1>19, <1>20, <1>21 DEF StagingStep

LEMMA KeptStep ==
    Base /\ Rest /\ Shown /\ [StagingNext]_stagingVars => KeptUntilExpiry'
<1> SUFFICES ASSUME Base, Rest, Shown, [StagingNext]_stagingVars, "preview" \notin past', Awaited'
             PROVE  NotRemoved' /\ Whole'
  BY DEF KeptUntilExpiry
<1>0. Base' /\ ReadAgain'
  BY BaseStep, ReadAgainStep DEF Shown
<1>1. CASE UNCHANGED stagingVars
  BY <1>1 DEF stagingVars, Shown, KeptUntilExpiry, Awaited, NotRemoved, Whole, Early, Creating, Plans
<1>2. ASSUME NEW c \in StagingCall, StagingStep(c) PROVE NotRemoved' /\ Whole'
  <2>1. /\ Idle.at = "idle" /\ Idle.then = "idle" /\ Idle.who = "command"
        /\ \A d \in StagingCall \ {c} : run'[d] \in {Idle, run[d]}
    BY <1>2, BeginsOrDies, PlanningStep
  <2>2. Awaited
    <3>1. CASE Early'
      BY <1>2, <3>1, PlanningStep DEF Awaited
    <3>2. CASE \E d \in StagingCall : Plans(d)'
      BY <1>2, <2>1, <3>2, PlanningStep DEF Awaited, Plans, Early
    <3>3. CASE stored' = "pending" /\ (told' \/ \E d \in StagingCall : run'[d].at = "print")
      <4>1. CASE stored # "pending"
        BY <1>2, <3>3, <4>1, PlanningStep DEF Awaited, Shown, PlanBehind, Base, Roles
      <4>2. CASE stored = "pending"
        BY <1>2, <2>1, <3>3, <4>2, PlanningStep DEF Awaited, Shown, PlanBehind, Base, Roles
      <4> QED BY <4>1, <4>2
    <3>4. CASE purpose' = "dashboard" /\ agreed' # NoSource
      BY <1>2, <3>4, PlanningStep DEF Awaited, Early
    <3> QED BY <3>1, <3>2, <3>3, <3>4 DEF Awaited
  <2>3. "preview" \notin past
    <3>1. \A p \in {"install", "dashboard", "refresh"} : Create(c, p) => UNCHANGED past
      BY DEF Create
    <3> QED BY <1>2, <3>1 DEF StagingStep, Unproven, Describe, StageFile, StageFails, Inspect,
          Plan, WritePlan, PrintPlan, Discard, Read, Move, Wipe, WipeFails, Clean, Sweep, Apply,
          Claim, Resolve, PlanAgain, Commit, Check, CopyFile, Verify, Settle, Dies
  <2>4. NotRemoved /\ Whole
    BY <2>2, <2>3 DEF Shown, KeptUntilExpiry
  <2>5. NotRemoved'
    <3>1. run'[c].at \notin {"read", "move"}
      BY <1>2, <2>2, NobodyRemoves
    <3> QED BY <1>0, <2>1, <2>4, <3>1 DEF NotRemoved, ReadAgain
  <2>6. Whole'
    <3>1. ASSUME UNCHANGED <<purpose, place, agreed>>,
                 run[c].at = "describe" => run'[c].at = "describe"
          PROVE  Whole'
      <4>1. CASE \E d \in StagingCall \ {c} : run[d].at = "describe" /\ run'[d] = Idle
        <5>1. PICK d \in StagingCall \ {c} : run[d].at = "describe" /\ run'[d] = Idle
          BY <4>1
        <5>2. Creating(d) /\ ~Creating(d)' /\ ~Plans(d)' /\ Dies(c)
          <6>1. Others(c) => run'[d] = run[d]
            BY <5>1 DEF Others
          <6>2. StagingStep(c) => Others(c) \/ Dies(c)
            BY BeginsOrDies, RunSteps DEF StagingStep, Follows, Base
          <6> QED BY <1>2, <2>1, <5>1, <6>1, <6>2 DEF Creating, Plans
        <5>3. stored' \in {stored, "forgotten"} /\ \A e \in StagingCall : run'[e] \in {Idle, run[e]}
          BY <5>2, BeginsOrDies
        <5> QED BY <3>1, <5>2, <5>3, CreatorGone
      <4> QED BY <2>1, <2>4, <3>1, <4>1 DEF Whole, Described
    <3>2. ASSUME NEW p \in {"install", "dashboard", "refresh"}, Create(c, p) PROVE Whole'
      <4>1. run'[c].at = "describe" /\ agreed' = agreed /\ agreed = NoSource
        BY <3>2, BeginsOrDies DEF Create, Rest, EarlyNothing, Early
      <4> QED BY <4>1 DEF Whole
    <3>3. CASE Unproven(c)
      <4>1. Creating(c) /\ ~Creating(c)' /\ ~Plans(c)'
        BY <2>1, <3>3, RunSteps DEF Base, Unproven, Follows, Creating, Plans
      <4> QED BY <2>1, <3>3, <4>1, CreatorGone DEF Unproven
    <3>4. CASE Describe(c)
      <4>1. CASE run'[c].at = "move"
        BY <2>5, <4>1 DEF NotRemoved
      <4>2. CASE run'[c].at = "stage"
        <5>1. /\ place' = [place EXCEPT !.described = TRUE] /\ UNCHANGED <<purpose, agreed>>
          <6>1. {"move", "stage", "idle"} \subseteq Step /\ RunOK
            BY DEF Base, StagingTypeOK, RunOK
          <6> QED BY <3>4, <4>2, <6>1, RemovesRuns DEF Describe
        <5>2. place \in Directory /\ NoDirectory \notin Directory
          BY <3>4, StagingConstants DEF Base, BornWell, Describe
        <5>3. place' \in Directory /\ place'.described /\ place'.file = place.file
          BY <5>1, <5>2 DEF Directory
        <5> QED BY <2>4, <5>1, <5>2, <5>3 DEF Whole, Described
      <4> QED BY <3>4, <4>1, <4>2, RunSteps DEF Base, Follows
    <3>5. CASE StageFile(c)
      <4>1. /\ run[c].at = "stage" /\ UNCHANGED <<purpose, agreed>> /\ agreed = NoSource
            /\ purpose # "none"
        BY <3>5 DEF StageFile, Rest, EarlyNothing, Early, Creating, Base, OneCreator
      <4>2. \A d \in StagingCall : run[d].at # "describe"
        BY <4>1 DEF Base, OneCreator, Creating
      <4>3. Described(place) /\ place \in Directory
        BY <2>4, <4>1, <4>2 DEF Whole, Base, StagingTypeOK, Described
      <4>4. PICK f \in run[c].left : place' = [place EXCEPT !.file[f] = "reviewed"]
        BY <3>5, <4>3 DEF StageFile, Described
      <4>5. place' \in Directory /\ NoDirectory \notin Directory
        BY <3>5, DirectoriesTyped, StagingConstants DEF Base
      <4>6. place'.described
        BY <4>3, <4>4 DEF Described, Directory
      <4> QED BY <4>1, <4>5, <4>6 DEF Whole, Described
    <3>6. CASE Inspect(c)
      <4>1. run[c].at = "inspect" /\ UNCHANGED <<purpose, place>>
        BY <3>6 DEF Inspect
      <4>2. agreed' = agreed \/ agreed' = IF place = NoDirectory THEN NoSource ELSE place.file
        BY <3>6 DEF Inspect
      <4>3. CASE agreed' = agreed
        BY <3>1, <4>1, <4>3
      <4>4. CASE agreed' = IF place = NoDirectory THEN NoSource ELSE place.file
        <5>1. \A d \in StagingCall : run[d].at # "describe"
          BY <4>1 DEF Base, OneCreator, Creating
        <5> QED BY <2>4, <4>1, <4>4, <5>1 DEF Whole, Described, Base, OneCreator, Creating
      <4> QED BY <4>2, <4>3, <4>4
    <3>7. CASE Move(c)
      BY <2>4, <3>7 DEF NotRemoved, Move
    <3>8. CASE \/ StageFails(c) \/ Plan(c) \/ WritePlan(c) \/ PrintPlan(c) \/ Discard(c) \/ Read(c)
               \/ Wipe(c) \/ WipeFails(c) \/ Sweep(c) \/ Claim(c) \/ Resolve(c) \/ Check(c)
               \/ CopyFile(c) \/ Verify(c) \/ Settle(c)
      <4>1. UNCHANGED <<purpose, place, agreed>> /\ run[c].at # "describe"
        BY <3>8 DEF StageFails, Plan, WritePlan, PrintPlan, Discard, Read, Wipe, WipeFails, Sweep,
           Claim, Resolve, Check, CopyFile, Verify, Settle, Late
      <4> QED BY <3>1, <4>1
    <3>9. CASE Clean(c) \/ Apply(c) \/ PlanAgain(c) \/ Commit(c)
      <4>1. UNCHANGED <<purpose, place, agreed>> /\ run[c].at # "describe"
        BY <2>1, <3>9, BeginsOrDies DEF Clean, Apply, PlanAgain, Commit
      <4> QED BY <3>1, <4>1
    <3>10. CASE Dies(c)
      <4>1. UNCHANGED <<purpose, place, agreed>> /\ stored' \in {stored, "forgotten"}
            /\ \A d \in StagingCall : run'[d] \in {Idle, run[d]}
        BY <3>10, BeginsOrDies DEF Dies
      <4>2. CASE run[c].at = "describe"
        <5>1. run'[c].at # "describe" => Creating(c) /\ ~Creating(c)' /\ ~Plans(c)'
          BY <2>1, <4>1, <4>2 DEF Creating, Plans
        <5> QED BY <3>1, <4>1, <5>1, CreatorGone
      <4> QED BY <3>1, <4>1, <4>2
    <3> QED BY <1>2, <3>2, <3>3, <3>4, <3>5, <3>6, <3>7, <3>8, <3>9, <3>10 DEF StagingStep
  <2> QED BY <2>5, <2>6
<1>3. ASSUME NEW t \in {"plan", "preview", "grace"}, Pass(t) PROVE NotRemoved' /\ Whole'
  BY <1>3 DEF Pass, Shown, KeptUntilExpiry, Awaited, NotRemoved, Whole, Early, Creating, Plans, Described
<1>4. CASE EditSource
  <2>1. NotRemoved /\ Whole /\ NotRemoved'
    BY <1>4 DEF EditSource, Shown, KeptUntilExpiry, Awaited, NotRemoved, Early, Creating, Plans
  <2>2. PICK f \in PreviewFile : place' = [place EXCEPT !.file[f] = "edited"]
    BY <1>4 DEF EditSource
  <2>3. place \in Directory /\ NoDirectory \notin Directory
    BY <1>4, StagingConstants DEF EditSource, Base, StagingTypeOK
  <2>4. /\ place' \in Directory /\ place'.described = place.described
        /\ \A g \in PreviewFile : place.file[g] # "none" => place'.file[g] # "none"
    BY <2>2, <2>3 DEF Directory
  <2> QED BY <1>4, <2>1, <2>3, <2>4 DEF EditSource, Whole, Described
<1> QED BY <1>1, <1>2, <1>3, <1>4 DEF StagingNext

-----------------------------------------------------------------------------
(* Nothing is left without a reason, unless a call was cut short: somebody  *)
(* is going to remove what has no reason to stay.                           *)
InCharge(c) ==
    \/ Creating(c) \/ Plans(c)
    \/ run[c].at \in {"read", "move"}
    \/ run[c].who = "command" /\ run[c].at \in Late

Reason ==
    \/ purpose = "dashboard" \/ (purpose = "install" /\ stored = "pending")
    \/ \E c \in StagingCall : InCharge(c)

LeftInv ==
    ~cut =>
        /\ tombstone # NoDirectory => \E c \in StagingCall : run[c].at = "wipe"
        /\ place # NoDirectory =>
              /\ place.original
              /\ place.described \/ \E c \in StagingCall : run[c].at \in {"describe", "move"}
              /\ Reason

(* A step that leaves the directories, and hands its charge on.             *)
LEMMA ReasonKept ==
    ASSUME Base, LeftInv, NEW c \in StagingCall, Others(c),
           UNCHANGED <<purpose, place, tombstone>>, cut' = cut,
           run[c].at \notin {"wipe", "describe", "move"},
           InCharge(c) \/ (purpose = "install" /\ stored = "pending" /\ stored' # "pending") =>
                \/ InCharge(c)' \/ purpose = "dashboard"
                \/ (purpose = "install" /\ stored' = "pending")
                \/ \E d \in StagingCall \ {c} : InCharge(d)
    PROVE  LeftInv'
<1>1. \A d \in StagingCall \ {c} : (InCharge(d)' <=> InCharge(d)) /\ run'[d].at = run[d].at
  BY DEF InCharge, Creating, Plans, Others, Late
<1>2. Reason => Reason'
  BY <1>1 DEF Reason
<1> QED BY <1>1, <1>2 DEF LeftInv

LEMMA LeftStep == Base /\ LeftInv /\ [StagingNext]_stagingVars => LeftInv'
<1> SUFFICES ASSUME Base, LeftInv, [StagingNext]_stagingVars PROVE LeftInv'
  OBVIOUS
<1>1. CASE UNCHANGED stagingVars
  BY <1>1 DEF stagingVars, LeftInv, Reason, InCharge, Creating, Plans
<1>2. ASSUME NEW c \in StagingCall, StagingStep(c) PROVE LeftInv'
  <2> USE DEF Late
  <2>0. /\ Idle.at = "idle" /\ Idle.who = "command" /\ RunOK /\ NoDirectory \notin Directory
        /\ place \in Directory \cup {NoDirectory} /\ tombstone \in Directory \cup {NoDirectory}
        /\ run[c].who \in {"command", "server"} /\ cut \in BOOLEAN
        /\ run[c].who = "server" => purpose = "dashboard"
    BY BeginsOrDies, StagingConstants DEF Base, StagingTypeOK, RunOK, Job, Roles
  <2>1. ASSUME NEW p \in {"install", "dashboard", "refresh"}, Create(c, p) PROVE LeftInv'
    <3>1. /\ Others(c) /\ run[c].at # "wipe" /\ run'[c].at = "describe" /\ UNCHANGED <<tombstone, cut>>
          /\ place' = Bare(TRUE)
      BY <2>0, <2>1, BeginsOrDies DEF Create
    <3>2. place'.original /\ Reason'
      BY <3>1 DEF Bare, Reason, InCharge, Creating
    <3> QED BY <3>1, <3>2 DEF LeftInv, Others
  <2>2. CASE Unproven(c) \/ WipeFails(c) \/ Dies(c)
    BY <2>2 DEF Unproven, WipeFails, Dies, LeftInv
  <2>3. CASE Describe(c)
    <3>1. /\ Others(c) /\ run[c].at = "describe" /\ UNCHANGED <<tombstone, cut, purpose, stored>>
          /\ place \in Directory
      BY <2>3, RunSteps DEF Base, BornWell, Describe, Follows
    <3>2. PICK b \in BOOLEAN : place' = [place EXCEPT !.described = b]
                               /\ (b \/ run'[c].at = "move") /\ run'[c].at \in {"stage", "move"}
      <4>1. {"move", "idle", "stage"} \subseteq Step
        OBVIOUS
      <4> QED BY ZenonT(60), <2>0, <2>3, <4>1, LoopsRuns, RemovesRuns DEF Describe
    <3>3. place'.original = place.original /\ place'.described = b
      BY <3>1, <3>2 DEF Directory
    <3>4. Reason'
      BY <3>2 DEF Reason, InCharge, Creating
    <3> QED BY <2>0, <3>1, <3>2, <3>3, <3>4 DEF LeftInv, Others
  <2>4. CASE StageFile(c)
    <3>1. /\ Others(c) /\ run[c].at = "stage" /\ run'[c].at \in {"stage", "inspect"}
          /\ UNCHANGED <<tombstone, purpose, stored>>
      BY <2>4, RunSteps DEF Base, StageFile, Follows
    <3>2. CASE place = NoDirectory
      BY <2>4, <3>2 DEF StageFile, LeftInv
    <3>3. CASE place # NoDirectory
      <4>1. PICK f : place' = [place EXCEPT !.file[f] = "reviewed"]
        BY <2>4, <3>3 DEF StageFile
      <4>2. place'.original = place.original /\ place'.described = place.described
        BY <2>0, <3>3, <4>1 DEF Directory
      <4>3. Reason'
        BY <3>1 DEF Reason, InCharge, Creating
      <4>4. ~cut' => ~cut
        BY <2>4 DEF StageFile
      <4> QED BY <3>1, <3>3, <4>2, <4>3, <4>4 DEF LeftInv, Others
    <3> QED BY <3>2, <3>3
  <2>5. CASE StageFails(c)
    <3>1. Others(c) /\ (purpose = "dashboard" \/ InCharge(c)')
      BY <2>0, <2>5, GivesUpAs, GivesUpRuns DEF StageFails, InCharge
    <3> QED BY <2>5, <3>1, ReasonKept DEF StageFails
  <2>6. CASE Inspect(c)
    <3>1. Others(c)
      BY <2>6, RunSteps DEF Base, Follows
    <3>2. purpose = "dashboard" \/ InCharge(c)'
      <4>1. GivesUp(c) \/ (purpose = "install" /\ Goes(c, "plan"))
                       \/ (purpose \notin {"install", "refresh"} /\ Ends(c))
        BY <2>6 DEF Inspect
      <4>2. purpose \in {"install", "refresh", "dashboard"}
        BY <2>6 DEF Inspect, Base, StagingTypeOK, OneCreator, Creating
      <4> QED BY <2>0, <4>1, <4>2, GivesUpAs, GoesRuns DEF InCharge, Plans
    <3> QED BY <2>6, <3>1, <3>2, ReasonKept DEF Inspect
  <2>7. CASE Plan(c)
    <3>1. Others(c)
      BY <2>7, RunSteps DEF Base, Follows
    <3>2. run'[c].who = run[c].who \/ run'[c] = Idle
      BY <2>7, RunSteps DEF Base, Follows
    <3>3. purpose = "dashboard" \/ InCharge(c)'
      BY <2>0, <2>7, <3>2, WhereTo DEF InCharge, Plans
    <3> QED BY <2>7, <3>1, <3>3, ReasonKept DEF Plan
  <2>8. CASE WritePlan(c)
    <3>1. Others(c) /\ run[c].who = "command" /\ purpose = "install"
      BY <2>8, RunSteps DEF Base, Follows, WritePlan, Roles
    <3>2. stored' = "pending" \/ InCharge(c)'
      BY <2>8, WhereTo DEF InCharge
    <3> QED BY <2>8, <3>1, <3>2, ReasonKept DEF WritePlan
  <2>9. CASE PrintPlan(c)
    <3>1. Others(c) /\ ~InCharge(c)
      BY <2>9, RunSteps DEF Base, Follows, PrintPlan, InCharge, Creating, Plans
    <3> QED BY <2>9, <3>1, ReasonKept DEF PrintPlan
  <2>10. CASE Discard(c)
    <3>1. Others(c) /\ ~InCharge(c)
      BY <2>10, RunSteps DEF Base, Follows, Discard, InCharge, Creating, Plans
    <3>2. stored' = stored \/ InCharge(c)'
      BY <2>10, WhereTo DEF InCharge
    <3> QED BY <2>10, <3>1, <3>2, ReasonKept DEF Discard
  <2>11. CASE Read(c)
    <3>1. Others(c) /\ run[c].at = "read" /\ UNCHANGED <<purpose, place, tombstone, stored, cut>>
      BY <2>11, RunSteps DEF Base, Follows, Read
    <3>2. CASE Described(place)
      <4>1. run'[c].at = "move"
        BY <2>0, <2>11, <3>2, GoesRuns DEF Read
      <4> QED BY <3>1, <4>1, ReasonKept DEF InCharge
    <3>3. CASE ~Described(place) /\ place # NoDirectory /\ ~cut
      <4>1. PICK d \in StagingCall : run[d].at \in {"describe", "move"}
        BY <3>3 DEF LeftInv, Described
      <4>2. d # c /\ InCharge(d)
        BY <3>1, <4>1 DEF InCharge, Creating
      <4> QED BY <3>1, <4>2, ReasonKept
    <3>4. CASE place = NoDirectory \/ cut
      BY <3>1, <3>4 DEF LeftInv, Others
    <3> QED BY <3>2, <3>3, <3>4
  <2>12. CASE Move(c)
    <3>1. Others(c) /\ run[c].at = "move" /\ UNCHANGED cut
      BY <2>12, RunSteps DEF Base, Follows, Move
    <3>2. CASE cut
      BY <3>1, <3>2 DEF LeftInv
    <3>3. CASE ~cut /\ place # NoDirectory
      <4>1. place.original
        BY <3>3 DEF LeftInv
      <4>2. place' = NoDirectory /\ Goes(c, "wipe")
        BY <2>12, <3>3, <4>1 DEF Move
      <4>3. run'[c].at = "wipe"
        BY <2>0, <4>2, GoesRuns
      <4> QED BY <4>2, <4>3 DEF LeftInv
    <3>4. CASE ~cut /\ place = NoDirectory
      BY <2>12, <3>1, <3>4 DEF Move, LeftInv, Others
    <3> QED BY <3>2, <3>3, <3>4
  <2>13. CASE Wipe(c)
    <3>1. /\ Others(c) /\ run[c].at = "wipe" /\ UNCHANGED <<purpose, place, stored, cut>>
          /\ tombstone' = NoDirectory \/ UNCHANGED run
      BY <2>13, RunSteps DEF Base, Follows, Wipe
    <3>2. tombstone' # NoDirectory /\ ~cut => run'[c].at = "wipe"
      BY <3>1
    <3>3. Reason => Reason'
      BY <3>1 DEF Reason, InCharge, Creating, Plans, Others
    <3>4. (\E d \in StagingCall : run[d].at \in {"describe", "move"})
             => \E d \in StagingCall : run'[d].at \in {"describe", "move"}
      BY <3>1 DEF Others
    <3> QED BY <3>1, <3>2, <3>3, <3>4 DEF LeftInv
  <2>14. CASE Sweep(c)
    <3>1. Others(c) /\ ~InCharge(c)
      BY <2>14, RunSteps DEF Base, Follows, Sweep, InCharge, Creating, Plans
    <3> QED BY <2>14, <3>1, ReasonKept DEF Sweep
  <2>15. CASE Claim(c)
    <3>1. Others(c) /\ ~InCharge(c)
      BY <2>15, RunSteps DEF Base, Follows, Claim, InCharge, Creating, Plans
    <3>2. stored' = stored \/ InCharge(c)'
      BY <2>15, WhereTo DEF InCharge
    <3> QED BY <2>15, <3>1, <3>2, ReasonKept DEF Claim
  <2>16. CASE Resolve(c)
    <3>1. Others(c) /\ (run'[c].who = run[c].who \/ run'[c] = Idle)
      BY <2>16, RunSteps DEF Base, Follows
    <3>2. purpose = "dashboard" \/ InCharge(c)'
      BY <2>0, <2>16, <3>1, WhereTo DEF InCharge, Resolve, Base, Roles
    <3> QED BY <2>16, <3>1, <3>2, ReasonKept DEF Resolve
  <2>17. CASE Check(c) \/ CopyFile(c) \/ Verify(c)
    <3>1. Others(c)
      BY <2>17, RunSteps DEF Base, Follows
    <3>2. purpose = "dashboard" \/ InCharge(c)'
      BY <2>0, <2>17, WhereTo DEF InCharge
    <3> QED BY <2>17, <3>1, <3>2, ReasonKept DEF Check, CopyFile, Verify
  <2>18. CASE Settle(c)
    <3>1. Others(c)
      BY <2>18, RunSteps DEF Base, Follows
    <3>2. purpose = "dashboard" \/ InCharge(c)'
      BY <2>0, <2>18, WhereTo DEF InCharge
    <3> QED BY <2>18, <3>1, <3>2, ReasonKept DEF Settle
  <2>19. CASE Clean(c) \/ Apply(c)
    <3>1. Others(c) /\ run[c] = Idle /\ ~InCharge(c)
      BY <2>0, <2>19, BeginsOrDies DEF InCharge, Creating, Plans
    <3> QED BY <2>0, <2>19, <3>1, ReasonKept DEF Clean, Apply
  <2>20. CASE PlanAgain(c) \/ Commit(c)
    <3>1. Others(c) /\ run[c] = Idle /\ ~InCharge(c)
      BY <2>0, <2>20, BeginsOrDies DEF InCharge, Creating, Plans
    <3> QED BY <2>0, <2>20, <3>1, ReasonKept DEF PlanAgain, Commit
  <2> QED BY <1>2, <2>1, <2>2, <2>3, <2>4, <2>5, <2>6, <2>7, <2>8, <2>9, <2>10, <2>11, <2>12, <2>13,
             <2>14, <2>15, <2>16, <2>17, <2>18, <2>19, <2>20 DEF StagingStep
<1>3. ASSUME NEW t \in {"plan", "preview", "grace"}, Pass(t) PROVE LeftInv'
  BY <1>3 DEF Pass, LeftInv, Reason, InCharge, Creating, Plans
<1>4. CASE EditSource
  <2>1. UNCHANGED <<purpose, stored, run, tombstone, cut>> /\ place # NoDirectory
    BY <1>4 DEF EditSource
  <2>2. PICK f \in PreviewFile : place' = [place EXCEPT !.file[f] = "edited"]
    BY <1>4 DEF EditSource
  <2>3. place \in Directory
    BY <2>1 DEF Base, StagingTypeOK
  <2>4. place'.original = place.original /\ place'.described = place.described
    BY <2>2, <2>3 DEF Directory
  <2> QED BY <2>1, <2>4 DEF LeftInv, Reason, InCharge, Creating, Plans
<1> QED BY <1>1, <1>2, <1>3, <1>4 DEF StagingNext

-----------------------------------------------------------------------------
(* The whole invariant.                                                     *)
StagingInv == Base /\ Rest /\ Shown /\ LeftInv

LEMMA StagingInvInit == StagingInit => StagingInv
<1> SUFFICES ASSUME StagingInit PROVE Shown /\ LeftInv
  BY StagingBegins DEF StagingInv
<1>1. /\ \A c \in StagingCall : run[c] = Idle
      /\ Idle.at = "idle" /\ Idle.who = "command" /\ Idle.then = "idle"
  BY DEF StagingInit, Idle, At
<1>2. NotRemoved /\ Whole
  BY <1>1 DEF StagingInit, NotRemoved, Whole
<1>3. ReadAgain /\ OnePrinter /\ PlanBehind
  BY <1>1 DEF StagingInit, ReadAgain, OnePrinter, PlanBehind, Plans, Prints, Late
<1>4. LeftInv
  BY DEF StagingInit, LeftInv
<1> QED BY <1>2, <1>3, <1>4 DEF Shown, KeptUntilExpiry

LEMMA StagingInvStep == StagingInv /\ [StagingNext]_stagingVars => StagingInv'
BY BaseStep, RestStep, ReadAgainStep, OnePrinterStep, PlanBehindStep, KeptStep, LeftStep
   DEF StagingInv, Shown

LEMMA ShownIsThere == StagingInv => ShownPlanHasPreview
<1> SUFFICES ASSUME StagingInv, told, stored = "pending", past \cap {"plan", "preview"} = {}
             PROVE  /\ Described(place)
                    /\ \A f \in PreviewFile : agreed[f] # "none" => place.file[f] # "none"
  BY DEF ShownPlanHasPreview
<1>1. Whole
  BY DEF StagingInv, Shown, KeptUntilExpiry, Awaited
<1>2. ~Early
  BY DEF StagingInv, Rest, EarlyNothing
<1> QED BY <1>1, <1>2 DEF Whole, Early, Creating

LEMMA NobodyNoReason == LeftInv => LeftForAReason
<1> SUFFICES ASSUME LeftInv, ~cut, \A c \in StagingCall : Free(c)
             PROVE  /\ tombstone = NoDirectory
                    /\ place # NoDirectory =>
                          /\ place.described
                          /\ purpose = "dashboard" \/ (purpose = "install" /\ stored = "pending")
  BY DEF LeftForAReason
<1>1. \A c \in StagingCall : run[c].at = "idle" /\ ~InCharge(c)
  BY DEF Free, Idle, At, InCharge, Creating, Plans, Late
<1> QED BY <1>1 DEF LeftInv, Reason

(* Whatever cleanups, failures and deaths fall between its steps, what is  *)
(* installed is what was inspected, a plan that was shown and can still be *)
(* applied has its preview, and a preview or a tombstone that nobody works *)
(* on is there for a reason (staging.ts, the commands of install.ts and    *)
(* the services of the dashboard).                                         *)
THEOREM StagingSoundHolds == StagingSpec => []StagingSound
<1>1. StagingInv => StagingSound
  BY ShownIsThere, NobodyNoReason DEF StagingInv, Base, Rest, StagingSound
<1> QED BY <1>1, StagingInvInit, StagingInvStep, PTL DEF StagingSpec

=============================================================================

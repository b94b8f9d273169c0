-------------------------- MODULE GovernanceProofs --------------------------
(* Proofs about Governance, for every number of quarantines and restores    *)
(* running side by side, failures at any boundary, deaths and user edits.   *)
EXTENDS Governance, TLAPS

(* Whoever works or has left a record has a plan.                           *)
Started ==
    /\ \A o \in Op : pc[o] # "idle" => plan[o] \in Plan
    /\ \A l \in log : pc[l.op] # "idle"

BeforeLog == {"idle", "planned", "Q.copy", "Q.verify", "Q.check", "Q.move", "Q.moved",
              "Q.vault", "Q.log"}
AfterLog  == {"Q.confirm", "Q.drop", "R.confirm", "R.take", "R.remove"}

(* What a quarantine knows at each of its steps: its copy is verified       *)
(* before the tree is moved, and both are whole when it is journaled.       *)
Quarantining(q) ==
    /\ pc[q] \in BeforeLog => ~Quarantined(q)
    /\ pc[q] \in {"Q.check", "Q.move", "Q.moved", "Q.vault"} => Is(staging[q], q, Reviewed(q))
    /\ pc[q] = "Q.log" => Holds(vault[q], Reviewed(q))
    /\ pc[q] \in {"Q.vault", "Q.log"} => Holds(rollback[q], Reviewed(q))

(* A restore has been planned from a journaled quarantine.                  *)
Restoring(r) == pc[r] # "idle" => Quarantined(plan[r].of)

(* An operation that was journaled is never compensated.                    *)
LogIsFinal(o) ==
    /\ pc[o] \in BeforeLog \cup Undo => "logged" \notin flags[o]
    /\ pc[o] \in AfterLog => "logged" \in flags[o]

GovInv ==
    /\ TypeOK /\ Started
    /\ \A q \in Quar : Quarantining(q)
    /\ \A r \in Rest : Restoring(r)
    /\ \A o \in Op : LogIsFinal(o)
    /\ MovesOnlyReviewed /\ RecordBacked

-----------------------------------------------------------------------------
LEMMA Labels ==
  /\ {"idle", "planned", "over"} \cup TryQ \cup TryR \cup Undo \subseteq PC
  /\ TryQ \cup TryR \cup Undo = Running /\ "idle" \notin Running
  BY DEF PC, TryQ, TryR, Undo, Running

LEMMA GotoType ==
  ASSUME NEW o \in Op, NEW label \in PC, TypeOK, Goto(o, label)
  PROVE  /\ pc' \in [Op -> PC] /\ pc'[o] = label
         /\ \A p \in Op \ {o} : pc'[p] = pc[p]
  BY DEF Goto, TypeOK

LEMMA ThrowType ==
  ASSUME NEW o \in Op, NEW why \in SUBSET Flags, TypeOK, Throw(o, why)
  PROVE  /\ pc' \in [Op -> PC] /\ flags' \in [Op -> SUBSET Flags]
         /\ pc'[o] \in {"over", "U.look"} /\ \A p \in Op \ {o} : pc'[p] = pc[p]
  BY Labels DEF Throw, Goto, TypeOK, TryQ, TryR, Undo

Statuses == {"quarantined", "restored", "failed"}

LEMMA AppendType ==
  ASSUME NEW o \in Op, NEW status \in Statuses, NEW next \in Running, TypeOK,
         plan[o] \in Plan, Append(o, status, next)
  PROVE  /\ log' \in {log, log \cup {Record(o, status)}}
         /\ log' \subseteq [op : Op, status : Statuses, of : Quar]
         /\ pc' \in [Op -> PC] /\ flags' \in [Op -> SUBSET Flags]
         /\ pc'[o] # "idle" /\ \A p \in Op \ {o} : pc'[p] = pc[p]
<1>1. Record(o, status) \in [op : Op, status : Statuses, of : Quar]
  BY DEF Record, Plan
<1>2. CASE Mark(o, "logged") /\ Goto(o, next) /\ log' = log \cup {Record(o, status)}
  BY <1>1, <1>2, GotoType, Labels DEF Mark, TypeOK, Flags, Statuses
<1>3. CASE Throw(o, Other) /\ log' \in {log, log \cup {Record(o, status)}}
  BY <1>1, <1>3, ThrowType DEF Other, TypeOK, Statuses
<1> QED
  BY <1>2, <1>3 DEF Append

(* A step of an operation that has a plan and keeps it.                     *)
LEMMA StartedStep ==
  ASSUME NEW o \in Op, NEW status, TypeOK, Started, pc[o] # "idle", pc'[o] # "idle",
         UNCHANGED plan, log' \in {log, log \cup {Record(o, status)}},
         \A p \in Op \ {o} : pc'[p] = pc[p]
  PROVE  Started'
<1>1. ASSUME NEW l \in log' PROVE pc'[l.op] # "idle"
  <2>1. CASE l \in log
    BY <2>1 DEF TypeOK, Started
  <2>2. CASE l = Record(o, status)
    BY <2>2 DEF Record
  <2> QED
    BY <1>1, <2>1, <2>2
<1> QED
  BY <1>1 DEF Started

LEMMA TreeType ==
  ASSUME NEW o \in Op, NEW c \in Content \cup {Mixed}
  PROVE  [ino |-> o, content |-> c] \in Tree
  BY DEF Tree

LEMMA GovTypeInit == Init => TypeOK /\ Started
  BY DEF Init, TypeOK, Started, Tree, PC

LEMMA GovTypeStep == TypeOK /\ Started /\ [Next]_vars => TypeOK' /\ Started'
<1> SUFFICES ASSUME TypeOK, Started, [Next]_vars PROVE TypeOK' /\ Started'
  OBVIOUS
<1> USE DEF trees, user
<1>1. CASE UNCHANGED vars
  BY <1>1 DEF vars, TypeOK, Started
<1>2. ASSUME NEW q \in Quar, Quarantine(q) PROVE TypeOK' /\ Started'
  <2> q \in Op
    BY DEF Op
  <2>1. CASE PlanQuarantine(q)
    <3>1. TypeOK'
      BY <2>1, GotoType, Labels DEF PlanQuarantine, TypeOK, Plan, Tree, TryQ
    <3>2. Started'
      BY <2>1, GotoType, StartedStep, Labels DEF PlanQuarantine, Started, TypeOK, Tree, Plan
    <3> QED
      BY <3>1, <3>2
  <2>2. CASE ApplyQuarantine(q)
    <3>1. TypeOK'
      BY <2>2, GotoType, Labels DEF ApplyQuarantine, TypeOK, Tree, Holds, TryQ
    <3>2. Started'
      BY <2>2, GotoType, StartedStep, Labels DEF ApplyQuarantine, TryQ
    <3> QED
      BY <3>1, <3>2
  <2>3. CASE QuarantineCopy(q)
    <3>1. staging' \in [Op -> Tree \cup {NoTree}]
      BY <2>3, TreeType DEF QuarantineCopy, TypeOK, Tree
    <3>2. /\ pc' \in [Op -> PC] /\ flags' \in [Op -> SUBSET Flags] /\ pc'[q] # "idle"
          /\ \A p \in Op \ {q} : pc'[p] = pc[p]
      BY <2>3, GotoType, ThrowType, Labels DEF QuarantineCopy, TypeOK, TryQ, Flags, Other
    <3>3. Started'
      BY <2>3, <3>2, StartedStep DEF QuarantineCopy
    <3> QED
      BY <2>3, <3>1, <3>2, <3>3 DEF QuarantineCopy, TypeOK
  <2>4. CASE QuarantineVerify(q) \/ QuarantineCheck(q) \/ QuarantineMoved(q) \/
     QuarantineConfirm(q)
    <3>1. TypeOK'
      BY <2>4, GotoType, ThrowType, Labels DEF QuarantineVerify, QuarantineCheck,
         QuarantineMoved, QuarantineConfirm, TypeOK, Flags, Drift, Other, TryQ
    <3>2. Started'
      BY <2>4, GotoType, ThrowType, StartedStep, Labels DEF QuarantineVerify,
         QuarantineCheck, QuarantineMoved, QuarantineConfirm, Flags, Drift, Other, TryQ
    <3> QED
      BY <3>1, <3>2
  <2>5. CASE QuarantineMove(q)
    <3>1. TypeOK'
      BY SMTT(30), <2>5, GotoType, ThrowType, Labels DEF QuarantineMove, TypeOK, Flags, Other, Mark,
         TryQ
    <3>2. Started'
      BY <2>5, GotoType, ThrowType, StartedStep, Labels DEF QuarantineMove, Flags, Other,
         Mark, TryQ
    <3> QED
      BY <3>1, <3>2
  <2>6. CASE QuarantineVault(q)
    <3>1. TypeOK'
      BY <2>6, GotoType, Labels DEF QuarantineVault, TypeOK, TryQ
    <3>2. Started'
      BY <2>6, GotoType, StartedStep, Labels DEF QuarantineVault, TryQ
    <3> QED
      BY <3>1, <3>2
  <2>7. CASE QuarantineLog(q)
    <3>1. plan[q] \in Plan
      BY <2>7 DEF QuarantineLog, Started
    <3>2. /\ log' \in {log, log \cup {Record(q, "quarantined")}}
          /\ log' \subseteq [op : Op, status : Statuses, of : Quar]
          /\ pc' \in [Op -> PC] /\ flags' \in [Op -> SUBSET Flags]
          /\ pc'[q] # "idle" /\ \A p \in Op \ {q} : pc'[p] = pc[p]
      BY <2>7, <3>1, AppendType DEF QuarantineLog, Running, TryQ, TryR, Statuses
    <3> QED
      BY <2>7, <3>2, StartedStep DEF QuarantineLog, TypeOK, Statuses
  <2>8. CASE QuarantineDrop(q)
    <3>1. TypeOK'
      BY <2>8, GotoType, Labels DEF QuarantineDrop, TypeOK, TryQ
    <3>2. Started'
      BY <2>8, GotoType, StartedStep, Labels DEF QuarantineDrop, TryQ
    <3> QED
      BY <3>1, <3>2
  <2>9. CASE UndoBack(q)
    <3>1. TypeOK'
      BY <2>9, GotoType, Labels DEF UndoBack, TypeOK, TryQ, Undo
    <3>2. Started'
      BY <2>9, GotoType, StartedStep, Labels DEF UndoBack, TryQ, Undo
    <3> QED
      BY <3>1, <3>2
  <2> QED
    BY <1>2, <2>1, <2>2, <2>3, <2>4, <2>5, <2>6, <2>7, <2>8, <2>9 DEF Quarantine
<1>3. ASSUME NEW r \in Rest, Restore(r) PROVE TypeOK' /\ Started'
  <2> r \in Op
    BY DEF Op
  <2>1. CASE PlanRestore(r)
    <3>1. PICK q \in Quar : /\ Quarantined(q)
                            /\ plan' = [plan EXCEPT ![r] = [content |-> Reviewed(q), of |-> q]]
      BY <2>1 DEF PlanRestore
    <3>2. plan[q] \in Plan
      BY <3>1 DEF Started, Quarantined, Op
    <3>3. [content |-> Reviewed(q), of |-> q] \in Plan
      BY <3>2 DEF Plan, Reviewed
    <3>4. /\ plan' \in [Op -> Plan \cup {NoPlan}] /\ plan'[r] \in Plan
          /\ \A p \in Op \ {r} : plan'[p] = plan[p]
      BY <3>1, <3>3 DEF TypeOK
    <3>5. pc' \in [Op -> PC] /\ pc'[r] = "planned" /\ \A p \in Op \ {r} : pc'[p] = pc[p]
      BY <2>1, GotoType, Labels DEF PlanRestore
    <3>6. Started'
      BY <2>1, <3>4, <3>5 DEF PlanRestore, Started, TypeOK
    <3> QED
      BY <2>1, <3>4, <3>5, <3>6 DEF PlanRestore, TypeOK
  <2>2. CASE ApplyRestore(r)
    <3>1. TypeOK'
      BY <2>2, GotoType, Labels DEF ApplyRestore, TypeOK, Tree, Started, Plan, Holds,
         Vault, TryR
    <3>2. Started'
      BY <2>2, GotoType, StartedStep, Labels DEF ApplyRestore, TryR
    <3> QED
      BY <3>1, <3>2
  <2>3. CASE RestoreCopy(r)
    <3>1. staging' \in [Op -> Tree \cup {NoTree}]
      BY <2>3, TreeType DEF RestoreCopy, TypeOK, Tree, Started, Plan, Reviewed
    <3>2. /\ pc' \in [Op -> PC] /\ flags' \in [Op -> SUBSET Flags] /\ pc'[r] # "idle"
          /\ \A p \in Op \ {r} : pc'[p] = pc[p]
      BY <2>3, GotoType, ThrowType, Labels DEF RestoreCopy, TypeOK, TryR, Flags, Drift, Other
    <3>3. Started'
      BY <2>3, <3>2, StartedStep DEF RestoreCopy
    <3> QED
      BY <2>3, <3>1, <3>2, <3>3 DEF RestoreCopy, TypeOK
  <2>4. CASE RestoreVerify(r) \/ RestoreLook(r) \/ RestoreCheck(r) \/ RestoreConfirm(r)
    <3>1. TypeOK'
      BY <2>4, GotoType, ThrowType, Labels DEF RestoreVerify, RestoreLook, RestoreCheck,
         RestoreConfirm, TypeOK, Flags, Drift, Other, TryR
    <3>2. Started'
      BY <2>4, GotoType, ThrowType, StartedStep, Labels DEF RestoreVerify, RestoreLook,
         RestoreCheck, RestoreConfirm, Flags, Drift, Other, TryR
    <3> QED
      BY <3>1, <3>2
  <2>5. CASE RestoreMove(r)
    <3>1. TypeOK'
      BY <2>5, GotoType, ThrowType, Labels DEF RestoreMove, TypeOK, Flags, Other, Mark, TryR
    <3>2. Started'
      BY <2>5, GotoType, ThrowType, StartedStep, Labels DEF RestoreMove, Flags, Other,
         Mark, TryR
    <3> QED
      BY <3>1, <3>2
  <2>6. CASE RestoreLog(r)
    <3>1. plan[r] \in Plan
      BY <2>6 DEF RestoreLog, Started
    <3>2. /\ log' \in {log, log \cup {Record(r, "restored")}}
          /\ log' \subseteq [op : Op, status : Statuses, of : Quar]
          /\ pc' \in [Op -> PC] /\ flags' \in [Op -> SUBSET Flags]
          /\ pc'[r] # "idle" /\ \A p \in Op \ {r} : pc'[p] = pc[p]
      BY <2>6, <3>1, AppendType DEF RestoreLog, Running, TryQ, TryR, Statuses
    <3> QED
      BY <2>6, <3>2, StartedStep DEF RestoreLog, TypeOK, Statuses
  <2>7. CASE RestoreTake(r)
    <3>1. TypeOK'
      BY <2>7, GotoType, Labels DEF RestoreTake, TypeOK, Started, Plan, Is, Holds, Vault,
         TryR
    <3>2. Started'
      BY <2>7, GotoType, StartedStep, Labels DEF RestoreTake, TryR
    <3> QED
      BY <3>1, <3>2
  <2>8. CASE RestoreRemove(r) \/ UndoTake(r) \/ UndoRecheck(r)
    <3>1. TypeOK'
      BY <2>8, GotoType, Labels DEF RestoreRemove, UndoTake, UndoRecheck, TypeOK, TryR, Undo
    <3>2. Started'
      BY <2>8, GotoType, StartedStep, Labels DEF RestoreRemove, UndoTake, UndoRecheck,
         TryR, Undo
    <3> QED
      BY <3>1, <3>2
  <2> QED
    BY <1>3, <2>1, <2>2, <2>3, <2>4, <2>5, <2>6, <2>7, <2>8 DEF Restore
<1>4. ASSUME NEW o \in Op, Either(o) PROVE TypeOK' /\ Started'
  <2>1. CASE UndoLook(o)
    <3>1. TypeOK'
      BY <2>1, GotoType, Labels DEF UndoLook, TypeOK, Mark, Flags, TryQ, TryR, Undo
    <3>2. Started'
      BY <2>1, GotoType, StartedStep, Labels DEF UndoLook, Mark, Flags, TryQ, TryR, Undo
    <3> QED
      BY <3>1, <3>2
  <2>2. CASE UndoCheck(o)
    <3>1. TypeOK'
      BY <2>2, GotoType, Labels DEF UndoCheck, TypeOK, TryQ, TryR, Undo
    <3>2. Started'
      BY <2>2, GotoType, StartedStep, Labels DEF UndoCheck, TryQ, TryR, Undo
    <3> QED
      BY <3>1, <3>2
  <2>3. CASE UndoClean(o)
    <3>1. plan[o] \in Plan
      BY <2>3 DEF UndoClean, Started
    <3>2. /\ log' \in {log, log \cup {Record(o, "failed")}}
          /\ log' \subseteq [op : Op, status : Statuses, of : Quar]
      BY <2>3, <3>1 DEF UndoClean, Record, Plan, TypeOK, Statuses
    <3>3. pc' \in [Op -> PC] /\ pc'[o] = "over" /\ \A p \in Op \ {o} : pc'[p] = pc[p]
      BY <2>3, GotoType, Labels DEF UndoClean
    <3>4. Started'
      BY <2>3, <3>2, <3>3, StartedStep DEF UndoClean
    <3> QED
      BY <2>3, <3>2, <3>3, <3>4 DEF UndoClean, TypeOK, Statuses
  <2>4. CASE Fail(o)
    <3>1. TypeOK'
      BY <2>4, ThrowType, Labels DEF Fail, TypeOK, Flags, Other, TryQ, TryR, Undo
    <3>2. Started'
      BY <2>4, ThrowType, StartedStep, Labels DEF Fail, Flags, Other, TryQ, TryR, Undo
    <3> QED
      BY <3>1, <3>2
  <2>5. CASE Crash(o)
    <3>1. TypeOK'
      BY <2>5, GotoType, Labels DEF Crash, TypeOK, TryQ, TryR, Undo
    <3>2. Started'
      BY <2>5, GotoType, StartedStep, Labels DEF Crash, TryQ, TryR, Undo
    <3> QED
      BY <3>1, <3>2
  <2> QED
    BY <1>4, <2>1, <2>2, <2>3, <2>4, <2>5 DEF Either
<1>5. CASE UserEdit \/ UserDelete \/ UserCreate
  BY <1>5 DEF UserEdit, UserDelete, UserCreate, TypeOK, Started, Tree
<1> QED
  BY <1>1, <1>2, <1>3, <1>4, <1>5 DEF Next

(* Every variable of quarantine and restore has its type.                   *)
THEOREM GovTypeCorrect == Spec => []TypeOK
  BY GovTypeInit, GovTypeStep, PTL DEF Spec

-----------------------------------------------------------------------------
LEMMA GovInvInit == Init => GovInv
<1> SUFFICES ASSUME Init PROVE GovInv
  OBVIOUS
<1>1. TypeOK /\ Started
  BY GovTypeInit
<1>2. MovesOnlyReviewed /\ RecordBacked
  BY DEF Init, MovesOnlyReviewed, RecordBacked, Op, Quarantined
<1> QED
  BY <1>1, <1>2 DEF GovInv, Init, Quarantining, Restoring, LogIsFinal, Quarantined, Op,
     BeforeLog, AfterLog, Undo

(* A step of one operation that leaves plans, journal, vaults and rollbacks *)
(* alone and reaches a label it is entitled to.                             *)
LEMMA QuietStep ==
  ASSUME GovInv, TypeOK', Started', NEW o \in Op, pc[o] # "idle",
         UNCHANGED <<rollback, vault, log, plan>>,
         \A p \in Op \ {o} : pc'[p] = pc[p] /\ flags'[p] = flags[p] /\ staging'[p] = staging[p],
         "logged" \in flags'[o] <=> "logged" \in flags[o],
         LogIsFinal(o)', o \in Quar => Quarantining(o)'
  PROVE  GovInv'
<1>1. ASSUME NEW q \in Quar PROVE Quarantining(q)'
  BY DEF GovInv, Quarantining, Quarantined, Op, Is, Holds, Reviewed
<1>2. ASSUME NEW r \in Rest PROVE Restoring(r)'
  BY DEF GovInv, Restoring, Quarantined, Op
<1>3. ASSUME NEW p \in Op PROVE LogIsFinal(p)'
  BY DEF GovInv, LogIsFinal
<1>4. MovesOnlyReviewed' /\ RecordBacked'
  BY DEF GovInv, MovesOnlyReviewed, RecordBacked, Quarantined, Holds, Reviewed, Op
<1> QED
  BY <1>1, <1>2, <1>3, <1>4 DEF GovInv

LEMMA GovInvStep == GovInv /\ [Next]_vars => GovInv'
<1> SUFFICES ASSUME GovInv, [Next]_vars PROVE GovInv'
  OBVIOUS
<1>0. TypeOK' /\ Started' /\ TypeOK /\ Started
  BY GovTypeStep DEF GovInv
<1> USE <1>0 DEF trees, user
<1>1. CASE UNCHANGED vars
  BY <1>1 DEF vars, GovInv, Quarantining, Restoring, LogIsFinal, MovesOnlyReviewed,
     RecordBacked, Quarantined, Is, Holds, Reviewed
<1>2. ASSUME NEW q \in Quar, ApplyQuarantine(q) \/ QuarantineCopy(q) \/ QuarantineVerify(q)
         \/ QuarantineCheck(q) \/ QuarantineMoved(q) \/ QuarantineConfirm(q)
      PROVE  GovInv'
  <2> q \in Op
    BY DEF Op
  <2>1. \A p \in Op \ {q} : pc'[p] = pc[p] /\ flags'[p] = flags[p] /\ staging'[p] = staging[p]
    BY <1>2 DEF ApplyQuarantine, QuarantineCopy, QuarantineVerify, QuarantineCheck,
       QuarantineMoved, QuarantineConfirm, Goto, Throw, TypeOK
  <2>2. "logged" \in flags'[q] <=> "logged" \in flags[q]
    BY <1>2 DEF ApplyQuarantine, QuarantineCopy, QuarantineVerify, QuarantineCheck,
       QuarantineMoved, QuarantineConfirm, Throw, TypeOK, Drift, Other
  <2>3. LogIsFinal(q)'
    BY <1>2, <2>2 DEF ApplyQuarantine, QuarantineCopy, QuarantineVerify, QuarantineCheck,
       QuarantineMoved, QuarantineConfirm, Goto, Throw, TypeOK, GovInv, LogIsFinal, BeforeLog,
       AfterLog, Undo
  <2>4. Quarantining(q)'
    BY <1>2 DEF ApplyQuarantine, QuarantineCopy, QuarantineVerify, QuarantineCheck,
       QuarantineMoved, QuarantineConfirm, Goto, Throw, TypeOK, GovInv, Quarantining,
       Quarantined, BeforeLog, Is, Holds, Reviewed
  <2> QED
    BY <1>2, <2>1, <2>2, <2>3, <2>4, QuietStep DEF ApplyQuarantine, QuarantineCopy,
       QuarantineVerify, QuarantineCheck, QuarantineMoved, QuarantineConfirm
<1>3. ASSUME NEW r \in Rest, ApplyRestore(r) \/ RestoreCopy(r) \/ RestoreVerify(r)
         \/ RestoreLook(r) \/ RestoreMove(r) \/ RestoreCheck(r) \/ RestoreConfirm(r)
         \/ RestoreRemove(r) \/ UndoTake(r) \/ UndoRecheck(r)
      PROVE  GovInv'
  <2> r \in Op /\ r \notin Quar
    BY GovernanceConstants DEF Op
  <2>1. \A p \in Op \ {r} : pc'[p] = pc[p] /\ flags'[p] = flags[p] /\ staging'[p] = staging[p]
    BY <1>3 DEF ApplyRestore, RestoreCopy, RestoreVerify, RestoreLook, RestoreMove,
       RestoreCheck, RestoreConfirm, RestoreRemove, UndoTake, UndoRecheck, Goto, Throw, Mark,
       TypeOK
  <2>2. "logged" \in flags'[r] <=> "logged" \in flags[r]
    BY <1>3 DEF ApplyRestore, RestoreCopy, RestoreVerify, RestoreLook, RestoreMove,
       RestoreCheck, RestoreConfirm, RestoreRemove, UndoTake, UndoRecheck, Throw, Mark,
       TypeOK, Drift, Other
  <2>3. LogIsFinal(r)'
    BY <1>3, <2>2 DEF ApplyRestore, RestoreCopy, RestoreVerify, RestoreLook, RestoreMove,
       RestoreCheck, RestoreConfirm, RestoreRemove, UndoTake, UndoRecheck, Goto, Throw, TypeOK,
       GovInv, LogIsFinal, BeforeLog, AfterLog, Undo
  <2> QED
    BY <1>3, <2>1, <2>2, <2>3, QuietStep DEF ApplyRestore, RestoreCopy, RestoreVerify,
       RestoreLook, RestoreMove, RestoreCheck, RestoreConfirm, RestoreRemove, UndoTake,
       UndoRecheck
<1>4. ASSUME NEW o \in Op, UndoLook(o) \/ UndoCheck(o) \/ Fail(o) \/ Crash(o) PROVE GovInv'
  <2>1. /\ pc[o] # "idle"
        /\ \A p \in Op \ {o} : pc'[p] = pc[p] /\ flags'[p] = flags[p] /\ staging'[p] = staging[p]
    BY <1>4, Labels DEF UndoLook, UndoCheck, Fail, Crash, Goto, Throw, Mark, TypeOK
  <2>2. "logged" \in flags'[o] <=> "logged" \in flags[o]
    BY <1>4 DEF UndoLook, UndoCheck, Fail, Crash, Throw, Mark, TypeOK, Other
  <2>3. pc'[o] \in Undo \cup {"over"} /\ (pc'[o] \in Undo => "logged" \notin flags[o])
    BY <1>4 DEF UndoLook, UndoCheck, Fail, Crash, Goto, Throw, TypeOK, GovInv, LogIsFinal, Undo
  <2>4. LogIsFinal(o)'
    BY <2>2, <2>3 DEF LogIsFinal, BeforeLog, AfterLog, Undo
  <2>5. o \in Quar => Quarantining(o)'
    BY <2>3 DEF Quarantining, BeforeLog, Undo
  <2> QED
    BY <1>4, <2>1, <2>2, <2>4, <2>5, QuietStep DEF UndoLook, UndoCheck, Fail, Crash
<1>5. ASSUME NEW q \in Quar, PlanQuarantine(q) \/ QuarantineMove(q) \/ QuarantineVault(q)
   \/ QuarantineLog(q) \/ QuarantineDrop(q) \/ UndoBack(q)
      PROVE  GovInv'
  <2> q \in Op /\ q \notin Rest
    BY GovernanceConstants DEF Op
  <2> USE DEF GovInv, Op
  <2>1. CASE PlanQuarantine(q)
    <3>1. \A p \in Quar : Quarantining(p)'
      BY <2>1 DEF PlanQuarantine, Goto, TypeOK, Quarantining, Restoring, Quarantined,
         BeforeLog, Undo, Is, Holds, Reviewed
    <3>2. \A p \in Rest : Restoring(p)'
      BY <2>1 DEF PlanQuarantine, Goto, TypeOK, Restoring, Quarantined
    <3>3. \A p \in Op : LogIsFinal(p)'
      BY <2>1 DEF PlanQuarantine, Goto, TypeOK, LogIsFinal, BeforeLog, AfterLog, Undo
    <3>4. MovesOnlyReviewed'
      BY <2>1 DEF PlanQuarantine, Goto, TypeOK, MovesOnlyReviewed, Quarantining,
         Quarantined, BeforeLog, Holds, Reviewed
    <3>5. RecordBacked'
      BY <2>1 DEF PlanQuarantine, Goto, TypeOK, RecordBacked, LogIsFinal, Quarantining,
         BeforeLog, AfterLog, Undo, Holds, Reviewed
    <3> QED
      BY <3>1, <3>2, <3>3, <3>4, <3>5
  <2>2. CASE QuarantineMove(q)
    <3>1. \A p \in Quar : Quarantining(p)'
      BY <2>2 DEF QuarantineMove, Goto, Mark, Throw, Other, TypeOK, Quarantining,
         Restoring, Quarantined, BeforeLog, Undo, Is, Holds, Reviewed
    <3>2. \A p \in Rest : Restoring(p)'
      BY <2>2 DEF QuarantineMove, Goto, Mark, Throw, Other, TypeOK, Restoring, Quarantined
    <3>3. \A p \in Op : LogIsFinal(p)'
      BY <2>2 DEF QuarantineMove, Goto, Mark, Throw, Other, TypeOK, LogIsFinal, BeforeLog,
         AfterLog, Undo
    <3>4. MovesOnlyReviewed'
      BY <2>2 DEF QuarantineMove, Goto, Mark, Throw, Other, TypeOK, MovesOnlyReviewed,
         Quarantining, Quarantined, BeforeLog, Holds, Reviewed
    <3>5. RecordBacked'
      BY <2>2 DEF QuarantineMove, Goto, Mark, Throw, Other, TypeOK, RecordBacked,
         LogIsFinal, Quarantining, BeforeLog, AfterLog, Undo, Holds, Reviewed
    <3> QED
      BY <3>1, <3>2, <3>3, <3>4, <3>5
  <2>3. CASE QuarantineVault(q)
    <3>1. \A p \in Quar : Quarantining(p)'
      BY <2>3 DEF QuarantineVault, Goto, TypeOK, Quarantining, Restoring, Quarantined,
         BeforeLog, Undo, Is, Holds, Reviewed
    <3>2. \A p \in Rest : Restoring(p)'
      BY <2>3 DEF QuarantineVault, Goto, TypeOK, Restoring, Quarantined
    <3>3. \A p \in Op : LogIsFinal(p)'
      BY <2>3 DEF QuarantineVault, Goto, TypeOK, LogIsFinal, BeforeLog, AfterLog, Undo
    <3>4. MovesOnlyReviewed'
      BY <2>3 DEF QuarantineVault, Goto, TypeOK, MovesOnlyReviewed, Quarantining,
         Quarantined, BeforeLog, Holds, Reviewed
    <3>5. RecordBacked'
      BY <2>3 DEF QuarantineVault, Goto, TypeOK, RecordBacked, LogIsFinal, Quarantining,
         BeforeLog, AfterLog, Undo, Holds, Reviewed
    <3> QED
      BY <3>1, <3>2, <3>3, <3>4, <3>5
  <2>4. CASE QuarantineLog(q)
    <3>1. \A p \in Quar : Quarantining(p)'
      BY <2>4 DEF QuarantineLog, Append, Goto, Mark, Throw, Other, Record, TypeOK,
         Quarantining, Restoring, Quarantined, BeforeLog, Undo, Is, Holds, Reviewed
    <3>2. \A p \in Rest : Restoring(p)'
      BY <2>4 DEF QuarantineLog, Append, Goto, Mark, Throw, Other, Record, TypeOK,
         Restoring, Quarantined
    <3>3. \A p \in Op : LogIsFinal(p)'
      BY <2>4 DEF QuarantineLog, Append, Goto, Mark, Throw, Other, Record, TypeOK,
         LogIsFinal, BeforeLog, AfterLog, Undo
    <3>4. MovesOnlyReviewed'
      BY <2>4 DEF QuarantineLog, Append, Goto, Mark, Throw, Other, Record, TypeOK,
         MovesOnlyReviewed, Quarantining, Quarantined, BeforeLog, Holds, Reviewed
    <3>5. RecordBacked'
      BY <2>4 DEF QuarantineLog, Append, Goto, Mark, Throw, Other, Record, TypeOK,
         RecordBacked, LogIsFinal, Quarantining, BeforeLog, AfterLog, Undo, Holds, Reviewed
    <3> QED
      BY <3>1, <3>2, <3>3, <3>4, <3>5
  <2>5. CASE QuarantineDrop(q)
    <3>1. \A p \in Quar : Quarantining(p)'
      BY <2>5 DEF QuarantineDrop, Goto, TypeOK, Quarantining, Restoring, Quarantined,
         BeforeLog, Undo, Is, Holds, Reviewed
    <3>2. \A p \in Rest : Restoring(p)'
      BY <2>5 DEF QuarantineDrop, Goto, TypeOK, Restoring, Quarantined
    <3>3. \A p \in Op : LogIsFinal(p)'
      BY <2>5 DEF QuarantineDrop, Goto, TypeOK, LogIsFinal, BeforeLog, AfterLog, Undo
    <3>4. MovesOnlyReviewed'
      BY <2>5 DEF QuarantineDrop, Goto, TypeOK, MovesOnlyReviewed, Quarantining,
         Quarantined, BeforeLog, Holds, Reviewed
    <3>5. RecordBacked'
      BY <2>5 DEF QuarantineDrop, Goto, TypeOK, RecordBacked, LogIsFinal, Quarantining,
         BeforeLog, AfterLog, Undo, Holds, Reviewed
    <3> QED
      BY <3>1, <3>2, <3>3, <3>4, <3>5
  <2>6. CASE UndoBack(q)
    <3>1. \A p \in Quar : Quarantining(p)'
      BY <2>6 DEF UndoBack, Goto, TypeOK, Quarantining, Restoring, Quarantined, BeforeLog,
         Undo, Is, Holds, Reviewed
    <3>2. \A p \in Rest : Restoring(p)'
      BY <2>6 DEF UndoBack, Goto, TypeOK, Restoring, Quarantined
    <3>3. \A p \in Op : LogIsFinal(p)'
      BY <2>6 DEF UndoBack, Goto, TypeOK, LogIsFinal, BeforeLog, AfterLog, Undo
    <3>4. MovesOnlyReviewed'
      BY <2>6 DEF UndoBack, Goto, TypeOK, MovesOnlyReviewed, Quarantining, Quarantined,
         BeforeLog, Holds, Reviewed
    <3>5. RecordBacked'
      BY <2>6 DEF UndoBack, Goto, TypeOK, RecordBacked, LogIsFinal, Quarantining,
         BeforeLog, AfterLog, Undo, Holds, Reviewed
    <3> QED
      BY <3>1, <3>2, <3>3, <3>4, <3>5
  <2> QED
    BY <1>5, <2>1, <2>2, <2>3, <2>4, <2>5, <2>6
<1>6. ASSUME NEW r \in Rest, PlanRestore(r) \/ RestoreLog(r) \/ RestoreTake(r)
      PROVE  GovInv'
  <2> r \in Op /\ r \notin Quar
    BY GovernanceConstants DEF Op
  <2> USE DEF GovInv, Op
  <2>1. CASE PlanRestore(r)
    <3>1. \A p \in Quar : Quarantining(p)'
      BY <2>1 DEF PlanRestore, Goto, TypeOK, Quarantining, Restoring, Quarantined,
         BeforeLog, Undo, Is, Holds, Reviewed
    <3>2. \A p \in Rest : Restoring(p)'
      BY <2>1 DEF PlanRestore, Goto, TypeOK, Restoring, Quarantined
    <3>3. \A p \in Op : LogIsFinal(p)'
      BY <2>1 DEF PlanRestore, Goto, TypeOK, LogIsFinal, BeforeLog, AfterLog, Undo
    <3>4. MovesOnlyReviewed'
      BY <2>1 DEF PlanRestore, Goto, TypeOK, MovesOnlyReviewed, Quarantining, Quarantined,
         BeforeLog, Holds, Reviewed
    <3>5. RecordBacked'
      BY <2>1 DEF PlanRestore, Goto, TypeOK, RecordBacked, LogIsFinal, Quarantining,
         BeforeLog, AfterLog, Undo, Holds, Reviewed
    <3> QED
      BY <3>1, <3>2, <3>3, <3>4, <3>5
  <2>2. CASE RestoreLog(r)
    <3>1. \A p \in Quar : Quarantining(p)'
      BY <2>2 DEF RestoreLog, Append, Goto, Mark, Throw, Other, Record, TypeOK,
         Quarantining, Restoring, Quarantined, BeforeLog, Undo, Is, Holds, Reviewed
    <3>2. \A p \in Rest : Restoring(p)'
      BY <2>2 DEF RestoreLog, Append, Goto, Mark, Throw, Other, Record, TypeOK, Restoring,
         Quarantined
    <3>3. \A p \in Op : LogIsFinal(p)'
      BY <2>2 DEF RestoreLog, Append, Goto, Mark, Throw, Other, Record, TypeOK, LogIsFinal,
         BeforeLog, AfterLog, Undo
    <3>4. MovesOnlyReviewed'
      BY <2>2 DEF RestoreLog, Append, Goto, Mark, Throw, Other, Record, TypeOK,
         MovesOnlyReviewed, Quarantining, Quarantined, BeforeLog, Holds, Reviewed
    <3>5. RecordBacked'
      BY <2>2 DEF RestoreLog, Append, Goto, Mark, Throw, Other, Record, TypeOK,
         RecordBacked, LogIsFinal, Quarantining, BeforeLog, AfterLog, Undo, Holds, Reviewed
    <3> QED
      BY <3>1, <3>2, <3>3, <3>4, <3>5
  <2>3. CASE RestoreTake(r)
    <3>1. \A p \in Quar : Quarantining(p)'
      BY <2>3 DEF RestoreTake, Goto, Vault, TypeOK, Quarantining, Restoring, Quarantined,
         BeforeLog, Undo, Is, Holds, Reviewed
    <3>2. \A p \in Rest : Restoring(p)'
      BY <2>3 DEF RestoreTake, Goto, Vault, TypeOK, Restoring, Quarantined
    <3>3. \A p \in Op : LogIsFinal(p)'
      BY <2>3 DEF RestoreTake, Goto, Vault, TypeOK, LogIsFinal, BeforeLog, AfterLog, Undo
    <3>4. MovesOnlyReviewed'
      BY <2>3 DEF RestoreTake, Goto, Vault, TypeOK, MovesOnlyReviewed, Quarantining,
         Quarantined, BeforeLog, Holds, Reviewed
    <3>5. RecordBacked'
      BY <2>3 DEF RestoreTake, Goto, Vault, TypeOK, RecordBacked, LogIsFinal, Quarantining,
         BeforeLog, AfterLog, Undo, Holds, Reviewed
    <3> QED
      BY <3>1, <3>2, <3>3, <3>4, <3>5
  <2> QED
    BY <1>6, <2>1, <2>2, <2>3
<1>7. ASSUME NEW o \in Op, UndoClean(o) PROVE GovInv'
  <2> USE DEF GovInv, Op
  <2>1. \A p \in Quar : Quarantining(p)'
    BY <1>7 DEF UndoClean, Goto, Record, TypeOK, Quarantining, Restoring, Quarantined,
       BeforeLog, Undo, Is, Holds, Reviewed
  <2>2. \A p \in Rest : Restoring(p)'
    BY <1>7 DEF UndoClean, Goto, Record, TypeOK, Restoring, Quarantined
  <2>3. \A p \in Op : LogIsFinal(p)'
    BY <1>7 DEF UndoClean, Goto, Record, TypeOK, LogIsFinal, BeforeLog, AfterLog, Undo
  <2>4. MovesOnlyReviewed'
    BY <1>7 DEF UndoClean, Goto, Record, TypeOK, MovesOnlyReviewed, Quarantining,
       Quarantined, BeforeLog, Holds, Reviewed
  <2>5. RecordBacked'
    BY <1>7 DEF UndoClean, Goto, Record, TypeOK, RecordBacked, LogIsFinal, Quarantining,
       BeforeLog, AfterLog, Undo, Holds, Reviewed
  <2> QED
    BY <2>1, <2>2, <2>3, <2>4, <2>5
<1>8. CASE UserEdit \/ UserDelete \/ UserCreate
  BY <1>8 DEF UserEdit, UserDelete, UserCreate, GovInv, Quarantining, Restoring, LogIsFinal,
     MovesOnlyReviewed, RecordBacked, Quarantined, Is, Holds, Reviewed
<1> QED
  BY <1>1, <1>2, <1>3, <1>4, <1>5, <1>6, <1>7, <1>8 DEF Next, Quarantine, Restore, Either

(* Whatever runs side by side and wherever it fails, a journaled quarantine *)
(* moved the tree the user reviewed and no later edit.                      *)
THEOREM MovesOnlyReviewedHolds == Spec => []MovesOnlyReviewed
<1>1. GovInv => MovesOnlyReviewed
  BY DEF GovInv
<1> QED
  BY <1>1, GovInvInit, GovInvStep, PTL DEF Spec

(* A quarantine that reported success keeps its verified copy in the vault  *)
(* until a restore of it has reported success, for any number of competing  *)
(* restores, compensations and deaths.                                      *)
THEOREM RecordBackedHolds == Spec => []RecordBacked
<1>1. GovInv => RecordBacked
  BY DEF GovInv
<1> QED
  BY <1>1, GovInvInit, GovInvStep, PTL DEF Spec

-----------------------------------------------------------------------------
(* Nothing that is wanted is lost.  The copies of a content form chains: a  *)
(* quarantine copies the tree it will remove (src) to its vault, a restore  *)
(* copies that vault, and so on.  An operation that was journaled may       *)
(* remove what it was made from; one that was not journaled may remove what *)
(* it has made.  So every chain has an end nobody may remove: a tree that   *)
(* is not the work of an operation that may be compensated (Lasting), and   *)
(* that no journaled operation was made from (Passed).                      *)
Ident == Op \cup Content

Shelved(i, c) ==
    \/ Is(active, i, c)
    \/ \E q \in Quar : Is(rollback[q], i, c) \/ Is(vault[q], i, c)
    \/ \E o \in Op : Is(aside[o], i, c)

Logged(o)     == "logged" \in flags[o]
Passed(i, c)  == \E o \in Op : Logged(o) /\ src[o] = i /\ Reviewed(o) = c
Lasting(i, c) == i \in Op /\ Reviewed(i) = c => Logged(i)
Final(i, c)   == Shelved(i, c) /\ Lasting(i, c) /\ ~Passed(i, c)

(* An operation makes its copy once; nobody has one of an operation that    *)
(* has not started.                                                         *)
Unstarted == {"idle", "planned"}
Known(i)  == i \in Op => pc[i] \notin Unstarted

Origins ==
    /\ \A i \in Ident, c \in Content \cup {Mixed} : Shelved(i, c) => Known(i)
    /\ \A o \in Op : staging[o] # NoTree => staging[o].ino = o /\ pc[o] \notin Unstarted
    /\ \A o \in Op : src[o] # o => pc[o] \notin Unstarted /\ Known(src[o])
    /\ \A o \in Op : pc[o] \in Running \/ Logged(o) => src[o] # o

(* No tree and no plan has a content the user has not used yet.             *)
Unused ==
    /\ \A i \in Ident, c \in fresh : ~Shelved(i, c)
    /\ \A o \in Op : staging[o] # NoTree => staging[o].content \notin fresh
    /\ \A o \in Op : pc[o] # "idle" => Reviewed(o) \notin fresh

(* Where an operation is going to put a tree there is none.                 *)
Slots ==
    /\ \A q \in Quar : pc[q] \in Unstarted \cup {"Q.copy", "Q.verify", "Q.check", "Q.move"} =>
         rollback[q] = NoTree
    /\ \A q \in Quar :
         pc[q] \in Unstarted \cup {"Q.copy", "Q.verify", "Q.check", "Q.move", "Q.moved",
                                   "Q.vault"} => vault[q] = NoTree
    /\ \A r \in Rest :
         /\ pc[r] \notin TryQ
         /\ pc[r] \in Unstarted \cup (TryR \ {"R.remove"}) \cup {"U.look", "U.check", "U.take"}
              => aside[r] = NoTree
         /\ pc[r] = "R.remove" => Is(aside[r], src[r], Reviewed(r))
         /\ pc[r] \in {"R.look", "R.move"} => Is(staging[r], r, Reviewed(r))

(* A copy that has been put in place is there until it is journaled, unless *)
(* somebody else has passed it on.                                          *)
Arrived ==
    \A o \in Op : pc[o] \in {"Q.log", "R.check", "R.log"} /\ Reviewed(o) \in wanted =>
        Shelved(o, Reviewed(o)) \/ Passed(o, Reviewed(o))

(* The end of a chain is younger than what was passed on: age is the place  *)
(* in a chain.                                                              *)
Chains(age) ==
    /\ \A o \in Op : src[o] # o => age[src[o]] < age[o]
    /\ \A o \in Op : Logged(o) /\ Reviewed(o) \in wanted =>
         \E i \in Ident : Final(i, Reviewed(o)) /\ age[o] <= age[i]

EndsWanted == \A c \in wanted : \E i \in Ident : Final(i, c)

KeepInv ==
    /\ GovInv /\ Origins /\ Unused /\ Slots /\ Arrived /\ EndsWanted
    /\ \E age \in [Ident -> Nat] : Chains(age)

-----------------------------------------------------------------------------
(* What no step does: send an operation back, change the plan of one that   *)
(* has started, take a record back.                                         *)
Forward(o) ==
    /\ pc[o] # "idle" => pc'[o] # "idle" /\ plan'[o] = plan[o]
    /\ pc[o] \notin Unstarted => pc'[o] \notin Unstarted
    /\ pc[o] # "planned" => src'[o] = src[o]
    /\ Logged(o) => Logged(o)'

LEMMA Onward ==
  ASSUME GovInv, [Next]_vars
  PROVE  \A o \in Op : Forward(o)
<1> USE DEF GovInv, TypeOK, Unstarted, Logged, Goto, Throw, Mark, Forward
<1>1. CASE UNCHANGED vars
  BY <1>1 DEF vars
<1>2. ASSUME NEW q \in Quar, PlanQuarantine(q) \/ ApplyQuarantine(q) \/ QuarantineCopy(q)
         \/ QuarantineVerify(q) \/ QuarantineCheck(q) \/ QuarantineMove(q)
      PROVE  \A o \in Op : Forward(o)
  BY <1>2 DEF PlanQuarantine, ApplyQuarantine, QuarantineCopy, QuarantineVerify,
     QuarantineCheck, QuarantineMove
<1>3. ASSUME NEW q \in Quar, QuarantineMoved(q) \/ QuarantineVault(q) \/ QuarantineLog(q)
         \/ QuarantineConfirm(q) \/ QuarantineDrop(q) \/ UndoBack(q)
      PROVE  \A o \in Op : Forward(o)
  BY <1>3 DEF QuarantineMoved, QuarantineVault, QuarantineLog, Append, QuarantineConfirm,
     QuarantineDrop, UndoBack
<1>4. ASSUME NEW r \in Rest, PlanRestore(r) \/ ApplyRestore(r) \/ RestoreCopy(r)
         \/ RestoreVerify(r) \/ RestoreLook(r) \/ RestoreMove(r)
      PROVE  \A o \in Op : Forward(o)
  BY <1>4 DEF PlanRestore, ApplyRestore, RestoreCopy, RestoreVerify, RestoreLook, RestoreMove
<1>5. ASSUME NEW r \in Rest, RestoreCheck(r) \/ RestoreLog(r) \/ RestoreConfirm(r)
         \/ RestoreTake(r) \/ RestoreRemove(r) \/ UndoTake(r) \/ UndoRecheck(r)
      PROVE  \A o \in Op : Forward(o)
  BY <1>5 DEF RestoreCheck, RestoreLog, Append, RestoreConfirm, RestoreTake, RestoreRemove,
     UndoTake, UndoRecheck
<1>6. ASSUME NEW p \in Op, Either(p) PROVE \A o \in Op : Forward(o)
  BY <1>6, Labels DEF Either, UndoLook, UndoCheck, UndoClean, Fail, Crash, TryQ, TryR
<1>7. CASE UserEdit \/ UserDelete \/ UserCreate
  BY <1>7 DEF UserEdit, UserDelete, UserCreate
<1> QED
  BY <1>1, <1>2, <1>3, <1>4, <1>5, <1>6, <1>7 DEF Next, Quarantine, Restore

(* A tree leaves the shelf when the user replaces it, when it has been      *)
(* passed on, or as the work of an operation that is being undone.          *)
Undoing(i, c) == i \in Op /\ pc[i] \in Undo /\ Reviewed(i) = c

Lost(i, c) == Shelved(i, c) /\ ~Shelved(i, c)'

LEMMA ShelfStep ==
  ASSUME KeepInv, [Next]_vars, NEW i \in Ident, NEW c \in wanted', Lost(i, c)
  PROVE  Passed(i, c) \/ Undoing(i, c)
<1> USE DEF Lost, Shelved, Is, Holds
<1>0. TypeOK /\ Slots /\ \A o \in Op : LogIsFinal(o)
  BY DEF KeepInv, GovInv
<1>1. ~UNCHANGED <<active, rollback, vault, aside>>
  OBVIOUS
<1>2. ASSUME NEW q \in Quar, Quarantine(q) PROVE Passed(i, c)
  <2>1. CASE QuarantineMove(q)
    BY <1>0, <2>1 DEF QuarantineMove, Slots, TypeOK
  <2>2. CASE QuarantineVault(q)
    BY <1>0, <2>2 DEF QuarantineVault, Slots, TypeOK
  <2>3. CASE QuarantineDrop(q)
    <3>1. src[q] = i /\ Reviewed(q) = c
      BY <1>0, <2>3 DEF QuarantineDrop, TypeOK
    <3> QED
      BY <1>0, <2>3, <3>1 DEF QuarantineDrop, LogIsFinal, AfterLog, Passed, Logged, Op
  <2>4. CASE UndoBack(q)
    BY <1>0, <2>4 DEF UndoBack, TypeOK
  <2> QED
    BY <1>1, <1>2, <2>1, <2>2, <2>3, <2>4 DEF Quarantine, PlanQuarantine, ApplyQuarantine,
       QuarantineCopy, QuarantineVerify, QuarantineCheck, QuarantineMoved, QuarantineLog,
       QuarantineConfirm, trees
<1>3. ASSUME NEW r \in Rest, Restore(r) PROVE Passed(i, c) \/ Undoing(i, c)
  <2> r \in Op
    BY DEF Op
  <2>1. CASE RestoreMove(r)
    BY <1>0, <2>1 DEF RestoreMove, TypeOK
  <2>2. CASE RestoreTake(r)
    <3>1. CASE UNCHANGED <<aside, vault>>
      BY <1>1, <2>2, <3>1 DEF RestoreTake
    <3>2. CASE /\ aside' = [aside EXCEPT ![r] = Vault(r)]
               /\ vault' = [vault EXCEPT ![plan[r].of] = NoTree]
      <4>1. aside[r] = NoTree
        BY <1>0, <2>2 DEF RestoreTake, Slots, TryR
      <4>2. aside'[r] = Vault(r) /\ \A o \in Op \ {r} : aside'[o] = aside[o]
        BY <1>0, <3>2 DEF TypeOK
      <4>3. \A q \in Quar : vault'[q] = vault[q] \/ vault[q] = Vault(r)
        BY <1>0, <3>2 DEF TypeOK, Vault
      <4> QED
        BY <2>2, <4>1, <4>2, <4>3 DEF RestoreTake
    <3> QED
      BY <2>2, <3>1, <3>2 DEF RestoreTake
  <2>3. CASE RestoreRemove(r)
    <3>1. Is(aside[r], src[r], Reviewed(r)) /\ Logged(r)
      BY <1>0, <2>3 DEF RestoreRemove, Slots, LogIsFinal, AfterLog, Logged
    <3>2. src[r] = i /\ Reviewed(r) = c
      BY <1>0, <2>3, <3>1 DEF RestoreRemove, TypeOK
    <3> QED
      BY <3>1, <3>2 DEF Passed
  <2>4. CASE UndoTake(r)
    <3>1. aside[r] = NoTree
      BY <1>0, <2>4 DEF UndoTake, Slots
    <3> QED
      BY <1>0, <2>4, <3>1 DEF UndoTake, TypeOK
  <2>5. CASE UndoRecheck(r)
    <3>1. pc[r] \in Undo
      BY <2>5 DEF UndoRecheck, Undo
    <3>2. CASE Is(aside[r], r, Reviewed(r))
      <4>1. i = r /\ c = Reviewed(r)
        BY <1>0, <2>5, <3>2 DEF UndoRecheck, TypeOK
      <4> QED
        BY <3>1, <4>1 DEF Undoing
    <3>3. CASE ~Is(aside[r], r, Reviewed(r))
      BY <1>0, <2>5, <3>3 DEF UndoRecheck, TypeOK
    <3> QED
      BY <3>2, <3>3
  <2> QED
    BY <1>1, <1>3, <2>1, <2>2, <2>3, <2>4, <2>5 DEF Restore, PlanRestore, ApplyRestore,
       RestoreCopy, RestoreVerify, RestoreLook, RestoreCheck, RestoreLog, RestoreConfirm, trees
<1>4. ASSUME NEW o \in Op, Either(o) PROVE Undoing(i, c)
  <2>1. CASE UndoClean(o)
    <3>1. i = o /\ c = Reviewed(o)
      BY <1>0, <2>1 DEF UndoClean, TypeOK
    <3> QED
      BY <2>1, <3>1 DEF UndoClean, Undoing, Undo
  <2> QED
    BY <1>1, <1>4, <2>1 DEF Either, UndoLook, UndoCheck, Fail, Crash, trees
<1>5. CASE UserEdit \/ UserDelete \/ UserCreate
  BY <1>0, <1>5 DEF UserEdit, UserDelete, UserCreate, KeepInv, Unused, TypeOK, Tree
<1> QED
  BY <1>1, <1>2, <1>3, <1>4, <1>5 DEF Next, vars

(* A tree comes to the shelf as the copy of an operation that has started,  *)
(* or as what the user has just written.                                    *)
Copied(i, c)  == i \in Op /\ pc[i] \notin Unstarted /\ c = Reviewed(i)
Written(i, c) == Known(i) /\ c \in fresh /\ c \notin fresh'

LEMMA ShelfSource ==
  ASSUME KeepInv, [Next]_vars, NEW i \in Ident, NEW c \in Content \cup {Mixed},
         Shelved(i, c)', ~Shelved(i, c)
  PROVE  Copied(i, c) \/ Written(i, c)
<1> USE DEF Shelved, Is, Holds
<1>0. TypeOK /\ Slots /\ \A q \in Quar : Quarantining(q)
  BY DEF KeepInv, GovInv
<1>1. ~UNCHANGED <<active, rollback, vault, aside>>
  OBVIOUS
<1>2. ASSUME NEW q \in Quar, Quarantine(q) PROVE Copied(i, c)
  <2>1. CASE QuarantineMove(q)
    BY <1>0, <2>1 DEF QuarantineMove, TypeOK
  <2>2. CASE QuarantineVault(q)
    <3>1. i = q /\ c = Reviewed(q)
      BY <1>0, <2>2 DEF QuarantineVault, Quarantining, TypeOK
    <3> QED
      BY <2>2, <3>1 DEF QuarantineVault, Copied, Unstarted, Op
  <2>3. CASE QuarantineDrop(q)
    BY <1>0, <2>3 DEF QuarantineDrop, TypeOK
  <2>4. CASE UndoBack(q)
    BY <1>0, <2>4 DEF UndoBack, TypeOK
  <2> QED
    BY <1>1, <1>2, <2>1, <2>2, <2>3, <2>4 DEF Quarantine, PlanQuarantine, ApplyQuarantine,
       QuarantineCopy, QuarantineVerify, QuarantineCheck, QuarantineMoved, QuarantineLog,
       QuarantineConfirm, trees
<1>3. ASSUME NEW r \in Rest, Restore(r) PROVE Copied(i, c)
  <2> r \in Op
    BY DEF Op
  <2>1. CASE RestoreMove(r)
    <3>1. i = r /\ c = Reviewed(r)
      BY <1>0, <2>1 DEF RestoreMove, Slots, TypeOK
    <3> QED
      BY <2>1, <3>1 DEF RestoreMove, Copied, Unstarted
  <2>2. CASE RestoreTake(r)
    <3>1. CASE UNCHANGED <<aside, vault>>
      BY <1>1, <2>2, <3>1 DEF RestoreTake
    <3>2. CASE /\ Is(Vault(r), src[r], Reviewed(r))
               /\ aside' = [aside EXCEPT ![r] = Vault(r)]
               /\ vault' = [vault EXCEPT ![plan[r].of] = NoTree]
      <4>1. aside'[r] = Vault(r) /\ \A o \in Op \ {r} : aside'[o] = aside[o]
        BY <1>0, <3>2 DEF TypeOK
      <4>2. plan[r].of \in Quar
        BY <2>2 DEF RestoreTake, KeepInv, GovInv, Started, Plan
      <4>3. \A q \in Quar : vault'[q] = vault[q] \/ vault'[q] = NoTree
        BY <1>0, <3>2 DEF TypeOK
      <4> QED
        BY <2>2, <4>1, <4>2, <4>3 DEF RestoreTake, Vault
    <3> QED
      BY <2>2, <3>1, <3>2 DEF RestoreTake
  <2>3. CASE RestoreRemove(r)
    BY <1>0, <2>3 DEF RestoreRemove, TypeOK
  <2>4. CASE UndoTake(r)
    BY <1>0, <2>4 DEF UndoTake, TypeOK
  <2>5. CASE UndoRecheck(r)
    BY <1>0, <2>5 DEF UndoRecheck, TypeOK
  <2> QED
    BY <1>1, <1>3, <2>1, <2>2, <2>3, <2>4, <2>5 DEF Restore, PlanRestore, ApplyRestore,
       RestoreCopy, RestoreVerify, RestoreLook, RestoreCheck, RestoreLog, RestoreConfirm, trees
<1>4. ASSUME NEW o \in Op, Either(o) PROVE FALSE
  <2>1. ~UndoClean(o)
    BY <1>0 DEF UndoClean, TypeOK
  <2> QED
    BY <1>1, <1>4, <2>1 DEF Either, UndoLook, UndoCheck, Fail, Crash, trees
<1>5. ASSUME UserEdit \/ UserDelete \/ UserCreate PROVE Written(i, c)
  <2>1. CASE UserEdit
    <3>1. PICK d \in fresh : active' = [active EXCEPT !.content = d] /\ fresh' = fresh \ {d}
      BY <2>1 DEF UserEdit
    <3>2. active \in Tree /\ active'.ino = active.ino /\ active'.content = d
      BY <1>0, <2>1, <3>1 DEF UserEdit, TypeOK, Tree
    <3>3. i = active.ino /\ c = d
      BY <2>1, <3>2 DEF UserEdit
    <3>4. Known(i)
      BY <2>1, <3>2, <3>3 DEF UserEdit, KeepInv, Origins, Tree
    <3> QED
      BY <3>1, <3>3, <3>4 DEF Written
  <2>2. CASE UserDelete
    BY <2>2 DEF UserDelete
  <2>3. CASE UserCreate
    <3>1. i = c /\ c \in fresh /\ c \notin fresh' /\ c \in Content
      BY <1>0, <2>3 DEF UserCreate, TypeOK
    <3> QED
      BY <3>1, GovernanceConstants DEF Written, Known
  <2> QED
    BY <1>5, <2>1, <2>2, <2>3
<1> QED
  BY <1>1, <1>2, <1>3, <1>4, <1>5 DEF Next, vars

(* An operation prepares only its own copy, of what it was to copy.         *)
Copies(o) ==
    /\ staging'[o].ino = o /\ pc[o] \notin Unstarted /\ pc'[o] \notin Unstarted
    /\ \/ staging'[o].content = Mixed
       \/ active # NoTree /\ staging'[o].content = active.content
       \/ staging'[o].content = Reviewed(o)

LEMMA StagingStep ==
  ASSUME KeepInv, [Next]_vars, NEW o \in Op
  PROVE  staging'[o] \in {NoTree, staging[o]} \/ Copies(o)
<1>0. TypeOK /\ Forward(o)
  BY Onward DEF KeepInv, GovInv
<1>1. CASE UNCHANGED staging
  BY <1>1
<1>2. ASSUME NEW q \in Quar, QuarantineCopy(q)
      PROVE  staging'[o] \in {NoTree, staging[o]} \/ Copies(o)
  BY <1>0, <1>2 DEF QuarantineCopy, TypeOK, Copies, Unstarted, Forward
<1>3. ASSUME NEW r \in Rest, RestoreCopy(r)
      PROVE  staging'[o] \in {NoTree, staging[o]} \/ Copies(o)
  BY <1>0, <1>3 DEF RestoreCopy, TypeOK, Copies, Unstarted, Forward
<1>4. ASSUME NEW p \in Op, QuarantineVault(p) \/ RestoreMove(p) \/ UndoClean(p)
      PROVE  staging'[o] \in {NoTree, staging[o]}
  BY <1>0, <1>4 DEF QuarantineVault, RestoreMove, UndoClean, TypeOK
<1>5. ASSUME NEW q \in Quar, Quarantine(q), ~UNCHANGED staging
      PROVE  QuarantineCopy(q) \/ QuarantineVault(q)
  BY <1>5 DEF Quarantine, trees, PlanQuarantine, ApplyQuarantine, QuarantineVerify,
     QuarantineCheck, QuarantineMove, QuarantineMoved, QuarantineLog, QuarantineConfirm,
     QuarantineDrop, UndoBack
<1>6. ASSUME NEW r \in Rest, Restore(r), ~UNCHANGED staging PROVE RestoreCopy(r) \/ RestoreMove(r)
  BY <1>6 DEF Restore, trees, PlanRestore, ApplyRestore, RestoreVerify, RestoreLook,
     RestoreCheck, RestoreLog, RestoreConfirm, RestoreTake, RestoreRemove, UndoTake, UndoRecheck
<1>7. ASSUME NEW p \in Op, Either(p), ~UNCHANGED staging PROVE UndoClean(p)
  BY <1>7 DEF Either, trees, UndoLook, UndoCheck, Fail, Crash
<1>8. CASE UserEdit \/ UserDelete \/ UserCreate
  BY <1>8 DEF UserEdit, UserDelete, UserCreate
<1> QED
  BY <1>1, <1>2, <1>3, <1>4, <1>5, <1>6, <1>7, <1>8 DEF Next, vars, Op

(* The validation of a plan captures a tree that is on the shelf, and a     *)
(* record is written for what is in place; neither step does anything else. *)
Captures(o) ==
    /\ pc[o] = "planned" /\ pc'[o] \notin Unstarted
    /\ src'[o] \in Ident /\ \E c \in Content \cup {Mixed} : Shelved(src'[o], c)
    /\ \A p \in Op \ {o} : src'[p] = src[p]
    /\ UNCHANGED <<trees, plan, flags, user>>

Journals(o) ==
    /\ pc[o] \in {"Q.log", "R.log"} /\ ~Logged(o) /\ Logged(o)'
    /\ \A p \in Op \ {o} : flags'[p] = flags[p]
    /\ UNCHANGED <<trees, plan, src, user>>

LEMMA Milestones ==
  ASSUME KeepInv, [Next]_vars, NEW o \in Op
  PROVE  /\ src'[o] = src[o] \/ Captures(o)
         /\ pc'[o] \in Running => pc[o] \in Running \/ Captures(o)
         /\ Logged(o)' => Logged(o) \/ Journals(o)
<1> DEFINE Goal == /\ src'[o] = src[o] \/ Captures(o)
                   /\ pc'[o] \in Running => pc[o] \in Running \/ Captures(o)
                   /\ Logged(o)' => Logged(o) \/ Journals(o)
<1>0. TypeOK /\ Started
  BY DEF KeepInv, GovInv
<1>1. CASE UNCHANGED vars
  BY <1>1 DEF vars, Logged
<1>2. ASSUME NEW q \in Quar, ApplyQuarantine(q) PROVE Goal
  <2>1. CASE src' = [src EXCEPT ![q] = active.ino] /\ Holds(active, Reviewed(q))
    <3>1. active \in Tree /\ Shelved(active.ino, active.content)
      BY <1>0, <2>1 DEF TypeOK, Shelved, Is, Holds
    <3>2. o = q => Captures(o)
      BY <1>0, <1>2, <2>1, <3>1 DEF ApplyQuarantine, Captures, Tree, Ident, Unstarted, TypeOK,
         Goto
    <3> QED
      BY <1>0, <1>2, <2>1, <3>2 DEF ApplyQuarantine, TypeOK, Goto, Logged
  <2>2. CASE UNCHANGED src /\ Goto(q, "over")
    BY <1>0, <1>2, <2>2 DEF ApplyQuarantine, TypeOK, Goto, Logged, Running, TryQ, TryR, Undo
  <2> QED
    BY <1>2, <2>1, <2>2 DEF ApplyQuarantine
<1>3. ASSUME NEW r \in Rest, ApplyRestore(r) PROVE Goal
  <2>1. CASE src' = [src EXCEPT ![r] = Vault(r).ino] /\ Holds(Vault(r), Reviewed(r))
    <3>1. plan[r].of \in Quar
      BY <1>0, <1>3 DEF ApplyRestore, Started, Plan, Op
    <3>2. Vault(r) \in Tree /\ Shelved(Vault(r).ino, Vault(r).content)
      BY <1>0, <2>1, <3>1 DEF TypeOK, Shelved, Is, Holds, Vault
    <3>3. o = r => Captures(o)
      BY <1>0, <1>3, <2>1, <3>2 DEF ApplyRestore, Captures, Tree, Ident, Unstarted, TypeOK, Goto
    <3> QED
      BY <1>0, <1>3, <2>1, <3>3 DEF ApplyRestore, TypeOK, Goto, Logged
  <2>2. CASE UNCHANGED src /\ Goto(r, "over")
    BY <1>0, <1>3, <2>2 DEF ApplyRestore, TypeOK, Goto, Logged, Running, TryQ, TryR, Undo
  <2> QED
    BY <1>3, <2>1, <2>2 DEF ApplyRestore
<1>4. ASSUME NEW q \in Quar, QuarantineLog(q) PROVE Goal
  BY <1>0, <1>4 DEF QuarantineLog, Append, TypeOK, Goto, Throw, Mark, Logged, Journals, Other,
     Running, TryQ
<1>5. ASSUME NEW r \in Rest, RestoreLog(r) PROVE Goal
  BY <1>0, <1>5 DEF RestoreLog, Append, TypeOK, Goto, Throw, Mark, Logged, Journals, Other,
     Running, TryR
<1>6. ASSUME NEW q \in Quar, PlanQuarantine(q) \/ QuarantineCopy(q) \/ QuarantineVerify(q)
         \/ QuarantineCheck(q) \/ QuarantineMove(q) \/ QuarantineMoved(q) \/ QuarantineVault(q)
         \/ QuarantineConfirm(q) \/ QuarantineDrop(q) \/ UndoBack(q)
      PROVE  Goal
  BY <1>0, <1>6 DEF PlanQuarantine, QuarantineCopy, QuarantineVerify, QuarantineCheck,
     QuarantineMove, QuarantineMoved, QuarantineVault, QuarantineConfirm, QuarantineDrop,
     UndoBack, TypeOK, Goto, Throw, Mark, Logged, Other, Drift, Running, TryQ, TryR, Undo
<1>7. ASSUME NEW r \in Rest, PlanRestore(r) \/ RestoreCopy(r) \/ RestoreVerify(r)
         \/ RestoreLook(r) \/ RestoreMove(r) \/ RestoreCheck(r) \/ RestoreConfirm(r)
         \/ RestoreTake(r) \/ RestoreRemove(r) \/ UndoTake(r) \/ UndoRecheck(r)
      PROVE  Goal
  BY <1>0, <1>7 DEF PlanRestore, RestoreCopy, RestoreVerify, RestoreLook, RestoreMove,
     RestoreCheck, RestoreConfirm, RestoreTake, RestoreRemove, UndoTake, UndoRecheck, TypeOK,
     Goto, Throw, Mark, Logged, Other, Drift, Running, TryQ, TryR, Undo
<1>8. ASSUME NEW p \in Op, Either(p) PROVE Goal
  BY <1>0, <1>8 DEF Either, UndoLook, UndoCheck, UndoClean, Fail, Crash, TypeOK, Goto, Throw,
     Mark, Logged, Other, Running, TryQ, TryR, Undo
<1>9. CASE UserEdit \/ UserDelete \/ UserCreate
  BY <1>9 DEF UserEdit, UserDelete, UserCreate, Logged
<1> QED
  BY <1>1, <1>2, <1>3, <1>4, <1>5, <1>6, <1>7, <1>8, <1>9 DEF Next, Quarantine, Restore

(* Where the trees of the next state come from.                             *)
LEMMA OriginsStep == KeepInv /\ [Next]_vars => Origins'
<1> SUFFICES ASSUME KeepInv, [Next]_vars PROVE Origins'
  OBVIOUS
<1>0. GovInv /\ Origins /\ TypeOK /\ TypeOK'
  BY GovInvStep DEF KeepInv, GovInv
<1>1. \A o \in Op : Forward(o)
  BY <1>0, Onward
<1>2. \A i \in Ident : Known(i) => Known(i)'
  BY <1>1 DEF Known, Forward
<1>3. \A i \in Ident, c \in Content \cup {Mixed} : Shelved(i, c)' => Known(i)'
  BY <1>0, <1>2, ShelfSource DEF Origins, Copied, Written, Known
<1>4. \A o \in Op : staging'[o] # NoTree => staging'[o].ino = o /\ pc'[o] \notin Unstarted
  BY <1>0, <1>1, StagingStep DEF Origins, Copies, Forward
<1>5. \A o \in Op : src'[o] # o => pc'[o] \notin Unstarted /\ Known(src[o])'
  <2> SUFFICES ASSUME NEW o \in Op, src'[o] # o
               PROVE  pc'[o] \notin Unstarted /\ Known(src[o])'
    OBVIOUS
  <2>1. CASE src'[o] = src[o]
    BY <1>0, <1>1, <1>2, <2>1 DEF Origins, Forward, Known, TypeOK, Ident
  <2>2. CASE Captures(o)
    BY <1>0, <1>1, <1>2, <2>2 DEF Captures, Origins, Known
  <2> QED
    BY <2>1, <2>2, Milestones
<1>6. \A o \in Op : pc'[o] \in Running \/ Logged(o)' => src'[o] # o
  <2> SUFFICES ASSUME NEW o \in Op, pc'[o] \in Running \/ Logged(o)' PROVE src'[o] # o
    OBVIOUS
  <2>1. CASE Captures(o)
    BY <1>0, <2>1 DEF Captures, Origins, Known, Unstarted
  <2>2. CASE ~Captures(o)
    <3>1. src'[o] = src[o] /\ (pc[o] \in Running \/ Logged(o))
      BY <2>2, Milestones DEF Journals, Running, TryQ, TryR
    <3> QED
      BY <1>0, <3>1 DEF Origins
  <2> QED
    BY <2>1, <2>2
<1> QED
  BY <1>3, <1>4, <1>5, <1>6 DEF Origins

(* Only the user brings a content up, and each only once.                   *)
LEMMA UserStep ==
  ASSUME KeepInv, [Next]_vars
  PROVE  /\ fresh' \subseteq fresh
         /\ \A c \in wanted' \ wanted :
              /\ c \in fresh
              /\ UNCHANGED <<plan, src, pc, flags>>
              /\ active' # NoTree /\ active'.content = c /\ active'.ino \in Ident
              /\ Known(active'.ino)
<1>0. TypeOK /\ Origins
  BY DEF KeepInv, GovInv
<1>1. CASE UNCHANGED user
  BY <1>1 DEF user
<1>2. ~UNCHANGED user => UserEdit \/ UserDelete \/ UserCreate
  <2>1. \A q \in Quar : Quarantine(q) => UNCHANGED user
    BY DEF Quarantine, PlanQuarantine, ApplyQuarantine, QuarantineCopy, QuarantineVerify,
       QuarantineCheck, QuarantineMove, QuarantineMoved, QuarantineVault, QuarantineLog,
       QuarantineConfirm, QuarantineDrop, UndoBack
  <2>2. \A r \in Rest : Restore(r) => UNCHANGED user
    BY DEF Restore, PlanRestore, ApplyRestore, RestoreCopy, RestoreVerify, RestoreLook,
       RestoreMove, RestoreCheck, RestoreLog, RestoreConfirm, RestoreTake, RestoreRemove,
       UndoTake, UndoRecheck
  <2>3. \A o \in Op : Either(o) => UNCHANGED user
    BY DEF Either, UndoLook, UndoCheck, UndoClean, Fail, Crash
  <2> QED
    BY <2>1, <2>2, <2>3 DEF Next, vars, user
<1>3. CASE UserEdit
  <2>1. PICK d \in fresh : /\ active' = [active EXCEPT !.content = d]
                           /\ wanted' = (wanted \ {active.content}) \cup {d}
                           /\ fresh' = fresh \ {d}
    BY <1>3 DEF UserEdit
  <2>2. /\ active \in Tree /\ active'.ino = active.ino /\ active'.content = d
        /\ active' # NoTree
    BY <1>0, <1>3, <2>1, GovernanceConstants DEF UserEdit, TypeOK, Tree
  <2>3. Known(active.ino) /\ active.ino \in Ident
    BY <1>0, <1>3, <2>2 DEF UserEdit, Origins, Tree, Shelved, Is, Holds, Ident
  <2>4. Known(active'.ino)
    BY <2>2, <2>3
  <2> QED
    BY <1>3, <2>1, <2>2, <2>3, <2>4 DEF UserEdit
<1>4. CASE UserDelete
  BY <1>4 DEF UserDelete
<1>5. CASE UserCreate
  <2>1. PICK d \in fresh : /\ active' = [ino |-> d, content |-> d]
                           /\ wanted' = wanted \cup {d} /\ fresh' = fresh \ {d}
    BY <1>5 DEF UserCreate
  <2>2. d \in Content /\ d \notin Op /\ active' # NoTree
    BY <1>0, <2>1, GovernanceConstants DEF TypeOK
  <2> QED
    BY <1>5, <2>1, <2>2 DEF UserCreate, Ident, Known
<1> QED
  BY <1>1, <1>2, <1>3, <1>4, <1>5

(* A plan is made for a content that is at the active path or was planned.  *)
LEMMA PlanStep ==
  ASSUME GovInv, [Next]_vars, NEW o \in Op, pc[o] = "idle", pc'[o] # "idle"
  PROVE  \/ active # NoTree /\ Reviewed(o)' = active.content
         \/ \E q \in Op : pc[q] # "idle" /\ Reviewed(o)' = Reviewed(q)
<1>0. TypeOK /\ Started
  BY DEF GovInv
<1>2. CASE PlanQuarantine(o)
  BY <1>0, <1>2 DEF PlanQuarantine, TypeOK, Reviewed
<1>3. CASE PlanRestore(o)
  BY <1>0, <1>3 DEF PlanRestore, TypeOK, Reviewed, Quarantined, Started, Op
<1>4. ASSUME NEW q \in Quar, Quarantine(q), ~PlanQuarantine(o) PROVE FALSE
  BY <1>0, <1>4 DEF Quarantine, PlanQuarantine, ApplyQuarantine, QuarantineCopy,
     QuarantineVerify, QuarantineCheck, QuarantineMove, QuarantineMoved, QuarantineVault,
     QuarantineLog, Append, QuarantineConfirm, QuarantineDrop, UndoBack, Goto, Throw, TypeOK
<1>5. ASSUME NEW r \in Rest, Restore(r), ~PlanRestore(o) PROVE FALSE
  BY <1>0, <1>5 DEF Restore, PlanRestore, ApplyRestore, RestoreCopy, RestoreVerify, RestoreLook,
     RestoreMove, RestoreCheck, RestoreLog, Append, RestoreConfirm, RestoreTake, RestoreRemove,
     UndoTake, UndoRecheck, Goto, Throw, TypeOK
<1>6. ASSUME NEW p \in Op, Either(p) PROVE FALSE
  BY <1>0, <1>6, Labels DEF Either, UndoLook, UndoCheck, UndoClean, Fail, Crash, Goto, Throw,
     TypeOK, TryQ, TryR, Undo
<1>7. ~(UserEdit \/ UserDelete \/ UserCreate \/ UNCHANGED vars)
  BY DEF UserEdit, UserDelete, UserCreate, vars
<1> QED
  BY <1>2, <1>3, <1>4, <1>5, <1>6, <1>7 DEF Next

LEMMA UnusedStep == KeepInv /\ [Next]_vars => Unused'
<1> SUFFICES ASSUME KeepInv, [Next]_vars PROVE Unused'
  OBVIOUS
<1>0. GovInv /\ Unused /\ TypeOK /\ fresh' \subseteq fresh
  BY UserStep DEF KeepInv, GovInv
<1>1. \A o \in Op : pc[o] # "idle" => Reviewed(o) \notin fresh
  BY <1>0 DEF Unused
<1>2. active # NoTree => active.content \notin fresh
  BY <1>0 DEF Unused, Shelved, Is, Holds, TypeOK, Tree, Ident
<1>3. \A i \in Ident, c \in fresh' : ~Shelved(i, c)'
  BY <1>0, <1>1, ShelfSource DEF Unused, Copied, Written, Unstarted, TypeOK
<1>4. \A o \in Op : staging'[o] # NoTree => staging'[o].content \notin fresh'
  BY <1>0, <1>1, <1>2, StagingStep, GovernanceConstants DEF Unused, Copies, Unstarted, TypeOK
<1>5. \A o \in Op : pc'[o] # "idle" => Reviewed(o)' \notin fresh'
  <2> SUFFICES ASSUME NEW o \in Op, pc'[o] # "idle" PROVE Reviewed(o)' \notin fresh'
    OBVIOUS
  <2>1. CASE pc[o] = "idle"
    BY <1>0, <1>1, <1>2, <2>1, PlanStep
  <2>2. CASE pc[o] # "idle"
    BY <1>0, <1>1, <2>2, Onward DEF Forward, Reviewed
  <2> QED
    BY <2>1, <2>2
<1> QED
  BY <1>3, <1>4, <1>5 DEF Unused

LEMMA SlotsStep == KeepInv /\ [Next]_vars => Slots'
<1> SUFFICES ASSUME KeepInv, [Next]_vars PROVE Slots'
  OBVIOUS
<1>0. Slots /\ TypeOK /\ \A o \in Op : LogIsFinal(o)
  BY DEF KeepInv, GovInv
<1> USE <1>0, GovernanceConstants
    DEF Slots, TypeOK, Goto, Throw, Mark, Unstarted, TryQ, TryR, Undo, Is, Holds, Reviewed, Op
<1>1. CASE UNCHANGED vars
  BY <1>1 DEF vars, trees
<1>2. ASSUME NEW q \in Quar, PlanQuarantine(q) \/ ApplyQuarantine(q) \/ QuarantineCopy(q)
         \/ QuarantineVerify(q) \/ QuarantineCheck(q) \/ QuarantineMoved(q) \/ QuarantineConfirm(q)
      PROVE  Slots'
  BY <1>2 DEF PlanQuarantine, ApplyQuarantine, QuarantineCopy, QuarantineVerify,
     QuarantineCheck, QuarantineMoved, QuarantineConfirm, trees
<1>3. ASSUME NEW q \in Quar, QuarantineMove(q) PROVE Slots'
  BY <1>3 DEF QuarantineMove
<1>4. ASSUME NEW q \in Quar, QuarantineVault(q) PROVE Slots'
  BY <1>4 DEF QuarantineVault
<1>5. ASSUME NEW q \in Quar, QuarantineLog(q) PROVE Slots'
  BY <1>5 DEF QuarantineLog, Append, trees
<1>6. ASSUME NEW q \in Quar, QuarantineDrop(q) \/ UndoBack(q) PROVE Slots'
  BY <1>6 DEF QuarantineDrop, UndoBack
<1>7. ASSUME NEW r \in Rest, PlanRestore(r) \/ ApplyRestore(r) \/ RestoreLook(r)
         \/ RestoreVerify(r) \/ RestoreCheck(r) \/ RestoreConfirm(r)
      PROVE  Slots'
  BY <1>7 DEF PlanRestore, ApplyRestore, RestoreLook, RestoreVerify, RestoreCheck,
     RestoreConfirm, trees
<1>8. ASSUME NEW r \in Rest, RestoreCopy(r) \/ RestoreMove(r) PROVE Slots'
  BY <1>8 DEF RestoreCopy, RestoreMove
<1>9. ASSUME NEW r \in Rest, RestoreLog(r) PROVE Slots'
  BY <1>9 DEF RestoreLog, Append, trees
<1>10. ASSUME NEW r \in Rest, RestoreTake(r) PROVE Slots'
  BY <1>10 DEF RestoreTake
<1>11. ASSUME NEW r \in Rest, RestoreRemove(r) \/ UndoTake(r) \/ UndoRecheck(r) PROVE Slots'
  BY <1>11 DEF RestoreRemove, UndoTake, UndoRecheck
<1>12. ASSUME NEW o \in Op, UndoLook(o) \/ UndoCheck(o) \/ Crash(o) PROVE Slots'
  BY <1>12 DEF UndoLook, UndoCheck, Crash, trees
<1>13. ASSUME NEW o \in Op, Fail(o) PROVE Slots'
  <2>1. pc[o] = "R.remove" => "logged" \in flags[o]
    BY <1>13 DEF LogIsFinal, AfterLog
  <2>2. UNCHANGED <<trees, plan, src>> /\ pc[o] \in TryQ \cup TryR
    BY <1>13 DEF Fail
  <2>3. CASE "logged" \in flags[o]
    <3>1. pc' = [pc EXCEPT ![o] = "over"]
      BY <1>13, <2>3 DEF Fail
    <3> QED
      BY <2>2, <3>1 DEF trees
  <2>4. CASE "logged" \notin flags[o]
    <3>1. pc' = [pc EXCEPT ![o] = "U.look"]
      BY <1>13, <2>4 DEF Fail
    <3> QED
      BY <2>1, <2>2, <2>4, <3>1 DEF trees
  <2> QED
    BY <2>3, <2>4
<1>14. ASSUME NEW o \in Op, UndoClean(o) PROVE Slots'
  BY <1>14 DEF UndoClean
<1>15. CASE UserEdit \/ UserDelete \/ UserCreate
  BY <1>15 DEF UserEdit, UserDelete, UserCreate
<1> QED
  BY <1>1, <1>2, <1>3, <1>4, <1>5, <1>6, <1>7, <1>8, <1>9, <1>10, <1>11, <1>12, <1>13, <1>14,
     <1>15 DEF Next, Quarantine, Restore, Either

(* What was passed on stays so; an end stays one until it is passed on.     *)
LEMMA PassedStep ==
  ASSUME KeepInv, [Next]_vars, NEW i \in Ident, NEW c
  PROVE  /\ Passed(i, c) => Passed(i, c)'
         /\ Passed(i, c)' => \/ Passed(i, c)
                             \/ \E o \in Op : Journals(o) /\ src[o] = i /\ Reviewed(o) = c
<1>0. /\ Origins /\ TypeOK
      /\ \A o \in Op : Forward(o)
  BY Onward DEF KeepInv, GovInv
<1>1. \A o \in Op : Logged(o) => Logged(o)' /\ src'[o] = src[o] /\ Reviewed(o)' = Reviewed(o)
  BY <1>0 DEF Origins, Forward, Unstarted, Reviewed
<1>2. \A o \in Op : Journals(o) => src'[o] = src[o] /\ Reviewed(o)' = Reviewed(o)
  BY DEF Journals, Reviewed
<1>3. \A o \in Op : Logged(o)' => Logged(o) \/ Journals(o)
  BY Milestones
<1> QED
  BY <1>1, <1>2, <1>3 DEF Passed

LEMMA FinalStep ==
  ASSUME KeepInv, [Next]_vars, NEW i \in Ident, NEW c \in wanted, c \in wanted', Final(i, c)
  PROVE  Final(i, c)' \/ \E o \in Op : Journals(o) /\ src[o] = i /\ Reviewed(o) = c
<1>0. /\ GovInv /\ TypeOK /\ Origins
      /\ \A o \in Op : Forward(o) /\ LogIsFinal(o)
  BY Onward DEF KeepInv, GovInv
<1>1. Shelved(i, c)'
  BY <1>0, ShelfStep DEF Final, Lost, Lasting, Undoing, LogIsFinal, Logged
<1>2. Lasting(i, c)'
  <2> SUFFICES ASSUME i \in Op, Reviewed(i)' = c PROVE Logged(i)'
    BY DEF Lasting
  <2>1. pc[i] # "idle"
    BY <1>0 DEF Final, Origins, Known, Unstarted, TypeOK
  <2> QED
    BY <1>0, <2>1 DEF Forward, Final, Lasting, Reviewed
<1> QED
  BY <1>1, <1>2, PassedStep DEF Final

(* What the user has just written is an end.                                *)
LEMMA NewIsFinal ==
  ASSUME KeepInv, [Next]_vars, NEW c \in wanted' \ wanted
  PROVE  \E i \in Ident : Final(i, c)'
<1>0. Origins /\ Unused /\ Origins'
  BY OriginsStep DEF KeepInv
<1>1. /\ c \in fresh /\ UNCHANGED <<plan, src, pc, flags>>
      /\ active' # NoTree /\ active'.content = c /\ active'.ino \in Ident /\ Known(active'.ino)
  BY UserStep
<1>2. PICK i \in Ident : i = active'.ino
  BY <1>1
<1>3. Shelved(i, c)'
  BY <1>1, <1>2 DEF Shelved, Is, Holds
<1>4. \A o \in Op : pc[o] # "idle" => Reviewed(o)' # c
  BY <1>0, <1>1 DEF Unused, Reviewed
<1>5. Lasting(i, c)'
  BY <1>1, <1>2, <1>4 DEF Lasting, Known, Unstarted
<1>6. ~Passed(i, c)'
  BY <1>0, <1>1, <1>4 DEF Passed, Origins, Unstarted, Logged
<1> QED
  BY <1>3, <1>5, <1>6 DEF Final

LEMMA ArrivedStep == KeepInv /\ [Next]_vars => Arrived'
<1> DEFINE There == {"Q.log", "R.check", "R.log"}
<1> SUFFICES ASSUME KeepInv, [Next]_vars, NEW o \in Op, pc'[o] \in There, Reviewed(o)' \in wanted'
             PROVE  Shelved(o, Reviewed(o))' \/ Passed(o, Reviewed(o))'
  BY DEF Arrived
<1>0. /\ GovInv /\ TypeOK /\ Arrived /\ Origins /\ Unused /\ Slots
      /\ \A p \in Op : Forward(p)
      /\ \A q \in Quar : Quarantining(q)
  BY Onward DEF KeepInv, GovInv
<1>1. CASE pc[o] \in There
  <2>1. PICK c \in wanted : c = Reviewed(o) /\ c = Reviewed(o)' /\ c \in wanted'
    BY <1>0, <1>1, UserStep DEF Forward, Reviewed, Unused
  <2>2. Passed(o, c) => Passed(o, c)'
    BY PassedStep DEF Ident
  <2>3. ~Undoing(o, c)
    BY <1>1 DEF Undoing, Undo
  <2>4. Shelved(o, c) => Shelved(o, c)' \/ Passed(o, c)
    BY <2>1, <2>3, ShelfStep DEF Lost, Ident
  <2>5. Shelved(o, c) \/ Passed(o, c)
    BY <1>0, <1>1, <2>1 DEF Arrived
  <2>6. Shelved(o, c)' \/ Passed(o, c)'
    BY <2>2, <2>4, <2>5
  <2> QED
    BY <2>1, <2>6
<1>2. CASE pc[o] \notin There
  <2> USE <1>0 DEF TypeOK, Goto, Throw
  <2>1. CASE QuarantineVault(o) /\ o \in Quar
    BY <2>1 DEF QuarantineVault, Quarantining, Shelved, Is, Holds, Reviewed
  <2>2. CASE RestoreMove(o) /\ o \in Rest
    BY <1>2, <2>2 DEF RestoreMove, Slots, Shelved, Is, Holds, Reviewed
  <2>3. ASSUME NEW q \in Quar, Quarantine(q), ~(o \in Quar /\ QuarantineVault(o)) PROVE FALSE
    BY <1>2, <2>3 DEF Quarantine, PlanQuarantine, ApplyQuarantine, QuarantineCopy,
       QuarantineVerify, QuarantineCheck, QuarantineMove, QuarantineMoved, QuarantineVault,
       QuarantineLog, Append, QuarantineConfirm, QuarantineDrop, UndoBack
  <2>4. ASSUME NEW r \in Rest, Restore(r), ~(o \in Rest /\ RestoreMove(o)) PROVE FALSE
    BY <1>2, <2>4 DEF Restore, PlanRestore, ApplyRestore, RestoreCopy, RestoreVerify,
       RestoreLook, RestoreMove, RestoreCheck, RestoreLog, Append, RestoreConfirm, RestoreTake,
       RestoreRemove, UndoTake, UndoRecheck
  <2>5. ASSUME NEW p \in Op, Either(p) PROVE FALSE
    BY <1>2, <2>5 DEF Either, UndoLook, UndoCheck, UndoClean, Fail, Crash
  <2>6. ~(UserEdit \/ UserDelete \/ UserCreate \/ UNCHANGED vars)
    BY <1>2 DEF UserEdit, UserDelete, UserCreate, vars
  <2> QED
    BY <2>1, <2>2, <2>3, <2>4, <2>5, <2>6 DEF Next
<1> QED
  BY <1>1, <1>2

(* When an operation is journaled its chain has an end that is no older     *)
(* than its own copy, and so is not the tree it was made from.              *)
LEMMA JournalKeeps ==
  ASSUME KeepInv, [Next]_vars, NEW age \in [Ident -> Nat], Chains(age),
         NEW o \in Op, Journals(o)
  PROVE  EndsWanted' /\ Chains(age)'
<1>0. /\ TypeOK /\ Origins /\ Arrived /\ EndsWanted /\ UNCHANGED <<plan, src, user>>
      /\ \A p \in Op \ {o} : ~Journals(p)
  BY DEF KeepInv, GovInv, Journals, Logged
<1>1. src[o] # o /\ src[o] \in Ident /\ age[src[o]] < age[o]
  <2>1. pc[o] \in Running
    BY DEF Journals, Running, TryQ, TryR
  <2> QED
    BY <1>0, <2>1 DEF Origins, TypeOK, Ident, Chains
<1>2. \A i \in Ident, c \in wanted :
        Final(i, c) => Final(i, c)' \/ (i = src[o] /\ c = Reviewed(o))
  BY <1>0, FinalStep DEF user
<1>3. \A c \in wanted :
        c = Reviewed(o) => \E e \in Ident : Final(e, c)' /\ age[o] <= age[e]
  <2> SUFFICES ASSUME NEW c \in wanted, c = Reviewed(o)
               PROVE  \E e \in Ident : Final(e, c)' /\ age[o] <= age[e]
    OBVIOUS
  <2>1. CASE Passed(o, c)
    <3>1. PICK p \in Op : Logged(p) /\ src[p] = o /\ Reviewed(p) = c
      BY <2>1 DEF Passed
    <3>2. age[o] < age[p]
      BY <1>0, <3>1 DEF Origins, Chains
    <3>3. PICK e \in Ident : Final(e, c) /\ age[p] <= age[e]
      BY <3>1 DEF Chains
    <3>4. age[o] <= age[e] /\ e # src[o]
      BY <1>1, <3>2, <3>3 DEF Ident
    <3> QED
      BY <1>2, <3>3, <3>4
  <2>2. CASE ~Passed(o, c)
    <3>1. Shelved(o, c)
      BY <1>0, <2>2 DEF Arrived, Journals
    <3>2. Shelved(o, c)' /\ Lasting(o, c)'
      BY <3>1 DEF Journals, trees, Shelved, Is, Holds, Lasting
    <3>3. ~Passed(o, c)'
      BY <1>0, <1>1, <2>2, PassedStep DEF Ident
    <3> QED
      BY <3>2, <3>3 DEF Final, Ident
  <2> QED
    BY <2>1, <2>2
<1>4. EndsWanted'
  <2> SUFFICES ASSUME NEW c \in wanted PROVE \E i \in Ident : Final(i, c)'
    BY <1>0 DEF EndsWanted, user
  <2>1. PICK i \in Ident : Final(i, c)
    BY <1>0 DEF EndsWanted
  <2> QED
    BY <1>2, <1>3, <2>1
<1>5. ASSUME NEW p \in Op, Logged(p)', NEW c \in wanted, c = Reviewed(p)
      PROVE  \E i \in Ident : Final(i, c)' /\ age[p] <= age[i]
  <2>1. CASE p = o
    BY <1>3, <1>5, <2>1
  <2>2. CASE p # o
    <3>1. PICK i \in Ident : Final(i, c) /\ age[p] <= age[i]
      BY <1>5, <2>2 DEF Journals, Logged, Chains
    <3>2. CASE Final(i, c)'
      BY <3>1, <3>2
    <3>3. CASE i = src[o] /\ c = Reviewed(o)
      <4>1. PICK e \in Ident : Final(e, c)' /\ age[o] <= age[e]
        BY <1>3, <3>3
      <4>2. age[p] <= age[e]
        BY <1>1, <3>1, <3>3, <4>1 DEF Ident
      <4> QED
        BY <4>1, <4>2
    <3> QED
      BY <1>2, <3>1, <3>2, <3>3
  <2> QED
    BY <2>1, <2>2
<1>6. \A p \in Op : Logged(p)' /\ Reviewed(p)' \in wanted' =>
        \E i \in Ident : Final(i, Reviewed(p))' /\ age[p] <= age[i]
  <2> SUFFICES ASSUME NEW p \in Op, Logged(p)', Reviewed(p)' \in wanted'
               PROVE  \E i \in Ident : Final(i, Reviewed(p))' /\ age[p] <= age[i]
    OBVIOUS
  <2>1. PICK c \in wanted : c = Reviewed(p) /\ c = Reviewed(p)'
    BY <1>0 DEF Reviewed, user
  <2>2. PICK i \in Ident : Final(i, c)' /\ age[p] <= age[i]
    BY <1>5, <2>1
  <2> QED
    BY <2>1, <2>2
<1> QED
  BY <1>0, <1>4, <1>6 DEF Chains

(* Any other step leaves the ends where they are.  A validation makes the   *)
(* operation the youngest of its chain: nobody has its copy yet.            *)
LEMMA OthersKeep ==
  ASSUME KeepInv, [Next]_vars, NEW age \in [Ident -> Nat], Chains(age),
         \A o \in Op : ~Journals(o)
  PROVE  EndsWanted' /\ \E new \in [Ident -> Nat] : Chains(new)'
<1>0. /\ TypeOK /\ Origins /\ Unused /\ EndsWanted /\ Origins'
      /\ \A o \in Op : Forward(o) /\ LogIsFinal(o)
  BY Onward, OriginsStep DEF KeepInv, GovInv
<1>1. \A i \in Ident, c \in wanted : c \in wanted' /\ Final(i, c) => Final(i, c)'
  BY FinalStep
<1>2. EndsWanted'
  BY <1>0, <1>1, NewIsFinal DEF EndsWanted
<1>3. ASSUME NEW p \in Op, Logged(p)', Reviewed(p)' \in wanted'
      PROVE  /\ Logged(p) /\ src[p] # p /\ pc[p] \notin Unstarted
             /\ \E i \in Ident : Final(i, Reviewed(p))' /\ age[p] <= age[i]
  <2>1. Logged(p) /\ src[p] # p /\ pc[p] \notin Unstarted
    BY <1>0, <1>3, Milestones DEF Origins
  <2>2. Reviewed(p)' = Reviewed(p) /\ Reviewed(p) \in wanted
    BY <1>0, <1>3, <2>1, UserStep DEF Forward, Reviewed, Unused, Unstarted
  <2>3. PICK c \in wanted : c = Reviewed(p) /\ c = Reviewed(p)' /\ c \in wanted'
    BY <1>3, <2>2
  <2>4. PICK i \in Ident : Final(i, c) /\ age[p] <= age[i]
    BY <2>1, <2>3 DEF Chains
  <2> QED
    BY <1>1, <2>1, <2>3, <2>4
<1>4. CASE \A p \in Op : src'[p] = src[p]
  <2>1. Chains(age)'
    BY <1>3, <1>4 DEF Chains
  <2> QED
    BY <1>2, <2>1
<1>5. ASSUME NEW o \in Op, Captures(o)
      PROVE  \E new \in [Ident -> Nat] : Chains(new)'
  <2>1. PICK s \in Ident : s = src'[o]
    BY <1>5 DEF Captures
  <2>2. s # o /\ Known(s) /\ ~Known(o) /\ o \in Ident
    BY <1>0, <1>5, <2>1 DEF Captures, Origins, Known, Unstarted, Ident
  <2>3. PICK new \in [Ident -> Nat] :
          new[o] = age[s] + 1 /\ \A i \in Ident \ {o} : new[i] = age[i]
    <3> DEFINE aged == [i \in Ident |-> IF i = o THEN age[s] + 1 ELSE age[i]]
    <3>1. aged \in [Ident -> Nat]
      BY <2>1
    <3> QED
      BY <2>2, <3>1
  <2>4. \A p \in Op : src'[p] # p => new[src'[p]] < new[p]
    <3> SUFFICES ASSUME NEW p \in Op, src'[p] # p PROVE new[src'[p]] < new[p]
      OBVIOUS
    <3>1. CASE p = o
      BY <2>1, <2>2, <2>3, <3>1
    <3>2. CASE p # o
      <4>1. src'[p] = src[p] /\ src[p] # p /\ src[p] \in Ident
        BY <1>0, <1>5, <3>2 DEF Captures, TypeOK, Ident
      <4>2. src[p] # o
        BY <1>0, <2>2, <4>1 DEF Origins
      <4> QED
        BY <2>3, <3>2, <4>1, <4>2 DEF Chains, Ident
    <3> QED
      BY <3>1, <3>2
  <2>5. \A p \in Op : Logged(p)' /\ Reviewed(p)' \in wanted' =>
          \E i \in Ident : Final(i, Reviewed(p))' /\ new[p] <= new[i]
    <3> SUFFICES ASSUME NEW p \in Op, Logged(p)', Reviewed(p)' \in wanted'
                 PROVE  \E i \in Ident : Final(i, Reviewed(p))' /\ new[p] <= new[i]
      OBVIOUS
    <3>1. p # o
      BY <1>3, <1>5 DEF Captures, Unstarted
    <3>2. PICK c \in wanted' : c = Reviewed(p)'
      OBVIOUS
    <3>3. PICK i \in Ident : Final(i, c)' /\ age[p] <= age[i]
      BY <1>3, <3>2
    <3>4. Shelved(i, c)
      BY <1>5, <3>3 DEF Final, Captures, Shelved, trees, Is, Holds
    <3>5. c \in Content
      BY <1>0, <3>2, <1>5 DEF TypeOK, Captures, user
    <3>6. i # o
      BY <1>0, <2>2, <3>4, <3>5 DEF Origins
    <3> QED
      BY <2>3, <3>1, <3>2, <3>3, <3>6 DEF Ident
  <2> QED
    BY <2>3, <2>4, <2>5 DEF Chains
<1> QED
  BY <1>2, <1>4, <1>5, Milestones

LEMMA KeepInit == Init => KeepInv
<1> SUFFICES ASSUME Init PROVE KeepInv
  OBVIOUS
<1>1. PICK c \in Content : /\ active = [ino |-> c, content |-> c]
                           /\ wanted = {c} /\ fresh = Content \ {c}
  BY DEF Init
<1>2. GovInv
  BY GovInvInit
<1>3. active # NoTree /\ active.ino = c /\ active.content = c /\ c \notin Op /\ c # Mixed
  BY <1>1, GovernanceConstants
<1>4. \A i \in Ident : \A d : Shelved(i, d) <=> i = c /\ d = c
  BY <1>3 DEF Init, Shelved, Is, Holds
<1>5. /\ \A o \in Op : /\ pc[o] = "idle" /\ src[o] = o /\ ~Logged(o)
                       /\ staging[o] = NoTree /\ aside[o] = NoTree
      /\ \A q \in Quar : rollback[q] = NoTree /\ vault[q] = NoTree
  BY DEF Init, Logged
<1>6. Origins
  BY <1>3, <1>4, <1>5, Labels DEF Origins, Known
<1>7. Unused
  BY <1>1, <1>3, <1>4, <1>5 DEF Unused
<1>8. Slots /\ Arrived
  BY <1>5 DEF Slots, Arrived, Op, TryQ
<1>9. EndsWanted
  BY <1>1, <1>3, <1>4, <1>5 DEF EndsWanted, Final, Lasting, Passed, Ident
<1>10. [i \in Ident |-> 0] \in [Ident -> Nat] /\ Chains([i \in Ident |-> 0])
  BY <1>5 DEF Chains
<1> QED
  BY <1>2, <1>6, <1>7, <1>8, <1>9, <1>10 DEF KeepInv

LEMMA KeepStep == KeepInv /\ [Next]_vars => KeepInv'
<1> SUFFICES ASSUME KeepInv, [Next]_vars PROVE KeepInv'
  OBVIOUS
<1>1. PICK age \in [Ident -> Nat] : Chains(age)
  BY DEF KeepInv
<1>2. EndsWanted' /\ \E new \in [Ident -> Nat] : Chains(new)'
  BY <1>1, JournalKeeps, OthersKeep
<1>3. GovInv'
  BY GovInvStep DEF KeepInv
<1> QED
  BY <1>2, <1>3, OriginsStep, UnusedStep, SlotsStep, ArrivedStep DEF KeepInv

(* However quarantines and restores of one Skill interleave, fail, are      *)
(* undone or die, and whatever the user does at the active path meanwhile,  *)
(* a content the user has not replaced or deleted is kept at the active     *)
(* path, in a vault, in a rollback or renamed aside.                        *)
THEOREM NothingLostHolds == Spec => []NothingLost
<1>1. KeepInv => NothingLost
  BY DEF KeepInv, EndsWanted, Final, Shelved, NothingLost, Is
<1> QED
  BY <1>1, KeepInit, KeepStep, PTL DEF Spec

=============================================================================

------------------------ MODULE MutationLeaseProofs ------------------------
(* Proofs about MutationLease, for every number of processes.  Type         *)
(* correctness holds without further assumptions.  Mutual exclusion holds   *)
(* when no process dies or sleeps past hardStaleMs with its guard on disk:  *)
(* the run lease_stale_guard shows that it does not hold otherwise.         *)
EXTENDS MutationLease, TLAPS

(* The provers need not look inside the choice of an identity.              *)
LEMMA FreshId == ASSUME Unused # {} PROVE Fresh \in Id
  BY DEF Unused, Fresh

LEMMA NewFileType == ASSUME NEW i \in Id, NEW p \in Proc PROVE NewFile(i, p) \in OwnerFile
  BY DEF NewFile, OwnerFile

LEMMA OrphanType ==
  ASSUME NEW f \in OwnerFile \cup {NoFile}, NEW p \in Proc
  PROVE  /\ Orphan(f, p) \in OwnerFile \cup {NoFile}
         /\ f \in OwnerFile => Orphan(f, p) \in OwnerFile
         /\ Orphan(f, p).id = f.id
  BY LeaseConstants DEF Orphan, OwnerFile, NoFile

LEMMA AgedType ==
  ASSUME NEW f \in OwnerFile \cup {NoFile}, NEW p \in Proc
  PROVE  /\ Aged(f, p) \in OwnerFile \cup {NoFile}
         /\ f \in OwnerFile => Aged(f, p) \in OwnerFile
  BY LeaseConstants DEF Aged, OwnerFile, NoFile

LEMMA TypeInit == Init => TypeOK
<1>1. Init => sleptInGuard \in BOOLEAN
  BY DEF Init
<1> QED
  BY <1>1, LeaseConstants DEF Init, TypeOK, NoFile, PC

LEMMA LeaveType ==
  ASSUME NEW p \in Proc, TypeOK, Leave(p)
  PROVE  /\ pc' \in [Proc -> PC]
         /\ task' \in [Proc -> {"acquire", "takeover", "release", "abort"}]
         /\ leaseOf' \in [Proc -> Id \cup {NoId}]
         /\ guardOf' \in [Proc -> Id \cup {NoId}]
         /\ intentOf' \in [Proc -> Id \cup {NoId}]
         /\ seen' \in [Proc -> Id \cup {NoId}]
         /\ todo' \in [Proc -> SUBSET Id]
         /\ \A q \in Proc : pc'[q] = "L.link" => leaseOf'[q] # NoId
         /\ \A q \in Proc : pc'[q] = "G.scan" => guardOf'[q] # NoId
  BY DEF TypeOK, Leave, Goto, PC

LEMMA TypeStep == TypeOK /\ [Next]_vars => TypeOK'
<1> SUFFICES ASSUME TypeOK, [Next]_vars PROVE TypeOK'
  OBVIOUS
<1> USE LeaseConstants
<1>1. CASE UNCHANGED vars
  BY <1>1 DEF TypeOK, vars, files, mine, bounds
<1>2. CASE GrowStale
  BY <1>2 DEF GrowStale, TypeOK, mine, bounds, OwnerFile, NoFile
<1>3. CASE Heartbeat
  BY <1>3 DEF Heartbeat, TypeOK, mine, bounds, OwnerFile, NoFile
<1>4. ASSUME NEW p \in Proc, Begin(p) \/ Step(p) \/ Busy(p) \/ Crash(p) \/ Sleep(p)
      PROVE  TypeOK'
  <2>1. CASE Begin(p)
    BY <2>1 DEF Begin, TypeOK, Goto, PC, PublishLeaseAt, files, mine, bounds
  <2>2. CASE Busy(p)
    BY <2>2, LeaveType DEF Busy, TypeOK, files, bounds
  <2>3. CASE Crash(p)
    <3>1. lease' \in OwnerFile \cup {NoFile} /\ guard' \in OwnerFile \cup {NoFile}
      BY <2>3, OrphanType DEF Crash, TypeOK
    <3>2. intents' \in SUBSET OwnerFile
      BY <2>3, OrphanType DEF Crash, TypeOK
    <3> QED
      BY <2>3, <3>1, <3>2, LeaveType DEF Crash, TypeOK
  <2>4. CASE Sleep(p)
    <3>1. lease' \in OwnerFile \cup {NoFile} /\ guard' \in OwnerFile \cup {NoFile}
      BY <2>4, AgedType DEF Sleep, TypeOK
    <3>2. intents' \in SUBSET OwnerFile
      BY <2>4, AgedType DEF Sleep, TypeOK
    <3>3. sleptInGuard' \in BOOLEAN /\ sleeps' \in Nat
      BY <2>4 DEF Sleep, TypeOK
    <3> QED
      BY <2>4, <3>1, <3>2, <3>3 DEF Sleep, TypeOK, mine
  <2>5. CASE LeasePre(p) \/ LeaseLink(p) \/ LeasePost(p) \/ LeaseBack(p) \/ LeaseUndo(p)
    BY <2>5, FreshId, NewFileType DEF LeasePre, LeaseLink, LeasePost, LeaseBack, LeaseUndo,
       TypeOK, Goto, PC, PublishLeaseAt, files, mine, bounds
  <2>6. CASE LeaseOpen(p)
    BY ZenonT(60), <2>6, LeaveType DEF LeaseOpen, TypeOK, Goto, PC, mine, bounds, OwnerFile, NoFile
  <2>7. CASE LookAtGuard(p) \/ LookAtLease(p) \/ LeaseRetry(p)
    BY <2>7 DEF LookAtGuard, LookAtLease, LeaseRetry, TypeOK, Goto, PC, PublishLeaseAt,
       PublishGuardAt, RecoverAt, files, mine, bounds
  <2>8. CASE GuardPre(p) \/ GuardPost(p)
    BY <2>8, FreshId DEF GuardPre, GuardPost, IntentIds, TypeOK, Goto, PC, PublishGuardAt,
       files, mine, bounds, OwnerFile
  <2>9. CASE ScanIntent(p)
    BY <2>9 DEF ScanIntent, TypeOK, Goto, PC, PublishGuardAt, bounds
  <2>10. CASE GuardLink(p)
    BY <2>10, NewFileType DEF GuardLink, TypeOK, Goto, PC, PublishGuardAt, bounds
  <2>11. CASE GuardBack(p) \/ GuardUndo(p)
    BY <2>11 DEF GuardBack, GuardUndo, TypeOK, Goto, PC, PublishGuardAt, files, bounds
  <2>12. CASE GuardOpen(p)
    BY <2>12, LeaveType DEF GuardOpen, TypeOK, Goto, PC, HoldGuardAt, files, mine, bounds
  <2>13. CASE GuardLook(p) \/ GuardRetry(p)
    BY <2>13 DEF GuardLook, GuardRetry, TypeOK, Goto, PC, PublishGuardAt, RecoverAt,
       files, mine, bounds
  <2>14. CASE PublishIntent(p)
    BY <2>14, FreshId, NewFileType DEF PublishIntent, TypeOK, Goto, PC, RecoverAt, bounds
  <2>15. CASE RecoverSee(p) \/ RecoverTake(p) \/ RecoverRecheck(p)
    BY <2>15 DEF RecoverSee, RecoverTake, RecoverRecheck, MayRecover, TypeOK, Goto, PC,
       RecoverAt, files, mine, bounds, OwnerFile, NoFile
  <2>16. CASE RecoverEnd(p)
    BY <2>16, LeaveType DEF RecoverEnd, TypeOK, Goto, PC, PublishGuardAt, bounds
  <2>17. CASE TakeoverSee(p) \/ TakeoverTake(p)
    BY <2>17 DEF TakeoverSee, TakeoverTake, MayRecover, TypeOK, Goto, PC, HoldGuardAt,
       files, mine, bounds, OwnerFile, NoFile
  <2>18. CASE EndWork(p)
    BY <2>18 DEF EndWork, TypeOK, Goto, PC, PublishGuardAt, files, mine, bounds
  <2>19. CASE ReleaseSee(p) \/ ReleaseTake(p)
    BY ZenonT(60), <2>19 DEF ReleaseSee, ReleaseTake, TypeOK, Goto, PC, HoldGuardAt, mine, bounds,
       OwnerFile, NoFile
  <2>20. CASE GuardReleaseSee(p)
    BY <2>20, LeaveType DEF GuardReleaseSee, TypeOK, Goto, PC, HoldGuardAt, files, mine, bounds
  <2>21. CASE GuardReleaseTake(p)
    BY <2>21, LeaveType DEF GuardReleaseTake, TypeOK, Goto, PC, bounds
  <2> QED
    BY <1>4, <2>1, <2>2, <2>3, <2>4, <2>5, <2>6, <2>7, <2>8, <2>9, <2>10, <2>11, <2>12,
       <2>13, <2>14, <2>15, <2>16, <2>17, <2>18, <2>19, <2>20, <2>21 DEF Step
<1> QED
  BY <1>1, <1>2, <1>3, <1>4 DEF Next

(* Every reachable state is well typed: owner files keep an identity, an    *)
(* owner and a state, and no process leaves the labels of its call.         *)
THEOREM TypeCorrect == Spec => []TypeOK
  BY TypeInit, TypeStep, PTL DEF Spec

-----------------------------------------------------------------------------
(* Mutual exclusion.                                                        *)

(* No guard file is ever left on disk by a process that dies or sleeps      *)
(* past hardStaleMs.                                                        *)
NoAbandonedGuard == SleepLimit = 0 /\ CrashAt \cap GuardOnDiskAt = {}

LEMMA LeaseInvInit == Init => LeaseInv
  BY LeaseConstants DEF Init, NoFile, LeaseInv, LeaseIsMine, LeaseOnDisk, Holding,
     GuardIsMine, GuardHasOwner, NothingToRecover, SeenIsStale, BeatsAreLive, TaskFits,
     PublishLeaseAt, GuardOnDiskAt, HoldGuardAt, PublishGuardAt, RecoverAt

LEMMA LeaseInvStep ==
  ASSUME NoAbandonedGuard, TypeOK, LeaseInv, [Next]_vars
  PROVE  LeaseInv'
<1> USE LeaseConstants DEF TypeOK, Goto
<1>1. CASE UNCHANGED vars
  BY <1>1 DEF vars, files, mine, bounds, LeaseInv, LeaseIsMine, LeaseOnDisk, Holding,
     GuardIsMine, GuardHasOwner, NothingToRecover, SeenIsStale, BeatsAreLive, TaskFits
<1>2. CASE GrowStale
  BY <1>2 DEF GrowStale, mine, bounds, OwnerFile, NoFile, LeaseInv, LeaseIsMine,
     LeaseOnDisk, Holding, GuardIsMine, GuardHasOwner, NothingToRecover, SeenIsStale,
     BeatsAreLive, TaskFits
<1>3. CASE Heartbeat
  BY <1>3 DEF Heartbeat, mine, bounds, OwnerFile, NoFile, LeaseInv, LeaseIsMine,
     LeaseOnDisk, Holding, GuardIsMine, GuardHasOwner, NothingToRecover, SeenIsStale,
     BeatsAreLive, TaskFits
<1>4. ASSUME NEW p \in Proc, Begin(p) \/ Step(p) \/ Busy(p) \/ Crash(p) \/ Sleep(p)
      PROVE  LeaseInv'
  <2>1. CASE Sleep(p)
    BY <2>1 DEF Sleep, NoAbandonedGuard
  <2>2. CASE Crash(p)
    <3>1. LeaseIsMine'
      BY <2>2, NewFileType DEF Crash, Orphan, Leave, NoAbandonedGuard, OwnerFile,
         NoFile, LeaseInv, LeaseIsMine, LeaseOnDisk, Holding, TaskFits,
         SeenIsStale, NothingToRecover, GuardIsMine, GuardHasOwner, PublishLeaseAt,
         GuardOnDiskAt, HoldGuardAt, PublishGuardAt, RecoverAt
    <3>2. GuardIsMine'
      BY <2>2, NewFileType DEF Crash, Orphan, Leave, NoAbandonedGuard, OwnerFile,
         NoFile, LeaseInv, GuardIsMine, GuardHasOwner, NothingToRecover,
         PublishLeaseAt, GuardOnDiskAt, HoldGuardAt, PublishGuardAt, RecoverAt
    <3>3. GuardHasOwner'
      BY <2>2, NewFileType DEF Crash, Orphan, Leave, NoAbandonedGuard, LeaseInv,
         GuardHasOwner, GuardIsMine, NothingToRecover, OwnerFile, NoFile,
         PublishLeaseAt, GuardOnDiskAt, HoldGuardAt, PublishGuardAt, RecoverAt
    <3>4. NothingToRecover'
      BY <2>2, NewFileType DEF Crash, Orphan, Leave, NoAbandonedGuard, OwnerFile,
         NoFile, LeaseInv, NothingToRecover, GuardHasOwner, PublishLeaseAt,
         GuardOnDiskAt, HoldGuardAt, PublishGuardAt, RecoverAt
    <3>5. SeenIsStale'
      BY ZenonT(60), <2>2, NewFileType DEF Crash, Orphan, Leave, NoAbandonedGuard, OwnerFile,
         NoFile, LeaseInv, SeenIsStale, LeaseIsMine, LeaseOnDisk, Holding,
         TaskFits, BeatsAreLive, NothingToRecover, GuardIsMine, PublishLeaseAt,
         GuardOnDiskAt, HoldGuardAt, PublishGuardAt, RecoverAt
    <3>6. BeatsAreLive'
      BY <2>2, NewFileType DEF Crash, Orphan, Leave, NoAbandonedGuard, OwnerFile,
         NoFile, LeaseInv, BeatsAreLive, LeaseIsMine, LeaseOnDisk, Holding,
         TaskFits, NothingToRecover, PublishLeaseAt, GuardOnDiskAt, HoldGuardAt,
         PublishGuardAt, RecoverAt
    <3>7. TaskFits'
      BY <2>2, NewFileType DEF Crash, Orphan, Leave, NoAbandonedGuard, OwnerFile,
         NoFile, LeaseInv, TaskFits, NothingToRecover, Holding, LeaseIsMine,
         LeaseOnDisk, GuardIsMine, PublishLeaseAt, GuardOnDiskAt, HoldGuardAt,
         PublishGuardAt, RecoverAt
    <3> QED
      BY <3>1, <3>2, <3>3, <3>4, <3>5, <3>6, <3>7 DEF LeaseInv
  <2>3. CASE Begin(p)
    BY <2>3 DEF Begin, files, mine, bounds, LeaseInv, LeaseIsMine, LeaseOnDisk,
       Holding, GuardIsMine, GuardHasOwner, NothingToRecover, SeenIsStale,
       BeatsAreLive, TaskFits, PublishLeaseAt, GuardOnDiskAt, HoldGuardAt, PublishGuardAt, RecoverAt
  <2>4. CASE Busy(p)
    BY <2>4 DEF Busy, Leave, files, bounds, LeaseInv, LeaseIsMine, LeaseOnDisk,
       Holding, GuardIsMine, GuardHasOwner, NothingToRecover, SeenIsStale,
       BeatsAreLive, TaskFits, PublishLeaseAt, GuardOnDiskAt, HoldGuardAt, PublishGuardAt, RecoverAt
  <2>5. CASE LeasePre(p)
    <3>1. LeaseIsMine'
      BY <2>5, NewFileType DEF LeasePre, files, bounds, LeaseInv, LeaseIsMine,
         LeaseOnDisk, Holding, TaskFits, SeenIsStale, NothingToRecover,
         GuardIsMine, GuardHasOwner, PublishLeaseAt, GuardOnDiskAt, HoldGuardAt,
         PublishGuardAt, RecoverAt
    <3>2. GuardIsMine'
      BY <2>5, NewFileType DEF LeasePre, files, bounds, LeaseInv, GuardIsMine,
         GuardHasOwner, NothingToRecover, PublishLeaseAt, GuardOnDiskAt,
         HoldGuardAt, PublishGuardAt, RecoverAt
    <3>3. GuardHasOwner'
      BY <2>5, NewFileType DEF LeasePre, files, bounds, LeaseInv, GuardHasOwner,
         GuardIsMine, NothingToRecover, OwnerFile, NoFile, PublishLeaseAt,
         GuardOnDiskAt, HoldGuardAt, PublishGuardAt, RecoverAt
    <3>4. NothingToRecover'
      BY <2>5, NewFileType DEF LeasePre, files, bounds, LeaseInv, NothingToRecover,
         GuardHasOwner, PublishLeaseAt, GuardOnDiskAt, HoldGuardAt, PublishGuardAt, RecoverAt
    <3>5. SeenIsStale'
      BY <2>5, NewFileType DEF LeasePre, files, bounds, LeaseInv, SeenIsStale,
         LeaseIsMine, LeaseOnDisk, Holding, TaskFits, BeatsAreLive,
         NothingToRecover, GuardIsMine, PublishLeaseAt, GuardOnDiskAt, HoldGuardAt,
         PublishGuardAt, RecoverAt
    <3>6. BeatsAreLive'
      BY <2>5, NewFileType DEF LeasePre, files, bounds, LeaseInv, BeatsAreLive,
         LeaseIsMine, LeaseOnDisk, Holding, TaskFits, NothingToRecover,
         PublishLeaseAt, GuardOnDiskAt, HoldGuardAt, PublishGuardAt, RecoverAt
    <3>7. TaskFits'
      BY <2>5, NewFileType DEF LeasePre, files, bounds, LeaseInv, TaskFits,
         NothingToRecover, Holding, LeaseIsMine, LeaseOnDisk, GuardIsMine,
         PublishLeaseAt, GuardOnDiskAt, HoldGuardAt, PublishGuardAt, RecoverAt
    <3> QED
      BY <3>1, <3>2, <3>3, <3>4, <3>5, <3>6, <3>7 DEF LeaseInv
  <2>6. CASE LeaseLink(p)
    <3>1. LeaseIsMine'
      <4>1. CASE lease # NoFile
        BY <2>6, <4>1 DEF LeaseLink, bounds, LeaseInv, LeaseIsMine, LeaseOnDisk, Holding, TaskFits,
           PublishLeaseAt
      <4>2. CASE lease = NoFile
        <5>1. \A q \in Proc : ~LeaseOnDisk(q)
          BY <4>2 DEF LeaseInv, LeaseIsMine, OwnerFile, NoFile
        <5>2. /\ lease' \in OwnerFile /\ lease'.id = leaseOf[p]
              /\ lease'.pid = p /\ lease'.state = "live"
          BY <2>6, <4>2, NewFileType DEF LeaseLink, NewFile
        <5> QED
          BY <2>6, <4>2, <5>1, <5>2 DEF LeaseLink, LeaseIsMine, LeaseOnDisk, Holding
      <4> QED
        BY <4>1, <4>2
    <3>2. GuardIsMine'
      BY <2>6, NewFileType DEF LeaseLink, NewFile, OwnerFile, NoFile, bounds,
         LeaseInv, GuardIsMine, GuardHasOwner, NothingToRecover, PublishLeaseAt,
         GuardOnDiskAt, HoldGuardAt, PublishGuardAt, RecoverAt
    <3>3. GuardHasOwner'
      BY <2>6, NewFileType DEF LeaseLink, NewFile, bounds, LeaseInv, GuardHasOwner,
         GuardIsMine, NothingToRecover, OwnerFile, NoFile, PublishLeaseAt,
         GuardOnDiskAt, HoldGuardAt, PublishGuardAt, RecoverAt
    <3>4. NothingToRecover'
      BY <2>6, NewFileType DEF LeaseLink, NewFile, OwnerFile, NoFile, bounds,
         LeaseInv, NothingToRecover, GuardHasOwner, PublishLeaseAt, GuardOnDiskAt,
         HoldGuardAt, PublishGuardAt, RecoverAt
    <3>5. SeenIsStale'
      BY <2>6, NewFileType DEF LeaseLink, NewFile, OwnerFile, NoFile, bounds,
         LeaseInv, SeenIsStale, LeaseIsMine, LeaseOnDisk, Holding, TaskFits,
         BeatsAreLive, NothingToRecover, GuardIsMine, PublishLeaseAt,
         GuardOnDiskAt, HoldGuardAt, PublishGuardAt, RecoverAt
    <3>6. BeatsAreLive'
      BY <2>6, NewFileType DEF LeaseLink, NewFile, OwnerFile, NoFile, bounds,
         LeaseInv, BeatsAreLive, LeaseIsMine, LeaseOnDisk, Holding, TaskFits,
         NothingToRecover, PublishLeaseAt, GuardOnDiskAt, HoldGuardAt, PublishGuardAt, RecoverAt
    <3>7. TaskFits'
      BY <2>6, NewFileType DEF LeaseLink, NewFile, OwnerFile, NoFile, bounds,
         LeaseInv, TaskFits, NothingToRecover, Holding, LeaseIsMine, LeaseOnDisk,
         GuardIsMine, PublishLeaseAt, GuardOnDiskAt, HoldGuardAt, PublishGuardAt, RecoverAt
    <3> QED
      BY <3>1, <3>2, <3>3, <3>4, <3>5, <3>6, <3>7 DEF LeaseInv
  <2>7. CASE LeasePost(p)
    BY <2>7 DEF LeasePost, files, mine, bounds, LeaseInv, LeaseIsMine, LeaseOnDisk,
       Holding, GuardIsMine, GuardHasOwner, NothingToRecover, SeenIsStale,
       BeatsAreLive, TaskFits, PublishLeaseAt, GuardOnDiskAt, HoldGuardAt, PublishGuardAt, RecoverAt
  <2>8. CASE LeaseBack(p)
    <3>1. LeaseIsMine'
      BY <2>8, NewFileType DEF LeaseBack, files, bounds, LeaseInv, LeaseIsMine,
         LeaseOnDisk, Holding, TaskFits, SeenIsStale, NothingToRecover,
         GuardIsMine, GuardHasOwner, PublishLeaseAt, GuardOnDiskAt, HoldGuardAt,
         PublishGuardAt, RecoverAt
    <3>2. GuardIsMine'
      BY <2>8, NewFileType DEF LeaseBack, files, bounds, LeaseInv, GuardIsMine,
         GuardHasOwner, NothingToRecover, PublishLeaseAt, GuardOnDiskAt,
         HoldGuardAt, PublishGuardAt, RecoverAt
    <3>3. GuardHasOwner'
      BY <2>8, NewFileType DEF LeaseBack, files, bounds, LeaseInv, GuardHasOwner,
         GuardIsMine, NothingToRecover, OwnerFile, NoFile, PublishLeaseAt,
         GuardOnDiskAt, HoldGuardAt, PublishGuardAt, RecoverAt
    <3>4. NothingToRecover'
      BY <2>8, NewFileType DEF LeaseBack, files, bounds, LeaseInv,
         NothingToRecover, GuardHasOwner, PublishLeaseAt, GuardOnDiskAt,
         HoldGuardAt, PublishGuardAt, RecoverAt
    <3>5. SeenIsStale'
      BY <2>8, NewFileType DEF LeaseBack, files, bounds, LeaseInv, SeenIsStale,
         LeaseIsMine, LeaseOnDisk, Holding, TaskFits, BeatsAreLive,
         NothingToRecover, GuardIsMine, PublishLeaseAt, GuardOnDiskAt, HoldGuardAt,
         PublishGuardAt, RecoverAt
    <3>6. BeatsAreLive'
      BY <2>8, NewFileType DEF LeaseBack, files, bounds, LeaseInv, BeatsAreLive,
         LeaseIsMine, LeaseOnDisk, Holding, TaskFits, NothingToRecover,
         PublishLeaseAt, GuardOnDiskAt, HoldGuardAt, PublishGuardAt, RecoverAt
    <3>7. TaskFits'
      BY <2>8, NewFileType DEF LeaseBack, files, bounds, LeaseInv, TaskFits,
         NothingToRecover, Holding, LeaseIsMine, LeaseOnDisk, GuardIsMine,
         PublishLeaseAt, GuardOnDiskAt, HoldGuardAt, PublishGuardAt, RecoverAt
    <3> QED
      BY <3>1, <3>2, <3>3, <3>4, <3>5, <3>6, <3>7 DEF LeaseInv
  <2>9. CASE LeaseUndo(p)
    BY <2>9 DEF LeaseUndo, NoFile, bounds, LeaseInv, LeaseIsMine, LeaseOnDisk,
       Holding, GuardIsMine, GuardHasOwner, NothingToRecover, SeenIsStale,
       BeatsAreLive, TaskFits, PublishLeaseAt, GuardOnDiskAt, HoldGuardAt, PublishGuardAt, RecoverAt
  <2>10. CASE LeaseOpen(p)
    <3>1. LeaseIsMine'
      <4>1. /\ lease \in OwnerFile /\ lease.id = leaseOf[p]
            /\ lease.pid = p /\ lease.state = "live"
        BY <2>10 DEF LeaseOpen, LeaseInv, LeaseIsMine, LeaseOnDisk
      <4>2. /\ lease' \in OwnerFile /\ lease'.id = lease.id
            /\ lease'.pid = lease.pid /\ lease'.state = "live"
        BY <2>10, <4>1 DEF LeaseOpen, OwnerFile
      <4>3. \A q \in Proc : LeaseOnDisk(q) => q = p
        BY <4>1 DEF LeaseInv, LeaseIsMine
      <4>4. \A q \in Proc \ {p} : LeaseOnDisk(q)' => LeaseOnDisk(q)
        BY <2>10, <4>1 DEF LeaseOpen, LeaseOnDisk, Holding, mine
      <4> QED
        BY <2>10, <4>1, <4>2, <4>3, <4>4 DEF LeaseOpen, LeaseIsMine, mine
    <3>2. GuardIsMine'
      BY <2>10, NewFileType DEF LeaseOpen, Leave, mine, bounds, OwnerFile, NoFile,
         LeaseInv, GuardIsMine, GuardHasOwner, NothingToRecover, PublishLeaseAt,
         GuardOnDiskAt, HoldGuardAt, PublishGuardAt, RecoverAt
    <3>3. GuardHasOwner'
      BY <2>10, NewFileType DEF LeaseOpen, Leave, mine, bounds, LeaseInv,
         GuardHasOwner, GuardIsMine, NothingToRecover, OwnerFile, NoFile,
         PublishLeaseAt, GuardOnDiskAt, HoldGuardAt, PublishGuardAt, RecoverAt
    <3>4. NothingToRecover'
      BY <2>10, NewFileType DEF LeaseOpen, Leave, mine, bounds, OwnerFile, NoFile,
         LeaseInv, NothingToRecover, GuardHasOwner, PublishLeaseAt, GuardOnDiskAt,
         HoldGuardAt, PublishGuardAt, RecoverAt
    <3>5. SeenIsStale'
      BY <2>10, NewFileType DEF LeaseOpen, Leave, mine, bounds, OwnerFile, NoFile,
         LeaseInv, SeenIsStale, LeaseIsMine, LeaseOnDisk, Holding, TaskFits,
         BeatsAreLive, NothingToRecover, GuardIsMine, PublishLeaseAt,
         GuardOnDiskAt, HoldGuardAt, PublishGuardAt, RecoverAt
    <3>6. BeatsAreLive'
      BY <2>10, NewFileType DEF LeaseOpen, Leave, mine, bounds, OwnerFile, NoFile,
         LeaseInv, BeatsAreLive, LeaseIsMine, LeaseOnDisk, Holding, TaskFits,
         NothingToRecover, PublishLeaseAt, GuardOnDiskAt, HoldGuardAt, PublishGuardAt, RecoverAt
    <3>7. TaskFits'
      BY <2>10, NewFileType DEF LeaseOpen, Leave, mine, bounds, OwnerFile, NoFile,
         LeaseInv, TaskFits, NothingToRecover, Holding, LeaseIsMine, LeaseOnDisk,
         GuardIsMine, PublishLeaseAt, GuardOnDiskAt, HoldGuardAt, PublishGuardAt, RecoverAt
    <3> QED
      BY <3>1, <3>2, <3>3, <3>4, <3>5, <3>6, <3>7 DEF LeaseInv
  <2>11. CASE LookAtGuard(p)
    BY <2>11 DEF LookAtGuard, MayRecover, files, mine, bounds, LeaseInv, LeaseIsMine,
       LeaseOnDisk, Holding, GuardIsMine, GuardHasOwner, NothingToRecover,
       SeenIsStale, BeatsAreLive, TaskFits, PublishLeaseAt, GuardOnDiskAt,
       HoldGuardAt, PublishGuardAt, RecoverAt
  <2>12. CASE LookAtLease(p)
    <3>1. LeaseIsMine'
      BY <2>12, NewFileType DEF LookAtLease, files, mine, bounds, LeaseInv,
         LeaseIsMine, LeaseOnDisk, Holding, TaskFits, SeenIsStale,
         NothingToRecover, GuardIsMine, GuardHasOwner, PublishLeaseAt,
         GuardOnDiskAt, HoldGuardAt, PublishGuardAt, RecoverAt
    <3>2. GuardIsMine'
      BY <2>12, NewFileType DEF LookAtLease, files, mine, bounds, LeaseInv,
         GuardIsMine, GuardHasOwner, NothingToRecover, PublishLeaseAt,
         GuardOnDiskAt, HoldGuardAt, PublishGuardAt, RecoverAt
    <3>3. GuardHasOwner'
      BY <2>12, NewFileType DEF LookAtLease, files, mine, bounds, LeaseInv,
         GuardHasOwner, GuardIsMine, NothingToRecover, OwnerFile, NoFile,
         PublishLeaseAt, GuardOnDiskAt, HoldGuardAt, PublishGuardAt, RecoverAt
    <3>4. NothingToRecover'
      BY <2>12, NewFileType DEF LookAtLease, files, mine, bounds, LeaseInv,
         NothingToRecover, GuardHasOwner, PublishLeaseAt, GuardOnDiskAt,
         HoldGuardAt, PublishGuardAt, RecoverAt
    <3>5. SeenIsStale'
      BY <2>12, NewFileType DEF LookAtLease, files, mine, bounds, LeaseInv,
         SeenIsStale, LeaseIsMine, LeaseOnDisk, Holding, TaskFits, BeatsAreLive,
         NothingToRecover, GuardIsMine, PublishLeaseAt, GuardOnDiskAt, HoldGuardAt,
         PublishGuardAt, RecoverAt
    <3>6. BeatsAreLive'
      BY <2>12, NewFileType DEF LookAtLease, files, mine, bounds, LeaseInv,
         BeatsAreLive, LeaseIsMine, LeaseOnDisk, Holding, TaskFits,
         NothingToRecover, PublishLeaseAt, GuardOnDiskAt, HoldGuardAt, PublishGuardAt, RecoverAt
    <3>7. TaskFits'
      BY <2>12, NewFileType DEF LookAtLease, files, mine, bounds, LeaseInv,
         TaskFits, NothingToRecover, Holding, LeaseIsMine, LeaseOnDisk,
         GuardIsMine, PublishLeaseAt, GuardOnDiskAt, HoldGuardAt, PublishGuardAt, RecoverAt
    <3> QED
      BY <3>1, <3>2, <3>3, <3>4, <3>5, <3>6, <3>7 DEF LeaseInv
  <2>13. CASE LeaseRetry(p)
    BY <2>13 DEF LeaseRetry, files, mine, bounds, LeaseInv, LeaseIsMine, LeaseOnDisk,
       Holding, GuardIsMine, GuardHasOwner, NothingToRecover, SeenIsStale,
       BeatsAreLive, TaskFits, PublishLeaseAt, GuardOnDiskAt, HoldGuardAt, PublishGuardAt, RecoverAt
  <2>14. CASE GuardPre(p)
    BY <2>14 DEF GuardPre, IntentIds, files, bounds, LeaseInv, LeaseIsMine,
       LeaseOnDisk, Holding, GuardIsMine, GuardHasOwner, NothingToRecover,
       SeenIsStale, BeatsAreLive, TaskFits, PublishLeaseAt, GuardOnDiskAt,
       HoldGuardAt, PublishGuardAt, RecoverAt
  <2>15. CASE ScanIntent(p)
    BY <2>15 DEF ScanIntent, bounds, LeaseInv, LeaseIsMine, LeaseOnDisk, Holding,
       GuardIsMine, GuardHasOwner, NothingToRecover, SeenIsStale, BeatsAreLive,
       TaskFits, PublishLeaseAt, GuardOnDiskAt, HoldGuardAt, PublishGuardAt, RecoverAt
  <2>16. CASE GuardLink(p)
    <3>1. LeaseIsMine'
      BY <2>16, NewFileType DEF GuardLink, NewFile, OwnerFile, NoFile, bounds,
         LeaseInv, LeaseIsMine, LeaseOnDisk, Holding, TaskFits, SeenIsStale,
         NothingToRecover, GuardIsMine, GuardHasOwner, PublishLeaseAt,
         GuardOnDiskAt, HoldGuardAt, PublishGuardAt, RecoverAt
    <3>2. GuardIsMine'
      <4>1. CASE guard # NoFile
        BY <2>16, <4>1 DEF GuardLink, LeaseInv, GuardIsMine, GuardOnDiskAt, HoldGuardAt
      <4>2. CASE guard = NoFile
        <5>1. \A q \in Proc : pc[q] \notin GuardOnDiskAt
          BY <4>2 DEF LeaseInv, GuardIsMine, OwnerFile, NoFile
        <5>2. guard' \in OwnerFile /\ guard'.id = guardOf[p] /\ guard'.pid = p
          BY <2>16, <4>2, NewFileType DEF GuardLink, NewFile
        <5> QED
          BY <2>16, <4>2, <5>1, <5>2 DEF GuardLink, GuardIsMine
      <4> QED
        BY <4>1, <4>2
    <3>3. GuardHasOwner'
      BY <2>16, NewFileType DEF GuardLink, NewFile, bounds, LeaseInv,
         GuardHasOwner, GuardIsMine, NothingToRecover, OwnerFile, NoFile,
         PublishLeaseAt, GuardOnDiskAt, HoldGuardAt, PublishGuardAt, RecoverAt
    <3>4. NothingToRecover'
      BY <2>16, NewFileType DEF GuardLink, NewFile, OwnerFile, NoFile, bounds,
         LeaseInv, NothingToRecover, GuardHasOwner, PublishLeaseAt, GuardOnDiskAt,
         HoldGuardAt, PublishGuardAt, RecoverAt
    <3>5. SeenIsStale'
      BY <2>16, NewFileType DEF GuardLink, NewFile, OwnerFile, NoFile, bounds,
         LeaseInv, SeenIsStale, LeaseIsMine, LeaseOnDisk, Holding, TaskFits,
         BeatsAreLive, NothingToRecover, GuardIsMine, PublishLeaseAt,
         GuardOnDiskAt, HoldGuardAt, PublishGuardAt, RecoverAt
    <3>6. BeatsAreLive'
      BY <2>16, NewFileType DEF GuardLink, NewFile, OwnerFile, NoFile, bounds,
         LeaseInv, BeatsAreLive, LeaseIsMine, LeaseOnDisk, Holding, TaskFits,
         NothingToRecover, PublishLeaseAt, GuardOnDiskAt, HoldGuardAt, PublishGuardAt, RecoverAt
    <3>7. TaskFits'
      BY <2>16, NewFileType DEF GuardLink, NewFile, OwnerFile, NoFile, bounds,
         LeaseInv, TaskFits, NothingToRecover, Holding, LeaseIsMine, LeaseOnDisk,
         GuardIsMine, PublishLeaseAt, GuardOnDiskAt, HoldGuardAt, PublishGuardAt, RecoverAt
    <3> QED
      BY <3>1, <3>2, <3>3, <3>4, <3>5, <3>6, <3>7 DEF LeaseInv
  <2>17. CASE GuardPost(p)
    BY <2>17 DEF GuardPost, IntentIds, files, mine, bounds, LeaseInv, LeaseIsMine,
       LeaseOnDisk, Holding, GuardIsMine, GuardHasOwner, NothingToRecover,
       SeenIsStale, BeatsAreLive, TaskFits, PublishLeaseAt, GuardOnDiskAt,
       HoldGuardAt, PublishGuardAt, RecoverAt
  <2>18. CASE GuardBack(p)
    BY <2>18 DEF GuardBack, files, bounds, LeaseInv, LeaseIsMine, LeaseOnDisk,
       Holding, GuardIsMine, GuardHasOwner, NothingToRecover, SeenIsStale,
       BeatsAreLive, TaskFits, PublishLeaseAt, GuardOnDiskAt, HoldGuardAt, PublishGuardAt, RecoverAt
  <2>19. CASE GuardUndo(p)
    BY <2>19 DEF GuardUndo, NoFile, bounds, LeaseInv, LeaseIsMine, LeaseOnDisk,
       Holding, GuardIsMine, GuardHasOwner, NothingToRecover, SeenIsStale,
       BeatsAreLive, TaskFits, PublishLeaseAt, GuardOnDiskAt, HoldGuardAt, PublishGuardAt, RecoverAt
  <2>20. CASE GuardOpen(p)
    <3>1. LeaseIsMine'
      BY <2>20, NewFileType DEF GuardOpen, Leave, files, mine, bounds, LeaseInv,
         LeaseIsMine, LeaseOnDisk, Holding, TaskFits, SeenIsStale,
         NothingToRecover, GuardIsMine, GuardHasOwner, PublishLeaseAt,
         GuardOnDiskAt, HoldGuardAt, PublishGuardAt, RecoverAt
    <3>2. GuardIsMine'
      BY <2>20, NewFileType DEF GuardOpen, Leave, files, mine, bounds, LeaseInv,
         GuardIsMine, GuardHasOwner, NothingToRecover, PublishLeaseAt,
         GuardOnDiskAt, HoldGuardAt, PublishGuardAt, RecoverAt
    <3>3. GuardHasOwner'
      BY <2>20, NewFileType DEF GuardOpen, Leave, files, mine, bounds, LeaseInv,
         GuardHasOwner, GuardIsMine, NothingToRecover, OwnerFile, NoFile,
         PublishLeaseAt, GuardOnDiskAt, HoldGuardAt, PublishGuardAt, RecoverAt
    <3>4. NothingToRecover'
      BY <2>20, NewFileType DEF GuardOpen, Leave, files, mine, bounds, LeaseInv,
         NothingToRecover, GuardHasOwner, PublishLeaseAt, GuardOnDiskAt,
         HoldGuardAt, PublishGuardAt, RecoverAt
    <3>5. SeenIsStale'
      BY <2>20, NewFileType DEF GuardOpen, Leave, files, mine, bounds, LeaseInv,
         SeenIsStale, LeaseIsMine, LeaseOnDisk, Holding, TaskFits, BeatsAreLive,
         NothingToRecover, GuardIsMine, PublishLeaseAt, GuardOnDiskAt, HoldGuardAt,
         PublishGuardAt, RecoverAt
    <3>6. BeatsAreLive'
      BY <2>20, NewFileType DEF GuardOpen, Leave, files, mine, bounds, LeaseInv,
         BeatsAreLive, LeaseIsMine, LeaseOnDisk, Holding, TaskFits,
         NothingToRecover, PublishLeaseAt, GuardOnDiskAt, HoldGuardAt, PublishGuardAt, RecoverAt
    <3>7. TaskFits'
      BY <2>20, NewFileType DEF GuardOpen, Leave, files, mine, bounds, LeaseInv,
         TaskFits, NothingToRecover, Holding, LeaseIsMine, LeaseOnDisk,
         GuardIsMine, PublishLeaseAt, GuardOnDiskAt, HoldGuardAt, PublishGuardAt, RecoverAt
    <3> QED
      BY <3>1, <3>2, <3>3, <3>4, <3>5, <3>6, <3>7 DEF LeaseInv
  <2>21. CASE GuardLook(p)
    BY <2>21 DEF GuardLook, MayRecover, files, mine, bounds, LeaseInv, LeaseIsMine,
       LeaseOnDisk, Holding, GuardIsMine, GuardHasOwner, NothingToRecover,
       SeenIsStale, BeatsAreLive, TaskFits, PublishLeaseAt, GuardOnDiskAt,
       HoldGuardAt, PublishGuardAt, RecoverAt
  <2>22. CASE GuardRetry(p)
    BY <2>22 DEF GuardRetry, files, mine, bounds, LeaseInv, LeaseIsMine, LeaseOnDisk,
       Holding, GuardIsMine, GuardHasOwner, NothingToRecover, SeenIsStale,
       BeatsAreLive, TaskFits, PublishLeaseAt, GuardOnDiskAt, HoldGuardAt, PublishGuardAt, RecoverAt
  <2>23. CASE PublishIntent(p) \/ RecoverSee(p) \/ RecoverTake(p) \/ RecoverRecheck(p) \/ RecoverEnd(p)
    BY <2>23 DEF PublishIntent, RecoverSee, RecoverTake, RecoverRecheck, RecoverEnd,
       LeaseInv, LeaseIsMine, LeaseOnDisk, Holding, GuardIsMine, GuardHasOwner,
       NothingToRecover, SeenIsStale, BeatsAreLive, TaskFits, PublishLeaseAt,
       GuardOnDiskAt, HoldGuardAt, PublishGuardAt, RecoverAt
  <2>24. CASE TakeoverSee(p)
    BY <2>24 DEF TakeoverSee, MayRecover, files, mine, bounds, NoFile, LeaseInv,
       LeaseIsMine, LeaseOnDisk, Holding, GuardIsMine, GuardHasOwner,
       NothingToRecover, SeenIsStale, BeatsAreLive, TaskFits, PublishLeaseAt,
       GuardOnDiskAt, HoldGuardAt, PublishGuardAt, RecoverAt
  <2>25. CASE TakeoverTake(p)
    BY <2>25 DEF TakeoverTake, mine, bounds, NoFile, LeaseInv, LeaseIsMine,
       LeaseOnDisk, Holding, GuardIsMine, GuardHasOwner, NothingToRecover,
       SeenIsStale, BeatsAreLive, TaskFits, PublishLeaseAt, GuardOnDiskAt,
       HoldGuardAt, PublishGuardAt, RecoverAt
  <2>26. CASE EndWork(p)
    BY <2>26 DEF EndWork, OwnerFile, files, mine, bounds, LeaseInv, LeaseIsMine, LeaseOnDisk,
       Holding, GuardIsMine, GuardHasOwner, NothingToRecover, SeenIsStale,
       BeatsAreLive, TaskFits, PublishLeaseAt, GuardOnDiskAt, HoldGuardAt, PublishGuardAt, RecoverAt
  <2>27. CASE ReleaseSee(p)
    <3>1. LeaseIsMine'
      <4>1. /\ lease \in OwnerFile /\ lease.id = leaseOf[p]
            /\ lease.pid = p /\ lease.state = "live"
        BY <2>27 DEF ReleaseSee, LeaseInv, LeaseIsMine, LeaseOnDisk, Holding, TaskFits
      <4>2. /\ lease' \in OwnerFile /\ lease'.id = lease.id
            /\ lease'.pid = lease.pid /\ lease'.state = "live"
        BY <2>27, <4>1 DEF ReleaseSee, OwnerFile
      <4>3. \A q \in Proc : LeaseOnDisk(q)' => LeaseOnDisk(q)
        BY <2>27 DEF ReleaseSee, LeaseOnDisk, Holding, mine
      <4> QED
        BY <2>27, <4>1, <4>2, <4>3 DEF ReleaseSee, LeaseInv, LeaseIsMine, mine
    <3>2. GuardIsMine'
      BY <2>27, NewFileType DEF ReleaseSee, mine, bounds, OwnerFile, NoFile,
         LeaseInv, GuardIsMine, GuardHasOwner, NothingToRecover, PublishLeaseAt,
         GuardOnDiskAt, HoldGuardAt, PublishGuardAt, RecoverAt
    <3>3. GuardHasOwner'
      BY <2>27, NewFileType DEF ReleaseSee, mine, bounds, LeaseInv, GuardHasOwner,
         GuardIsMine, NothingToRecover, OwnerFile, NoFile, PublishLeaseAt,
         GuardOnDiskAt, HoldGuardAt, PublishGuardAt, RecoverAt
    <3>4. NothingToRecover'
      BY <2>27, NewFileType DEF ReleaseSee, mine, bounds, OwnerFile, NoFile,
         LeaseInv, NothingToRecover, GuardHasOwner, PublishLeaseAt, GuardOnDiskAt,
         HoldGuardAt, PublishGuardAt, RecoverAt
    <3>5. SeenIsStale'
      BY <2>27, NewFileType DEF ReleaseSee, mine, bounds, OwnerFile, NoFile,
         LeaseInv, SeenIsStale, LeaseIsMine, LeaseOnDisk, Holding, TaskFits,
         BeatsAreLive, NothingToRecover, GuardIsMine, PublishLeaseAt,
         GuardOnDiskAt, HoldGuardAt, PublishGuardAt, RecoverAt
    <3>6. BeatsAreLive'
      BY <2>27, NewFileType DEF ReleaseSee, mine, bounds, OwnerFile, NoFile,
         LeaseInv, BeatsAreLive, LeaseIsMine, LeaseOnDisk, Holding, TaskFits,
         NothingToRecover, PublishLeaseAt, GuardOnDiskAt, HoldGuardAt, PublishGuardAt, RecoverAt
    <3>7. TaskFits'
      BY <2>27, NewFileType DEF ReleaseSee, mine, bounds, OwnerFile, NoFile,
         LeaseInv, TaskFits, NothingToRecover, Holding, LeaseIsMine, LeaseOnDisk,
         GuardIsMine, PublishLeaseAt, GuardOnDiskAt, HoldGuardAt, PublishGuardAt, RecoverAt
    <3> QED
      BY <3>1, <3>2, <3>3, <3>4, <3>5, <3>6, <3>7 DEF LeaseInv
  <2>28. CASE ReleaseTake(p)
    BY <2>28 DEF ReleaseTake, bounds, NoFile, LeaseInv, LeaseIsMine, LeaseOnDisk,
       Holding, GuardIsMine, GuardHasOwner, NothingToRecover, SeenIsStale,
       BeatsAreLive, TaskFits, PublishLeaseAt, GuardOnDiskAt, HoldGuardAt, PublishGuardAt, RecoverAt
  <2>29. CASE GuardReleaseSee(p)
    BY <2>29 DEF GuardReleaseSee, Leave, files, mine, bounds, LeaseInv, LeaseIsMine,
       LeaseOnDisk, Holding, GuardIsMine, GuardHasOwner, NothingToRecover,
       SeenIsStale, BeatsAreLive, TaskFits, PublishLeaseAt, GuardOnDiskAt,
       HoldGuardAt, PublishGuardAt, RecoverAt
  <2>30. CASE GuardReleaseTake(p)
    BY <2>30 DEF GuardReleaseTake, Leave, bounds, NoFile, LeaseInv, LeaseIsMine,
       LeaseOnDisk, Holding, GuardIsMine, GuardHasOwner, NothingToRecover,
       SeenIsStale, BeatsAreLive, TaskFits, PublishLeaseAt, GuardOnDiskAt,
       HoldGuardAt, PublishGuardAt, RecoverAt
  <2> QED
    BY <1>4, <2>1, <2>2, <2>3, <2>4, <2>5, <2>6, <2>7, <2>8, <2>9, <2>10, <2>11,
       <2>12, <2>13, <2>14, <2>15, <2>16, <2>17, <2>18, <2>19, <2>20, <2>21, <2>22,
       <2>23, <2>24, <2>25, <2>26, <2>27, <2>28, <2>29, <2>30 DEF Step
<1> QED
  BY <1>1, <1>2, <1>3, <1>4 DEF Next

(* However many processes contend for the lease, and wherever else they     *)
(* die, two calls are never inside their operations at once.                *)
THEOREM MutualExclusionHolds ==
  ASSUME NoAbandonedGuard
  PROVE  Spec => [](MutualExclusion /\ GuardExclusion)
<1>1. TypeOK /\ LeaseInv => MutualExclusion /\ GuardExclusion
  BY DEF MutualExclusion, GuardExclusion, InGuard, LeaseInv, LeaseIsMine, LeaseOnDisk,
     GuardIsMine, GuardOnDiskAt
<1>2. TypeOK /\ LeaseInv /\ [Next]_vars => LeaseInv'
  BY LeaseInvStep, NoAbandonedGuard
<1> QED
  BY <1>1, <1>2, LeaseInvInit, TypeInit, TypeStep, PTL DEF Spec

(* Likewise nobody's lease or guard is taken away while it is held.         *)
THEOREM HeldKeptHolds ==
  ASSUME NoAbandonedGuard
  PROVE  Spec => []HeldKept
<1>1. TypeOK /\ LeaseInv => HeldKept
  BY DEF HeldKept, InGuard, LeaseInv, LeaseIsMine, LeaseOnDisk, GuardIsMine, GuardOnDiskAt
<1>2. TypeOK /\ LeaseInv /\ [Next]_vars => LeaseInv'
  BY LeaseInvStep, NoAbandonedGuard
<1> QED
  BY <1>1, <1>2, LeaseInvInit, TypeInit, TypeStep, PTL DEF Spec

-----------------------------------------------------------------------------
(* The lease implements the lock.                                           *)

(* A lease on disk that nobody holds and nobody is about to open.           *)
LeftBehind == lease # NoFile
                /\ \A p \in Proc : pc[p] \in PublishLeaseAt => lease.id # leaseOf[p]

LEMMA OneHolder ==
  ASSUME LeaseInv, NEW p \in Proc, NEW q \in Proc, LeaseOnDisk(p), LeaseOnDisk(q)
  PROVE  p = q
  BY DEF LeaseInv, LeaseIsMine

LockIs ==
    /\ \A p \in Proc : Holding(p) => LockState = p
    /\ (\A p \in Proc : ~Holding(p)) =>
         LockState = IF LeftBehind THEN "stranded" ELSE "free"

LEMMA LockStateIs == LeaseInv /\ Awake => LockIs
<1> SUFFICES ASSUME LeaseInv, Awake PROVE LockIs
  OBVIOUS
<1>1. ASSUME NEW p \in Proc, Holding(p) PROVE LockState = p
  <2>1. LockState = CHOOSE r \in Proc : Holding(r)
    BY <1>1 DEF LockState
  <2>2. \A r \in Proc : Holding(r) => r = p
    BY <1>1, OneHolder DEF LeaseOnDisk
  <2> QED
    BY <1>1, <2>1, <2>2
<1>2. ASSUME \A p \in Proc : ~Holding(p)
      PROVE  LockState = IF LeftBehind THEN "stranded" ELSE "free"
  BY <1>2 DEF LockState, LeftBehind
<1> QED
  BY <1>1, <1>2 DEF LockIs

(* Only opening a published lease makes a holder.                           *)
LEMMA HolderStep ==
  ASSUME TypeOK, LeaseInv, [Next]_vars, NEW q \in Proc, Holding(q)', ~Holding(q)
  PROVE  pc[q] = "L.open"
<1> USE DEF TypeOK, Goto, Leave, Holding
<1>0. TaskFits
  BY DEF LeaseInv
<1>1. ~(UNCHANGED vars \/ GrowStale \/ Heartbeat)
  BY DEF vars, mine, GrowStale, Heartbeat
<1>2. ASSUME NEW p \in Proc, Begin(p) \/ Busy(p) \/ Crash(p) \/ Sleep(p) PROVE FALSE
  BY <1>2 DEF Begin, Busy, Crash, Sleep, mine
<1>3. ASSUME NEW p \in Proc, LeasePre(p) \/ LeaseLink(p) \/ LeasePost(p) \/ LeaseBack(p)
         \/ LeaseUndo(p)
      PROVE  FALSE
  BY <1>0, <1>3 DEF LeasePre, LeaseLink, LeasePost, LeaseBack, LeaseUndo, mine, TaskFits,
     PublishLeaseAt
<1>4. ASSUME NEW p \in Proc, LeaseOpen(p) PROVE pc[q] = "L.open"
  BY <1>4 DEF LeaseOpen, mine
<1>5. ASSUME NEW p \in Proc, LookAtGuard(p) \/ LookAtLease(p) \/ LeaseRetry(p) \/ GuardPre(p)
         \/ ScanIntent(p) \/ GuardLink(p) \/ GuardPost(p) \/ GuardBack(p) \/ GuardUndo(p)
         \/ GuardOpen(p) \/ GuardLook(p) \/ GuardRetry(p)
      PROVE  FALSE
  BY <1>5 DEF LookAtGuard, LookAtLease, LeaseRetry, GuardPre, ScanIntent, GuardLink, GuardPost,
     GuardBack, GuardUndo, GuardOpen, GuardLook, GuardRetry, mine
<1>6. ASSUME NEW p \in Proc, PublishIntent(p) \/ RecoverSee(p) \/ RecoverTake(p)
         \/ RecoverRecheck(p) \/ RecoverEnd(p) \/ TakeoverSee(p) \/ TakeoverTake(p) \/ EndWork(p)
         \/ ReleaseSee(p) \/ ReleaseTake(p) \/ GuardReleaseSee(p) \/ GuardReleaseTake(p)
      PROVE  FALSE
  BY <1>6 DEF PublishIntent, RecoverSee, RecoverTake, RecoverRecheck, RecoverEnd, TakeoverSee,
     TakeoverTake, EndWork, ReleaseSee, ReleaseTake, GuardReleaseSee, GuardReleaseTake, mine
<1> QED
  BY <1>1, <1>2, <1>3, <1>4, <1>5, <1>6 DEF Next, Step

LEMMA NeverAsleep ==
  ASSUME NoAbandonedGuard, Awake, [Next]_vars
  PROVE  Awake'
  BY DEF NoAbandonedGuard, Awake, Next, vars, bounds, Begin, Step, Busy, Crash, Sleep, GrowStale,
     Heartbeat, LeasePre, LeaseLink, LeasePost, LeaseBack, LeaseUndo, LeaseOpen, LookAtGuard,
     LookAtLease, LeaseRetry, GuardPre, ScanIntent, GuardLink, GuardPost, GuardBack, GuardUndo,
     GuardOpen, GuardLook, GuardRetry, PublishIntent, RecoverSee, RecoverTake, RecoverRecheck,
     RecoverEnd, TakeoverSee, TakeoverTake, EndWork, ReleaseSee, ReleaseTake, GuardReleaseSee,
     GuardReleaseTake

LEMMA LockInit == Init => Lock!Init
<1> SUFFICES ASSUME Init PROVE LockState = "free"
  BY DEF Lock!Init
<1>1. LeaseInv /\ Awake /\ (\A p \in Proc : ~Holding(p)) /\ ~LeftBehind
  BY LeaseInvInit DEF Init, Awake, Holding, LeftBehind
<1> QED
  BY <1>1, LockStateIs DEF LockIs

(* A holder appears only where the lock was free, and gives way to nobody   *)
(* but the free or the stranded lock.                                       *)
LEMMA LockStep ==
  TypeOK /\ LeaseInv /\ LockIs /\ LockIs' /\ [Next]_vars => [Lock!Next]_LockState
<1> SUFFICES ASSUME TypeOK, LeaseInv, LockIs, LockIs', [Next]_vars
             PROVE  [Lock!Next]_LockState
  OBVIOUS
<1> USE DEF LockIs, Lock!Next, Lock!Acquire, Lock!Release, Lock!Strand, Lock!Recover
<1>1. CASE \A q \in Proc : ~Holding(q)'
  BY <1>1
<1>2. ASSUME NEW q \in Proc, Holding(q)', ~Holding(q) PROVE Lock!Acquire(q)
  <2>1. pc[q] = "L.open"
    BY <1>2, HolderStep
  <2>2. \A p \in Proc : ~Holding(p)
    BY <1>2, <2>1, OneHolder DEF LeaseOnDisk
  <2>3. ~LeftBehind
    BY <2>1 DEF LeaseInv, LeaseIsMine, LeaseOnDisk, LeftBehind, PublishLeaseAt
  <2> QED
    BY <1>2, <2>2, <2>3
<1>3. ASSUME NEW q \in Proc, Holding(q)', Holding(q) PROVE LockState' = LockState
  BY <1>3
<1> QED
  BY <1>1, <1>2, <1>3

(* The lease implements the abstract lock, for every number of processes    *)
(* and every death that leaves no guard file behind: nobody gets the lock   *)
(* but when it is free, and a lease left on disk is recovered before the    *)
(* next call holds it.                                                      *)
THEOREM LockImplemented ==
  ASSUME NoAbandonedGuard
  PROVE  Spec => LockSpec
<1>1. TypeOK /\ LeaseInv /\ Awake /\ [Next]_vars => LeaseInv' /\ Awake'
  BY LeaseInvStep, NeverAsleep, NoAbandonedGuard
<1>2. Init => TypeOK /\ LeaseInv /\ Awake
  BY TypeInit, LeaseInvInit DEF Init, Awake
<1> QED
  BY <1>1, <1>2, LockInit, LockStateIs, LockStep, TypeStep, PTL DEF Spec, LockSpec, Lock!Spec

=============================================================================

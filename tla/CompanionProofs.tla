-------------------------- MODULE CompanionProofs ---------------------------
(***************************************************************************)
(* Proofs about the companion transactions and their recovery, for every   *)
(* set of plans, and every number of faults, deaths and edits: at most one *)
(* transaction is ever unresolved, every variable stays in its type, the   *)
(* tree that is replaced is never lost, what is recorded is in place, and  *)
(* the answers are true.                                                   *)
(*                                                                         *)
(* The transition rules of the recovery log play no part in the first: a   *)
(* run appends to the history of its own transaction alone, and a run      *)
(* begins either when nothing is unresolved or for the one transaction     *)
(* that is.  The second says what a run is: the steps it has done and those*)
(* it has left make up the program of its phase, in the order of their     *)
(* ranks.  The others rest on what the run has done: before the record     *)
(* that tells exactly what is at the companion path, in the configuration, *)
(* in the report and at the transaction's own places, and once all is      *)
(* undone, or all is finished, it says that nothing remains.               *)
(***************************************************************************)
EXTENDS IntegrationRecovery, FiniteSetTheorems, TLAPS

Busy == {"forward", "undo", "finish", "stop", "rollback", "finalize"}

(* A run is a record; when it is idle it has no steps.                     *)
RunKnown ==
    /\ {"kind", "phase", "tx", "todo", "did", "warned", "synced"} \subseteq DOMAIN run
    /\ run.phase \in Busy \/ run = Idle

(* While a run is in progress nothing but its transaction is unresolved.   *)
OwnOnly == run.phase \in Busy => run.tx \in Tx /\ Unresolved \subseteq {run.tx}

IInv ==
    /\ RunKnown
    /\ rec = [t \in Tx |-> rec[t]]
    /\ OwnOnly
    /\ \A t, u \in Unresolved : t = u

(* What every step of a run leaves alone.                                  *)
Stays == run'.tx = run.tx /\ run'.phase \in Busy /\ RunKnown'

(* A step is taken only while a run is in progress.                        *)
LEMMA StepIsBusy ==
    ASSUME RunKnown, NEW s, At(s)
    PROVE  run.phase \in Busy
BY DEF RunKnown, At, Idle

(* Going on keeps the transaction of the run.                              *)
LEMMA AdvanceStays ==
    ASSUME RunKnown, run.phase \in Busy, NEW s, Advance(s)
    PROVE  Stays
<1>1. CASE s = "record"
  BY <1>1 DEF Advance, RunKnown, Stays, Busy
<1>2. CASE s # "record"
  BY <1>2 DEF Advance, RunKnown, Stays, Busy
<1> QED BY <1>1, <1>2

(* Failing keeps the transaction of the run.                               *)
LEMMA FailedStays ==
    ASSUME RunKnown, run.phase \in Busy, NEW s, NEW how, NEW sy, Failed(s, how, sy)
    PROVE  Stays
<1> DEFINE stop(q) == [run EXCEPT !.phase = "stop", !.todo = q, !.synced = sy]
<1>1. ASSUME NEW q, run' = stop(q) PROVE Stays
  BY <1>1 DEF RunKnown, Stays, Busy
<1>2. CASE run.phase = "forward" /\ ~IsUncertain(s, how)
  <2>1. run' = [run EXCEPT !.phase = "undo", !.todo = Undo(run.did)]
    BY <1>2 DEF Failed
  <2> QED BY <2>1 DEF RunKnown, Stays, Busy
<1>3. CASE run.phase = "forward" /\ IsUncertain(s, how)
  <2>1. \E q : run' = stop(q)
    BY <1>3 DEF Failed
  <2> QED BY <2>1, <1>1
<1>4. CASE run.phase \in {"undo", "rollback", "finalize", "stop"}
  <2>1. \E q : run' = stop(q)
    BY <1>4 DEF Failed
  <2> QED BY <2>1, <1>1
<1>5. CASE run.phase = "finish"
  <2>1. run' = [run EXCEPT !.todo = AfterWarning(s, how, plan[run.tx]), !.warned = TRUE, !.synced = sy]
    BY <1>5 DEF Failed
  <2> QED BY <2>1 DEF RunKnown, Stays, Busy
<1> QED BY <1>2, <1>3, <1>4, <1>5 DEF Busy

(* A step that keeps the run's transaction and appends to no other history *)
(* keeps the invariant.                                                    *)
LEMMA OwnStep ==
    ASSUME IInv, run.phase \in Busy, Stays,
           rec' = rec \/ \E n : rec' = [rec EXCEPT ![run.tx] = n]
    PROVE  IInv'
<1>1. \A u \in Tx : u # run.tx => rec'[u] = rec[u]
  BY DEF IInv
<1>2. rec' = [t \in Tx |-> rec'[t]]
  BY DEF IInv
<1>3. Unresolved' \subseteq {run.tx}
  BY <1>1 DEF Unresolved, IInv, OwnOnly
<1>4. run.tx \in Tx
  BY DEF IInv, OwnOnly
<1> QED BY <1>2, <1>3, <1>4 DEF IInv, OwnOnly, Stays

(* Every operation on the files goes on or fails, and leaves the log alone.*)
LEMMA FileStep ==
    ASSUME IInv, NEW s, At(s), rec' = rec,
           Advance(s) \/ \E how, sy : Failed(s, how, sy)
    PROVE  IInv'
<1>1. run.phase \in Busy
  BY StepIsBusy DEF IInv
<1>2. Stays
  BY <1>1, AdvanceStays, FailedStays DEF IInv
<1> QED BY <1>1, <1>2, OwnStep

(* So does every append, to the history of the run's own transaction.      *)
LEMMA NoteKeeps ==
    ASSUME IInv, NEW s, Note(s)
    PROVE  IInv'
<1>1. At(s)
  BY DEF Note
<1>2. run.phase \in Busy
  BY <1>1, StepIsBusy DEF IInv
<1>3. Advance(s) \/ \E how, sy : Failed(s, how, sy)
  BY DEF Note
<1>4. Stays
  BY <1>2, <1>3, AdvanceStays, FailedStays DEF IInv
<1>5. rec' = rec \/ rec' = [rec EXCEPT ![run.tx] = Noted(s, rec[run.tx])]
  BY DEF Note
<1> QED BY <1>2, <1>4, <1>5, OwnStep

(* So does every step of a run.                                             *)
LEMMA StepKeeps ==
    ASSUME IInv, Step
    PROVE  IInv'
<1>1. CASE Revalidate
  BY <1>1, FileStep DEF Revalidate
<1>2. CASE StageTree
  BY <1>2, FileStep DEF StageTree, Try
<1>3. CASE ProveInstalled
  BY <1>3, FileStep DEF ProveInstalled, Try
<1>4. CASE TearTree
  <2>1. At("delete") /\ rec' = rec /\ run' = [run EXCEPT !.did = @ \cup {"tear"}]
    BY <1>4 DEF TearTree
  <2>2. run.phase \in Busy
    BY <2>1, StepIsBusy DEF IInv
  <2>3. Stays
    BY <2>1, <2>2 DEF Stays, RunKnown, IInv
  <2> QED BY <2>1, <2>2, <2>3, OwnStep
<1>5. CASE DeleteTree
  BY <1>5, FileStep DEF DeleteTree, Try
<1>6. CASE InspectConfig
  BY <1>6, FileStep DEF InspectConfig, Try
<1>7. CASE StageConfig
  BY <1>7, FileStep DEF StageConfig, Try
<1>8. CASE PublishConfig
  BY <1>8, FileStep DEF PublishConfig, Try
<1>9. CASE ClaimConfig
  BY <1>9, FileStep DEF ClaimConfig, Try
<1>10. CASE RestoreConfig
  BY <1>10, FileStep DEF RestoreConfig, Try
<1>11. CASE FinalizeConfig
  BY <1>11, FileStep DEF FinalizeConfig, Try
<1>12. CASE KeepReport
  BY <1>12, FileStep DEF KeepReport, Try
<1>13. CASE PublishReport
  BY <1>13, FileStep DEF PublishReport, Try
<1>14. CASE RestoreReport
  BY <1>14, FileStep DEF RestoreReport, Try
<1>15. CASE FinalizeReport
  BY <1>15, FileStep DEF FinalizeReport, Try
<1>16. CASE AppendRecord
  BY <1>16, FileStep DEF AppendRecord, Try
<1>17. CASE End
  BY <1>17 DEF End, IInv, RunKnown, OwnOnly, Idle, Busy, Unresolved
<1>18. ASSUME NEW s \in MoveStep, MoveTree(s) PROVE IInv'
  BY <1>18, FileStep DEF MoveTree, Try
<1>19. ASSUME NEW s \in NoteStep, Note(s) PROVE IInv'
  BY <1>19, NoteKeeps
<1> QED BY <1>1, <1>2, <1>3, <1>4, <1>5, <1>6, <1>7, <1>8, <1>9, <1>10, <1>11,
           <1>12, <1>13, <1>14, <1>15, <1>16, <1>17, <1>18, <1>19 DEF Step

(* A run begins only when nothing is unresolved.                           *)
LEMMA BeginKeeps ==
    ASSUME IInv, NEW t \in Tx, Begin(t)
    PROVE  IInv'
<1>1. run.phase = "idle" /\ run = Idle
  BY DEF Begin, IInv, RunKnown, Busy
<1>2. CASE rec' = rec /\ run' = run
  BY <1>2 DEF IInv, RunKnown, OwnOnly, Unresolved
<1>3. CASE NoneUnresolved /\ rec' = [rec EXCEPT ![t].state = "prepared"]
           /\ (run' = run \/ (run' = [Idle EXCEPT !.kind = "apply", !.phase = "forward",
                                                  !.tx = t, !.todo = Forward(plan[t])]))
  <2>1. Unresolved' \subseteq {t}
    BY <1>3 DEF NoneUnresolved, Unresolved, IInv
  <2>2. rec' = [u \in Tx |-> rec'[u]]
    BY <1>3 DEF IInv
  <2>3. RunKnown' /\ (run'.phase \in Busy => run'.tx = t)
    BY <1>1, <1>3 DEF IInv, RunKnown, Idle, Busy
  <2> QED BY <2>1, <2>2, <2>3 DEF IInv, OwnOnly
<1> QED BY <1>2, <1>3 DEF Begin

(* Recovery rolls back or finalizes.                                        *)
LEMMA WayIsKnown ==
    ASSUME NEW t, Way(t) # "unknown"
    PROVE  Way(t) \in {"rollback", "finalize"}
BY DEF Way

(* A recovery begins only for the one transaction that is unresolved.      *)
LEMMA RecoveryKeeps ==
    ASSUME IInv, ApplyRecovery
    PROVE  IInv'
<1> DEFINE t == advice.tx
<1>1. rec' = rec /\ run = Idle
  BY DEF ApplyRecovery, IInv, RunKnown, Busy
<1>2. CASE StillReviewed(t)
  <2>1. Unresolved = {t} /\ t \in Tx /\ advice.way \in Busy
    BY <1>2, WayIsKnown DEF StillReviewed, Recoverable, Unresolved, Busy
  <2>2. \E q : run' = [Idle EXCEPT !.kind = advice.way, !.phase = advice.way, !.tx = t,
                                   !.todo = q]
    BY <1>2 DEF ApplyRecovery
  <2>3. RunKnown' /\ run'.tx = t
    BY <2>1, <2>2 DEF RunKnown, Idle
  <2> QED BY <1>1, <2>1, <2>3 DEF IInv, OwnOnly, Unresolved
<1>3. CASE ~StillReviewed(t)
  <2>1. run' = run
    BY <1>3 DEF ApplyRecovery
  <2> QED BY <1>1, <2>1 DEF IInv, RunKnown, OwnOnly, Unresolved
<1> QED BY <1>2, <1>3

(* The invariant gives the property: a set with no two members has at most *)
(* one.                                                                    *)
LEMMA AtMostOne ==
    ASSUME IInv
    PROVE  OneInFlight
<1>1. CASE Unresolved = {}
  BY <1>1, FS_EmptySet DEF OneInFlight
<1>2. CASE Unresolved # {}
  <2>1. PICK t \in Unresolved : TRUE
    BY <1>2
  <2>2. Unresolved = {t}
    BY <2>1 DEF IInv
  <2>3. Cardinality({t}) = 1
    BY FS_Singleton
  <2> QED BY <2>2, <2>3 DEF OneInFlight
<1> QED BY <1>1, <1>2

(* While a run is in progress nothing but its transaction is unresolved, in *)
(* every state.                                                             *)
LEMMA AlwaysOwn == Spec => []IInv
<1>1. Init => IInv
  <2> SUFFICES ASSUME Init PROVE IInv
    OBVIOUS
  <2>1. rec = [t \in Tx |-> NoRecord] /\ run = Idle
    BY DEF Init
  <2>2. Unresolved = {}
    BY <2>1 DEF Unresolved, NoRecord
  <2>3. RunKnown /\ run.phase = "idle"
    BY <2>1 DEF RunKnown, Idle
  <2> QED BY <2>1, <2>2, <2>3 DEF IInv, OwnOnly, Busy
<1>2. IInv /\ [Next]_vars => IInv'
  <2> SUFFICES ASSUME IInv, [Next]_vars PROVE IInv'
    OBVIOUS
  <2>1. CASE Step
    BY <2>1, StepKeeps
  <2>2. ASSUME rec' = rec, run' = run PROVE IInv'
    BY <2>2 DEF IInv, RunKnown, OwnOnly, Unresolved
  <2>3. CASE Die
    BY <2>3 DEF Die, IInv, RunKnown, OwnOnly, Idle, Busy, Unresolved
  <2>4. CASE EditCompanion \/ EditConfig
    BY <2>2, <2>4 DEF EditCompanion, EditConfig
  <2>5. ASSUME NEW t \in Tx, Review(t) \/ ReviewRecovery(t) PROVE IInv'
    BY <2>2, <2>5 DEF Review, ReviewRecovery
  <2>6. ASSUME NEW t \in Tx, Begin(t) PROVE IInv'
    BY <2>6, BeginKeeps
  <2>7. CASE ApplyRecovery
    BY <2>7, RecoveryKeeps
  <2>8. CASE UNCHANGED vars
    BY <2>2, <2>8 DEF vars
  <2> QED BY <2>1, <2>3, <2>4, <2>5, <2>6, <2>7, <2>8 DEF Next, Around
<1> QED BY <1>1, <1>2, PTL DEF Spec

(* At most one transaction is ever unresolved, so recovery always knows    *)
(* which one is meant: through failures and uncertain outcomes of every    *)
(* step, deaths at any moment, stale recovery plans and edits, for every   *)
(* number of plans.                                                        *)
THEOREM OneInFlightHolds == Spec => []OneInFlight
<1>1. IInv => OneInFlight
  BY AtMostOne
<1> QED BY <1>1, AlwaysOwn, PTL

-----------------------------------------------------------------------------
(* Queues of steps.                                                         *)

(* The steps of a queue.                                                    *)
Elems(q) == {q[i] : i \in 1..Len(q)}

(* Where a step stands in the course of a transaction: what goes forward,   *)
(* then what the record is followed by, or what undoes. Steps of which a    *)
(* queue holds one share a rank.                                            *)
Rank(s) ==
    CASE s = "check" -> 1 [] s = "bind" -> 2 [] s = "stage" -> 3 [] s = "stage*" -> 4
      [] s = "backup" -> 5 [] s = "backup*" -> 6 [] s = "install" -> 7 [] s = "prove" -> 8
      [] s = "install*" -> 9 [] s = "config" -> 10 [] s = "config?" -> 10
      [] s = "config*" -> 11 [] s = "config=" -> 12 [] s = "remove" -> 13
      [] s = "remove*" -> 14 [] s = "keep" -> 15 [] s = "report*" -> 16
      [] s = "report" -> 17 [] s = "record" -> 18 [] s = "committed" -> 19
      [] s = "endReport" -> 20 [] s = "endReport*" -> 21 [] s = "undoReport" -> 21
      [] s = "putBack" -> 22 [] s = "claimConfig" -> 23 [] s = "undoConfig" -> 24
      [] s = "claimNew" -> 25 [] s = "claimStage" -> 25 [] s = "claimBackup" -> 25
      [] s = "restoreOld" -> 25 [] s = "delete" -> 26 [] s = "endTree*" -> 27 [] s = "cleanup*" -> 27
      [] s = "endConfig" -> 28 [] s = "endConfig*" -> 29 [] s = "rolled-back" -> 30
      [] OTHER -> 31

(* The steps of a queue come in the order of their ranks, and none twice.   *)
Ordered(q) ==
    \A i, j \in 1..Len(q) : i < j => Rank(q[i]) <= Rank(q[j]) /\ q[i] # q[j]

(* One queue may come before another.                                       *)
Before(q, r) == \A x \in Elems(q), y \in Elems(r) : Rank(x) <= Rank(y) /\ x # y

(* The ranks, for the provers.                                              *)
LEMMA Ranks ==
    /\ Rank("check") = 1 /\ Rank("bind") = 2 /\ Rank("stage") = 3 /\ Rank("stage*") = 4
    /\ Rank("backup") = 5 /\ Rank("backup*") = 6 /\ Rank("install") = 7
    /\ Rank("prove") = 8 /\ Rank("install*") = 9 /\ Rank("config") = 10
    /\ Rank("config?") = 10 /\ Rank("config*") = 11 /\ Rank("config=") = 12
    /\ Rank("remove") = 13 /\ Rank("remove*") = 14 /\ Rank("keep") = 15
    /\ Rank("report*") = 16 /\ Rank("report") = 17 /\ Rank("record") = 18
    /\ Rank("committed") = 19 /\ Rank("endReport") = 20 /\ Rank("endReport*") = 21
    /\ Rank("undoReport") = 21 /\ Rank("putBack") = 22 /\ Rank("claimConfig") = 23
    /\ Rank("undoConfig") = 24 /\ Rank("claimNew") = 25 /\ Rank("claimStage") = 25
    /\ Rank("claimBackup") = 25 /\ Rank("restoreOld") = 25 /\ Rank("delete") = 26
    /\ Rank("endTree*") = 27 /\ Rank("endConfig") = 28 /\ Rank("endConfig*") = 29
    /\ Rank("rolled-back") = 30 /\ Rank("closed") = 31 /\ Rank("cleanup*") = 27
    /\ Rank("cleanup-pending") = 31 /\ Rank("recovery-required") = 31
    /\ Rank("unmoved*") = 31 /\ Rank("putNew") = 31
BY DEF Rank

(* Queues joined: their steps, and their order.                             *)
LEMMA Joined ==
    ASSUME NEW S, NEW q \in Seq(S), NEW r \in Seq(S)
    PROVE  /\ q \o r \in Seq(S) /\ Elems(q \o r) = Elems(q) \cup Elems(r)
           /\ Ordered(q) /\ Ordered(r) /\ Before(q, r) => Ordered(q \o r)
<1> DEFINE s == q \o r
<1>1. s \in Seq(S) /\ Len(s) = Len(q) + Len(r)
  OBVIOUS
<1>2. \A i \in 1..Len(q) : s[i] = q[i]
  OBVIOUS
<1>3. \A i \in 1..Len(r) : s[Len(q) + i] = r[i]
  OBVIOUS
<1>4. \A i \in 1..Len(s) : i \in 1..Len(q) \/ (i - Len(q) \in 1..Len(r) /\ s[i] = r[i - Len(q)])
  OBVIOUS
<1> HIDE DEF s
<1>5. Elems(s) = Elems(q) \cup Elems(r)
  <2>1. ASSUME NEW x \in Elems(s) PROVE x \in Elems(q) \cup Elems(r)
    BY <1>2, <1>4, <2>1 DEF Elems
  <2>2. ASSUME NEW x \in Elems(q) PROVE x \in Elems(s)
    BY <1>1, <1>2, <2>2 DEF Elems
  <2>3. ASSUME NEW x \in Elems(r) PROVE x \in Elems(s)
    <3>1. PICK i \in 1..Len(r) : x = r[i]
      BY <2>3 DEF Elems
    <3>2. Len(q) + i \in 1..Len(s) /\ s[Len(q) + i] = x
      BY <1>1, <1>3, <3>1
    <3> QED BY <3>2 DEF Elems
  <2> QED BY <2>1, <2>2, <2>3
<1>6. ASSUME Ordered(q), Ordered(r), Before(q, r) PROVE Ordered(s)
  <2> SUFFICES ASSUME NEW i \in 1..Len(s), NEW j \in 1..Len(s), i < j
               PROVE  Rank(s[i]) <= Rank(s[j]) /\ s[i] # s[j]
    BY DEF Ordered
  <2>1. CASE j \in 1..Len(q)
    <3>1. i \in 1..Len(q)
      BY <2>1
    <3> QED BY <1>2, <1>6, <2>1, <3>1 DEF Ordered
  <2>2. CASE i \notin 1..Len(q)
    <3>1. i - Len(q) \in 1..Len(r) /\ s[i] = r[i - Len(q)]
      BY <1>4, <2>2
    <3>2. j \notin 1..Len(q)
      BY <2>2
    <3>3. j - Len(q) \in 1..Len(r) /\ s[j] = r[j - Len(q)]
      BY <1>4, <3>2
    <3>4. i - Len(q) < j - Len(q)
      BY <1>1
    <3> QED BY <1>6, <3>1, <3>3, <3>4 DEF Ordered
  <2>3. CASE i \in 1..Len(q) /\ j \notin 1..Len(q)
    <3>1. s[i] \in Elems(q) /\ s[j] \in Elems(r)
      BY <1>2, <1>4, <2>3 DEF Elems
    <3> QED BY <1>6, <3>1 DEF Before
  <2> QED BY <2>1, <2>2, <2>3
<1> QED BY <1>1, <1>5, <1>6 DEF s

(* The empty queue.                                                         *)
LEMMA Queue0 ==
    ASSUME NEW S
    PROVE  <<>> \in Seq(S) /\ Elems(<<>>) = {} /\ Ordered(<<>>)
BY DEF Elems, Ordered

(* A queue of one step.                                                     *)
LEMMA Queue1 ==
    ASSUME NEW S, NEW a \in S
    PROVE  <<a>> \in Seq(S) /\ Elems(<<a>>) = {a} /\ Ordered(<<a>>)
<1> DEFINE q == <<a>>
<1>1. q \in Seq(S) /\ Len(q) = 1 /\ q[1] = a
  OBVIOUS
<1>2. 1..Len(q) = {1}
  BY <1>1
<1>3. \A i, j \in 1..1 : i < j => <<i, j>> \in {}
  OBVIOUS
<1> HIDE DEF q
<1>4. Elems(q) = {a}
  BY <1>1, <1>2 DEF Elems
<1>5. Ordered(q)
  BY <1>1, <1>2, <1>3 DEF Ordered
<1> QED BY <1>1, <1>4, <1>5 DEF q

(* A queue of two steps.                                                    *)
LEMMA Queue2 ==
    ASSUME NEW S, NEW a \in S, NEW b \in S,
           Rank(a) <= Rank(b), a # b
    PROVE  <<a, b>> \in Seq(S) /\ Elems(<<a, b>>) = {a, b} /\ Ordered(<<a, b>>)
<1> DEFINE q == <<a, b>>
<1>1. q \in Seq(S) /\ Len(q) = 2 /\ q[1] = a /\ q[2] = b
  OBVIOUS
<1>2. 1..Len(q) = {1, 2}
  BY <1>1
<1>3. \A i, j \in 1..2 : i < j => <<i, j>> \in {<<1, 2>>}
  OBVIOUS
<1> HIDE DEF q
<1>4. Elems(q) = {a, b}
  BY <1>1, <1>2 DEF Elems
<1>5. Ordered(q)
  BY <1>1, <1>2, <1>3 DEF Ordered
<1> QED BY <1>1, <1>4, <1>5 DEF q

(* A queue of three steps.                                                  *)
LEMMA Queue3 ==
    ASSUME NEW S, NEW a \in S, NEW b \in S, NEW c \in S,
           Rank(a) <= Rank(b), a # b,
           Rank(a) <= Rank(c), a # c,
           Rank(b) <= Rank(c), b # c
    PROVE  <<a, b, c>> \in Seq(S) /\ Elems(<<a, b, c>>) = {a, b, c} /\ Ordered(<<a, b, c>>)
<1> DEFINE q == <<a, b, c>>
<1>1. q \in Seq(S) /\ Len(q) = 3 /\ q[1] = a /\ q[2] = b /\ q[3] = c
  OBVIOUS
<1>2. 1..Len(q) = {1, 2, 3}
  BY <1>1
<1>3. \A i, j \in 1..3 : i < j => <<i, j>> \in {<<1, 2>>, <<1, 3>>, <<2, 3>>}
  OBVIOUS
<1> HIDE DEF q
<1>4. Elems(q) = {a, b, c}
  BY <1>1, <1>2 DEF Elems
<1>5. Ordered(q)
  BY <1>1, <1>2, <1>3 DEF Ordered
<1> QED BY <1>1, <1>4, <1>5 DEF q

(* A queue of four steps.                                                   *)
LEMMA Queue4 ==
    ASSUME NEW S, NEW a \in S, NEW b \in S, NEW c \in S, NEW d \in S,
           Rank(a) <= Rank(b), a # b,
           Rank(a) <= Rank(c), a # c,
           Rank(b) <= Rank(c), b # c,
           Rank(a) <= Rank(d), a # d,
           Rank(b) <= Rank(d), b # d,
           Rank(c) <= Rank(d), c # d
    PROVE  <<a, b, c, d>> \in Seq(S) /\ Elems(<<a, b, c, d>>) = {a, b, c, d} /\ Ordered(<<a, b, c, d>>)
<1> DEFINE q == <<a, b, c, d>>
<1>1. q \in Seq(S) /\ Len(q) = 4 /\ q[1] = a /\ q[2] = b /\ q[3] = c /\ q[4] = d
  OBVIOUS
<1>2. 1..Len(q) = {1, 2, 3, 4}
  BY <1>1
<1>3. \A i, j \in 1..4 : i < j => <<i, j>> \in {<<1, 2>>, <<1, 3>>, <<2, 3>>, <<1, 4>>, <<2, 4>>, <<3, 4>>}
  OBVIOUS
<1> HIDE DEF q
<1>4. Elems(q) = {a, b, c, d}
  BY <1>1, <1>2 DEF Elems
<1>5. Ordered(q)
  BY <1>1, <1>2, <1>3 DEF Ordered
<1> QED BY <1>1, <1>4, <1>5 DEF q

(* What the first step of a queue leaves.                                   *)
LEMMA Popped ==
    ASSUME NEW S, NEW q \in Seq(S), q # <<>>
    PROVE  /\ Tail(q) \in Seq(S) /\ Head(q) \in S
           /\ Elems(q) = {Head(q)} \cup Elems(Tail(q))
           /\ Ordered(q) => /\ Ordered(Tail(q))
                            /\ \A y \in Elems(Tail(q)) : Rank(Head(q)) <= Rank(y) /\ Head(q) # y
<1>1. Tail(q) \in Seq(S) /\ Len(Tail(q)) = Len(q) - 1 /\ Len(q) \in Nat /\ Len(q) >= 1
      /\ Head(q) = q[1] /\ Head(q) \in S
  OBVIOUS
<1>2. \A i \in 1..Len(Tail(q)) : i + 1 \in 1..Len(q) /\ Tail(q)[i] = q[i + 1]
  BY <1>1
<1>3. \A i \in 1..Len(q) : i = 1 \/ (i - 1 \in 1..Len(Tail(q)) /\ Tail(q)[i - 1] = q[i])
  BY <1>1
<1>4. Elems(q) = {Head(q)} \cup Elems(Tail(q))
  <2>1. ASSUME NEW x \in Elems(q) PROVE x \in {Head(q)} \cup Elems(Tail(q))
    BY <1>1, <1>3, <2>1 DEF Elems
  <2>2. ASSUME NEW x \in Elems(Tail(q)) PROVE x \in Elems(q)
    BY <1>2, <2>2 DEF Elems
  <2>3. Head(q) \in Elems(q)
    <3>1. 1 \in 1..Len(q)
      BY <1>1
    <3> QED BY <1>1, <3>1 DEF Elems
  <2> QED BY <2>1, <2>2, <2>3
<1>5. ASSUME Ordered(q)
      PROVE  /\ Ordered(Tail(q))
             /\ \A y \in Elems(Tail(q)) : Rank(Head(q)) <= Rank(y) /\ Head(q) # y
  <2>1. Ordered(Tail(q))
    BY <1>1, <1>2, <1>5 DEF Ordered
  <2>2. ASSUME NEW y \in Elems(Tail(q)) PROVE Rank(Head(q)) <= Rank(y) /\ Head(q) # y
    <3>1. PICK i \in 1..Len(Tail(q)) : y = q[i + 1] /\ i + 1 \in 1..Len(q)
      BY <1>2, <2>2 DEF Elems
    <3>2. 1 \in 1..Len(q) /\ 1 < i + 1
      BY <1>1
    <3> QED BY <1>1, <1>5, <3>1, <3>2 DEF Ordered
  <2> QED BY <2>1, <2>2
<1> QED BY <1>1, <1>4, <1>5

(* A set under a condition, as When is a queue under one.                   *)
If(condition, S) == IF condition THEN S ELSE {}

(* Plans that bring a tree of their own.                                    *)
New(p) == p.kind \in {"create", "upgrade"}

(* Every step there is.                                                     *)
Known == {"check", "bind", "stage", "stage*", "backup", "backup*", "install", "prove",
          "install*", "config", "config?", "config*", "config=", "remove", "remove*",
          "unmoved*", "keep", "report*", "report", "record", "committed", "endReport",
          "endReport*", "undoReport", "putBack", "putNew", "claimConfig", "undoConfig",
          "claimNew", "claimStage", "claimBackup", "restoreOld", "delete", "endTree*",
          "cleanup*", "endConfig", "endConfig*", "rolled-back", "closed",
          "recovery-required", "cleanup-pending"}

(* An ordered queue of known steps with ranks from a to b.                  *)
Within(q, a, b) ==
    /\ q \in Seq(Known) /\ Ordered(q)
    /\ \A x \in Elems(q) : Rank(x) \in a..b

(* Queues whose ranks do not overlap may be joined.                         *)
LEMMA WithinJoined ==
    ASSUME NEW q, NEW r, NEW a \in Nat, NEW b \in Nat, NEW c \in Nat, NEW d \in Nat,
           Within(q, a, b), Within(r, c, d), a <= b, b < c, c <= d
    PROVE  Within(q \o r, a, d) /\ Elems(q \o r) = Elems(q) \cup Elems(r)
<1>1. q \in Seq(Known) /\ r \in Seq(Known) /\ Ordered(q) /\ Ordered(r)
  BY DEF Within
<1>2. Before(q, r)
  BY DEF Within, Before
<1>3. q \o r \in Seq(Known) /\ Elems(q \o r) = Elems(q) \cup Elems(r) /\ Ordered(q \o r)
  BY <1>1, <1>2, Joined
<1>4. \A x \in Elems(q \o r) : Rank(x) \in a..d
  BY <1>3 DEF Within
<1> QED BY <1>3, <1>4 DEF Within

(* The empty queue is within any ranks.                                     *)
LEMMA WithinEmpty ==
    Elems(<<>>) = {} /\ \A a, b \in Nat : Within(<<>>, a, b)
BY Queue0 DEF Within

(* Queues of known steps may be joined.                                     *)
LEMMA KnownJoined ==
    ASSUME NEW q \in Seq(Known), NEW r \in Seq(Known)
    PROVE  q \o r \in Seq(Known) /\ Elems(q \o r) = Elems(q) \cup Elems(r)
BY Joined

(* Each step is known.                                                      *)
LEMMA AllKnown ==
    /\ "check" \in Known /\ "bind" \in Known /\ "stage" \in Known /\ "stage*" \in Known
    /\ "backup" \in Known /\ "backup*" \in Known /\ "install" \in Known /\ "prove" \in Known
    /\ "install*" \in Known /\ "config" \in Known /\ "config?" \in Known /\ "config*" \in Known
    /\ "config=" \in Known /\ "remove" \in Known /\ "remove*" \in Known /\ "unmoved*" \in Known
    /\ "keep" \in Known /\ "report*" \in Known /\ "report" \in Known /\ "record" \in Known
    /\ "committed" \in Known /\ "endReport" \in Known /\ "endReport*" \in Known /\ "undoReport" \in Known
    /\ "putBack" \in Known /\ "putNew" \in Known /\ "claimConfig" \in Known /\ "undoConfig" \in Known
    /\ "claimNew" \in Known /\ "claimStage" \in Known /\ "claimBackup" \in Known /\ "restoreOld" \in Known
    /\ "delete" \in Known /\ "endTree*" \in Known /\ "cleanup*" \in Known /\ "endConfig" \in Known
    /\ "endConfig*" \in Known /\ "rolled-back" \in Known /\ "closed" \in Known /\ "recovery-required" \in Known
    /\ "cleanup-pending" \in Known
BY DEF Known

(* A queue of one step, within ranks.                                       *)
LEMMA Piece1 ==
    ASSUME NEW x \in Known, NEW a \in Nat, NEW b \in Nat, Rank(x) \in a..b
    PROVE  Within(<<x>>, a, b) /\ Elems(<<x>>) = {x}
BY Queue1 DEF Within

(* A queue of two steps, within ranks.                                      *)
LEMMA Piece2 ==
    ASSUME NEW x \in Known, NEW y \in Known, NEW a \in Nat, NEW b \in Nat,
           Rank(x) \in a..b, Rank(y) \in a..b, Rank(x) <= Rank(y), x # y
    PROVE  Within(<<x, y>>, a, b) /\ Elems(<<x, y>>) = {x, y}
BY Queue2 DEF Within

(* A queue of three steps, within ranks.                                    *)
LEMMA Piece3 ==
    ASSUME NEW x \in Known, NEW y \in Known, NEW z \in Known, NEW a \in Nat, NEW b \in Nat,
           Rank(x) \in a..b, Rank(y) \in a..b, Rank(z) \in a..b,
           Rank(x) <= Rank(y), Rank(y) <= Rank(z), x # y, y # z, x # z
    PROVE  Within(<<x, y, z>>, a, b) /\ Elems(<<x, y, z>>) = {x, y, z}
<1>1. Rank(x) <= Rank(z)
  OBVIOUS
<1> QED BY <1>1, Queue3 DEF Within

(* A queue of four steps, within ranks.                                     *)
LEMMA Piece4 ==
    ASSUME NEW x \in Known, NEW y \in Known, NEW z \in Known, NEW w \in Known,
           NEW a \in Nat, NEW b \in Nat,
           Rank(x) \in a..b, Rank(y) \in a..b, Rank(z) \in a..b, Rank(w) \in a..b,
           Rank(x) < Rank(y), Rank(y) < Rank(z), Rank(z) < Rank(w)
    PROVE  Within(<<x, y, z, w>>, a, b) /\ Elems(<<x, y, z, w>>) = {x, y, z, w}
<1>1. Rank(x) <= Rank(z) /\ Rank(x) <= Rank(w) /\ Rank(y) <= Rank(w)
      /\ x # y /\ y # z /\ z # w /\ x # z /\ x # w /\ y # w
  OBVIOUS
<1>2. Ordered(<<x, y, z, w>>) /\ Elems(<<x, y, z, w>>) = {x, y, z, w}
      /\ <<x, y, z, w>> \in Seq(Known)
  BY <1>1, Queue4
<1> QED BY <1>2 DEF Within

(* The pieces the programs are joined from.                                 *)
LEMMA Pieces ==
    /\ Within(<<"check", "bind">>, 1, 2) /\ Elems(<<"check", "bind">>) = {"check", "bind"}
    /\ Within(<<"stage", "stage*">>, 3, 4) /\ Elems(<<"stage", "stage*">>) = {"stage", "stage*"}
    /\ Within(<<"backup", "backup*">>, 5, 6) /\ Elems(<<"backup", "backup*">>) = {"backup", "backup*"}
    /\ Within(<<"install", "prove", "install*">>, 7, 9) /\ Elems(<<"install", "prove", "install*">>) = {"install", "prove", "install*"}
    /\ Within(<<"config", "config*", "config=">>, 10, 12) /\ Elems(<<"config", "config*", "config=">>) = {"config", "config*", "config="}
    /\ Within(<<"config?">>, 10, 12) /\ Elems(<<"config?">>) = {"config?"}
    /\ Within(<<"remove", "remove*">>, 13, 14) /\ Elems(<<"remove", "remove*">>) = {"remove", "remove*"}
    /\ Within(<<"keep", "report*", "report", "record">>, 15, 18) /\ Elems(<<"keep", "report*", "report", "record">>) = {"keep", "report*", "report", "record"}
    /\ Within(<<"committed", "endReport", "endReport*">>, 19, 21) /\ Elems(<<"committed", "endReport", "endReport*">>) = {"committed", "endReport", "endReport*"}
    /\ Within(<<"claimBackup">>, 25, 25) /\ Elems(<<"claimBackup">>) = {"claimBackup"}
    /\ Within(<<"delete", "endTree*">>, 26, 27) /\ Elems(<<"delete", "endTree*">>) = {"delete", "endTree*"}
    /\ Within(<<"endConfig", "endConfig*">>, 28, 29) /\ Elems(<<"endConfig", "endConfig*">>) = {"endConfig", "endConfig*"}
    /\ Within(<<"closed">>, 31, 31) /\ Elems(<<"closed">>) = {"closed"}
    /\ Within(<<"committed">>, 19, 19) /\ Elems(<<"committed">>) = {"committed"}
    /\ Within(<<"endReport", "endReport*">>, 20, 21) /\ Elems(<<"endReport", "endReport*">>) = {"endReport", "endReport*"}
    /\ Within(<<"cleanup*">>, 27, 27) /\ Elems(<<"cleanup*">>) = {"cleanup*"}
    /\ Within(<<"cleanup-pending">>, 31, 31) /\ Elems(<<"cleanup-pending">>) = {"cleanup-pending"}
    /\ Within(<<"recovery-required">>, 31, 31) /\ Elems(<<"recovery-required">>) = {"recovery-required"}
    /\ Within(<<"remove*">>, 14, 14) /\ Elems(<<"remove*">>) = {"remove*"}
    /\ Within(<<"unmoved*">>, 31, 31) /\ Elems(<<"unmoved*">>) = {"unmoved*"}
    /\ Within(<<"putNew">>, 31, 31) /\ Elems(<<"putNew">>) = {"putNew"}
    /\ Within(<<"undoReport">>, 21, 21) /\ Elems(<<"undoReport">>) = {"undoReport"}
    /\ Within(<<"putBack">>, 22, 22) /\ Elems(<<"putBack">>) = {"putBack"}
    /\ Within(<<"claimConfig", "undoConfig">>, 23, 24) /\ Elems(<<"claimConfig", "undoConfig">>) = {"claimConfig", "undoConfig"}
    /\ Within(<<"claimNew", "restoreOld", "delete">>, 25, 26) /\ Elems(<<"claimNew", "restoreOld", "delete">>) = {"claimNew", "restoreOld", "delete"}
    /\ Within(<<"restoreOld">>, 25, 25) /\ Elems(<<"restoreOld">>) = {"restoreOld"}
    /\ Within(<<"claimNew", "delete">>, 25, 26) /\ Elems(<<"claimNew", "delete">>) = {"claimNew", "delete"}
    /\ Within(<<"claimStage", "delete">>, 25, 26) /\ Elems(<<"claimStage", "delete">>) = {"claimStage", "delete"}
    /\ Within(<<"rolled-back", "closed">>, 30, 31) /\ Elems(<<"rolled-back", "closed">>) = {"rolled-back", "closed"}
<1>1. Within(<<"check", "bind">>, 1, 2) /\ Elems(<<"check", "bind">>) = {"check", "bind"}
  BY Piece2, Ranks, AllKnown
<1>2. Within(<<"stage", "stage*">>, 3, 4) /\ Elems(<<"stage", "stage*">>) = {"stage", "stage*"}
  BY Piece2, Ranks, AllKnown
<1>3. Within(<<"backup", "backup*">>, 5, 6) /\ Elems(<<"backup", "backup*">>) = {"backup", "backup*"}
  BY Piece2, Ranks, AllKnown
<1>4. Within(<<"install", "prove", "install*">>, 7, 9) /\ Elems(<<"install", "prove", "install*">>) = {"install", "prove", "install*"}
  BY Piece3, Ranks, AllKnown
<1>5. Within(<<"config", "config*", "config=">>, 10, 12) /\ Elems(<<"config", "config*", "config=">>) = {"config", "config*", "config="}
  BY Piece3, Ranks, AllKnown
<1>6. Within(<<"config?">>, 10, 12) /\ Elems(<<"config?">>) = {"config?"}
  BY Piece1, Ranks, AllKnown
<1>7. Within(<<"remove", "remove*">>, 13, 14) /\ Elems(<<"remove", "remove*">>) = {"remove", "remove*"}
  BY Piece2, Ranks, AllKnown
<1>8. Within(<<"keep", "report*", "report", "record">>, 15, 18) /\ Elems(<<"keep", "report*", "report", "record">>) = {"keep", "report*", "report", "record"}
  <2>1. /\ "keep" \in Known /\ "report*" \in Known /\ "report" \in Known /\ "record" \in Known
        /\ Rank("keep") = 15 /\ Rank("report*") = 16 /\ Rank("report") = 17 /\ Rank("record") = 18
    BY Ranks, AllKnown
  <2>2. 15 \in Nat /\ 18 \in Nat /\ 15 \in 15..18 /\ 16 \in 15..18 /\ 17 \in 15..18 /\ 18 \in 15..18
        /\ 15 < 16 /\ 16 < 17 /\ 17 < 18
    OBVIOUS
  <2> QED BY <2>1, <2>2, Piece4
<1>9. Within(<<"committed", "endReport", "endReport*">>, 19, 21) /\ Elems(<<"committed", "endReport", "endReport*">>) = {"committed", "endReport", "endReport*"}
  BY Piece3, Ranks, AllKnown
<1>10. Within(<<"claimBackup">>, 25, 25) /\ Elems(<<"claimBackup">>) = {"claimBackup"}
  BY Piece1, Ranks, AllKnown
<1>11. Within(<<"delete", "endTree*">>, 26, 27) /\ Elems(<<"delete", "endTree*">>) = {"delete", "endTree*"}
  BY Piece2, Ranks, AllKnown
<1>12. Within(<<"endConfig", "endConfig*">>, 28, 29) /\ Elems(<<"endConfig", "endConfig*">>) = {"endConfig", "endConfig*"}
  BY Piece2, Ranks, AllKnown
<1>13. Within(<<"closed">>, 31, 31) /\ Elems(<<"closed">>) = {"closed"}
  BY Piece1, Ranks, AllKnown
<1>14. Within(<<"committed">>, 19, 19) /\ Elems(<<"committed">>) = {"committed"}
  BY Piece1, Ranks, AllKnown
<1>15. Within(<<"endReport", "endReport*">>, 20, 21) /\ Elems(<<"endReport", "endReport*">>) = {"endReport", "endReport*"}
  BY Piece2, Ranks, AllKnown
<1>16. Within(<<"cleanup*">>, 27, 27) /\ Elems(<<"cleanup*">>) = {"cleanup*"}
  BY Piece1, Ranks, AllKnown
<1>17. Within(<<"cleanup-pending">>, 31, 31) /\ Elems(<<"cleanup-pending">>) = {"cleanup-pending"}
  BY Piece1, Ranks, AllKnown
<1>18. Within(<<"recovery-required">>, 31, 31) /\ Elems(<<"recovery-required">>) = {"recovery-required"}
  BY Piece1, Ranks, AllKnown
<1>19. Within(<<"remove*">>, 14, 14) /\ Elems(<<"remove*">>) = {"remove*"}
  BY Piece1, Ranks, AllKnown
<1>20. Within(<<"unmoved*">>, 31, 31) /\ Elems(<<"unmoved*">>) = {"unmoved*"}
  BY Piece1, Ranks, AllKnown
<1>21. Within(<<"putNew">>, 31, 31) /\ Elems(<<"putNew">>) = {"putNew"}
  BY Piece1, Ranks, AllKnown
<1>22. Within(<<"undoReport">>, 21, 21) /\ Elems(<<"undoReport">>) = {"undoReport"}
  BY Piece1, Ranks, AllKnown
<1>23. Within(<<"putBack">>, 22, 22) /\ Elems(<<"putBack">>) = {"putBack"}
  BY Piece1, Ranks, AllKnown
<1>24. Within(<<"claimConfig", "undoConfig">>, 23, 24) /\ Elems(<<"claimConfig", "undoConfig">>) = {"claimConfig", "undoConfig"}
  BY Piece2, Ranks, AllKnown
<1>25. Within(<<"claimNew", "restoreOld", "delete">>, 25, 26) /\ Elems(<<"claimNew", "restoreOld", "delete">>) = {"claimNew", "restoreOld", "delete"}
  BY Piece3, Ranks, AllKnown
<1>26. Within(<<"restoreOld">>, 25, 25) /\ Elems(<<"restoreOld">>) = {"restoreOld"}
  BY Piece1, Ranks, AllKnown
<1>27. Within(<<"claimNew", "delete">>, 25, 26) /\ Elems(<<"claimNew", "delete">>) = {"claimNew", "delete"}
  BY Piece2, Ranks, AllKnown
<1>28. Within(<<"claimStage", "delete">>, 25, 26) /\ Elems(<<"claimStage", "delete">>) = {"claimStage", "delete"}
  BY Piece2, Ranks, AllKnown
<1>29. Within(<<"rolled-back", "closed">>, 30, 31) /\ Elems(<<"rolled-back", "closed">>) = {"rolled-back", "closed"}
  BY Piece2, Ranks, AllKnown
<1> QED BY <1>1, <1>2, <1>3, <1>4, <1>5, <1>6, <1>7, <1>8, <1>9, <1>10, <1>11, <1>12, <1>13, <1>14, <1>15, <1>16, <1>17, <1>18, <1>19, <1>20, <1>21, <1>22, <1>23, <1>24, <1>25, <1>26, <1>27, <1>28, <1>29

(* The steps of the program that carries a plan out.                        *)
ForwardSteps(p) ==
    {"check", "bind", "keep", "report*", "report", "record"}
    \cup If(New(p), {"stage", "stage*", "install", "prove", "install*"})
    \cup If(p.kind = "upgrade", {"backup", "backup*"})
    \cup (IF p.hook THEN {"config", "config*", "config="} ELSE {"config?"})
    \cup If(p.kind = "remove", {"remove", "remove*"})

(* The steps that compensate for the steps f that were done.                *)
UndoSteps(f) ==
    {"rolled-back", "closed"}
    \cup If("report" \in f, {"undoReport"})
    \cup If("remove" \in f, {"putBack"})
    \cup If("config=" \in f, {"claimConfig", "undoConfig"})
    \cup If("backup" \in f, {"restoreOld"})
    \cup If("stage" \in f, {NewClaim(f), "delete"})

(* The steps that finish the tree after the record.                         *)
TreeEnd(p) ==
    If(p.kind = "upgrade", {"claimBackup"})
    \cup If(p.kind \in {"upgrade", "remove"}, {"delete", "endTree*"})

(* The steps that finish the configuration after the record.                *)
ConfigEnd(p) == If(p.hook, {"endConfig", "endConfig*"})

(* The steps of the program that follows the record.                        *)
FinishedSteps(p) ==
    {"committed", "endReport", "endReport*", "closed"} \cup TreeEnd(p) \cup ConfigEnd(p)

(* The steps that any program after the record may have, a warning's and a  *)
(* recovery's too.                                                          *)
EndSteps ==
    {"committed", "endReport", "endReport*", "claimBackup", "delete", "endTree*",
     "endConfig", "endConfig*", "cleanup*", "recovery-required", "cleanup-pending",
     "closed"}

(* The steps that a recovery may roll back with.                            *)
RollbackSteps(p) ==
    {"undoReport", "claimConfig", "undoConfig", "rolled-back", "closed"}
    \cup If(p.kind = "remove", {"putBack"})
    \cup If(New(p), {"claimNew", "claimStage", "restoreOld", "delete"})

(* The program that carries a plan out is in order and has its steps.       *)
LEMMA ForwardQueue ==
    ASSUME NEW p
    PROVE  Within(Forward(p), 1, 18) /\ Elems(Forward(p)) = ForwardSteps(p)
<1> DEFINE q1 == <<"check", "bind">>
           q2 == When(p.kind \in {"create", "upgrade"}, <<"stage", "stage*">>)
           q3 == When(p.kind = "upgrade", <<"backup", "backup*">>)
           q4 == When(p.kind \in {"create", "upgrade"}, <<"install", "prove", "install*">>)
           q5 == IF p.hook THEN <<"config", "config*", "config=">> ELSE <<"config?">>
           q6 == When(p.kind = "remove", <<"remove", "remove*">>)
           q7 == <<"keep", "report*", "report", "record">>
<1>1. Within(q1, 1, 2) /\ Elems(q1) = {"check", "bind"}
  BY Pieces
<1>2. Within(q2, 3, 4) /\ Elems(q2) = If(New(p), {"stage", "stage*"})
  BY Pieces, WithinEmpty DEF When, If, New
<1>3. Within(q3, 5, 6) /\ Elems(q3) = If(p.kind = "upgrade", {"backup", "backup*"})
  BY Pieces, WithinEmpty DEF When, If
<1>4. Within(q4, 7, 9) /\ Elems(q4) = If(New(p), {"install", "prove", "install*"})
  BY Pieces, WithinEmpty DEF When, If, New
<1>5. Within(q5, 10, 12)
      /\ Elems(q5) = IF p.hook THEN {"config", "config*", "config="} ELSE {"config?"}
  BY Pieces
<1>6. Within(q6, 13, 14) /\ Elems(q6) = If(p.kind = "remove", {"remove", "remove*"})
  BY Pieces, WithinEmpty DEF When, If
<1>7. Within(q7, 15, 18) /\ Elems(q7) = {"keep", "report*", "report", "record"}
  BY Pieces
<1>8. Forward(p) = q1 \o q2 \o q3 \o q4 \o q5 \o q6 \o q7
  BY DEF Forward
<1> HIDE DEF q1, q2, q3, q4, q5, q6, q7
<1>9. Within(q1 \o q2, 1, 4) /\ Elems(q1 \o q2) = Elems(q1) \cup Elems(q2)
  BY <1>1, <1>2, WithinJoined
<1>10. Within(q1 \o q2 \o q3, 1, 6)
       /\ Elems(q1 \o q2 \o q3) = Elems(q1) \cup Elems(q2) \cup Elems(q3)
  BY <1>3, <1>9, WithinJoined
<1>11. Within(q1 \o q2 \o q3 \o q4, 1, 9)
       /\ Elems(q1 \o q2 \o q3 \o q4) = Elems(q1) \cup Elems(q2) \cup Elems(q3) \cup Elems(q4)
  BY <1>4, <1>10, WithinJoined
<1>12. Within(q1 \o q2 \o q3 \o q4 \o q5, 1, 12)
       /\ Elems(q1 \o q2 \o q3 \o q4 \o q5)
            = Elems(q1) \cup Elems(q2) \cup Elems(q3) \cup Elems(q4) \cup Elems(q5)
  BY <1>5, <1>11, WithinJoined
<1>13. Within(q1 \o q2 \o q3 \o q4 \o q5 \o q6, 1, 14)
       /\ Elems(q1 \o q2 \o q3 \o q4 \o q5 \o q6)
            = Elems(q1) \cup Elems(q2) \cup Elems(q3) \cup Elems(q4) \cup Elems(q5) \cup Elems(q6)
  BY <1>6, <1>12, WithinJoined
<1>14. Within(Forward(p), 1, 18)
       /\ Elems(Forward(p))
            = Elems(q1) \cup Elems(q2) \cup Elems(q3) \cup Elems(q4) \cup Elems(q5)
              \cup Elems(q6) \cup Elems(q7)
  BY <1>7, <1>8, <1>13, WithinJoined
<1>15. Elems(Forward(p)) = ForwardSteps(p)
  BY <1>1, <1>2, <1>3, <1>4, <1>5, <1>6, <1>7, <1>14 DEF ForwardSteps, If
<1> QED BY <1>14, <1>15

(* So have the programs that finish the tree and the configuration.         *)
LEMMA EndQueues ==
    ASSUME NEW p
    PROVE  /\ Within(EndTree(p), 25, 27) /\ Elems(EndTree(p)) = TreeEnd(p)
           /\ Within(EndConfig(p), 28, 29) /\ Elems(EndConfig(p)) = ConfigEnd(p)
<1> DEFINE q1 == When(p.kind = "upgrade", <<"claimBackup">>)
           q2 == When(p.kind \in {"upgrade", "remove"}, <<"delete", "endTree*">>)
<1>1. Within(q1, 25, 25) /\ Elems(q1) = If(p.kind = "upgrade", {"claimBackup"})
  BY Pieces, WithinEmpty DEF When, If
<1>2. Within(q2, 26, 27)
      /\ Elems(q2) = If(p.kind \in {"upgrade", "remove"}, {"delete", "endTree*"})
  BY Pieces, WithinEmpty DEF When, If
<1>3. EndTree(p) = q1 \o q2
  BY DEF EndTree
<1> HIDE DEF q1, q2
<1>4. Within(EndTree(p), 25, 27) /\ Elems(EndTree(p)) = TreeEnd(p)
  BY <1>1, <1>2, <1>3, WithinJoined DEF TreeEnd
<1>5. Within(EndConfig(p), 28, 29) /\ Elems(EndConfig(p)) = ConfigEnd(p)
  BY Pieces, WithinEmpty DEF When, If, EndConfig, ConfigEnd
<1> QED BY <1>4, <1>5

(* So has the program that follows the record.                              *)
LEMMA FinishQueue ==
    ASSUME NEW p
    PROVE  Within(Finish(p), 19, 31) /\ Elems(Finish(p)) = FinishedSteps(p)
<1> DEFINE q1 == <<"committed", "endReport", "endReport*">>
           q4 == <<"closed">>
<1>1. Within(q1, 19, 21) /\ Elems(q1) = {"committed", "endReport", "endReport*"}
  BY Pieces
<1>2. Within(q4, 31, 31) /\ Elems(q4) = {"closed"}
  BY Pieces
<1>3. Finish(p) = q1 \o EndTree(p) \o EndConfig(p) \o q4
  BY DEF Finish
<1> HIDE DEF q1, q4
<1>4. Within(q1 \o EndTree(p), 19, 27)
      /\ Elems(q1 \o EndTree(p)) = Elems(q1) \cup Elems(EndTree(p))
  BY <1>1, EndQueues, WithinJoined
<1>5. Within(q1 \o EndTree(p) \o EndConfig(p), 19, 29)
      /\ Elems(q1 \o EndTree(p) \o EndConfig(p))
           = Elems(q1) \cup Elems(EndTree(p)) \cup Elems(EndConfig(p))
  BY <1>4, EndQueues, WithinJoined
<1>6. Within(Finish(p), 19, 31)
      /\ Elems(Finish(p))
           = Elems(q1) \cup Elems(EndTree(p)) \cup Elems(EndConfig(p)) \cup Elems(q4)
  BY <1>2, <1>3, <1>5, WithinJoined
<1> QED BY <1>1, <1>2, <1>6, EndQueues DEF FinishedSteps

(* A queue of steps that may follow the record.                             *)
Ending(q) == q \in Seq(Known) /\ Elems(q) \subseteq EndSteps

(* Such queues may be joined.                                               *)
LEMMA EndingJoined ==
    ASSUME NEW q, NEW r, Ending(q), Ending(r)
    PROVE  Ending(q \o r)
BY KnownJoined DEF Ending

(* The pieces such queues are joined from.                                  *)
LEMMA EndingPieces ==
    /\ Ending(<<>>) /\ Ending(<<"committed">>) /\ Ending(<<"endReport", "endReport*">>)
    /\ Ending(<<"claimBackup">>) /\ Ending(<<"delete", "endTree*">>)
    /\ Ending(<<"endConfig", "endConfig*">>) /\ Ending(<<"cleanup*">>)
    /\ Ending(<<"recovery-required">>) /\ Ending(<<"cleanup-pending">>) /\ Ending(<<"closed">>)
<1>1. Ending(<<>>)
  BY Queue0 DEF Ending
<1>2. Ending(<<"committed">>) /\ Ending(<<"endReport", "endReport*">>)
  BY Pieces DEF Ending, Within, EndSteps
<1>3. Ending(<<"claimBackup">>) /\ Ending(<<"delete", "endTree*">>)
  BY Pieces DEF Ending, Within, EndSteps
<1>4. Ending(<<"endConfig", "endConfig*">>) /\ Ending(<<"cleanup*">>)
  BY Pieces DEF Ending, Within, EndSteps
<1>5. Ending(<<"recovery-required">>) /\ Ending(<<"cleanup-pending">>) /\ Ending(<<"closed">>)
  BY Pieces DEF Ending, Within, EndSteps
<1> QED BY <1>1, <1>2, <1>3, <1>4, <1>5

(* What is left to do after a warning may follow the record.                *)
LEMMA WarningQueue ==
    ASSUME NEW p, NEW s, NEW how
    PROVE  Ending(AfterWarning(s, how, p))
<1> DEFINE atCleanup == s \in {"delete", "endTree*"} \/ (s = "claimBackup" /\ how = "moved")
           q1 == When(atCleanup, <<"cleanup*">>)
           q2 == <<"cleanup-pending">>
<1>1. Ending(q1) /\ Ending(q2)
  BY EndingPieces DEF When
<1>2. Ending(EndTree(p)) /\ Ending(EndConfig(p))
  BY EndingPieces, EndingJoined DEF EndTree, EndConfig, When
<1>3. \/ AfterWarning(s, how, p) = <<"recovery-required">>
      \/ AfterWarning(s, how, p) = <<>>
      \/ AfterWarning(s, how, p) = EndTree(p) \o EndConfig(p) \o q2
      \/ AfterWarning(s, how, p) = q1 \o EndConfig(p) \o q2
      \/ AfterWarning(s, how, p) = <<>> \o q2
  BY DEF AfterWarning
<1> HIDE DEF q1, q2
<1>4. Ending(EndTree(p) \o EndConfig(p)) /\ Ending(q1 \o EndConfig(p)) /\ Ending(<<>> \o q2)
  BY <1>1, <1>2, EndingPieces, EndingJoined
<1>5. Ending(EndTree(p) \o EndConfig(p) \o q2) /\ Ending(q1 \o EndConfig(p) \o q2)
  BY <1>1, <1>4, EndingJoined
<1> QED BY <1>3, <1>4, <1>5, EndingPieces

(* So may what a recovery finalizes with.                                   *)
LEMMA FinalizeQueue ==
    ASSUME NEW p, NEW r
    PROVE  Ending(Finalize(p, r))
<1> DEFINE q1 == When(r.state \in {"mutating", "recovery-required"}, <<"committed">>)
           q2 == When("report" \in r.art \ r.steps, <<"endReport", "endReport*">>)
           q3 == When("config" \in r.art \ r.steps, <<"endConfig", "endConfig*">>)
           q4 == When("tree" \notin r.steps, FinalizeTree(p, r))
           t1 == When(p.kind = "upgrade" /\ ~Proved(r, "cleanup"), <<"claimBackup">>)
           t2 == When(p.kind = "upgrade" \/ (p.kind = "remove" /\ Proved(r, "backup")),
                      <<"delete", "endTree*">>)
<1>1. Ending(q1) /\ Ending(q2) /\ Ending(q3) /\ Ending(t1) /\ Ending(t2)
  BY EndingPieces DEF When
<1>2. FinalizeTree(p, r) = t1 \o t2
  BY DEF FinalizeTree
<1>3. Ending(FinalizeTree(p, r))
  BY <1>1, <1>2, EndingJoined
<1>4. Ending(q4)
  BY <1>3, EndingPieces DEF When
<1>5. Finalize(p, r) = q1 \o q2 \o q3 \o q4 \o <<"closed">>
  BY DEF Finalize
<1> HIDE DEF q1, q2, q3, q4, t1, t2
<1>6. Ending(q1 \o q2)
  BY <1>1, EndingJoined
<1>7. Ending(q1 \o q2 \o q3)
  BY <1>1, <1>6, EndingJoined
<1>8. Ending(q1 \o q2 \o q3 \o q4)
  BY <1>4, <1>7, EndingJoined
<1> QED BY <1>5, <1>8, EndingPieces, EndingJoined

(* The compensation for the tree is in order and has its steps, when a tree *)
(* that was proved installed was staged and installed.                      *)
LEMMA UndoTreeQueue ==
    ASSUME NEW f, "prove" \in f => "install" \in f /\ "stage" \in f
    PROVE  /\ Within(UndoTree(f), 25, 26)
           /\ Elems(UndoTree(f)) = If("backup" \in f, {"restoreOld"})
                                   \cup If("stage" \in f, {NewClaim(f), "delete"})
<1>1. CASE {"backup", "prove"} \subseteq f
  <2>1. UndoTree(f) = <<"claimNew", "restoreOld", "delete">>
    BY <1>1 DEF UndoTree
  <2>2. NewClaim(f) = "claimNew"
    BY <1>1 DEF NewClaim
  <2> QED BY <1>1, <2>1, <2>2, Pieces DEF If
<1>2. CASE ~({"backup", "prove"} \subseteq f)
  <2> DEFINE q1 == When("backup" \in f, <<"restoreOld">>)
             q2 == When("stage" \in f, <<NewClaim(f), "delete">>)
  <2>1. Within(q1, 25, 25) /\ Elems(q1) = If("backup" \in f, {"restoreOld"})
    BY Pieces, WithinEmpty DEF When, If
  <2>2. NewClaim(f) \in {"claimNew", "claimStage"}
    BY DEF NewClaim
  <2>3. Within(<<NewClaim(f), "delete">>, 25, 26)
        /\ Elems(<<NewClaim(f), "delete">>) = {NewClaim(f), "delete"}
    <3>1. CASE NewClaim(f) = "claimNew"
      BY <3>1, Pieces
    <3>2. CASE NewClaim(f) = "claimStage"
      BY <3>2, Pieces
    <3> QED BY <2>2, <3>1, <3>2
  <2>4. Within(q2, 25, 26) /\ Elems(q2) = If("stage" \in f, {NewClaim(f), "delete"})
    BY <2>3, WithinEmpty DEF When, If
  <2>5. UndoTree(f) = q1 \o q2
    BY <1>2 DEF UndoTree
  <2> HIDE DEF q1, q2
  <2>6. Before(q1, q2)
    <3>1. \A x \in Elems(q1) : x = "restoreOld" /\ Rank(x) = 25
      BY <2>1, Ranks DEF If
    <3>2. \A y \in Elems(q2) : y # "restoreOld" /\ Rank(y) \in 25..26
      BY <2>2, <2>4 DEF If, Within
    <3> QED BY <3>1, <3>2 DEF Before
  <2>7. q1 \in Seq(Known) /\ q2 \in Seq(Known) /\ Ordered(q1) /\ Ordered(q2)
    BY <2>1, <2>4 DEF Within
  <2>8. q1 \o q2 \in Seq(Known) /\ Ordered(q1 \o q2) /\ Elems(q1 \o q2) = Elems(q1) \cup Elems(q2)
    BY <2>6, <2>7, Joined
  <2>9. \A x \in Elems(q1 \o q2) : Rank(x) \in 25..26
    BY <2>1, <2>4, <2>8 DEF Within
  <2> QED BY <2>1, <2>4, <2>5, <2>8, <2>9 DEF Within
<1> QED BY <1>1, <1>2

(* So has the whole compensation.                                           *)
LEMMA UndoQueue ==
    ASSUME NEW f, "prove" \in f => "install" \in f /\ "stage" \in f
    PROVE  Within(Undo(f), 21, 31) /\ Elems(Undo(f)) = UndoSteps(f)
<1> DEFINE q1 == When("report" \in f, <<"undoReport">>)
           q2 == When("remove" \in f, <<"putBack">>)
           q3 == When("config=" \in f, <<"claimConfig", "undoConfig">>)
           q5 == <<"rolled-back", "closed">>
<1>1. Within(q1, 21, 21) /\ Elems(q1) = If("report" \in f, {"undoReport"})
  BY Pieces, WithinEmpty DEF When, If
<1>2. Within(q2, 22, 22) /\ Elems(q2) = If("remove" \in f, {"putBack"})
  BY Pieces, WithinEmpty DEF When, If
<1>3. Within(q3, 23, 24) /\ Elems(q3) = If("config=" \in f, {"claimConfig", "undoConfig"})
  BY Pieces, WithinEmpty DEF When, If
<1>4. Within(q5, 30, 31) /\ Elems(q5) = {"rolled-back", "closed"}
  BY Pieces
<1>5. Undo(f) = q1 \o q2 \o q3 \o UndoTree(f) \o q5
  BY DEF Undo
<1> HIDE DEF q1, q2, q3, q5
<1>6. Within(q1 \o q2, 21, 22) /\ Elems(q1 \o q2) = Elems(q1) \cup Elems(q2)
  BY <1>1, <1>2, WithinJoined
<1>7. Within(q1 \o q2 \o q3, 21, 24)
      /\ Elems(q1 \o q2 \o q3) = Elems(q1) \cup Elems(q2) \cup Elems(q3)
  BY <1>3, <1>6, WithinJoined
<1>8. Within(q1 \o q2 \o q3 \o UndoTree(f), 21, 26)
      /\ Elems(q1 \o q2 \o q3 \o UndoTree(f))
           = Elems(q1) \cup Elems(q2) \cup Elems(q3) \cup Elems(UndoTree(f))
  <2>1. Within(UndoTree(f), 25, 26)
    BY UndoTreeQueue
  <2> QED BY <1>7, <2>1, WithinJoined
<1>9. Within(Undo(f), 21, 31)
      /\ Elems(Undo(f)) = Elems(q1) \cup Elems(q2) \cup Elems(q3) \cup Elems(UndoTree(f)) \cup Elems(q5)
  BY <1>4, <1>5, <1>8, WithinJoined
<1>10. Elems(Undo(f)) = UndoSteps(f)
  BY <1>1, <1>2, <1>3, <1>4, <1>9, UndoTreeQueue DEF UndoSteps
<1> QED BY <1>9, <1>10

(* What a recovery rolls back with has known steps.                         *)
LEMMA RollbackQueue ==
    ASSUME NEW p, NEW r
    PROVE  Rollback(p, r) \in Seq(Known) /\ Elems(Rollback(p, r)) \subseteq RollbackSteps(p)
<1> DEFINE q1 == When("report" \in r.art, <<"undoReport">>)
           q3 == When("config" \in r.art, <<"claimConfig", "undoConfig">>)
           q4 == <<"rolled-back", "closed">>
<1>1. q1 \in Seq(Known) /\ Elems(q1) \subseteq {"undoReport"}
  BY Pieces, WithinEmpty DEF When, If, Within
<1>2. q3 \in Seq(Known) /\ Elems(q3) \subseteq {"claimConfig", "undoConfig"}
  BY Pieces, WithinEmpty DEF When, If, Within
<1>3. q4 \in Seq(Known) /\ Elems(q4) = {"rolled-back", "closed"}
  BY Pieces DEF Within
<1>4. RollbackTree(p, r) \in Seq(Known)
      /\ Elems(RollbackTree(p, r)) \subseteq
            If(p.kind = "remove", {"putBack"})
            \cup If(New(p), {"claimNew", "claimStage", "restoreOld", "delete"})
  <2> DEFINE claim == IF Proved(r, "installed") THEN "claimNew" ELSE "claimStage"
             c1 == When(Proved(r, "stage"), <<claim, "delete">>)
             u1 == <<"claimNew", "restoreOld", "delete">>
             u2 == When(Proved(r, "stage"), <<"claimStage", "delete">>)
             u3 == When(Proved(r, "backup"), <<"restoreOld">>)
             r1 == When(Proved(r, "backup"), <<"putBack">>)
  <2>1. c1 \in Seq(Known) /\ Elems(c1) \subseteq {"claimNew", "claimStage", "delete"}
    <3>1. Within(<<claim, "delete">>, 25, 26) /\ Elems(<<claim, "delete">>) = {claim, "delete"}
      <4>1. CASE claim = "claimNew"
        BY <4>1, Pieces
      <4>2. CASE claim = "claimStage"
        BY <4>2, Pieces
      <4> QED BY <4>1, <4>2
    <3> QED BY <3>1, WithinEmpty DEF When, If, Within
  <2>2. u1 \in Seq(Known) /\ Elems(u1) \subseteq {"claimNew", "restoreOld", "delete"}
    BY Pieces DEF Within
  <2>3. u2 \in Seq(Known) /\ Elems(u2) \subseteq {"claimStage", "delete"}
    BY Pieces, WithinEmpty DEF When, If, Within
  <2>4. u3 \in Seq(Known) /\ Elems(u3) \subseteq {"restoreOld"}
    BY Pieces, WithinEmpty DEF When, If, Within
  <2>5. r1 \in Seq(Known) /\ Elems(r1) \subseteq {"putBack"}
    BY Pieces, WithinEmpty DEF When, If, Within
  <2>6. <<>> \in Seq(Known) /\ Elems(<<>>) = {}
    BY Queue0
  <2>7. /\ p.kind = "create" => RollbackTree(p, r) = c1
        /\ p.kind = "upgrade" => RollbackTree(p, r) \in {u1, u2 \o u3}
        /\ p.kind = "remove" => RollbackTree(p, r) = r1
        /\ p.kind \notin {"create", "upgrade", "remove"} => RollbackTree(p, r) = <<>>
    BY DEF RollbackTree
  <2> HIDE DEF c1, u1, u2, u3, r1
  <2>8. u2 \o u3 \in Seq(Known) /\ Elems(u2 \o u3) \subseteq {"claimStage", "restoreOld", "delete"}
    BY <2>3, <2>4, KnownJoined
  <2>9. CASE p.kind = "create"
    BY <2>1, <2>7, <2>9 DEF If, New
  <2>10. CASE p.kind = "upgrade"
    BY <2>2, <2>7, <2>8, <2>10 DEF If, New
  <2>11. CASE p.kind = "remove"
    BY <2>5, <2>7, <2>11 DEF If, New
  <2>12. CASE p.kind \notin {"create", "upgrade", "remove"}
    BY <2>6, <2>7, <2>12 DEF If, New
  <2> QED BY <2>9, <2>10, <2>11, <2>12
<1>5. Rollback(p, r) = q1 \o RollbackTree(p, r) \o q3 \o q4
  BY DEF Rollback
<1> HIDE DEF q1, q3, q4
<1>6. q1 \o RollbackTree(p, r) \in Seq(Known)
      /\ Elems(q1 \o RollbackTree(p, r)) = Elems(q1) \cup Elems(RollbackTree(p, r))
  BY <1>1, <1>4, KnownJoined
<1>7. q1 \o RollbackTree(p, r) \o q3 \in Seq(Known)
      /\ Elems(q1 \o RollbackTree(p, r) \o q3)
            = Elems(q1) \cup Elems(RollbackTree(p, r)) \cup Elems(q3)
  BY <1>2, <1>6, KnownJoined
<1>8. Rollback(p, r) \in Seq(Known)
      /\ Elems(Rollback(p, r))
            = Elems(q1) \cup Elems(RollbackTree(p, r)) \cup Elems(q3) \cup Elems(q4)
  BY <1>3, <1>5, <1>7, KnownJoined
<1> QED BY <1>1, <1>2, <1>3, <1>4, <1>8 DEF RollbackSteps

-----------------------------------------------------------------------------
(* What a run has done and has left to do.                                  *)

(* What a run is.                                                           *)
RunType ==
    [kind : {"none", "apply", "rollback", "finalize"}, phase : Busy \cup {"idle"},
     tx : Tx \cup {Nothing}, todo : Seq(Known), did : SUBSET (Known \cup {"tear"}),
     warned : BOOLEAN, synced : BOOLEAN]

(* The run is one; when it is idle it is nothing else.                      *)
RunOK == run \in RunType /\ (run.phase = "idle" => run = Idle)

(* How a step may fail.                                                     *)
How == {"no", "moved", "unknown"}

(* The steps of a run that stops.                                           *)
StopSteps == {"remove*", "unmoved*", "recovery-required", "putNew"}

(* What is to do comes in order and after what was done.                    *)
Sorted ==
    /\ Ordered(run.todo)
    /\ \A x \in run.did, y \in Elems(run.todo) : x # "tear" => Rank(x) <= Rank(y) /\ x # y

(* What was done of the program that carries the plan out.                  *)
Fore == run.did \cap ForwardSteps(plan[run.tx])

(* What was done to compensate for it.                                      *)
Back == run.did \ (ForwardSteps(plan[run.tx]) \cup {"tear"})

(* The phases in which what was done tells the state exactly.               *)
Precise == run.phase \in {"forward", "undo"} \/ (run.phase = "finish" /\ ~run.warned)

(* In each phase, what was done and what is to do make up the programs: all *)
(* of the forward program; all that compensates for what was done; all of   *)
(* the program that follows the record, until a warning.                    *)
QueueOK ==
    LET p == plan[run.tx]
        todo == Elems(run.todo)
    IN
    /\ Precise => Sorted
    /\ run.phase = "forward" => run.did \cup todo = ForwardSteps(p)
    /\ run.phase = "undo" =>
          /\ todo \cup Back = UndoSteps(Fore) /\ "record" \notin run.did
          /\ \A x \in Fore, y \in ForwardSteps(p) : Rank(y) < Rank(x) => y \in run.did
    /\ run.phase = "finish" /\ ~run.warned =>
          /\ run.did \cup todo \subseteq ForwardSteps(p) \cup FinishedSteps(p) \cup {"tear"}
          /\ ForwardSteps(p) \cup FinishedSteps(p) \subseteq run.did \cup todo \cup {"record"}
          /\ ForwardSteps(p) \subseteq run.did \cup {"record"}
    /\ run.phase \in {"finish", "finalize"} => todo \subseteq EndSteps
    /\ run.phase = "rollback" => todo \subseteq RollbackSteps(p)
    /\ run.phase = "stop" => todo \subseteq StopSteps

(* Every step has a rank.                                                   *)
LEMMA RankNat == \A x : Rank(x) \in 1..31
BY DEF Rank

(* The ranks of the programs.                                               *)
LEMMA StepRanks ==
    ASSUME NEW p, NEW f, "prove" \in f => "install" \in f /\ "stage" \in f
    PROVE  /\ \A x \in ForwardSteps(p) : Rank(x) \in 1..18 /\ x \in Known /\ (x # "record" => Rank(x) < 18)
           /\ \A x \in UndoSteps(f) : Rank(x) \in 21..31 /\ x \in Known
           /\ \A x \in FinishedSteps(p) : Rank(x) \in 19..31 /\ x \in Known
           /\ "tear" \notin ForwardSteps(p) /\ "tear" \notin Known
<1>1. \A q, x : q \in Seq(Known) /\ x \in Elems(q) => x \in Known
  BY DEF Elems
<1>2. \A x \in ForwardSteps(p) : Rank(x) \in 1..18 /\ x \in Known
  BY <1>1, ForwardQueue DEF Within
<1>3. \A x \in UndoSteps(f) : Rank(x) \in 21..31 /\ x \in Known
  BY <1>1, UndoQueue DEF Within
<1>4. \A x \in FinishedSteps(p) : Rank(x) \in 19..31 /\ x \in Known
  BY <1>1, FinishQueue DEF Within
<1>5. ASSUME NEW x \in ForwardSteps(p), x # "record" PROVE Rank(x) < 18
  BY <1>5, Ranks DEF ForwardSteps, If
<1>6. "tear" \notin ForwardSteps(p) /\ "tear" \notin Known
  BY DEF ForwardSteps, If, Known
<1> QED BY <1>2, <1>3, <1>4, <1>5, <1>6

(* The step the run is at, and what comes after it.                         *)
LEMMA AtHead ==
    ASSUME RunOK, NEW s, At(s)
    PROVE  /\ s \in Known /\ s \in Elems(run.todo) /\ run.phase \in Busy
           /\ Tail(run.todo) \in Seq(Known) /\ Elems(run.todo) = {s} \cup Elems(Tail(run.todo))
           /\ Ordered(run.todo) => /\ Ordered(Tail(run.todo))
                                   /\ \A y \in Elems(Tail(run.todo)) : Rank(s) <= Rank(y) /\ s # y
<1>1. run.todo \in Seq(Known) /\ run.todo # <<>> /\ Head(run.todo) = s
  BY DEF RunOK, RunType, At
<1>2. run.phase \in Busy
  BY <1>1 DEF RunOK, RunType, Idle
<1> QED BY <1>1, <1>2, Popped

(* Going forward, all that comes before the step has been done.             *)
LEMMA ForwardAt ==
    ASSUME RunOK, QueueOK, run.phase = "forward", NEW s, At(s)
    PROVE  /\ s \in ForwardSteps(plan[run.tx]) /\ s \notin run.did
           /\ run.did \subseteq ForwardSteps(plan[run.tx]) /\ "record" \notin run.did
           /\ \A y \in ForwardSteps(plan[run.tx]) : Rank(y) < Rank(s) => y \in run.did
           /\ \A x \in run.did : Rank(x) <= Rank(s)
<1> DEFINE p == plan[run.tx]
           todo == Elems(run.todo)
<1>1. run.did \cup todo = ForwardSteps(p) /\ Sorted
  BY DEF QueueOK, Precise
<1>2. s \in todo /\ todo = {s} \cup Elems(Tail(run.todo))
      /\ \A y \in Elems(Tail(run.todo)) : Rank(s) <= Rank(y)
  BY <1>1, AtHead DEF Sorted
<1>3. "tear" \notin run.did
  BY <1>1, StepRanks
<1>4. \A x \in run.did : Rank(x) <= Rank(s) /\ x # s
  BY <1>1, <1>2, <1>3 DEF Sorted
<1>5. \A y \in todo : ~(Rank(y) < Rank(s))
  BY <1>2, RankNat
<1>6. "record" \notin run.did
  <2> SUFFICES ASSUME "record" \in run.did PROVE FALSE
    OBVIOUS
  <2>1. Rank("record") = 18 /\ Rank("record") <= Rank(s) /\ s # "record"
    BY <1>4, Ranks
  <2>2. Rank(s) < 18 /\ Rank(s) \in 1..18
    BY <1>1, <1>2, <2>1, StepRanks
  <2> QED BY <2>1, <2>2
<1> QED BY <1>1, <1>2, <1>4, <1>5, <1>6

(* A tree that was proved installed was staged and installed.               *)
LEMMA ForwardProve ==
    ASSUME RunOK, QueueOK, run.phase = "forward", NEW s, At(s), "prove" \in run.did
    PROVE  "install" \in run.did /\ "stage" \in run.did
<1>1. "prove" \in ForwardSteps(plan[run.tx]) /\ Rank("prove") <= Rank(s) /\ Rank(s) \in 1..31
  BY ForwardAt, RankNat
<1>2. New(plan[run.tx])
  BY <1>1 DEF ForwardSteps, If
<1>3. "install" \in ForwardSteps(plan[run.tx]) /\ "stage" \in ForwardSteps(plan[run.tx])
  BY <1>2 DEF ForwardSteps, If
<1>4. Rank("install") < Rank(s) /\ Rank("stage") < Rank(s)
  BY <1>1, Ranks
<1> QED BY <1>3, <1>4, ForwardAt

(* So it was when that is undone.                                           *)
LEMMA UndoProve ==
    ASSUME QueueOK, run.phase = "undo", "prove" \in Fore
    PROVE  "install" \in Fore /\ "stage" \in Fore
<1>1. "prove" \in ForwardSteps(plan[run.tx])
  BY DEF Fore
<1>2. New(plan[run.tx])
  BY <1>1 DEF ForwardSteps, If
<1>3. "install" \in ForwardSteps(plan[run.tx]) /\ "stage" \in ForwardSteps(plan[run.tx])
  BY <1>2 DEF ForwardSteps, If
<1>4. Rank("install") < Rank("prove") /\ Rank("stage") < Rank("prove")
  BY Ranks
<1> QED BY <1>3, <1>4 DEF QueueOK, Fore

(* What going on does to the run.                                           *)
LEMMA AdvanceFacts ==
    ASSUME RunOK, NEW s, At(s), Advance(s)
    PROVE  /\ run' \in RunType /\ run'.tx = run.tx /\ run'.kind = run.kind
           /\ run'.warned = run.warned /\ run'.synced = run.synced
           /\ s = "record" => run'.phase = "finish" /\ run'.did = run.did
                              /\ run'.todo = Finish(plan[run.tx])
           /\ s # "record" => run'.phase = run.phase /\ run'.did = run.did \cup {s}
                              /\ run'.todo = Tail(run.todo)
<1>1. s \in Known /\ Tail(run.todo) \in Seq(Known) /\ Finish(plan[run.tx]) \in Seq(Known)
  BY AtHead, FinishQueue DEF Within
<1>2. CASE s = "record"
  BY <1>1, <1>2 DEF Advance, RunOK, RunType, Busy
<1>3. CASE s # "record"
  BY <1>1, <1>3 DEF Advance, RunOK, RunType
<1> QED BY <1>2, <1>3

(* What failing does to the run.                                            *)
LEMMA FailedFacts ==
    ASSUME RunOK, QueueOK, NEW s, At(s), NEW how \in How, NEW sy \in BOOLEAN, Failed(s, how, sy)
    PROVE  /\ run' \in RunType /\ run'.tx = run.tx /\ run'.kind = run.kind
           /\ run'.did = run.did
           /\ \/ /\ run.phase = "forward" /\ how = "no" /\ run'.phase = "undo"
                 /\ run'.warned = run.warned /\ run'.todo = Undo(run.did)
              \/ /\ run.phase = "finish" /\ run'.phase = "finish"
                 /\ run'.warned /\ Ending(run'.todo)
              \/ /\ run'.phase = "stop" /\ run'.warned = run.warned
                 /\ Elems(run'.todo) \subseteq {"remove*", "unmoved*", "recovery-required"}
                       \cup If(run.phase \in {"undo", "rollback", "finalize"} /\ s = "restoreOld", {"putNew"})
                       \cup If(run.phase = "stop", Elems(run.todo))
<1> DEFINE stop(q) == [run EXCEPT !.phase = "stop", !.todo = q, !.synced = sy]
           A == {"remove*", "unmoved*", "recovery-required"}
           where == IF how = "moved" THEN "remove*" ELSE "unmoved*"
<1>0. run.phase \in Busy
  BY AtHead
<1>1. ASSUME NEW q \in Seq(Known), run' = stop(q)
      PROVE  /\ run' \in RunType /\ run'.tx = run.tx /\ run'.kind = run.kind /\ run'.did = run.did
             /\ run'.phase = "stop" /\ run'.warned = run.warned /\ run'.todo = q
  BY <1>1 DEF RunOK, RunType, Busy
<1>2. CASE run.phase = "forward" /\ how = "no"
  <2>1. run' = [run EXCEPT !.phase = "undo", !.todo = Undo(run.did)]
    BY <1>2 DEF Failed, IsUncertain
  <2>2. Undo(run.did) \in Seq(Known)
    BY <1>2, ForwardProve, UndoQueue DEF Within
  <2> QED BY <1>2, <2>1, <2>2 DEF RunOK, RunType, Busy
<1>3. CASE run.phase = "forward" /\ how # "no"
  <2> DEFINE q1 == When(s = "remove", <<where>>)
             q2 == <<"recovery-required">>
  <2>1. run' = stop(q1 \o q2)
    BY <1>3 DEF Failed, IsUncertain
  <2>2. q1 \in Seq(Known) /\ Elems(q1) \subseteq A
    BY Pieces, WithinEmpty DEF When, Within
  <2>3. q2 \in Seq(Known) /\ Elems(q2) \subseteq A
    BY Pieces DEF Within
  <2> HIDE DEF q1, q2
  <2>4. q1 \o q2 \in Seq(Known) /\ Elems(q1 \o q2) \subseteq A
    BY <2>2, <2>3, KnownJoined
  <2> QED BY <1>1, <2>1, <2>4
<1>4. PutNew(s) \in Seq(Known) /\ Elems(PutNew(s)) \subseteq If(s = "restoreOld", {"putNew"})
  BY Pieces, WithinEmpty DEF PutNew, When, Within, If
<1>5. CASE run.phase = "undo"
  <2>1. run' = stop(PutNew(s) \o <<"recovery-required">>)
    BY <1>5 DEF Failed
  <2>2. <<"recovery-required">> \in Seq(Known) /\ Elems(<<"recovery-required">>) \subseteq A
    BY Pieces DEF Within
  <2>3. PutNew(s) \o <<"recovery-required">> \in Seq(Known)
        /\ Elems(PutNew(s) \o <<"recovery-required">>) \subseteq A \cup If(s = "restoreOld", {"putNew"})
    BY <1>4, <2>2, KnownJoined
  <2> QED BY <1>1, <1>5, <2>1, <2>3 DEF If
<1>6. CASE run.phase \in {"rollback", "finalize"}
  <2>1. run' = stop(PutNew(s))
    BY <1>6 DEF Failed
  <2> QED BY <1>1, <1>4, <1>6, <2>1 DEF If
<1>7. CASE run.phase = "finish"
  <2>1. run' = [run EXCEPT !.todo = AfterWarning(s, how, plan[run.tx]),
                           !.warned = TRUE, !.synced = sy]
    BY <1>7 DEF Failed
  <2>2. Ending(AfterWarning(s, how, plan[run.tx]))
    BY WarningQueue
  <2>3. AfterWarning(s, how, plan[run.tx]) \in Seq(Known)
    BY <2>2 DEF Ending
  <2> HIDE DEF stop
  <2> QED BY <1>7, <2>1, <2>2, <2>3 DEF RunOK, RunType
<1>8. CASE run.phase = "stop"
  <2>1. run' = stop(Tail(run.todo))
    BY <1>8 DEF Failed
  <2>2. Tail(run.todo) \in Seq(Known) /\ Elems(Tail(run.todo)) \subseteq Elems(run.todo)
    BY AtHead
  <2> QED BY <1>1, <1>8, <2>1, <2>2 DEF If
<1> QED BY <1>0, <1>2, <1>3, <1>5, <1>6, <1>7, <1>8 DEF Busy

(* The steps of a run after the record, before a warning.                   *)
LEMMA FinishFacts ==
    ASSUME RunOK, QueueOK, run.phase = "finish", ~run.warned, NEW s, At(s)
    PROVE  s \in FinishedSteps(plan[run.tx]) /\ s # "record"
<1>1. s \in Elems(run.todo)
  BY AtHead
<1>2. s \in EndSteps
  BY <1>1 DEF QueueOK
<1>3. s \in ForwardSteps(plan[run.tx]) \cup FinishedSteps(plan[run.tx]) \cup {"tear"}
  BY <1>1 DEF QueueOK
<1>4. s \notin ForwardSteps(plan[run.tx]) /\ s # "tear" /\ s # "record"
  BY <1>2 DEF EndSteps, ForwardSteps, If
<1> QED BY <1>3, <1>4

(* Undoing, all that comes before the step has been undone.                 *)
LEMMA UndoAt ==
    ASSUME RunOK, QueueOK, run.phase = "undo", NEW s, At(s)
    PROVE  /\ s \in UndoSteps(Fore) /\ s \notin run.did /\ s \notin ForwardSteps(plan[run.tx])
           /\ s \in Known
           /\ \A y \in UndoSteps(Fore) : Rank(y) < Rank(s) => y \in run.did
           /\ \A x \in Back : Rank(x) <= Rank(s)
<1> DEFINE todo == Elems(run.todo)
<1>1. todo \cup Back = UndoSteps(Fore) /\ Sorted
  BY DEF QueueOK, Precise
<1>2. s \in todo /\ todo = {s} \cup Elems(Tail(run.todo)) /\ s \in Known
      /\ \A y \in Elems(Tail(run.todo)) : Rank(s) <= Rank(y)
  BY <1>1, AtHead DEF Sorted
<1>3. s # "tear"
  BY <1>2, StepRanks
<1>4. s \notin run.did
  BY <1>1, <1>2, <1>3 DEF Sorted
<1>5. s \notin ForwardSteps(plan[run.tx])
  <2>1. Rank(s) \in 21..31
    BY <1>1, <1>2, UndoProve, StepRanks
  <2>2. \A x \in ForwardSteps(plan[run.tx]) : Rank(x) \in 1..18
    BY StepRanks
  <2> QED BY <2>1, <2>2
<1>6. ASSUME NEW y \in UndoSteps(Fore), Rank(y) < Rank(s) PROVE y \in run.did
  <2>1. y \notin todo
    BY <1>2, <1>6, RankNat
  <2> QED BY <1>1, <2>1 DEF Back
<1>7. \A x \in Back : Rank(x) <= Rank(s)
  BY <1>1, <1>2 DEF Back, Sorted
<1> QED BY <1>1, <1>2, <1>4, <1>5, <1>6, <1>7

(* The record is appended going forward only.                               *)
LEMMA RecordIsForward ==
    ASSUME RunOK, QueueOK, At("record")
    PROVE  run.phase = "forward"
<1>1. "record" \in Elems(run.todo) /\ run.phase \in Busy
  BY AtHead
<1>2. run.phase # "undo"
  BY UndoAt DEF UndoSteps, If, NewClaim
<1>3. run.phase \notin {"finish", "finalize"}
  BY <1>1 DEF QueueOK, EndSteps
<1>4. run.phase # "rollback"
  BY <1>1 DEF QueueOK, RollbackSteps, If
<1>5. run.phase # "stop"
  BY <1>1 DEF QueueOK, StopSteps
<1> QED BY <1>1, <1>2, <1>3, <1>4, <1>5 DEF Busy

(* Going on keeps the order.                                                *)
LEMMA AdvanceSorted ==
    ASSUME RunOK, NEW s, s # "record", At(s), Advance(s), Sorted
    PROVE  Sorted'
<1>1. run'.did = run.did \cup {s} /\ run'.todo = Tail(run.todo)
  BY AdvanceFacts
<1>2. Ordered(Tail(run.todo))
      /\ Elems(run.todo) = {s} \cup Elems(Tail(run.todo))
      /\ \A y \in Elems(Tail(run.todo)) : Rank(s) <= Rank(y) /\ s # y
  BY AtHead DEF Sorted
<1>3. \A x \in run.did, y \in Elems(run.todo) : x # "tear" => Rank(x) <= Rank(y) /\ x # y
  BY DEF Sorted
<1>4. ASSUME NEW x \in run'.did, NEW y \in Elems(run'.todo), x # "tear"
      PROVE  Rank(x) <= Rank(y) /\ x # y
  BY <1>1, <1>2, <1>3, <1>4
<1> QED BY <1>1, <1>2, <1>4 DEF Sorted

(* Going on keeps what was done and what is to do.                          *)
LEMMA AdvanceQueue ==
    ASSUME RunOK, QueueOK, NEW s, s # "record", At(s), Advance(s), plan' = plan
    PROVE  QueueOK'
<1> DEFINE p == plan[run.tx]
           todo == Elems(run.todo)
           todo1 == Elems(run'.todo)
<1>1. /\ run'.tx = run.tx /\ run'.phase = run.phase /\ run'.warned = run.warned
      /\ run'.did = run.did \cup {s} /\ run'.todo = Tail(run.todo)
  BY AdvanceFacts
<1>2. s \in todo /\ todo = {s} \cup todo1 /\ s \in Known /\ s # "tear"
  BY <1>1, AtHead, StepRanks
<1>3. Precise' => Sorted'
  BY <1>1, AdvanceSorted DEF Precise, QueueOK
<1>4. run.phase = "forward" => run'.did \cup todo1 = ForwardSteps(p)
  BY <1>1, <1>2 DEF QueueOK
<1>5. ASSUME run.phase = "undo"
      PROVE  /\ todo1 \cup Back' = UndoSteps(Fore') /\ "record" \notin run'.did
             /\ Fore' = Fore
  <2>1. s \notin ForwardSteps(p) /\ s \notin run.did
    BY <1>5, UndoAt
  <2>2. Fore' = Fore /\ Back' = Back \cup {s}
    BY <1>1, <1>2, <2>1 DEF Fore, Back
  <2> QED BY <1>1, <1>2, <1>5, <2>2 DEF QueueOK
<1>6. ASSUME run.phase = "finish", ~run.warned
      PROVE  /\ run'.did \cup todo1 \subseteq ForwardSteps(p) \cup FinishedSteps(p) \cup {"tear"}
             /\ ForwardSteps(p) \cup FinishedSteps(p) \subseteq run'.did \cup todo1 \cup {"record"}
             /\ ForwardSteps(p) \subseteq run'.did \cup {"record"}
  BY <1>1, <1>2, <1>6 DEF QueueOK
<1>7. run.phase \in {"finish", "finalize"} => todo1 \subseteq EndSteps
  BY <1>2 DEF QueueOK
<1>8. run.phase = "rollback" => todo1 \subseteq RollbackSteps(p)
  BY <1>2 DEF QueueOK
<1>9. run.phase = "stop" => todo1 \subseteq StopSteps
  BY <1>2 DEF QueueOK
<1>10. \A x \in Fore, y \in ForwardSteps(p) :
          run.phase = "undo" /\ Rank(y) < Rank(x) => y \in run.did
  BY DEF QueueOK
<1> QED BY <1>1, <1>3, <1>4, <1>5, <1>6, <1>7, <1>8, <1>9, <1>10 DEF QueueOK

(* After the record the run has the program that follows it.                *)
LEMMA RecordQueue ==
    ASSUME RunOK, QueueOK, At("record"), Advance("record"), plan' = plan
    PROVE  QueueOK'
<1> DEFINE p == plan[run.tx]
<1>1. /\ run'.tx = run.tx /\ run'.phase = "finish" /\ run'.did = run.did
      /\ run'.todo = Finish(p)
  BY AdvanceFacts
<1>2. run.phase = "forward"
  BY RecordIsForward
<1>3. run.did \subseteq ForwardSteps(p)
      /\ \A y \in ForwardSteps(p) : Rank(y) < Rank("record") => y \in run.did
  BY <1>2, ForwardAt
<1>4. ForwardSteps(p) \subseteq run.did \cup {"record"}
  BY <1>3, Ranks, StepRanks
<1>5. Elems(Finish(p)) = FinishedSteps(p) /\ Ordered(Finish(p))
  BY FinishQueue DEF Within
<1>6. \A x \in ForwardSteps(p), y \in FinishedSteps(p) : Rank(x) <= Rank(y) /\ x # y
  <2>1. \A x \in ForwardSteps(p) : Rank(x) \in 1..18
    BY StepRanks
  <2>2. \A y \in FinishedSteps(p) : Rank(y) \in 19..31
    BY StepRanks
  <2> QED BY <2>1, <2>2
<1>7. Sorted'
  BY <1>1, <1>3, <1>5, <1>6 DEF Sorted
<1>8. FinishedSteps(p) \subseteq EndSteps
  BY DEF FinishedSteps, TreeEnd, ConfigEnd, If, EndSteps
<1> QED BY <1>1, <1>3, <1>4, <1>5, <1>7, <1>8 DEF QueueOK

(* Failing gives the run the program of its catch block.                    *)
LEMMA FailedQueue ==
    ASSUME RunOK, QueueOK, NEW s, At(s), NEW how \in How, NEW sy \in BOOLEAN,
           Failed(s, how, sy), plan' = plan
    PROVE  QueueOK'
<1> DEFINE p == plan[run.tx]
<1>1. run'.tx = run.tx /\ run'.did = run.did
  BY FailedFacts
<1>2. CASE run.phase = "forward" /\ run'.phase = "undo" /\ run'.todo = Undo(run.did)
  <2>1. /\ run.did \subseteq ForwardSteps(p) /\ "record" \notin run.did
        /\ \A y \in ForwardSteps(p) : Rank(y) < Rank(s) => y \in run.did
        /\ \A x \in run.did : Rank(x) <= Rank(s)
    BY <1>2, ForwardAt
  <2>2. Elems(Undo(run.did)) = UndoSteps(run.did) /\ Ordered(Undo(run.did))
    BY <1>2, ForwardProve, UndoQueue DEF Within
  <2>3. Fore' = run.did /\ Back' = {}
    BY <1>1, <2>1 DEF Fore, Back
  <2>4. \A x \in run.did, y \in UndoSteps(run.did) : Rank(x) <= Rank(y) /\ x # y
    <3>1. \A x \in run.did : Rank(x) \in 1..18
      BY <2>1, StepRanks
    <3>2. \A y \in UndoSteps(run.did) : Rank(y) \in 21..31
      BY <1>2, ForwardProve, StepRanks
    <3> QED BY <3>1, <3>2
  <2>5. Sorted'
    BY <1>1, <1>2, <2>2, <2>4 DEF Sorted
  <2>6. \A x \in run.did, y \in ForwardSteps(p) : Rank(y) < Rank(x) => y \in run.did
    BY <2>1, RankNat
  <2> QED BY <1>1, <1>2, <2>1, <2>2, <2>3, <2>5, <2>6 DEF QueueOK
<1>3. CASE run'.phase = "finish" /\ run'.warned /\ Ending(run'.todo)
  BY <1>1, <1>3 DEF QueueOK, Precise, Ending
<1>4. CASE run'.phase = "stop"
  <2>1. Elems(run'.todo) \subseteq StopSteps
    BY <1>4, FailedFacts DEF If, StopSteps, QueueOK
  <2> QED BY <1>4, <2>1 DEF QueueOK, Precise
<1> QED BY <1>2, <1>3, <1>4, FailedFacts

(* So every step of a run keeps its queue.                                  *)
LEMMA StepQueue ==
    ASSUME RunOK, QueueOK, NEW s, At(s), plan' = plan,
           Advance(s) \/ \E how \in How, sy \in BOOLEAN : Failed(s, how, sy)
    PROVE  RunOK' /\ QueueOK'
<1>1. CASE Advance(s) /\ s # "record"
  <2>1. run' \in RunType /\ run'.phase \in Busy
    BY <1>1, AdvanceFacts, AtHead
  <2> QED BY <1>1, <2>1, AdvanceQueue DEF RunOK, Busy
<1>2. CASE Advance(s) /\ s = "record"
  <2>1. run' \in RunType /\ run'.phase \in Busy
    BY <1>2, AdvanceFacts DEF Busy
  <2> QED BY <1>2, <2>1, RecordQueue DEF RunOK, Busy
<1>3. ASSUME NEW how \in How, NEW sy \in BOOLEAN, Failed(s, how, sy)
      PROVE  RunOK' /\ QueueOK'
  <2>1. run' \in RunType /\ run'.phase \in Busy
    BY <1>3, FailedFacts DEF Busy
  <2>2. QueueOK'
    BY <1>3, FailedQueue
  <2> QED BY <2>1, <2>2 DEF RunOK, Busy
<1> QED BY <1>1, <1>2, <1>3

(* Tearing an entry off does not count as a step done.                      *)
LEMMA TearQueue ==
    ASSUME RunOK, QueueOK, At("delete"), run' = [run EXCEPT !.did = @ \cup {"tear"}], plan' = plan
    PROVE  RunOK' /\ QueueOK' /\ run'.phase = run.phase /\ run'.tx = run.tx
           /\ run'.todo = run.todo /\ run'.did = run.did \cup {"tear"} /\ run'.warned = run.warned
           /\ run'.kind = run.kind
<1>1. run.phase \in Busy
  BY AtHead
<1>2. /\ run' \in RunType /\ run'.phase = run.phase /\ run'.tx = run.tx /\ run'.warned = run.warned
      /\ run'.todo = run.todo /\ run'.did = run.did \cup {"tear"} /\ run'.kind = run.kind
  BY DEF RunOK, RunType
<1>3. RunOK'
  BY <1>1, <1>2 DEF RunOK, Busy
<1>4. run.phase # "forward"
  BY ForwardAt DEF ForwardSteps, If
<1>5. Fore' = Fore /\ Back' = Back
  BY <1>2, StepRanks DEF Fore, Back
<1>6. Precise' => Sorted'
  BY <1>2 DEF Precise, Sorted, QueueOK
<1>7. QueueOK'
  BY <1>2, <1>4, <1>5, <1>6 DEF QueueOK
<1> QED BY <1>2, <1>3, <1>7

-----------------------------------------------------------------------------
(* The forms of a step.                                                     *)

(* A move takes place.                                                      *)
Moved(s) ==
    LET w == Route(s, run.tx) IN
    /\ tree[w.from] = w.what /\ tree[w.to] = Nothing
    /\ tree' = [tree EXCEPT ![w.from] = Nothing, ![w.to] = w.what]

(* An append to the recovery log takes place.                               *)
Noting(s) ==
    /\ Legal(rec[run.tx], Noted(s, rec[run.tx]))
    /\ rec' = [rec EXCEPT ![run.tx] = Noted(s, rec[run.tx])]

(* What a step does when it goes well, and what had to hold for it.         *)
Done(s) ==
    LET t == run.tx
        stage == PlaceOf("stage", t)
        cleanup == PlaceOf("cleanup", t)
    IN
    /\ s = "check" => Fresh(t)
    /\ s \in MoveStep => Moved(s)
    /\ s = "stage" => tree[stage] = Nothing /\ tree' = [tree EXCEPT ![stage] = t]
    /\ s = "delete" => tree' = [tree EXCEPT ![cleanup] = Nothing]
    /\ s \notin MoveStep \cup {"stage", "delete"} => tree' = tree
    /\ s = "config" => side' = [side EXCEPT ![t] = Writes(plan[t])]
    /\ s = "config=" => config' = t /\ side' = [side EXCEPT ![t] = @ \ {"tmp"}]
    /\ s = "claimConfig" =>
          \/ config = plan[t].config /\ config' = config /\ side' = [side EXCEPT ![t] = {}]
          \/ HasBackup(t) /\ config' = Nothing /\ side' = side
    /\ s = "undoConfig" =>
          /\ config' = IF "bak" \in side[t] THEN plan[t].config ELSE config
          /\ side' = [side EXCEPT ![t] = {}]
    /\ s = "endConfig" => side' = [side EXCEPT ![t] = {}]
    /\ s \notin {"config=", "claimConfig", "undoConfig"} => config' = config
    /\ s \notin {"config", "config=", "claimConfig", "undoConfig", "endConfig"} => side' = side
    /\ s = "keep" => kept' = [kept EXCEPT ![t] = report]
    /\ s = "report" => report = kept[t] /\ report' = t
    /\ s = "undoReport" => /\ kept[t] # Nothing /\ report' = kept[t]
                           /\ kept' = [kept EXCEPT ![t] = Nothing]
    /\ s = "endReport" => kept' = [kept EXCEPT ![t] = Nothing]
    /\ s \notin {"report", "undoReport"} => report' = report
    /\ s \notin {"keep", "undoReport", "endReport"} => kept' = kept
    /\ journal' = IF s = "record" THEN <<t>> \o journal ELSE journal
    /\ IF s \in NoteStep THEN Noting(s) ELSE rec' = rec

(* What a step leaves when it is refused, or fails for certain.             *)
Left(s) ==
    /\ UNCHANGED <<tree, config, report, journal, rec>>
    /\ side' = IF s = "config=" \/ (s = "config*" /\ run.phase = "forward")
               THEN [side EXCEPT ![run.tx] = {}] ELSE side
    /\ kept' = IF s = "report" \/ (s = "report*" /\ run.phase = "forward")
               THEN [kept EXCEPT ![run.tx] = Nothing] ELSE kept

(* What a step may have done when its outcome is uncertain.                 *)
Touched(s) ==
    LET t == run.tx IN
    /\ \/ tree' = tree
       \/ s \in MoveStep /\ Moved(s)
       \/ /\ s = "stage" /\ tree[PlaceOf("stage", t)] = Nothing
          /\ tree' = [tree EXCEPT ![PlaceOf("stage", t)] = t]
       \/ /\ s = "delete"
          /\ \E v \in {Nothing, Torn} : tree' = [tree EXCEPT ![PlaceOf("cleanup", t)] = v]
    /\ \/ config' = config
       \/ /\ s \in {"config=", "claimConfig", "undoConfig"}
          /\ config' \in {t, Nothing, plan[t].config}
    /\ \/ side' = side
       \/ \E v \in SUBSET {"tmp", "bak"} : side' = [side EXCEPT ![t] = v]
    /\ \/ report' = report
       \/ s = "report" /\ report' = t
       \/ s = "undoReport" /\ kept[t] # Nothing /\ report' = kept[t]
    /\ \/ kept' = kept
       \/ \E v \in {Nothing, report} : kept' = [kept EXCEPT ![t] = v]
    /\ journal' = journal \/ (s = "record" /\ journal' = <<t>> \o journal)
    /\ rec' = rec \/ (s \in NoteStep /\ Noting(s))

(* A step goes well; or fails for certain; or may have been done.           *)
Forms(s) ==
    \/ Advance(s) /\ Done(s)
    \/ Left(s) /\ \E sy \in BOOLEAN : Failed(s, "no", sy)
    \/ Touched(s) /\ \E how \in How \ {"no"}, sy \in BOOLEAN : Failed(s, how, sy)

(* The form of every step of a run.                                         *)
StepForm(s) ==
    /\ At(s) /\ UNCHANGED FromOutside /\ (faults' = faults \/ Fault)
    /\ Forms(s)

(* The files beside the configuration.                                      *)
SideOK == side \in [Tx -> SUBSET {"tmp", "bak"}]

(* What a step does is among what it may have done.                         *)
LEMMA DoneTouches ==
    ASSUME NEW s, Done(s), run.tx \in Tx, SideOK
    PROVE  Touched(s)
<1> DEFINE t == run.tx
<1>1. \/ tree' = tree
      \/ s \in MoveStep /\ Moved(s)
      \/ /\ s = "stage" /\ tree[PlaceOf("stage", t)] = Nothing
         /\ tree' = [tree EXCEPT ![PlaceOf("stage", t)] = t]
      \/ /\ s = "delete"
         /\ \E v \in {Nothing, Torn} : tree' = [tree EXCEPT ![PlaceOf("cleanup", t)] = v]
  BY DEF Done
<1>2. \/ config' = config
      \/ /\ s \in {"config=", "claimConfig", "undoConfig"}
         /\ config' \in {t, Nothing, plan[t].config}
  BY DEF Done
<1>3. \/ side' = side
      \/ \E v \in SUBSET {"tmp", "bak"} : side' = [side EXCEPT ![t] = v]
  BY DEF Done, Writes, SideOK
<1>4. /\ \/ report' = report
         \/ s = "report" /\ report' = t
         \/ s = "undoReport" /\ kept[t] # Nothing /\ report' = kept[t]
      /\ \/ kept' = kept
         \/ \E v \in {Nothing, report} : kept' = [kept EXCEPT ![t] = v]
  BY DEF Done
<1>5. /\ journal' = journal \/ (s = "record" /\ journal' = <<t>> \o journal)
      /\ rec' = rec \/ (s \in NoteStep /\ Noting(s))
  BY DEF Done
<1> QED BY <1>1, <1>2, <1>3, <1>4, <1>5 DEF Touched

(* So is what it leaves.                                                    *)
LEMMA LeftTouches ==
    ASSUME NEW s, Left(s)
    PROVE  Touched(s)
BY DEF Left, Touched

(* Staging has the form of a step.                                          *)
LEMMA StageForm ==
    ASSUME StageTree, run.synced \in BOOLEAN, run.tx \in Tx, SideOK
    PROVE  StepForm("stage")
<1> DEFINE E == /\ tree[PlaceOf("stage", run.tx)] = Nothing
                /\ tree' = [tree EXCEPT ![PlaceOf("stage", run.tx)] = run.tx]
                /\ UNCHANGED <<config, side, report, kept, journal, rec>>
           C == UNCHANGED <<files, rec>>
<1>1. At("stage") /\ UNCHANGED FromOutside /\ (faults' = faults \/ Fault)
  BY DEF StageTree, Try
<1>2. \/ E /\ Advance("stage")
      \/ C /\ Failed("stage", "no", run.synced)
      \/ (E \/ UNCHANGED <<files, rec>>) /\ \E how \in {"moved", "unknown"} : Failed("stage", how, run.synced)
  BY DEF StageTree, Try, files
<1>3. E => Done("stage")
  BY DEF Done, MoveStep, NoteStep, files
<1>4. C => Left("stage")
  BY DEF Left, files
<1>5. UNCHANGED <<files, rec>> => Touched("stage")
  BY DEF Touched, files
<1> HIDE DEF E, C
<1> QED BY <1>1, <1>2, <1>3, <1>4, <1>5, DoneTouches DEF StepForm, Forms, How

(* The proof of the installed tree has the form of a step.                  *)
LEMMA ProveForm ==
    ASSUME ProveInstalled, run.synced \in BOOLEAN, run.tx \in Tx, SideOK
    PROVE  StepForm("prove")
<1> DEFINE E == UNCHANGED <<files, rec>>
           C == UNCHANGED <<files, rec>>
<1>1. At("prove") /\ UNCHANGED FromOutside /\ (faults' = faults \/ Fault)
  BY DEF ProveInstalled, Try
<1>2. \/ E /\ Advance("prove")
      \/ C /\ Failed("prove", "no", run.synced)
      \/ (E \/ UNCHANGED <<files, rec>>) /\ \E how \in {"moved", "unknown"} : Failed("prove", how, run.synced)
  BY DEF ProveInstalled, Try, files
<1>3. E => Done("prove")
  BY DEF Done, MoveStep, NoteStep, files
<1>4. C => Left("prove")
  BY DEF Left, files
<1>5. UNCHANGED <<files, rec>> => Touched("prove")
  BY DEF Touched, files
<1> HIDE DEF E, C
<1> QED BY <1>1, <1>2, <1>3, <1>4, <1>5, DoneTouches DEF StepForm, Forms, How

(* Deletion has the form of a step.                                         *)
LEMMA DeleteForm ==
    ASSUME DeleteTree, run.synced \in BOOLEAN, run.tx \in Tx, SideOK
    PROVE  StepForm("delete")
<1> DEFINE E == /\ tree' = [tree EXCEPT ![PlaceOf("cleanup", run.tx)] = Nothing]
                /\ UNCHANGED <<config, side, report, kept, journal, rec>>
           C == UNCHANGED <<files, rec>>
<1>1. At("delete") /\ UNCHANGED FromOutside /\ (faults' = faults \/ Fault)
  BY DEF DeleteTree, Try
<1>2. \/ E /\ Advance("delete")
      \/ C /\ Failed("delete", "no", run.synced)
      \/ (E \/ UNCHANGED <<files, rec>>) /\ \E how \in {"moved", "unknown"} : Failed("delete", how, run.synced)
  BY DEF DeleteTree, Try, files
<1>3. E => Done("delete")
  BY DEF Done, MoveStep, NoteStep, files
<1>4. C => Left("delete")
  BY DEF Left, files
<1>5. UNCHANGED <<files, rec>> => Touched("delete")
  BY DEF Touched, files
<1> HIDE DEF E, C
<1> QED BY <1>1, <1>2, <1>3, <1>4, <1>5, DoneTouches DEF StepForm, Forms, How

(* The look at the configuration has the form of a step.                    *)
LEMMA InspectForm ==
    ASSUME InspectConfig, run.synced \in BOOLEAN, run.tx \in Tx, SideOK
    PROVE  StepForm("config?")
<1> DEFINE E == UNCHANGED <<files, rec>>
           C == UNCHANGED <<files, rec>>
<1>1. At("config?") /\ UNCHANGED FromOutside /\ (faults' = faults \/ Fault)
  BY DEF InspectConfig, Try
<1>2. \/ E /\ Advance("config?")
      \/ C /\ Failed("config?", "no", run.synced)
      \/ (E \/ UNCHANGED <<files, rec>>) /\ \E how \in {"moved", "unknown"} : Failed("config?", how, run.synced)
  BY DEF InspectConfig, Try, files
<1>3. E => Done("config?")
  BY DEF Done, MoveStep, NoteStep, files
<1>4. C => Left("config?")
  BY DEF Left, files
<1>5. UNCHANGED <<files, rec>> => Touched("config?")
  BY DEF Touched, files
<1> HIDE DEF E, C
<1> QED BY <1>1, <1>2, <1>3, <1>4, <1>5, DoneTouches DEF StepForm, Forms, How

(* Preparing the configuration has the form of a step.                      *)
LEMMA StageConfigForm ==
    ASSUME StageConfig, run.synced \in BOOLEAN, run.tx \in Tx, SideOK
    PROVE  StepForm("config")
<1> DEFINE E == /\ side' = [side EXCEPT ![run.tx] = Writes(plan[run.tx])]
                /\ UNCHANGED <<tree, config, report, kept, journal, rec>>
           C == UNCHANGED <<files, rec>>
<1>1. At("config") /\ UNCHANGED FromOutside /\ (faults' = faults \/ Fault)
  BY DEF StageConfig, Try
<1>2. \/ E /\ Advance("config")
      \/ C /\ Failed("config", "no", run.synced)
      \/ (E \/ UNCHANGED <<files, rec>>) /\ \E how \in {"moved", "unknown"} : Failed("config", how, run.synced)
  BY DEF StageConfig, Try, files
<1>3. E => Done("config")
  BY DEF Done, MoveStep, NoteStep, files
<1>4. C => Left("config")
  BY DEF Left, files
<1>5. UNCHANGED <<files, rec>> => Touched("config")
  BY DEF Touched, files
<1> HIDE DEF E, C
<1> QED BY <1>1, <1>2, <1>3, <1>4, <1>5, DoneTouches DEF StepForm, Forms, How

(* Publishing it has the form of a step.                                    *)
LEMMA PublishConfigForm ==
    ASSUME PublishConfig, run.synced \in BOOLEAN, run.tx \in Tx, SideOK
    PROVE  StepForm("config=")
<1> DEFINE E == /\ config' = run.tx
                /\ side' = [side EXCEPT ![run.tx] = @ \ {"tmp"}]
                /\ UNCHANGED <<tree, report, kept, journal, rec>>
           C == /\ side' = [side EXCEPT ![run.tx] = {}]
                /\ UNCHANGED <<tree, config, report, kept, journal, rec>>
<1>1. At("config=") /\ UNCHANGED FromOutside /\ (faults' = faults \/ Fault)
  BY DEF PublishConfig, Try
<1>2. \/ E /\ Advance("config=")
      \/ C /\ Failed("config=", "no", run.synced)
      \/ (E \/ UNCHANGED <<files, rec>>) /\ \E how \in {"moved", "unknown"} : Failed("config=", how, run.synced)
  BY DEF PublishConfig, Try, files
<1>3. E => Done("config=")
  BY DEF Done, MoveStep, NoteStep, files
<1>4. C => Left("config=")
  BY DEF Left, files
<1>5. UNCHANGED <<files, rec>> => Touched("config=")
  BY DEF Touched, files
<1> HIDE DEF E, C
<1> QED BY <1>1, <1>2, <1>3, <1>4, <1>5, DoneTouches DEF StepForm, Forms, How

(* Taking it away has the form of a step.                                   *)
LEMMA ClaimConfigForm ==
    ASSUME ClaimConfig, run.synced \in BOOLEAN, run.tx \in Tx, SideOK
    PROVE  StepForm("claimConfig")
<1> DEFINE E == /\ \/ /\ config = plan[run.tx].config /\ config' = config
                      /\ side' = [side EXCEPT ![run.tx] = {}]
                   \/ HasBackup(run.tx) /\ config' = Nothing /\ side' = side
                /\ UNCHANGED <<tree, report, kept, journal, rec>>
           C == UNCHANGED <<files, rec>>
           untouched == /\ config = plan[run.tx].config
                        /\ run.phase = "rollback" => "tmp" \in side[run.tx]
           possible == untouched \/ (config = run.tx /\ HasBackup(run.tx))
           effect == /\ config' = IF untouched THEN config ELSE Nothing
                     /\ side' = IF untouched THEN [side EXCEPT ![run.tx] = {}] ELSE side
                     /\ UNCHANGED <<tree, report, kept, journal>>
<1>1. At("claimConfig") /\ UNCHANGED FromOutside /\ (faults' = faults \/ Fault)
  BY DEF ClaimConfig, Try
<1>2. \/ E /\ Advance("claimConfig")
      \/ C /\ Failed("claimConfig", "no", run.synced)
      \/ (E \/ UNCHANGED <<files, rec>>)
         /\ \E how \in {"moved", "unknown"} : Failed("claimConfig", how, run.synced)
  <2>1. possible /\ effect /\ rec' = rec => E
    <3>1. ASSUME untouched, possible, effect, rec' = rec PROVE E
      <4>1. config = plan[run.tx].config /\ config' = config
        BY <3>1
      <4>2. side' = [side EXCEPT ![run.tx] = {}]
        BY <3>1
      <4>3. UNCHANGED <<tree, report, kept, journal, rec>>
        BY <3>1
      <4> QED BY <4>1, <4>2, <4>3
    <3>2. ASSUME ~untouched, possible, effect, rec' = rec PROVE E
      <4>1. HasBackup(run.tx)
        BY <3>2
      <4>2. config' = Nothing /\ side' = side
        BY <3>2
      <4>3. UNCHANGED <<tree, report, kept, journal, rec>>
        BY <3>2
      <4> QED BY <4>1, <4>2, <4>3
    <3> HIDE DEF untouched, possible, effect, E
    <3> QED BY <3>1, <3>2
  <2>2. Try("claimConfig", possible, effect, UNCHANGED files)
    BY DEF ClaimConfig
  <2> HIDE DEF E, possible, effect, untouched
  <2>3. /\ rec' = rec
        /\ \/ possible /\ effect /\ Advance("claimConfig")
           \/ UNCHANGED files /\ Failed("claimConfig", "no", run.synced)
           \/ /\ (possible /\ effect) \/ UNCHANGED files
              /\ \E how \in {"moved", "unknown"} : Failed("claimConfig", how, run.synced)
    BY <2>2 DEF Try
  <2> QED BY <2>1, <2>3
<1>3. E => Done("claimConfig")
  BY DEF Done, MoveStep, NoteStep, files
<1>4. C => Left("claimConfig")
  BY DEF Left, files
<1>5. UNCHANGED <<files, rec>> => Touched("claimConfig")
  BY DEF Touched, files
<1> HIDE DEF E, C
<1> QED BY <1>1, <1>2, <1>3, <1>4, <1>5, DoneTouches DEF StepForm, Forms, How

(* Restoring it has the form of a step.                                     *)
LEMMA RestoreConfigForm ==
    ASSUME RestoreConfig, run.synced \in BOOLEAN, run.tx \in Tx, SideOK
    PROVE  StepForm("undoConfig")
<1> DEFINE E == /\ config' = IF "bak" \in side[run.tx] THEN plan[run.tx].config ELSE config
                /\ side' = [side EXCEPT ![run.tx] = {}]
                /\ UNCHANGED <<tree, report, kept, journal, rec>>
           C == UNCHANGED <<files, rec>>
<1>1. At("undoConfig") /\ UNCHANGED FromOutside /\ (faults' = faults \/ Fault)
  BY DEF RestoreConfig, Try
<1>2. \/ E /\ Advance("undoConfig")
      \/ C /\ Failed("undoConfig", "no", run.synced)
      \/ (E \/ UNCHANGED <<files, rec>>) /\ \E how \in {"moved", "unknown"} : Failed("undoConfig", how, run.synced)
  BY DEF RestoreConfig, Try, files
<1>3. E => Done("undoConfig")
  BY DEF Done, MoveStep, NoteStep, files
<1>4. C => Left("undoConfig")
  BY DEF Left, files
<1>5. UNCHANGED <<files, rec>> => Touched("undoConfig")
  BY DEF Touched, files
<1> HIDE DEF E, C
<1> QED BY <1>1, <1>2, <1>3, <1>4, <1>5, DoneTouches DEF StepForm, Forms, How

(* Finishing it has the form of a step.                                     *)
LEMMA FinalizeConfigForm ==
    ASSUME FinalizeConfig, run.synced \in BOOLEAN, run.tx \in Tx, SideOK
    PROVE  StepForm("endConfig")
<1> DEFINE E == /\ side' = [side EXCEPT ![run.tx] = {}]
                /\ UNCHANGED <<tree, config, report, kept, journal, rec>>
           C == UNCHANGED <<files, rec>>
<1>1. At("endConfig") /\ UNCHANGED FromOutside /\ (faults' = faults \/ Fault)
  BY DEF FinalizeConfig, Try
<1>2. \/ E /\ Advance("endConfig")
      \/ C /\ Failed("endConfig", "no", run.synced)
      \/ (E \/ UNCHANGED <<files, rec>>) /\ \E how \in {"moved", "unknown"} : Failed("endConfig", how, run.synced)
  BY DEF FinalizeConfig, Try, files
<1>3. E => Done("endConfig")
  BY DEF Done, MoveStep, NoteStep, files
<1>4. C => Left("endConfig")
  BY DEF Left, files
<1>5. UNCHANGED <<files, rec>> => Touched("endConfig")
  BY DEF Touched, files
<1> HIDE DEF E, C
<1> QED BY <1>1, <1>2, <1>3, <1>4, <1>5, DoneTouches DEF StepForm, Forms, How

(* Keeping the report has the form of a step.                               *)
LEMMA KeepReportForm ==
    ASSUME KeepReport, run.synced \in BOOLEAN, run.tx \in Tx, SideOK
    PROVE  StepForm("keep")
<1> DEFINE E == /\ kept' = [kept EXCEPT ![run.tx] = report]
                /\ UNCHANGED <<tree, config, side, report, journal, rec>>
           C == UNCHANGED <<files, rec>>
<1>1. At("keep") /\ UNCHANGED FromOutside /\ (faults' = faults \/ Fault)
  BY DEF KeepReport, Try
<1>2. \/ E /\ Advance("keep")
      \/ C /\ Failed("keep", "no", run.synced)
      \/ (E \/ UNCHANGED <<files, rec>>) /\ \E how \in {"moved", "unknown"} : Failed("keep", how, run.synced)
  BY DEF KeepReport, Try, files
<1>3. E => Done("keep")
  BY DEF Done, MoveStep, NoteStep, files
<1>4. C => Left("keep")
  BY DEF Left, files
<1>5. UNCHANGED <<files, rec>> => Touched("keep")
  BY DEF Touched, files
<1> HIDE DEF E, C
<1> QED BY <1>1, <1>2, <1>3, <1>4, <1>5, DoneTouches DEF StepForm, Forms, How

(* Publishing it has the form of a step.                                    *)
LEMMA PublishReportForm ==
    ASSUME PublishReport, run.synced \in BOOLEAN, run.tx \in Tx, SideOK
    PROVE  StepForm("report")
<1> DEFINE E == /\ report = kept[run.tx] /\ report' = run.tx
                /\ UNCHANGED <<tree, config, side, kept, journal, rec>>
           C == /\ kept' = [kept EXCEPT ![run.tx] = Nothing]
                /\ UNCHANGED <<tree, config, side, report, journal, rec>>
<1>1. At("report") /\ UNCHANGED FromOutside /\ (faults' = faults \/ Fault)
  BY DEF PublishReport, Try
<1>2. \/ E /\ Advance("report")
      \/ C /\ Failed("report", "no", run.synced)
      \/ (E \/ UNCHANGED <<files, rec>>) /\ \E how \in {"moved", "unknown"} : Failed("report", how, run.synced)
  BY DEF PublishReport, Try, files
<1>3. E => Done("report")
  BY DEF Done, MoveStep, NoteStep, files
<1>4. C => Left("report")
  BY DEF Left, files
<1>5. UNCHANGED <<files, rec>> => Touched("report")
  BY DEF Touched, files
<1> HIDE DEF E, C
<1> QED BY <1>1, <1>2, <1>3, <1>4, <1>5, DoneTouches DEF StepForm, Forms, How

(* Restoring it has the form of a step.                                     *)
LEMMA RestoreReportForm ==
    ASSUME RestoreReport, run.synced \in BOOLEAN, run.tx \in Tx, SideOK
    PROVE  StepForm("undoReport")
<1> DEFINE E == /\ kept[run.tx] # Nothing /\ report' = kept[run.tx]
                /\ kept' = [kept EXCEPT ![run.tx] = Nothing]
                /\ UNCHANGED <<tree, config, side, journal, rec>>
           C == UNCHANGED <<files, rec>>
<1>1. At("undoReport") /\ UNCHANGED FromOutside /\ (faults' = faults \/ Fault)
  BY DEF RestoreReport, Try
<1>2. \/ E /\ Advance("undoReport")
      \/ C /\ Failed("undoReport", "no", run.synced)
      \/ (E \/ UNCHANGED <<files, rec>>) /\ \E how \in {"moved", "unknown"} : Failed("undoReport", how, run.synced)
  BY DEF RestoreReport, Try, files
<1>3. E => Done("undoReport")
  BY DEF Done, MoveStep, NoteStep, files
<1>4. C => Left("undoReport")
  BY DEF Left, files
<1>5. UNCHANGED <<files, rec>> => Touched("undoReport")
  BY DEF Touched, files
<1> HIDE DEF E, C
<1> QED BY <1>1, <1>2, <1>3, <1>4, <1>5, DoneTouches DEF StepForm, Forms, How

(* Finishing it has the form of a step.                                     *)
LEMMA FinalizeReportForm ==
    ASSUME FinalizeReport, run.synced \in BOOLEAN, run.tx \in Tx, SideOK
    PROVE  StepForm("endReport")
<1> DEFINE E == /\ kept' = [kept EXCEPT ![run.tx] = Nothing]
                /\ UNCHANGED <<tree, config, side, report, journal, rec>>
           C == UNCHANGED <<files, rec>>
<1>1. At("endReport") /\ UNCHANGED FromOutside /\ (faults' = faults \/ Fault)
  BY DEF FinalizeReport, Try
<1>2. \/ E /\ Advance("endReport")
      \/ C /\ Failed("endReport", "no", run.synced)
      \/ (E \/ UNCHANGED <<files, rec>>) /\ \E how \in {"moved", "unknown"} : Failed("endReport", how, run.synced)
  BY DEF FinalizeReport, Try, files
<1>3. E => Done("endReport")
  BY DEF Done, MoveStep, NoteStep, files
<1>4. C => Left("endReport")
  BY DEF Left, files
<1>5. UNCHANGED <<files, rec>> => Touched("endReport")
  BY DEF Touched, files
<1> HIDE DEF E, C
<1> QED BY <1>1, <1>2, <1>3, <1>4, <1>5, DoneTouches DEF StepForm, Forms, How

(* The append of the record has the form of a step.                         *)
LEMMA AppendForm ==
    ASSUME AppendRecord, run.synced \in BOOLEAN, run.tx \in Tx, SideOK
    PROVE  StepForm("record")
<1> DEFINE E == /\ journal' = <<run.tx>> \o journal
                /\ UNCHANGED <<tree, config, side, report, kept, rec>>
           C == UNCHANGED <<files, rec>>
<1>1. At("record") /\ UNCHANGED FromOutside /\ (faults' = faults \/ Fault)
  BY DEF AppendRecord, Try
<1>2. \/ E /\ Advance("record")
      \/ C /\ Failed("record", "no", run.synced)
      \/ (E \/ UNCHANGED <<files, rec>>) /\ \E how \in {"moved", "unknown"} : Failed("record", how, run.synced)
  BY DEF AppendRecord, Try, files
<1>3. E => Done("record")
  BY DEF Done, MoveStep, NoteStep, files
<1>4. C => Left("record")
  BY DEF Left, files
<1>5. UNCHANGED <<files, rec>> => Touched("record")
  BY DEF Touched, files
<1> HIDE DEF E, C
<1> QED BY <1>1, <1>2, <1>3, <1>4, <1>5, DoneTouches DEF StepForm, Forms, How

(* A move has the form of a step.                                           *)
LEMMA MoveForm ==
    ASSUME NEW s \in MoveStep, MoveTree(s), run.synced \in BOOLEAN, run.tx \in Tx, SideOK
    PROVE  StepForm(s)
<1> DEFINE E == Moved(s) /\ UNCHANGED <<config, side, report, kept, journal, rec>>
<1>1. At(s) /\ UNCHANGED FromOutside /\ (faults' = faults \/ Fault)
  BY DEF MoveTree, Try
<1>2. \/ E /\ Advance(s)
      \/ UNCHANGED <<files, rec>> /\ Failed(s, "no", run.synced)
      \/ (E \/ UNCHANGED <<files, rec>>) /\ \E how \in {"moved", "unknown"} : Failed(s, how, run.synced)
  BY DEF MoveTree, Try, files, Moved
<1>3. E => Done(s)
  BY DEF Done, MoveStep, NoteStep
<1>4. UNCHANGED <<files, rec>> => Left(s)
  BY DEF Left, files, MoveStep
<1>5. UNCHANGED <<files, rec>> => Touched(s)
  BY DEF Touched, files
<1> HIDE DEF E
<1> QED BY <1>1, <1>2, <1>3, <1>4, <1>5, DoneTouches DEF StepForm, Forms, How

(* An append to the recovery log has the form of a step.                    *)
LEMMA NoteForm ==
    ASSUME NEW s \in NoteStep, Note(s), run.synced \in BOOLEAN, run.tx \in Tx, SideOK
    PROVE  StepForm(s)
<1> DEFINE t == run.tx
           n == Noted(s, rec[t])
           Forget ==
               /\ side' = IF run.phase = "forward" /\ s = "config*"
                          THEN [side EXCEPT ![t] = {}] ELSE side
               /\ kept' = IF run.phase = "forward" /\ s = "report*"
                          THEN [kept EXCEPT ![t] = Nothing] ELSE kept
               /\ UNCHANGED <<tree, config, report, journal>>
<1>1. At(s) /\ UNCHANGED FromOutside /\ (faults' = faults \/ Fault)
  BY DEF Note
<1>2. \/ Advance(s) /\ Noting(s) /\ UNCHANGED files
      \/ Forget /\ rec' = rec /\ Failed(s, "no", run.synced)
      \/ Forget /\ Noting(s) /\ Failed(s, "unknown", FALSE)
      \/ Forget /\ rec' = rec /\ Failed(s, "unknown", run.synced)
  BY DEF Note, Noting
<1>3. Noting(s) /\ UNCHANGED files => Done(s)
  BY DEF Done, MoveStep, NoteStep, files
<1>4. Forget /\ rec' = rec => Left(s)
  BY DEF Left, NoteStep
<1>5. Forget /\ (rec' = rec \/ Noting(s)) => Touched(s)
  BY DEF Touched
<1> HIDE DEF n, Forget
<1> QED BY <1>1, <1>2, <1>3, <1>4, <1>5 DEF StepForm, Forms, How

(* Revalidation has the form of a step.                                     *)
LEMMA RevalidateForm ==
    ASSUME Revalidate
    PROVE  StepForm("check")
<1>1. At("check") /\ UNCHANGED FromOutside /\ faults' = faults /\ UNCHANGED <<files, rec>>
  BY DEF Revalidate
<1>2. (Fresh(run.tx) /\ Advance("check")) \/ Failed("check", "no", TRUE)
  BY DEF Revalidate
<1>3. Fresh(run.tx) => Done("check")
  BY <1>1 DEF Done, MoveStep, NoteStep, files
<1>4. Left("check")
  BY <1>1 DEF Left, files
<1> QED BY <1>1, <1>2, <1>3, <1>4 DEF StepForm, Forms

(* An entry of the tree to be deleted is torn off.                          *)
Tearing ==
    /\ At("delete") /\ tree[PlaceOf("cleanup", run.tx)] \notin {Nothing, Torn}
    /\ tree' = [tree EXCEPT ![PlaceOf("cleanup", run.tx)] = Torn]
    /\ run' = [run EXCEPT !.did = @ \cup {"tear"}]
    /\ UNCHANGED <<config, side, report, kept, journal, rec, faults, FromOutside>>

(* Every step of a run ends it, tears a tree or has the form of a step.     *)
LEMMA StepForms ==
    ASSUME Step, RunOK, OwnOnly, SideOK
    PROVE  End \/ Tearing \/ \E s : StepForm(s)
<1>1. run.synced \in BOOLEAN
  BY DEF RunOK, RunType
<1>2. \A s : At(s) => run.tx \in Tx
  BY AtHead DEF OwnOnly
<1>3. CASE StageTree
  BY <1>3, <1>1, <1>2, StageForm DEF StageTree, Try
<1>4. CASE ProveInstalled
  BY <1>4, <1>1, <1>2, ProveForm DEF ProveInstalled, Try
<1>5. CASE DeleteTree
  BY <1>5, <1>1, <1>2, DeleteForm DEF DeleteTree, Try
<1>6. CASE InspectConfig
  BY <1>6, <1>1, <1>2, InspectForm DEF InspectConfig, Try
<1>7. CASE StageConfig
  BY <1>7, <1>1, <1>2, StageConfigForm DEF StageConfig, Try
<1>8. CASE PublishConfig
  BY <1>8, <1>1, <1>2, PublishConfigForm DEF PublishConfig, Try
<1>9. CASE ClaimConfig
  BY <1>9, <1>1, <1>2, ClaimConfigForm DEF ClaimConfig, Try
<1>10. CASE RestoreConfig
  BY <1>10, <1>1, <1>2, RestoreConfigForm DEF RestoreConfig, Try
<1>11. CASE FinalizeConfig
  BY <1>11, <1>1, <1>2, FinalizeConfigForm DEF FinalizeConfig, Try
<1>12. CASE KeepReport
  BY <1>12, <1>1, <1>2, KeepReportForm DEF KeepReport, Try
<1>13. CASE PublishReport
  BY <1>13, <1>1, <1>2, PublishReportForm DEF PublishReport, Try
<1>14. CASE RestoreReport
  BY <1>14, <1>1, <1>2, RestoreReportForm DEF RestoreReport, Try
<1>15. CASE FinalizeReport
  BY <1>15, <1>1, <1>2, FinalizeReportForm DEF FinalizeReport, Try
<1>16. CASE AppendRecord
  BY <1>16, <1>1, <1>2, AppendForm DEF AppendRecord, Try
<1>17. ASSUME NEW s \in MoveStep, MoveTree(s) PROVE StepForm(s)
  BY <1>17, <1>1, <1>2, MoveForm DEF MoveTree, Try
<1>18. ASSUME NEW s \in NoteStep, Note(s) PROVE StepForm(s)
  BY <1>18, <1>1, <1>2, NoteForm DEF Note
<1>19. CASE Revalidate
  BY <1>19, RevalidateForm
<1>20. CASE TearTree
  BY <1>20 DEF TearTree, Tearing
<1> QED BY <1>3, <1>4, <1>5, <1>6, <1>7, <1>8, <1>9, <1>10, <1>11, <1>12, <1>13, <1>14, <1>15, <1>16, <1>17, <1>18, <1>19, <1>20 DEF Step

-----------------------------------------------------------------------------
(* Types.                                                                   *)

(* The trees there are at the companion path.                               *)
Trees == {Nothing, Base, User} \cup Tx

(* The files have their types.                                              *)
FilesOK ==
    /\ claimed \subseteq Tx
    /\ tree \in [Place -> Trees \cup {Torn}]
    /\ config \in Trees
    /\ SideOK
    /\ report \in {Base} \cup Tx /\ kept \in [Tx -> {Nothing, Base} \cup Tx]
    /\ journal \in Seq({Base, Other} \cup Tx)

(* The counters are within their bounds.                                    *)
BoundsOK == faults \in 0..FaultLimit /\ crashes \in 0..CrashLimit /\ edits \in 0..EditLimit

(* The states of the recovery log.                                          *)
States == {"none", "prepared", "mutating", "recovery-required", "rolled-back",
           "committed", "cleanup-pending", "closed"}

(* What a state of the recovery log is.                                     *)
RecType ==
    [state : States, seq : Nat, bound : BOOLEAN,
     proof : [Role -> {"none", "stage", "backup", "companion", "cleanup"}],
     art : SUBSET {"config", "report"}, steps : SUBSET {"config", "report", "tree"}]

(* The recovery log has its type; a backup is proved at one of its places,  *)
(* and nothing is bound before mutation begins.                             *)
RecOK ==
    /\ rec \in [Tx -> RecType]
    /\ \A t \in Tx : /\ rec[t].proof["backup"] # "stage"
                     /\ rec[t].state \in {"none", "prepared"} => ~rec[t].bound

(* A reviewed plan replaces a tree, or finds none, as its kind says; it     *)
(* never found what only it will bring.                                     *)
PlanOK ==
    \A t \in Tx :
        \/ plan[t] = NoPlan
        \/ /\ plan[t].kind \in {"create", "upgrade", "none", "retain", "remove"}
           /\ plan[t].hook \in BOOLEAN
           /\ plan[t].tree \in Trees \ {t} /\ plan[t].config \in Trees \ {t}
           /\ plan[t].kind \in {"upgrade", "remove"} => plan[t].tree # Nothing
           /\ plan[t].kind = "create" => plan[t].tree = Nothing

(* A plan that was not applied yet has left no trace anywhere.              *)
Unused ==
    \A t \in Tx \ claimed :
        /\ rec[t] = NoRecord /\ ~Recorded(t) /\ config # t /\ report # t
        /\ \A q \in Place : tree[q] # t
        /\ \A u \in Tx : kept[u] # t /\ plan[u].tree # t /\ plan[u].config # t
        /\ side[t] = {} /\ kept[t] = Nothing
        /\ \A name \in {"stage", "backup", "cleanup"} : tree[PlaceOf(name, t)] = Nothing
        /\ run.tx # t /\ advice.tx # t /\ receipt.tx # t

(* Only what was reviewed is applied.                                       *)
Planned == plan = [t \in Tx |-> plan[t]] /\ \A t \in claimed : plan[t] # NoPlan

(* Only a tree to be deleted is ever torn.                                  *)
TornWhere == \A q \in Place : tree[q] = Torn => \E t \in Tx : q = PlaceOf("cleanup", t)

(* The names are distinct.                                                  *)
LEMMA Distinct ==
    /\ Nothing \notin {Base, Other, User, Torn} /\ Base \notin {Nothing, Other, User, Torn}
    /\ Other \notin {Nothing, Base, User, Torn} /\ User \notin {Nothing, Base, Other, Torn}
    /\ Torn \notin {Nothing, Base, Other, User}
    /\ \A t \in Tx : t \notin {Nothing, Base, Other, User, Torn}
<1>1. IsFiniteSet({Nothing}) /\ Cardinality({Nothing}) = 1
  BY FS_Singleton
<1>2. IsFiniteSet({Nothing, Base})
      /\ Cardinality({Nothing, Base}) = IF Base = Nothing THEN 1 ELSE 2
  <2>1. {Nothing, Base} = {Nothing} \cup {Base}
    OBVIOUS
  <2> QED BY <1>1, <2>1, FS_AddElement
<1>3. /\ IsFiniteSet({Nothing, Base, Other})
      /\ Cardinality({Nothing, Base, Other})
            = IF Other \in {Nothing, Base} THEN Cardinality({Nothing, Base})
              ELSE Cardinality({Nothing, Base}) + 1
  <2>1. {Nothing, Base, Other} = {Nothing, Base} \cup {Other}
    OBVIOUS
  <2> QED BY <1>2, <2>1, FS_AddElement
<1>4. /\ IsFiniteSet({Nothing, Base, Other, User})
      /\ Cardinality({Nothing, Base, Other, User})
            = IF User \in {Nothing, Base, Other} THEN Cardinality({Nothing, Base, Other})
              ELSE Cardinality({Nothing, Base, Other}) + 1
  <2>1. {Nothing, Base, Other, User} = {Nothing, Base, Other} \cup {User}
    OBVIOUS
  <2> QED BY <1>3, <2>1, FS_AddElement
<1>5. Cardinality({Nothing, Base, Other, User, Torn})
         = IF Torn \in {Nothing, Base, Other, User} THEN Cardinality({Nothing, Base, Other, User})
           ELSE Cardinality({Nothing, Base, Other, User}) + 1
  <2>1. {Nothing, Base, Other, User, Torn} = {Nothing, Base, Other, User} \cup {Torn}
    OBVIOUS
  <2> QED BY <1>4, <2>1, FS_AddElement
<1>6. Cardinality({Nothing, Base, Other, User, Torn}) = 5
  BY NamesAreDistinct
<1>7. Base # Nothing /\ Other \notin {Nothing, Base} /\ User \notin {Nothing, Base, Other}
      /\ Torn \notin {Nothing, Base, Other, User}
  BY <1>2, <1>3, <1>4, <1>5, <1>6
<1> QED BY <1>7, NamesAreDistinct

(* The places of the transactions are distinct.                             *)
LEMMA Places ==
    /\ Home \in Place
    /\ \A t \in Tx : /\ PlaceOf("companion", t) = Home
                     /\ PlaceOf("stage", t) \in Place /\ PlaceOf("backup", t) \in Place
                     /\ PlaceOf("cleanup", t) \in Place
                     /\ Home \notin {PlaceOf("stage", t), PlaceOf("backup", t), PlaceOf("cleanup", t)}
                     /\ PlaceOf("stage", t) # PlaceOf("backup", t)
                     /\ PlaceOf("stage", t) # PlaceOf("cleanup", t)
                     /\ PlaceOf("backup", t) # PlaceOf("cleanup", t)
    /\ \A t, u \in Tx : t # u => \A n, m \in {"stage", "backup", "cleanup"} :
          PlaceOf(n, t) # PlaceOf(m, u)
BY DEF Home, Place, PlaceOf

(* A step is one of a run, and touches no more than it may.                 *)
LEMMA FormTouches ==
    ASSUME NEW s, StepForm(s), RunOK, OwnOnly, SideOK
    PROVE  Touched(s) /\ run.tx \in Tx /\ run.phase \in Busy
<1>1. At(s) /\ UNCHANGED FromOutside /\ Forms(s)
  BY DEF StepForm
<1>2. run.phase \in Busy
  BY <1>1, AtHead
<1>3. run.tx \in Tx
  BY <1>2 DEF OwnOnly
<1>4. Done(s) \/ Left(s) \/ Touched(s)
  BY <1>1 DEF Forms
<1> QED BY <1>2, <1>3, <1>4, DoneTouches, LeftTouches

(* An append keeps the recovery log in its type.                            *)
LEMMA NotingOK ==
    ASSUME RecOK, run.tx \in Tx, NEW s \in NoteStep, Noting(s)
    PROVE  RecOK'
<1> DEFINE t == run.tx
           r == rec[t]
           n == Noted(s, r)
           next == [r EXCEPT !.seq = @ + 1]
<1>1. r \in RecType
  BY DEF RecOK
<1>2. next \in RecType /\ next.proof = r.proof
  BY <1>1 DEF RecType
<1>3. \A R \in RecType, v \in States : [R EXCEPT !.state = v] \in RecType
  BY DEF RecType
<1>4. n \in RecType /\ n.proof["backup"] # "stage"
  <2>1. r.proof["backup"] # "stage" /\ next.proof["backup"] # "stage"
    BY <1>2 DEF RecOK
  <2>2. ASSUME NEW f \in Role, NEW v \in {"stage", "backup", "companion", "cleanup"},
               NEW st \in States, n = [next EXCEPT !.state = st, !.proof[f] = v],
               f = "backup" => v # "stage"
        PROVE  n \in RecType /\ n.proof["backup"] # "stage"
    <3>1. [next.proof EXCEPT ![f] = v]
             \in [Role -> {"none", "stage", "backup", "companion", "cleanup"}]
      BY <1>2 DEF RecType
    <3>2. [next.proof EXCEPT ![f] = v]["backup"] # "stage"
      BY <1>2, <2>1, <2>2 DEF RecType, Role
    <3>3. n.proof = [next.proof EXCEPT ![f] = v] /\ n.state = st /\ n.seq = next.seq
          /\ n.bound = next.bound /\ n.art = next.art /\ n.steps = next.steps
      BY <1>2, <2>2 DEF RecType
    <3>4. n \in RecType
      BY <1>2, <2>2, <3>1 DEF RecType
    <3> QED BY <3>2, <3>3, <3>4
  <2>3. ASSUME NEW a \in {"config", "report"}, n = [next EXCEPT !.state = "mutating", !.art = @ \cup {a}]
        PROVE  n \in RecType /\ n.proof["backup"] # "stage"
    <3>1. next.art \cup {a} \in SUBSET {"config", "report"} /\ "mutating" \in States
      BY <1>2 DEF RecType, States
    <3> DEFINE A == next.art \cup {a}
    <3>2. n = [next EXCEPT !.state = "mutating", !.art = A]
      BY <2>3
    <3> HIDE DEF A, n, next
    <3>3. A \in SUBSET {"config", "report"}
      BY <3>1 DEF A
    <3> QED BY <1>2, <2>1, <3>1, <3>2, <3>3 DEF RecType
  <2>4. ASSUME NEW a \in {"config", "report", "tree"}, n = [next EXCEPT !.steps = @ \cup {a}]
        PROVE  n \in RecType /\ n.proof["backup"] # "stage"
    <3>1. next.steps \cup {a} \in SUBSET {"config", "report", "tree"}
      BY <1>2 DEF RecType
    <3> DEFINE A == next.steps \cup {a}
    <3>2. n = [next EXCEPT !.steps = A]
      BY <2>4
    <3> HIDE DEF A, n, next
    <3>3. A \in SUBSET {"config", "report", "tree"}
      BY <3>1 DEF A
    <3> QED BY <1>2, <2>1, <3>2, <3>3 DEF RecType
  <2>5. ASSUME NEW st \in States, n = [next EXCEPT !.state = st]
        PROVE  n \in RecType /\ n.proof["backup"] # "stage"
    BY <1>2, <2>1, <2>5 DEF RecType
  <2>6. ASSUME n = [next EXCEPT !.state = "mutating", !.bound = TRUE]
        PROVE  n \in RecType /\ n.proof["backup"] # "stage"
    BY <1>2, <2>1, <2>6 DEF RecType, States
  <2>7. CASE s = "bind"
    BY <2>6, <2>7 DEF Noted
  <2>8. CASE s = "stage*"
    <3>1. n = [next EXCEPT !.state = "mutating", !.proof["stage"] = "stage"]
      BY <2>8 DEF Noted
    <3> QED BY <2>2, <3>1 DEF States, Role
  <2>9. CASE s \in {"backup*", "remove*", "unmoved*"}
    <3>1. \E v \in {"backup", "companion", "cleanup"} :
             n = [next EXCEPT !.state = "mutating", !.proof["backup"] = v]
      BY <2>9 DEF Noted
    <3> QED BY <2>2, <3>1 DEF States, Role
  <2>10. CASE s = "install*"
    <3>1. n = [next EXCEPT !.state = "mutating", !.proof["installed"] = "companion"]
      BY <2>10 DEF Noted
    <3> QED BY <2>2, <3>1 DEF States, Role
  <2>11. CASE s = "cleanup*"
    <3>1. n = [next EXCEPT !.state = "committed", !.proof["cleanup"] = "cleanup"]
      BY <2>11 DEF Noted
    <3> QED BY <2>2, <3>1 DEF States, Role
  <2>12. CASE s \in {"config*", "report*"}
    <3>1. \E a \in {"config", "report"} : n = [next EXCEPT !.state = "mutating", !.art = @ \cup {a}]
      BY <2>12 DEF Noted
    <3> QED BY <2>3, <3>1
  <2>13. CASE s \in {"endReport*", "endTree*", "endConfig*"}
    <3>1. \E a \in {"config", "report", "tree"} : n = [next EXCEPT !.steps = @ \cup {a}]
      BY <2>13 DEF Noted
    <3> QED BY <2>4, <3>1
  <2>14. CASE s \in {"committed", "recovery-required", "rolled-back", "cleanup-pending", "closed"}
    <3>1. n = [next EXCEPT !.state = s] /\ s \in States
      BY <2>14 DEF Noted, States
    <3> QED BY <2>5, <3>1
  <2> QED BY <2>7, <2>8, <2>9, <2>10, <2>11, <2>12, <2>13, <2>14 DEF NoteStep
<1>5. n.state \in Allowed(r.state)
  BY DEF Noting, Legal
<1>6. n.state \notin {"none", "prepared"}
  BY <1>5 DEF Allowed
<1>7. rec' = [rec EXCEPT ![t] = n]
  BY DEF Noting
<1> HIDE DEF n
<1> QED BY <1>4, <1>6, <1>7 DEF RecOK

(* The places a transaction uses.                                           *)
Own(t) == {Home, PlaceOf("stage", t), PlaceOf("backup", t), PlaceOf("cleanup", t)}

(* The types, and what the queues are.                                      *)
TInv ==
    /\ FilesOK /\ BoundsOK /\ RunOK /\ RecOK /\ PlanOK /\ Unused /\ Planned /\ TornWhere /\ QueueOK

(* What a plan found.                                                       *)
LEMMA PlanFields ==
    ASSUME PlanOK, NEW t \in Tx
    PROVE  plan[t].tree \in Trees \ {t} /\ plan[t].config \in Trees \ {t}
<1>1. CASE plan[t] = NoPlan
  <2>1. NoPlan.tree = Nothing /\ NoPlan.config = Nothing
    BY DEF NoPlan
  <2> QED BY <1>1, <2>1, Distinct DEF Trees
<1>2. CASE plan[t] # NoPlan
  BY <1>2 DEF PlanOK
<1> QED BY <1>1, <1>2

(* A move stays within the places of the transaction.                       *)
LEMMA RouteOK ==
    ASSUME RecOK, run.tx \in Tx, NEW s \in MoveStep
    PROVE  LET w == Route(s, run.tx) IN
           /\ w.from \in Own(run.tx) /\ w.to \in Own(run.tx) /\ w.to # PlaceOf("stage", run.tx)
           /\ w.what \in {run.tx, plan[run.tx].tree}
<1> DEFINE t == run.tx
           put == IF rec[t].proof["backup"] = "none" THEN "cleanup" ELSE rec[t].proof["backup"]
<1>1. put \in {"backup", "companion", "cleanup"}
  BY DEF RecOK, RecType, Role
<1>2. /\ PlaceOf("companion", t) = Home /\ Home # PlaceOf("stage", t)
      /\ PlaceOf("stage", t) # PlaceOf("backup", t)
      /\ PlaceOf("stage", t) # PlaceOf("cleanup", t)
  BY Places
<1>3. PlaceOf(put, t) \in Own(t)
  BY <1>1, <1>2 DEF Own
<1>4. CASE s = "putBack"
  BY <1>2, <1>3, <1>4 DEF Route, Own
<1>5. CASE s # "putBack"
  BY <1>2, <1>5 DEF Route, Own, MoveStep
<1> QED BY <1>4, <1>5

(* What a move does to every place.                                         *)
LEMMA MovedTree ==
    ASSUME FilesOK, RecOK, PlanOK, TornWhere, run.tx \in Tx, NEW s \in MoveStep, Moved(s)
    PROVE  LET w == Route(s, run.tx) IN
           /\ w.from \in Own(run.tx) /\ w.to \in Own(run.tx) /\ w.to # PlaceOf("stage", run.tx)
           /\ w.what \in {run.tx, plan[run.tx].tree}
           /\ tree[w.from] = w.what /\ tree[w.to] = Nothing
           /\ w.from \in Place /\ w.to \in Place
           /\ tree' \in [Place -> Trees \cup {Torn}]
           /\ \A q \in Place : tree'[q] = IF q = w.to THEN w.what
                                          ELSE IF q = w.from THEN Nothing ELSE tree[q]
<1> DEFINE w == Route(s, run.tx)
<1>1. /\ w.from \in Own(run.tx) /\ w.to \in Own(run.tx) /\ w.to # PlaceOf("stage", run.tx)
      /\ w.what \in {run.tx, plan[run.tx].tree}
  BY RouteOK
<1>2. w.from \in Place /\ w.to \in Place
  BY <1>1, Places DEF Own
<1>3. w.what \in Trees
  BY <1>1, PlanFields DEF Trees
<1>4. /\ tree[w.from] = w.what /\ tree[w.to] = Nothing
      /\ tree' = [tree EXCEPT ![w.from] = Nothing, ![w.to] = w.what]
  BY DEF Moved
<1> HIDE DEF w
<1>5. tree \in [Place -> Trees \cup {Torn}] /\ Nothing \in Trees
  BY DEF FilesOK, Trees
<1> QED BY <1>1, <1>2, <1>3, <1>4, <1>5 DEF w

(* A step keeps the types of the files and of the recovery log.             *)
LEMMA TouchedFiles ==
    ASSUME TInv, NEW s, Touched(s), run.tx \in Tx, UNCHANGED <<plan, claimed>>
    PROVE  FilesOK' /\ RecOK' /\ TornWhere'
<1> DEFINE t == run.tx
<1> USE DEF TInv
<1>1. tree' \in [Place -> Trees \cup {Torn}] /\ TornWhere'
  <2>1. CASE tree' = tree
    BY <2>1 DEF FilesOK, TornWhere
  <2>2. CASE s \in MoveStep /\ Moved(s)
    <3> DEFINE w == Route(s, t)
    <3>1. tree' \in [Place -> Trees \cup {Torn}]
      BY <2>2, MovedTree
    <3>2. \A q \in Place : tree'[q] = Torn => tree[q] = Torn
      <4>1. w.what # Torn
        BY <2>2, MovedTree, PlanFields, Distinct DEF Trees
      <4>2. \A q \in Place : tree'[q] = IF q = w.to THEN w.what
                                        ELSE IF q = w.from THEN Nothing ELSE tree[q]
        BY <2>2, MovedTree
      <4> HIDE DEF w
      <4> QED BY <4>1, <4>2, Distinct
    <3> QED BY <3>1, <3>2 DEF TornWhere
  <2>3. CASE tree' = [tree EXCEPT ![PlaceOf("stage", t)] = t]
    BY <2>3, Places, Distinct DEF FilesOK, Trees, TornWhere
  <2>4. ASSUME NEW v \in {Nothing, Torn}, tree' = [tree EXCEPT ![PlaceOf("cleanup", t)] = v]
        PROVE  tree' \in [Place -> Trees \cup {Torn}] /\ TornWhere'
    BY <2>4, Places, Distinct DEF FilesOK, Trees, TornWhere
  <2> QED BY <2>1, <2>2, <2>3, <2>4 DEF Touched
<1>2. config' \in Trees
  BY PlanFields DEF Touched, FilesOK, Trees
<1>3. SideOK'
  BY DEF Touched, FilesOK, SideOK
<1>4. report' \in {Base} \cup Tx /\ kept' \in [Tx -> {Nothing, Base} \cup Tx]
  BY DEF Touched, FilesOK
<1>5. journal' \in Seq({Base, Other} \cup Tx)
  <2>1. journal \in Seq({Base, Other} \cup Tx) /\ t \in {Base, Other} \cup Tx
    BY DEF FilesOK
  <2> DEFINE R == {Base, Other} \cup Tx
  <2>2. \A x \in R, q \in Seq(R) : <<x>> \o q \in Seq(R)
    OBVIOUS
  <2>3. journal' = journal \/ journal' = <<t>> \o journal
    BY DEF Touched
  <2> QED BY <2>1, <2>2, <2>3
<1>6. RecOK'
  BY NotingOK DEF Touched, RecOK
<1> QED BY <1>1, <1>2, <1>3, <1>4, <1>5, <1>6 DEF FilesOK

(* What is recorded after an append to the journal.                         *)
LEMMA RecordedAfter ==
    ASSUME FilesOK, NEW t \in Tx, NEW u, journal' = <<t>> \o journal
    PROVE  /\ Recorded(u)' <=> (u = t \/ Recorded(u))
           /\ RecordHead' = t
<1>1. journal \in Seq({Base, Other} \cup Tx)
  BY DEF FilesOK
<1>2. Len(journal') = Len(journal) + 1 /\ journal'[1] = t /\ Len(journal) \in Nat
      /\ \A i \in 1..Len(journal) : journal'[i + 1] = journal[i]
  BY <1>1
<1>3. \A i \in 1..Len(journal') : i = 1 \/ (i - 1 \in 1..Len(journal) /\ journal'[i] = journal[i - 1])
  BY <1>1
<1>4. \A i \in 1..Len(journal) : i + 1 \in 1..Len(journal')
  BY <1>2
<1>5. 1 \in 1..Len(journal')
  BY <1>2
<1>6. Recorded(u) => Recorded(u)'
  BY <1>2, <1>4 DEF Recorded
<1>7. u = t => Recorded(u)'
  BY <1>2, <1>5 DEF Recorded
<1>8. Recorded(u)' => u = t \/ Recorded(u)
  BY <1>2, <1>3 DEF Recorded
<1>9. RecordHead' = t
  BY <1>1 DEF RecordHead
<1> QED BY <1>6, <1>7, <1>8, <1>9

(* The run that is none.                                                    *)
LEMMA IdleOK ==
    /\ Idle \in RunType /\ Idle.phase = "idle" /\ Idle.tx = Nothing /\ Idle.todo = <<>>
    /\ Idle.kind = "none" /\ Idle.did = {} /\ ~Idle.warned
<1>1. Idle.phase = "idle" /\ Idle.tx = Nothing /\ Idle.todo = <<>> /\ Idle.kind = "none"
      /\ Idle.did = {} /\ ~Idle.warned
  BY DEF Idle
<1>2. <<>> \in Seq(Known)
  BY Queue0
<1>3. Idle \in RunType
  BY <1>2 DEF Idle, RunType
<1> QED BY <1>1, <1>3

(* It has nothing to do.                                                    *)
LEMMA IdleQueue ==
    ASSUME run' = Idle
    PROVE  RunOK' /\ QueueOK'
BY IdleOK DEF RunOK, QueueOK, Precise

(* A step leaves no trace of other plans.                                   *)
LEMMA TouchedUnused ==
    ASSUME TInv, NEW s, Touched(s), run.tx \in Tx, run'.tx = run.tx,
           UNCHANGED <<plan, claimed, advice, receipt>>
    PROVE  Unused'
<1> USE DEF TInv
<1> SUFFICES ASSUME NEW t \in Tx \ claimed
             PROVE
        /\ rec'[t] = NoRecord /\ ~Recorded(t)' /\ config' # t /\ report' # t
        /\ \A q \in Place : tree'[q] # t
        /\ \A u \in Tx : kept'[u] # t /\ plan[u].tree # t /\ plan[u].config # t
        /\ side'[t] = {} /\ kept'[t] = Nothing
        /\ \A name \in {"stage", "backup", "cleanup"} : tree'[PlaceOf(name, t)] = Nothing
        /\ run'.tx # t /\ advice'.tx # t /\ receipt'.tx # t
  BY DEF Unused
<1>1. /\ rec[t] = NoRecord /\ ~Recorded(t) /\ config # t /\ report # t
      /\ \A q \in Place : tree[q] # t
      /\ \A u \in Tx : kept[u] # t /\ plan[u].tree # t /\ plan[u].config # t
      /\ side[t] = {} /\ kept[t] = Nothing
      /\ \A name \in {"stage", "backup", "cleanup"} : tree[PlaceOf(name, t)] = Nothing
      /\ run.tx # t /\ advice.tx # t /\ receipt.tx # t
  BY DEF Unused
<1>2. t \notin {Nothing, Torn}
  BY Distinct
<1>3. rec'[t] = NoRecord
  BY <1>1 DEF Touched, Noting, RecOK
<1>4. ~Recorded(t)'
  <2>1. CASE journal' = journal
    BY <1>1, <2>1 DEF Recorded
  <2>2. CASE journal' = <<run.tx>> \o journal
    BY <1>1, <2>2, RecordedAfter
  <2> QED BY <2>1, <2>2 DEF Touched
<1>5. config' # t
  BY <1>1, <1>2 DEF Touched
<1>6. report' # t
  BY <1>1, <1>2 DEF Touched
<1>7. /\ \A q \in Place : tree'[q] # t
      /\ \A name \in {"stage", "backup", "cleanup"} : tree'[PlaceOf(name, t)] = Nothing
  <2>0. \A name \in {"stage", "backup", "cleanup"} :
           PlaceOf(name, t) \in Place /\ PlaceOf(name, t) \notin Own(run.tx)
    BY <1>1, Places DEF Own
  <2>1. CASE tree' = tree
    BY <1>1, <2>1
  <2>2. CASE s \in MoveStep /\ Moved(s)
    <3> DEFINE w == Route(s, run.tx)
    <3>1. w.what # t /\ w.from \in Own(run.tx) /\ w.to \in Own(run.tx)
      BY <1>1, <2>2, MovedTree
    <3>2. \A q \in Place : tree'[q] = IF q = w.to THEN w.what
                                      ELSE IF q = w.from THEN Nothing ELSE tree[q]
      BY <2>2, MovedTree
    <3> HIDE DEF w
    <3> QED BY <1>1, <1>2, <2>0, <3>1, <3>2
  <2>3. ASSUME NEW v, NEW q \in {PlaceOf("stage", run.tx), PlaceOf("cleanup", run.tx)},
               v # t, tree' = [tree EXCEPT ![q] = v]
        PROVE  /\ \A p \in Place : tree'[p] # t
               /\ \A name \in {"stage", "backup", "cleanup"} : tree'[PlaceOf(name, t)] = Nothing
    BY <1>1, <2>0, <2>3 DEF Own, FilesOK
  <2> QED BY <1>1, <1>2, <2>1, <2>2, <2>3 DEF Touched
<1>8. side'[t] = {}
  BY <1>1 DEF Touched, FilesOK, SideOK
<1>9. kept'[t] = Nothing /\ \A u \in Tx : kept'[u] # t
  BY <1>1, <1>2 DEF Touched, FilesOK
<1> QED BY <1>1, <1>3, <1>4, <1>5, <1>6, <1>7, <1>8, <1>9

(* A step of a run keeps the types.                                         *)
LEMMA FormTyped ==
    ASSUME TInv, OwnOnly, NEW s, StepForm(s)
    PROVE  TInv'
<1>1. Touched(s) /\ run.tx \in Tx
  BY FormTouches DEF TInv, FilesOK
<1>2. /\ At(s) /\ UNCHANGED FromOutside /\ (faults' = faults \/ Fault)
      /\ Advance(s) \/ \E how \in How, sy \in BOOLEAN : Failed(s, how, sy)
  BY DEF StepForm, Forms, How
<1>3. UNCHANGED <<plan, claimed, receipt, advice, crashes, edits>>
  BY <1>2 DEF FromOutside
<1>4. FilesOK' /\ RecOK' /\ TornWhere'
  BY <1>1, <1>3, TouchedFiles
<1>5. RunOK' /\ QueueOK'
  BY <1>2, <1>3, StepQueue DEF TInv
<1>6. run'.tx = run.tx
  BY <1>2, AdvanceFacts, FailedFacts DEF TInv
<1>7. Unused'
  BY <1>1, <1>3, <1>6, TouchedUnused
<1>8. PlanOK' /\ Planned'
  BY <1>3 DEF TInv, PlanOK, Planned
<1>9. BoundsOK'
  <2>1. Extra \in {0, 1}
    BY DEF Extra
  <2> QED BY <1>2, <1>3, <2>1, LimitsAreNaturals DEF TInv, BoundsOK, Fault
<1> QED BY <1>4, <1>5, <1>7, <1>8, <1>9 DEF TInv

(* So does tearing.                                                         *)
LEMMA TearTyped ==
    ASSUME TInv, OwnOnly, Tearing
    PROVE  TInv'
<1>1. At("delete") /\ run' = [run EXCEPT !.did = @ \cup {"tear"}]
      /\ UNCHANGED <<plan, claimed, receipt, advice, faults, crashes, edits>>
  BY DEF Tearing, FromOutside
<1>2. run.tx \in Tx
  BY <1>1, AtHead DEF TInv, OwnOnly
<1>3. Touched("delete")
  BY DEF Tearing, Touched
<1>4. RunOK' /\ QueueOK' /\ run'.tx = run.tx
  BY <1>1, TearQueue DEF TInv
<1>5. FilesOK' /\ RecOK' /\ TornWhere'
  BY <1>1, <1>2, <1>3, TouchedFiles
<1>6. Unused'
  BY <1>1, <1>2, <1>3, <1>4, TouchedUnused
<1>7. PlanOK' /\ Planned' /\ BoundsOK'
  BY <1>1 DEF TInv, PlanOK, Planned, BoundsOK
<1> QED BY <1>4, <1>5, <1>6, <1>7 DEF TInv

(* So does the end of a run.                                                *)
LEMMA EndTyped ==
    ASSUME TInv, OwnOnly, End
    PROVE  TInv'
<1>1. run' = Idle /\ run.phase # "idle" /\ receipt'.tx = run.tx
      /\ UNCHANGED <<plan, claimed, files, rec, advice, faults, crashes, edits>>
  BY DEF End, Answer
<1>2. RunOK' /\ QueueOK'
  BY <1>1, IdleQueue
<1>3. FilesOK' /\ RecOK' /\ TornWhere' /\ PlanOK' /\ Planned' /\ BoundsOK'
  BY <1>1 DEF TInv, FilesOK, SideOK, RecOK, TornWhere, PlanOK, Planned, BoundsOK, files
<1>4. run'.tx = Nothing
  BY <1>1, IdleOK
<1>5. Unused'
  BY <1>1, <1>4, Distinct DEF TInv, Unused, Recorded, files
<1> QED BY <1>2, <1>3, <1>5 DEF TInv

(* So does death.                                                           *)
LEMMA DieTyped ==
    ASSUME TInv, Die
    PROVE  TInv'
<1>1. run' = Idle /\ receipt' = NoReceipt /\ crashes' = crashes + 1 /\ crashes + Extra < CrashLimit
      /\ UNCHANGED <<plan, claimed, files, rec, advice, faults, edits>>
  BY DEF Die
<1>2. RunOK' /\ QueueOK'
  BY <1>1, IdleQueue
<1>3. FilesOK' /\ RecOK' /\ TornWhere' /\ PlanOK' /\ Planned'
  BY <1>1 DEF TInv, FilesOK, SideOK, RecOK, TornWhere, PlanOK, Planned, files
<1>4. run'.tx = Nothing /\ receipt'.tx = Nothing
  BY <1>1, IdleOK DEF NoReceipt
<1>5. Unused'
  BY <1>1, <1>4, Distinct DEF TInv, Unused, Recorded, files
<1>6. BoundsOK'
  <2>1. Extra \in {0, 1}
    BY DEF Extra
  <2> QED BY <1>1, <2>1, LimitsAreNaturals DEF TInv, BoundsOK
<1> QED BY <1>2, <1>3, <1>5, <1>6 DEF TInv

(* So does a person.                                                        *)
LEMMA EditTyped ==
    ASSUME TInv, EditCompanion \/ EditConfig
    PROVE  TInv'
<1>0. BoundsOK'
  <2>1. Extra \in {0, 1}
    BY DEF Extra
  <2> QED BY <2>1, LimitsAreNaturals DEF TInv, BoundsOK, EditCompanion, EditConfig
<1>1. /\ UNCHANGED <<plan, claimed, side, report, kept, journal, rec, run, advice>>
      /\ receipt'.tx = Nothing
      /\ \/ tree' = [tree EXCEPT ![Home] = User] /\ config' = config
         \/ tree' = tree /\ config' = User
  BY DEF EditCompanion, EditConfig, NoReceipt
<1>2. FilesOK' /\ TornWhere'
  BY <1>1, Places, Distinct DEF TInv, FilesOK, SideOK, TornWhere, Trees
<1>3. RunOK' /\ QueueOK'
  BY <1>1 DEF TInv, RunOK, QueueOK, Precise, Sorted, Fore, Back
<1>4. RecOK' /\ PlanOK' /\ Planned'
  BY <1>1 DEF TInv, RecOK, PlanOK, Planned
<1>5. Unused'
  <2> SUFFICES ASSUME NEW t \in Tx \ claimed
               PROVE  /\ config' # t /\ receipt'.tx # t
                      /\ \A q \in Place : tree'[q] # t
                      /\ \A name \in {"stage", "backup", "cleanup"} : tree'[PlaceOf(name, t)] = Nothing
    BY <1>1 DEF TInv, Unused, Recorded
  <2>1. t # User /\ t # Nothing
    BY Distinct
  <2>2. \A name \in {"stage", "backup", "cleanup"} : PlaceOf(name, t) # Home /\ PlaceOf(name, t) \in Place
    BY Places
  <2>3. /\ config # t /\ \A q \in Place : tree[q] # t
        /\ \A name \in {"stage", "backup", "cleanup"} : tree[PlaceOf(name, t)] = Nothing
    BY DEF TInv, Unused
  <2>4. \A q \in Place : tree'[q] = tree[q] \/ (q = Home /\ tree'[q] = User)
    BY <1>1 DEF TInv, FilesOK
  <2>5. \A name \in {"stage", "backup", "cleanup"} : tree'[PlaceOf(name, t)] = tree[PlaceOf(name, t)]
    BY <2>2, <2>4
  <2> QED BY <1>1, <2>1, <2>3, <2>4, <2>5
<1> QED BY <1>0, <1>2, <1>3, <1>4, <1>5 DEF TInv

(* A queue stays as it is as long as the plan of its run does.              *)
LEMMA QueueUnmoved ==
    ASSUME QueueOK, UNCHANGED run, run.phase \in Busy => plan'[run.tx] = plan[run.tx]
    PROVE  QueueOK'
<1>1. CASE run.phase \in Busy
  BY <1>1 DEF QueueOK, Precise, Sorted, Fore, Back
<1>2. CASE run.phase \notin Busy
  BY <1>2 DEF QueueOK, Precise, Busy
<1> QED BY <1>1, <1>2

(* What a review may offer.                                                 *)
LEMMA OfferKnown ==
    ASSUME NEW offer \in Offers
    PROVE  /\ offer[1] \in {"create", "upgrade", "none", "retain", "remove"}
           /\ offer[2] \in BOOLEAN
           /\ offer[1] \in {"upgrade", "remove"} => tree[Home] # Nothing
           /\ offer[1] = "create" => tree[Home] = Nothing
<1>1. MayHook \subseteq BOOLEAN
  BY DEF MayHook
<1> QED BY <1>1 DEF Offers

(* A review keeps the types.                                                *)
LEMMA ReviewTyped ==
    ASSUME TInv, OwnOnly, NEW t \in Tx, Review(t)
    PROVE  TInv'
<1>1. UNCHANGED <<claimed, files, rec, run, receipt, advice, faults, crashes, edits>>
      /\ plan[t] = NoPlan
  BY DEF Review
<1>2. PICK offer \in Offers : plan' = [plan EXCEPT ![t] = Reviewed(offer[1], offer[2])]
  BY DEF Review
<1>3. t \notin claimed
  BY <1>1 DEF TInv, Planned
<1>4. /\ run.tx # t /\ tree[Home] # t /\ config # t
      /\ \A u \in Tx \ claimed : tree[Home] # u /\ config # u
  BY <1>3, Places DEF TInv, Unused
<1>5. tree[Home] \in Trees /\ config \in Trees
  BY Places DEF TInv, FilesOK, TornWhere
<1>6. plan'[t] = Reviewed(offer[1], offer[2]) /\ (\A u \in Tx : u # t => plan'[u] = plan[u])
      /\ plan' = [u \in Tx |-> plan'[u]]
  BY <1>2 DEF TInv, Planned
<1>7. /\ plan'[t].kind = offer[1] /\ plan'[t].hook = offer[2] /\ plan'[t].tree = tree[Home]
      /\ plan'[t].config = config
  BY <1>6 DEF Reviewed
<1>8. PlanOK'
  BY <1>2, <1>4, <1>5, <1>6, <1>7, OfferKnown DEF TInv, PlanOK
<1>9. Planned'
  BY <1>1, <1>3, <1>6 DEF TInv, Planned, FilesOK
<1>10. Unused'
  BY <1>1, <1>4, <1>6, <1>7 DEF TInv, Unused, Recorded, files
<1>11. QueueOK'
  BY <1>1, <1>4, <1>6, QueueUnmoved DEF TInv, OwnOnly
<1>12. RunOK' /\ FilesOK' /\ RecOK' /\ TornWhere' /\ BoundsOK'
  BY <1>1 DEF TInv, RunOK, FilesOK, SideOK, RecOK, TornWhere, BoundsOK, files
<1> QED BY <1>8, <1>9, <1>10, <1>11, <1>12 DEF TInv

(* What the beginning of an application does.                               *)
LEMMA BeginFacts ==
    ASSUME TInv, IInv, NEW t \in Tx, Begin(t)
    PROVE  /\ run = Idle /\ plan[t] # NoPlan /\ t \notin claimed /\ claimed' = claimed \cup {t}
           /\ UNCHANGED <<plan, files, advice, crashes, edits, gone, clean>>
           /\ faults' \in 0..FaultLimit
           /\ \/ /\ UNCHANGED <<rec, run>> /\ receipt'.tx = t
                 /\ receipt'.by = "apply" /\ receipt'.outcome \in {"rolled-back", "recovery-required"}
              \/ /\ NoneUnresolved /\ rec' = [rec EXCEPT ![t].state = "prepared"]
                 /\ \/ run' = run /\ receipt'.tx = t /\ receipt'.outcome = "recovery-required"
                    \/ /\ run' = [Idle EXCEPT !.kind = "apply", !.phase = "forward", !.tx = t,
                                             !.todo = Forward(plan[t])]
                       /\ receipt' = NoReceipt
<1>1. Extra \in {0, 1}
  BY DEF Extra
<1>2. run = Idle
  BY DEF Begin, TInv, RunOK
<1>3. faults' \in 0..FaultLimit
  <2>1. faults' = faults \/ Fault
    BY DEF Begin
  <2>2. faults \in 0..FaultLimit
    BY DEF TInv, BoundsOK
  <2> QED BY <1>1, <2>1, <2>2, LimitsAreNaturals DEF Fault
<1>4. \/ /\ UNCHANGED <<rec, run>> /\ receipt'.tx = t
         /\ receipt'.by = "apply" /\ receipt'.outcome \in {"rolled-back", "recovery-required"}
      \/ /\ NoneUnresolved /\ rec' = [rec EXCEPT ![t].state = "prepared"]
         /\ \/ run' = run /\ receipt'.tx = t /\ receipt'.outcome = "recovery-required"
            \/ /\ run' = [Idle EXCEPT !.kind = "apply", !.phase = "forward", !.tx = t,
                                     !.todo = Forward(plan[t])]
               /\ receipt' = NoReceipt
  BY DEF Begin, Answer
<1> QED BY <1>2, <1>3, <1>4 DEF Begin

(* The run of an application.                                               *)
LEMMA BeginRun ==
    ASSUME NEW t \in Tx,
           run' = [Idle EXCEPT !.kind = "apply", !.phase = "forward", !.tx = t,
                               !.todo = Forward(plan[t])],
           plan' = plan
    PROVE  /\ RunOK' /\ QueueOK' /\ run'.tx = t /\ run'.phase = "forward" /\ run'.did = {}
           /\ run'.kind = "apply" /\ ~run'.warned
<1>1. Forward(plan[t]) \in Seq(Known) /\ Ordered(Forward(plan[t]))
      /\ Elems(Forward(plan[t])) = ForwardSteps(plan[t])
  BY ForwardQueue DEF Within
<1>2. /\ run' \in RunType /\ run'.tx = t /\ run'.phase = "forward" /\ run'.did = {}
      /\ run'.kind = "apply" /\ ~run'.warned /\ run'.todo = Forward(plan[t])
  BY <1>1, IdleOK DEF RunType, Busy
<1>3. RunOK'
  BY <1>2 DEF RunOK
<1>4. Sorted'
  BY <1>1, <1>2 DEF Sorted
<1>5. QueueOK'
  BY <1>1, <1>2, <1>4 DEF QueueOK
<1> QED BY <1>2, <1>3, <1>5

(* The beginning of an application keeps the types.                         *)
LEMMA BeginTyped ==
    ASSUME TInv, IInv, NEW t \in Tx, Begin(t)
    PROVE  TInv'
<1>1. /\ run = Idle /\ plan[t] # NoPlan /\ t \notin claimed /\ claimed' = claimed \cup {t}
      /\ UNCHANGED <<plan, files, advice, crashes, edits>> /\ faults' \in 0..FaultLimit
      /\ \/ UNCHANGED <<rec, run>>
         \/ /\ rec' = [rec EXCEPT ![t].state = "prepared"]
            /\ \/ run' = run
               \/ run' = [Idle EXCEPT !.kind = "apply", !.phase = "forward", !.tx = t,
                                     !.todo = Forward(plan[t])]
  BY BeginFacts
<1>a. receipt'.tx \in {t, Nothing}
  <2>1. NoReceipt.tx = Nothing
    BY DEF NoReceipt
  <2>2. receipt'.tx = t \/ receipt' = NoReceipt
    BY BeginFacts
  <2> QED BY <2>1, <2>2
<1>2. RunOK' /\ QueueOK' /\ run'.tx \in {t, Nothing}
  <2>1. CASE run' = run
    BY <1>1, <2>1, IdleQueue, IdleOK
  <2>2. CASE run' # run
    BY <1>1, <2>2, BeginRun
  <2> QED BY <2>1, <2>2
<1>3. FilesOK' /\ TornWhere' /\ PlanOK' /\ Planned' /\ BoundsOK'
  BY <1>1 DEF TInv, FilesOK, SideOK, TornWhere, PlanOK, Planned, BoundsOK, files
<1>4. rec[t] \in RecType /\ ~rec[t].bound /\ rec[t].proof["backup"] # "stage"
  BY <1>1 DEF TInv, Unused, RecOK, NoRecord
<1>5. RecOK'
  <2>1. CASE rec' = rec
    BY <2>1 DEF TInv, RecOK
  <2>2. CASE rec' = [rec EXCEPT ![t].state = "prepared"]
    <3>1. [rec[t] EXCEPT !.state = "prepared"] \in RecType
      BY <1>4 DEF RecType, States
    <3> QED BY <1>4, <2>2, <3>1 DEF TInv, RecOK, RecType
  <2> QED BY <1>1, <2>1, <2>2
<1>6. Unused'
  <2> SUFFICES ASSUME NEW u \in Tx \ claimed'
               PROVE  rec'[u] = rec[u] /\ run'.tx # u /\ receipt'.tx # u
    BY <1>1, <1>a DEF TInv, Unused, Recorded, files
  <2>1. u # t /\ u # Nothing
    BY <1>1, Distinct
  <2> QED BY <1>1, <1>2, <1>a, <2>1 DEF TInv, RecOK
<1> QED BY <1>2, <1>3, <1>5, <1>6 DEF TInv

(* What the application of a recovery plan does.                            *)
LEMMA RecoveryFacts ==
    ASSUME TInv, ApplyRecovery
    PROVE  /\ run = Idle /\ advice' = NoAdvice
           /\ UNCHANGED <<plan, claimed, files, rec, faults, crashes, edits, gone, clean>>
           /\ \/ UNCHANGED <<run, receipt>>
              \/ /\ receipt' = NoReceipt /\ advice.tx \in Tx /\ Unresolved = {advice.tx}
                 /\ Way(advice.tx) = advice.way
                 /\ run' \in RunType /\ run'.tx = advice.tx /\ run'.did = {} /\ ~run'.warned
                 /\ \/ /\ advice.way = "rollback" /\ run'.phase = "rollback" /\ run'.kind = "rollback"
                       /\ run'.todo = Rollback(plan[advice.tx], rec[advice.tx])
                    \/ /\ advice.way = "finalize" /\ run'.phase = "finalize" /\ run'.kind = "finalize"
                       /\ run'.todo = Finalize(plan[advice.tx], rec[advice.tx])
<1> DEFINE t == advice.tx
<1>1. /\ run = Idle /\ advice' = NoAdvice
      /\ UNCHANGED <<plan, claimed, files, rec, faults, crashes, edits, gone, clean>>
  BY DEF ApplyRecovery, TInv, RunOK
<1>2. CASE StillReviewed(t)
  <2>1. Unresolved = {t} /\ t \in Tx /\ advice.way = Way(t) /\ advice.way \in {"rollback", "finalize"}
    BY <1>2, WayIsKnown DEF StillReviewed, Recoverable, Unresolved
  <2> DEFINE q == IF advice.way = "rollback" THEN Rollback(plan[t], rec[t]) ELSE Finalize(plan[t], rec[t])
  <2>2. q \in Seq(Known)
    BY RollbackQueue, FinalizeQueue DEF Ending
  <2>3. run' = [Idle EXCEPT !.kind = advice.way, !.phase = advice.way, !.tx = t, !.todo = q]
        /\ receipt' = NoReceipt
    BY <1>2 DEF ApplyRecovery
  <2> HIDE DEF q
  <2>4. /\ run' \in RunType /\ run'.tx = t /\ run'.did = {} /\ ~run'.warned
        /\ run'.phase = advice.way /\ run'.kind = advice.way /\ run'.todo = q
    BY <2>1, <2>2, <2>3, IdleOK DEF RunType, Busy
  <2>5. \/ advice.way = "rollback" /\ q = Rollback(plan[t], rec[t])
        \/ advice.way = "finalize" /\ q = Finalize(plan[t], rec[t])
    BY <2>1 DEF q
  <2> QED BY <1>1, <2>1, <2>3, <2>4, <2>5
<1>3. CASE ~StillReviewed(t)
  BY <1>1, <1>3 DEF ApplyRecovery
<1> QED BY <1>2, <1>3

(* What is unresolved was applied.                                          *)
LEMMA UnresolvedClaimed ==
    ASSUME Unused
    PROVE  Unresolved \subseteq claimed
BY DEF Unused, Unresolved, NoRecord

(* The application of a recovery plan keeps the types.                      *)
LEMMA RecoveryTyped ==
    ASSUME TInv, ApplyRecovery
    PROVE  TInv'
<1>1. /\ run = Idle /\ advice' = NoAdvice
      /\ UNCHANGED <<plan, claimed, files, rec, faults, crashes, edits>>
  BY RecoveryFacts
<1>2. /\ RunOK' /\ QueueOK' /\ run'.tx \in claimed \cup {Nothing}
      /\ receipt' = receipt \/ receipt' = NoReceipt
  <2>1. CASE UNCHANGED <<run, receipt>>
    BY <1>1, <2>1, IdleQueue, IdleOK
  <2>2. CASE ~UNCHANGED <<run, receipt>>
    <3> DEFINE t == advice.tx
    <3>1. /\ receipt' = NoReceipt /\ t \in Unresolved
          /\ run' \in RunType /\ run'.tx = t /\ run'.did = {} /\ ~run'.warned
          /\ \/ run'.phase = "rollback" /\ run'.todo = Rollback(plan[t], rec[t])
             \/ run'.phase = "finalize" /\ run'.todo = Finalize(plan[t], rec[t])
      BY <2>2, RecoveryFacts
    <3>2. t \in claimed
      BY <3>1, UnresolvedClaimed DEF TInv
    <3>3. RunOK'
      BY <3>1 DEF RunOK
    <3>4. QueueOK'
      BY <1>1, <3>1, RollbackQueue, FinalizeQueue DEF QueueOK, Precise, Ending
    <3> QED BY <3>1, <3>2, <3>3, <3>4
  <2> QED BY <2>1, <2>2
<1>3. FilesOK' /\ RecOK' /\ TornWhere' /\ PlanOK' /\ Planned' /\ BoundsOK'
  BY <1>1 DEF TInv, FilesOK, SideOK, RecOK, TornWhere, PlanOK, Planned, BoundsOK, files
<1>4. advice'.tx = Nothing /\ (receipt'.tx = receipt.tx \/ receipt'.tx = Nothing)
  BY <1>1, <1>2 DEF NoAdvice, NoReceipt
<1>5. Unused'
  BY <1>1, <1>2, <1>4, Distinct DEF TInv, Unused, Recorded, files
<1> QED BY <1>2, <1>3, <1>5 DEF TInv

(* So does what only looks.                                                 *)
LEMMA StillTyped ==
    ASSUME TInv,
           UNCHANGED <<plan, claimed, files, rec, run, receipt, faults, crashes, edits>>,
           advice' = advice \/ advice'.tx \in claimed
    PROVE  TInv'
<1>1. FilesOK' /\ RecOK' /\ TornWhere' /\ PlanOK' /\ Planned' /\ BoundsOK' /\ RunOK'
  BY DEF TInv, FilesOK, SideOK, RecOK, TornWhere, PlanOK, Planned, BoundsOK, RunOK, files
<1>2. QueueOK'
  BY QueueUnmoved DEF TInv
<1>3. Unused'
  BY DEF TInv, Unused, Recorded, files
<1> QED BY <1>1, <1>2, <1>3 DEF TInv

(* The types hold at first.                                                 *)
LEMMA InitTyped ==
    ASSUME Init
    PROVE  TInv
<1>1. /\ plan = [t \in Tx |-> NoPlan] /\ claimed = {} /\ side = [t \in Tx |-> {}]
      /\ report = Base /\ kept = [t \in Tx |-> Nothing] /\ rec = [t \in Tx |-> NoRecord]
      /\ run = Idle /\ receipt = NoReceipt /\ advice = NoAdvice
      /\ faults = 0 /\ crashes = 0 /\ edits = 0
  BY DEF Init
<1>2. PICK head \in {Nothing, Base, Other} :
         /\ tree = [p \in Place |-> IF p = Home /\ head # Nothing THEN Base ELSE Nothing]
         /\ config \in IF head = Base THEN {Base} ELSE {Nothing, User}
         /\ journal = IF head = Nothing THEN <<>> ELSE <<head>>
  BY DEF Init
<1>3. journal \in Seq({Base, Other} \cup Tx) /\ \A t \in Tx : ~Recorded(t)
  <2>1. CASE head = Nothing
    BY <1>2, <2>1 DEF Recorded
  <2>2. CASE head # Nothing
    <3>1. journal = <<head>> /\ head \in {Base, Other}
      BY <1>2, <2>2
    <3>2. journal \in Seq({Base, Other} \cup Tx) /\ Len(journal) = 1 /\ journal[1] = head
      BY <3>1
    <3> QED BY <3>1, <3>2, Distinct DEF Recorded
  <2> QED BY <2>1, <2>2
<1>4. FilesOK
  BY <1>1, <1>2, <1>3 DEF FilesOK, SideOK, Trees
<1>5. BoundsOK
  BY <1>1, LimitsAreNaturals DEF BoundsOK
<1>6. RunOK /\ QueueOK
  BY <1>1, IdleOK DEF RunOK, QueueOK, Precise
<1>7. RecOK
  <2>1. NoRecord \in RecType /\ ~NoRecord.bound /\ NoRecord.proof["backup"] # "stage"
    BY DEF NoRecord, RecType, States, Role
  <2> QED BY <1>1, <2>1 DEF RecOK
<1>8. PlanOK /\ Planned
  BY <1>1 DEF PlanOK, Planned
<1>9. Unused
  <2>1. NoPlan.tree = Nothing /\ NoPlan.config = Nothing
    BY DEF NoPlan
  <2>2. Idle.tx = Nothing /\ NoAdvice.tx = Nothing /\ NoReceipt.tx = Nothing
    BY IdleOK DEF NoAdvice, NoReceipt
  <2>3. \A q \in Place : tree[q] \in {Base, Nothing}
    BY <1>2
  <2>4. \A t \in Tx, name \in {"stage", "backup", "cleanup"} : tree[PlaceOf(name, t)] = Nothing
    BY <1>2, Places
  <2>5. config \in {Base, Nothing, User}
    BY <1>2
  <2> QED BY <1>1, <1>3, <2>1, <2>2, <2>3, <2>4, <2>5, Distinct DEF Unused
<1>10. TornWhere
  BY <1>2, Distinct DEF TornWhere
<1> QED BY <1>4, <1>5, <1>6, <1>7, <1>8, <1>9, <1>10 DEF TInv

(* Every step keeps the types.                                              *)
LEMMA NextTyped ==
    ASSUME TInv, IInv, [Next]_vars
    PROVE  TInv'
<1>0. OwnOnly
  BY DEF IInv
<1>1. CASE Step
  <2>1. End \/ Tearing \/ \E s : StepForm(s)
    BY <1>0, <1>1, StepForms DEF TInv, FilesOK
  <2> QED BY <1>0, <2>1, EndTyped, TearTyped, FormTyped
<1>2. CASE Die
  BY <1>2, DieTyped
<1>3. CASE EditCompanion \/ EditConfig
  BY <1>3, EditTyped
<1>4. ASSUME NEW t \in Tx, Review(t) PROVE TInv'
  BY <1>0, <1>4, ReviewTyped
<1>5. ASSUME NEW t \in Tx, Begin(t) PROVE TInv'
  BY <1>5, BeginTyped
<1>6. CASE ApplyRecovery
  BY <1>6, RecoveryTyped
<1>7. ASSUME NEW t \in Tx, ReviewRecovery(t) PROVE TInv'
  <2>1. t \in Unresolved /\ advice'.tx = t
        /\ UNCHANGED <<plan, claimed, files, rec, run, receipt, faults, crashes, edits>>
    BY <1>7 DEF ReviewRecovery, Recoverable
  <2>2. t \in claimed
    BY <2>1, UnresolvedClaimed DEF TInv
  <2> QED BY <2>1, <2>2, StillTyped
<1>8. CASE UNCHANGED vars
  BY <1>8, StillTyped DEF vars
<1> QED BY <1>1, <1>2, <1>3, <1>4, <1>5, <1>6, <1>7, <1>8 DEF Next, Around

(* They give the type invariant that the run checks.                        *)
LEMMA TypedIsTypeOK ==
    ASSUME TInv
    PROVE  TypeOK
<1>1. \A t \in Tx : /\ rec[t].seq \in Nat
                    /\ rec[t].art \subseteq {"config", "report"}
                    /\ rec[t].steps \subseteq {"config", "report", "tree"}
  BY DEF TInv, RecOK, RecType
<1>2. run.tx \in Tx \cup {Nothing}
      /\ run.phase \in {"idle", "forward", "undo", "finish", "stop", "rollback", "finalize"}
  BY DEF TInv, RunOK, RunType, Busy
<1>3. /\ claimed \subseteq Tx
      /\ tree \in [Place -> {Nothing, Base, User, Torn} \cup Tx]
      /\ config \in {Nothing, Base, User} \cup Tx
      /\ side \in [Tx -> SUBSET {"tmp", "bak"}]
      /\ report \in {Base} \cup Tx /\ kept \in [Tx -> {Nothing, Base} \cup Tx]
      /\ journal \in Seq({Base, Other} \cup Tx)
  <2>1. Trees \cup {Torn} = {Nothing, Base, User, Torn} \cup Tx /\ Trees = {Nothing, Base, User} \cup Tx
    BY DEF Trees
  <2> QED BY <2>1 DEF TInv, FilesOK, SideOK
<1>4. faults \in 0..FaultLimit /\ crashes \in 0..CrashLimit /\ edits \in 0..EditLimit
  BY DEF TInv, BoundsOK
<1> QED BY <1>1, <1>2, <1>3, <1>4 DEF TypeOK

(* The two invariants so far hold in every state.                          *)
LEMMA AlwaysTyped == Spec => [](IInv /\ TInv)
<1>1. Init => TInv
  BY InitTyped
<1>2. IInv /\ TInv /\ [Next]_vars => TInv'
  BY NextTyped
<1> QED BY <1>1, <1>2, AlwaysOwn, PTL DEF Spec

(* Every variable stays in its type, for every number of plans, of faults,  *)
(* of deaths and of edits: no sequence of steps, failures and recoveries    *)
(* brings a file, the recovery log or the run into a state that its code    *)
(* does not know.                                                           *)
THEOREM TypeOKHolds == Spec => []TypeOK
<1>1. TInv => TypeOK
  BY TypedIsTypeOK
<1> QED BY <1>1, AlwaysTyped, PTL

-----------------------------------------------------------------------------
(* What a step does to the run: it goes on, having done what it is for; or *)
(* it leaves things alone and is compensated for; or it may have touched   *)
(* what it is for, and the run stops or goes on with a warning.            *)
LEMMA StepCases ==
    ASSUME RunOK, QueueOK, NEW s, StepForm(s), OwnOnly, SideOK
    PROVE  /\ At(s) /\ run'.tx = run.tx /\ run'.kind = run.kind /\ UNCHANGED FromOutside
           /\ \/ /\ s # "record" /\ Done(s) /\ run'.phase = run.phase
                 /\ run'.did = run.did \cup {s} /\ run'.todo = Tail(run.todo) /\ run'.warned = run.warned
              \/ /\ s = "record" /\ Done(s) /\ run.phase = "forward" /\ run'.phase = "finish"
                 /\ run'.did = run.did /\ run'.warned = run.warned
              \/ /\ Left(s) /\ run.phase = "forward" /\ run'.phase = "undo"
                 /\ run'.did = run.did /\ run'.warned = run.warned
              \/ /\ Touched(s) /\ run.phase = "finish" /\ run'.phase = "finish" /\ run'.warned
              \/ /\ Touched(s) /\ run'.phase = "stop"
                 /\ Elems(run'.todo) \subseteq {"remove*", "unmoved*", "recovery-required"}
                       \cup If(run.phase \in {"undo", "rollback", "finalize"} /\ s = "restoreOld", {"putNew"})
                       \cup If(run.phase = "stop", Elems(run.todo))
<1>1. At(s) /\ UNCHANGED FromOutside /\ Forms(s)
  BY DEF StepForm
<1>2. CASE Advance(s) /\ Done(s)
  <2>1. CASE s = "record"
    BY <1>1, <1>2, <2>1, AdvanceFacts, RecordIsForward
  <2>2. CASE s # "record"
    BY <1>1, <1>2, <2>2, AdvanceFacts
  <2> QED BY <2>1, <2>2
<1>3. ASSUME Left(s), NEW sy \in BOOLEAN, Failed(s, "no", sy)
      PROVE  /\ run'.tx = run.tx /\ run'.kind = run.kind
             /\ \/ /\ Left(s) /\ run.phase = "forward" /\ run'.phase = "undo"
                   /\ run'.did = run.did /\ run'.warned = run.warned
                \/ /\ Touched(s) /\ run.phase = "finish" /\ run'.phase = "finish" /\ run'.warned
                \/ /\ Touched(s) /\ run'.phase = "stop"
                   /\ Elems(run'.todo) \subseteq {"remove*", "unmoved*", "recovery-required"}
                         \cup If(run.phase \in {"undo", "rollback", "finalize"} /\ s = "restoreOld", {"putNew"})
                         \cup If(run.phase = "stop", Elems(run.todo))
  <2>1. "no" \in How /\ Touched(s)
    BY <1>3, LeftTouches DEF How
  <2> QED BY <1>1, <1>3, <2>1, FailedFacts
<1>4. ASSUME Touched(s), NEW how \in How \ {"no"}, NEW sy \in BOOLEAN, Failed(s, how, sy)
      PROVE  /\ run'.tx = run.tx /\ run'.kind = run.kind
             /\ \/ /\ Touched(s) /\ run.phase = "finish" /\ run'.phase = "finish" /\ run'.warned
                \/ /\ Touched(s) /\ run'.phase = "stop"
                   /\ Elems(run'.todo) \subseteq {"remove*", "unmoved*", "recovery-required"}
                         \cup If(run.phase \in {"undo", "rollback", "finalize"} /\ s = "restoreOld", {"putNew"})
                         \cup If(run.phase = "stop", Elems(run.todo))
  BY <1>1, <1>4, FailedFacts
<1> HIDE DEF If
<1> QED BY <1>1, <1>2, <1>3, <1>4 DEF Forms

(* Which steps a phase has.                                                *)
LEMMA StepIn ==
    ASSUME RunOK, QueueOK, NEW s, At(s)
    PROVE  /\ run.phase \in Busy /\ s \in Elems(run.todo)
           /\ run.phase = "forward" => s \in ForwardSteps(plan[run.tx])
           /\ run.phase = "undo" => s \in UndoSteps(Fore)
           /\ run.phase \in {"finish", "finalize"} => s \in EndSteps
           /\ run.phase = "rollback" => s \in RollbackSteps(plan[run.tx])
           /\ run.phase = "stop" => s \in StopSteps
<1>1. s \in Elems(run.todo) /\ run.phase \in Busy
  BY AtHead
<1> QED BY <1>1, ForwardAt, UndoAt DEF QueueOK

(* The latest record is recorded.                                           *)
LEMMA HeadRecorded ==
    ASSUME FilesOK, NEW t \in Tx, RecordHead = t
    PROVE  Recorded(t)
<1>1. journal \in Seq({Base, Other} \cup Tx) /\ journal # <<>> /\ Head(journal) = t
  BY Distinct DEF FilesOK, RecordHead
<1> QED BY <1>1 DEF Recorded

-----------------------------------------------------------------------------
(* What is replaced is kept.                                                *)

(* The record is the commit point: before it a run may undo, after it a run *)
(* only goes on; and no answer stands while a run is in progress.           *)
Commit ==
    /\ run.phase \in {"forward", "undo", "rollback"} => ~Recorded(run.tx)
    /\ run.phase \in {"finish", "finalize"} => RecordHead = run.tx
    /\ run.phase = "stop" /\ "putNew" \in Elems(run.todo) => ~Recorded(run.tx)
    /\ run.phase \in Busy => receipt = NoReceipt

(* The tree that a transaction replaces is whole at one of its places, or a *)
(* person wrote over it.                                                    *)
OldSomewhere(t) ==
    \/ plan[t].tree \in gone
    \/ \E q \in {Home, PlaceOf("backup", t), PlaceOf("cleanup", t)} : tree[q] = plan[t].tree

(* The transaction may have touched the trees.                              *)
AtWork(t) ==
    \/ rec[t].state \notin {"none", "prepared", "rolled-back", "closed"}
    \/ run.tx = t /\ run.phase \in {"forward", "undo"} /\ "check" \in run.did

(* It replaces or removes a tree, and has not been recorded.                *)
Replaces(t) == plan[t].kind \in {"upgrade", "remove"} /\ ~Recorded(t)

(* A transaction at work has the tree it replaces.                          *)
OldKept == \A t \in Tx : Replaces(t) /\ AtWork(t) => OldSomewhere(t)

(* An upgrade deletes nothing but the new tree before it is recorded.       *)
CleanupNew ==
    \A t \in Tx : plan[t].kind = "upgrade" /\ ~Recorded(t) =>
        tree[PlaceOf("cleanup", t)] \in {Nothing, t, Torn}

(* What is recorded does not change unless the journal does.                *)
LEMMA SameRecorded ==
    ASSUME journal' = journal
    PROVE  RecordHead' = RecordHead /\ \A u : Recorded(u)' <=> Recorded(u)
BY DEF RecordHead, Recorded

(* Only the step that appends the record touches the journal.               *)
LEMMA JournalAfter ==
    ASSUME NEW s, Touched(s) \/ Done(s) \/ Left(s)
    PROVE  journal' = journal \/ (s = "record" /\ journal' = <<run.tx>> \o journal)
BY DEF Touched, Done, Left

(* A step keeps the record as the commit point.                             *)
LEMMA CommitStep ==
    ASSUME TInv, IInv, Commit, NEW s, StepForm(s)
    PROVE  Commit'
<1> DEFINE t == run.tx
<1>0. RunOK /\ QueueOK /\ SideOK /\ OwnOnly /\ FilesOK
  BY DEF TInv, IInv, FilesOK
<1>1. At(s) /\ run'.tx = t /\ UNCHANGED FromOutside
  BY <1>0, StepCases
<1>2. run.phase \in Busy /\ t \in Tx
  BY <1>0, <1>1, StepIn DEF OwnOnly
<1>3. receipt' = NoReceipt
  BY <1>1, <1>2 DEF Commit, FromOutside
<1>4. CASE s # "record"
  <2>1. journal' = journal
    BY <1>0, <1>4, StepCases, JournalAfter
  <2>2. RecordHead' = RecordHead /\ (Recorded(run.tx)' <=> Recorded(t))
    BY <1>1, <2>1, SameRecorded
  <2>3. CASE run'.phase = run.phase /\ run'.todo = Tail(run.todo)
    <3>1. Elems(run'.todo) \subseteq Elems(run.todo)
      BY <1>0, <1>1, <2>3, AtHead
    <3> QED BY <1>1, <1>3, <2>2, <2>3, <3>1 DEF Commit, Busy
  <2>4. CASE run.phase = "forward" /\ run'.phase = "undo"
    BY <1>1, <1>3, <2>2, <2>4 DEF Commit, Busy
  <2>5. CASE run.phase = "finish" /\ run'.phase = "finish"
    BY <1>1, <1>3, <2>2, <2>5 DEF Commit, Busy
  <2>6. CASE run'.phase = "stop"
    <3>1. "putNew" \in Elems(run'.todo) =>
             \/ run.phase \in {"undo", "rollback", "finalize"} /\ s = "restoreOld"
             \/ run.phase = "stop" /\ "putNew" \in Elems(run.todo)
      <4>1. \/ run'.phase = run.phase /\ run'.todo = Tail(run.todo)
            \/ Elems(run'.todo) \subseteq {"remove*", "unmoved*", "recovery-required"}
                   \cup If(run.phase \in {"undo", "rollback", "finalize"} /\ s = "restoreOld", {"putNew"})
                   \cup If(run.phase = "stop", Elems(run.todo))
        BY <1>0, <1>4, <2>6, StepCases
      <4>2. Elems(Tail(run.todo)) \subseteq Elems(run.todo)
        BY <1>0, <1>1, AtHead
      <4> QED BY <2>6, <4>1, <4>2 DEF If
    <3>2. run.phase = "finalize" => s # "restoreOld"
      BY <1>0, <1>1, StepIn DEF EndSteps
    <3> QED BY <1>1, <1>3, <2>2, <2>6, <3>1, <3>2 DEF Commit, Busy
  <2> QED BY <1>0, <1>4, <2>3, <2>4, <2>5, <2>6, StepCases
<1>5. CASE s = "record"
  <2>1. run.phase = "forward" /\ ~Recorded(t)
    BY <1>0, <1>1, <1>5, RecordIsForward DEF Commit
  <2>2. CASE Done(s) /\ run'.phase = "finish"
    <3>1. journal' = <<t>> \o journal
      BY <1>5, <2>2 DEF Done
    <3>2. RecordHead' = t
      BY <1>0, <1>2, <3>1, RecordedAfter
    <3> QED BY <1>1, <1>3, <2>2, <3>2 DEF Commit
  <2>3. CASE Left(s) /\ run'.phase = "undo"
    <3>1. journal' = journal
      BY <2>3 DEF Left
    <3> QED BY <1>1, <1>3, <2>1, <2>3, <3>1, SameRecorded DEF Commit
  <2>4. CASE run'.phase = "stop" /\ "putNew" \notin Elems(run'.todo)
    BY <1>1, <1>3, <2>4 DEF Commit
  <2>5. CASE run'.phase = "stop" /\ "putNew" \in Elems(run'.todo)
    BY <1>0, <1>5, <2>1, <2>5, StepCases DEF If
  <2> QED BY <1>0, <1>5, <2>1, <2>2, <2>3, <2>4, <2>5, StepCases
<1> QED BY <1>4, <1>5

(* What a tree step may do to the old tree.                                *)
LEMMA DeleteWhere ==
    ASSUME TInv, IInv, Commit, At("delete"), run.tx \in Tx, ~Recorded(run.tx)
    PROVE  New(plan[run.tx])
<1>0. RunOK /\ QueueOK /\ FilesOK
  BY DEF TInv
<1>1. run.phase \notin {"finish", "finalize"}
  BY <1>0, HeadRecorded DEF Commit
<1>2. run.phase # "stop" /\ run.phase # "forward"
  BY <1>0, StepIn DEF StopSteps, ForwardSteps, If
<1>3. CASE run.phase = "rollback"
  BY <1>0, <1>3, StepIn DEF RollbackSteps, If
<1>4. CASE run.phase = "undo"
  <2>1. "stage" \in Fore
    BY <1>0, <1>4, StepIn DEF UndoSteps, If, NewClaim
  <2> QED BY <2>1 DEF Fore, ForwardSteps, If
<1> QED BY <1>0, <1>1, <1>2, <1>3, <1>4, StepIn DEF Busy


(* The old tree stays somewhere: a move takes it from one of the places it *)
(* is looked for to another, and a deletion finds only the new tree.       *)
LEMMA OldMoves ==
    ASSUME TInv, IInv, Commit, CleanupNew, NEW s,
           StepForm(s) \/ (Tearing /\ s = "delete"),
           run.tx \in Tx, Replaces(run.tx), OldSomewhere(run.tx)
    PROVE  plan[run.tx].tree \in gone'
           \/ \E q \in {Home, PlaceOf("backup", run.tx), PlaceOf("cleanup", run.tx)} :
                  tree'[q] = plan[run.tx].tree
<1> DEFINE t == run.tx
           old == plan[t].tree
           Three == {Home, PlaceOf("backup", t), PlaceOf("cleanup", t)}
<1>0. RunOK /\ QueueOK /\ FilesOK /\ SideOK /\ OwnOnly /\ PlanOK /\ RecOK /\ TornWhere
  BY DEF TInv, IInv, FilesOK
<1>1. gone' = gone
  BY DEF StepForm, Tearing, FromOutside
<1>2. old # Nothing /\ old # t /\ old # Torn
  <2>0. NoPlan.kind = "none yet"
    BY DEF NoPlan
  <2>1. plan[t] # NoPlan
    BY <2>0 DEF Replaces
  <2>2. old # Nothing /\ old \in Trees \ {t}
    BY <1>0, <2>1 DEF PlanOK, Replaces
  <2> QED BY <2>2, Distinct DEF Trees
<1>3. Three \subseteq Place
  BY Places
<1>4. At("delete") => tree[PlaceOf("cleanup", t)] # old
  <2> SUFFICES ASSUME At("delete") PROVE tree[PlaceOf("cleanup", t)] # old
    OBVIOUS
  <2>1. plan[t].kind = "upgrade"
    BY DeleteWhere DEF Replaces, New
  <2> QED BY <1>2, <2>1 DEF CleanupNew, Replaces
<1>5. CASE old \in gone
  BY <1>1, <1>5
<1>6. ASSUME NEW q \in Three, tree[q] = old
      PROVE  \E r \in Three : tree'[r] = old
  <2>1. CASE tree' = tree
    BY <1>6, <2>1
  <2>2. CASE s \in MoveStep /\ Moved(s)
    <3> DEFINE w == Route(s, t)
    <3>1. /\ w.to \in Own(t) \ {PlaceOf("stage", t)} /\ w.from \in Place /\ w.to \in Place
          /\ tree[w.from] = w.what /\ tree[w.to] = Nothing
          /\ \A r \in Place : tree'[r] = IF r = w.to THEN w.what
                                          ELSE IF r = w.from THEN Nothing ELSE tree[r]
      BY <1>0, <2>2, MovedTree
    <3> HIDE DEF w
    <3>2. w.to \in Three
      BY <3>1 DEF Own
    <3>3. CASE q = w.from
      BY <1>6, <3>1, <3>2, <3>3
    <3>4. CASE q # w.from
      BY <1>2, <1>3, <1>6, <3>1, <3>4
    <3> QED BY <3>3, <3>4
  <2>3. CASE tree' = [tree EXCEPT ![PlaceOf("stage", t)] = t]
    BY <1>6, <2>3, Places, <1>3, <1>0 DEF FilesOK
  <2>4. ASSUME At("delete"), NEW v, tree' = [tree EXCEPT ![PlaceOf("cleanup", t)] = v]
        PROVE  tree'[q] = old
    BY <1>3, <1>4, <1>6, <2>4, <1>0 DEF FilesOK
  <2>5. CASE Tearing
    BY <2>4, <2>5 DEF Tearing
  <2>6. CASE StepForm(s)
    <3>1. At(s) /\ Touched(s)
      BY <1>0, <2>6, FormTouches DEF StepForm
    <3> QED BY <2>1, <2>2, <2>3, <2>4, <3>1 DEF Touched
  <2> QED BY <2>5, <2>6
<1> QED BY <1>5, <1>6 DEF OldSomewhere

(* Whether a transaction is at work changes only where revalidation has    *)
(* found all as reviewed.                                                  *)
LEMMA WorkBegins ==
    ASSUME TInv, IInv, NEW s, StepForm(s), AtWork(run.tx)'
    PROVE  AtWork(run.tx) \/ (tree[Home] = plan[run.tx].tree /\ tree' = tree)
<1> DEFINE t == run.tx
<1>0. RunOK /\ QueueOK /\ SideOK /\ OwnOnly /\ RecOK
  BY DEF TInv, IInv, FilesOK
<1>1. At(s) /\ run'.tx = t /\ run.phase \in Busy /\ t \in Tx /\ Touched(s)
  BY <1>0, StepCases, FormTouches
<1>2. CASE rec'[t].state \notin {"none", "prepared", "rolled-back", "closed"}
  <2>1. CASE rec' = rec
    BY <1>2, <2>1 DEF AtWork
  <2>2. CASE s \in NoteStep /\ Noting(s)
    <3> DEFINE n == Noted(s, rec[t])
    <3>1. rec'[t] = n /\ Legal(rec[t], n)
      BY <1>0, <1>1, <2>2 DEF Noting, RecOK
    <3>2. n.state \in Allowed(rec[t].state)
      BY <3>1 DEF Legal
    <3>3. CASE rec[t].state = "prepared"
      <4>1. n.state \in {"mutating", "rolled-back"}
        BY <3>2, <3>3 DEF Allowed
      <4>2. n.state = "mutating"
        BY <1>2, <3>1, <4>1
      <4>3. n.bound /\ ~rec[t].bound
        BY <1>0, <1>1, <3>1, <3>3, <4>2 DEF Legal, RecOK
      <4>4. rec[t] \in RecType
        BY <1>0, <1>1 DEF RecOK
      <4>5. s = "bind"
        BY <4>3, <4>4 DEF Noted, RecType
      <4>6. run.phase = "forward"
        BY <1>0, <1>1, <4>5, StepIn
           DEF UndoSteps, EndSteps, RollbackSteps, StopSteps, If, Busy, NewClaim
      <4>7. "check" \in ForwardSteps(plan[t]) /\ Rank("check") < Rank(s)
        BY <4>5, Ranks DEF ForwardSteps
      <4>8. "check" \in run.did
        BY <1>0, <1>1, <4>6, <4>7, ForwardAt
      <4> QED BY <4>6, <4>8 DEF AtWork
    <3>4. CASE rec[t].state # "prepared"
      BY <1>2, <3>1, <3>2, <3>4 DEF Allowed, AtWork
    <3> QED BY <3>3, <3>4
  <2> QED BY <1>1, <2>1, <2>2 DEF Touched
<1>3. CASE run'.phase \in {"forward", "undo"} /\ "check" \in run'.did
  <2>1. CASE "check" \in run.did
    <3>1. run.phase \in {"forward", "undo"}
      BY <1>0, <1>3, StepCases
    <3> QED BY <2>1, <3>1 DEF AtWork
  <2>2. CASE "check" \notin run.did
    <3>1. Done("check")
      BY <1>0, <1>3, <2>2, StepCases
    <3> QED BY <3>1 DEF Done, Fresh, MoveStep
  <2> QED BY <2>1, <2>2
<1> QED BY <1>1, <1>2, <1>3 DEF AtWork

(* What is in the cleanup place of an upgrade that is not recorded.        *)
LEMMA CleanupMoves ==
    ASSUME TInv, IInv, Commit, CleanupNew, NEW s, StepForm(s), run.tx \in Tx,
           plan[run.tx].kind = "upgrade", ~Recorded(run.tx)
    PROVE  tree'[PlaceOf("cleanup", run.tx)] \in {Nothing, run.tx, Torn}
<1> DEFINE t == run.tx
           c == PlaceOf("cleanup", t)
<1>0. RunOK /\ QueueOK /\ FilesOK /\ SideOK /\ OwnOnly /\ PlanOK /\ RecOK /\ TornWhere
  BY DEF TInv, IInv, FilesOK
<1>1. tree[c] \in {Nothing, t, Torn}
  BY DEF CleanupNew
<1>2. At(s) /\ Touched(s)
  BY <1>0, FormTouches DEF StepForm
<1>3. c \in Place /\ c # PlaceOf("stage", t) /\ c # PlaceOf("backup", t) /\ c # Home
  BY Places
<1>4. CASE s \in MoveStep /\ Moved(s)
  <2> DEFINE w == Route(s, t)
  <2>1. tree'[c] = IF c = w.to THEN w.what ELSE IF c = w.from THEN Nothing ELSE tree[c]
    BY <1>0, <1>3, <1>4, MovedTree
  <2>2. run.phase \notin {"finish", "finalize"}
    BY <1>0, HeadRecorded DEF Commit
  <2>3. s \notin {"remove", "claimBackup"}
    BY <1>0, <1>2, <2>2, StepIn
       DEF ForwardSteps, UndoSteps, RollbackSteps, StopSteps, If, Busy, NewClaim
  <2>4. w.to = c => w.what = t
    BY <1>3, <1>4, <2>3 DEF Route, MoveStep, PlaceOf
  <2> HIDE DEF w
  <2> QED BY <1>1, <2>1, <2>4
<1>5. CASE tree' = tree
  BY <1>1, <1>5
<1>6. CASE tree' = [tree EXCEPT ![PlaceOf("stage", t)] = t]
  BY <1>0, <1>1, <1>3, <1>6 DEF FilesOK
<1>7. ASSUME NEW v \in {Nothing, Torn}, tree' = [tree EXCEPT ![c] = v]
      PROVE  tree'[c] \in {Nothing, t, Torn}
  BY <1>0, <1>3, <1>7 DEF FilesOK
<1> QED BY <1>2, <1>4, <1>5, <1>6, <1>7 DEF Touched

(* A step touches no other transaction's own places.                       *)
LEMMA OthersPlaces ==
    ASSUME TInv, NEW s, Touched(s), run.tx \in Tx, NEW u \in Tx, u # run.tx
    PROVE  tree'[PlaceOf("cleanup", u)] = tree[PlaceOf("cleanup", u)]
<1> DEFINE t == run.tx
           c == PlaceOf("cleanup", u)
<1>0. FilesOK /\ PlanOK /\ RecOK /\ TornWhere
  BY DEF TInv
<1>1. c \in Place /\ c \notin Own(t)
  BY Places DEF Own
<1>2. CASE s \in MoveStep /\ Moved(s)
  <2> DEFINE w == Route(s, t)
  <2>1. /\ w.from \in Own(t) /\ w.to \in Own(t)
        /\ tree'[c] = IF c = w.to THEN w.what ELSE IF c = w.from THEN Nothing ELSE tree[c]
    BY <1>0, <1>1, <1>2, MovedTree
  <2> HIDE DEF w
  <2> QED BY <1>1, <2>1
<1>3. CASE tree' # tree /\ ~(s \in MoveStep /\ Moved(s))
  <2>1. \E q \in Own(t) : \E v : tree' = [tree EXCEPT ![q] = v]
    BY <1>3 DEF Touched, Own
  <2> QED BY <1>0, <1>1, <2>1 DEF FilesOK
<1> QED BY <1>2, <1>3

(* What keeps the trees that are replaced.                                  *)
KInv == Commit /\ OldKept /\ CleanupNew

(* A step keeps the trees that are replaced.                                *)
LEMMA KeptStep ==
    ASSUME TInv, IInv, IInv', KInv, NEW s, StepForm(s)
    PROVE  KInv'
<1> DEFINE t == run.tx
<1>0. RunOK /\ QueueOK /\ FilesOK /\ SideOK /\ OwnOnly /\ PlanOK /\ RecOK /\ TornWhere
      /\ Commit /\ OldKept /\ CleanupNew
  BY DEF TInv, IInv, FilesOK, KInv
<1>1. At(s) /\ run'.tx = t /\ UNCHANGED FromOutside /\ t \in Tx /\ Touched(s) /\ run.phase \in Busy
  BY <1>0, StepCases, FormTouches
<1>2. plan' = plan /\ gone' = gone /\ run'.phase \in Busy
  <2>1. run'.phase \in Busy
    BY <1>0, <1>1, StepCases DEF Busy
  <2> QED BY <1>1, <2>1 DEF FromOutside
<1>3. Commit'
  BY <1>0, CommitStep
<1>4. ASSUME NEW u \in Tx PROVE Recorded(u) => Recorded(u)'
  BY <1>0, <1>1, JournalAfter, SameRecorded, RecordedAfter
<1>5. OldKept'
  <2> SUFFICES ASSUME NEW u \in Tx, Replaces(u)', AtWork(u)' PROVE OldSomewhere(u)'
    BY DEF OldKept
  <2>1. Replaces(u)
    BY <1>2, <1>4 DEF Replaces
  <2>2. u = t
    <3>1. CASE rec'[u].state \notin {"none", "prepared", "rolled-back", "closed"}
      <4>1. u \in Unresolved'
        BY <3>1 DEF Unresolved
      <4> QED BY <1>1, <1>2, <4>1 DEF IInv, OwnOnly
    <3>2. CASE run'.tx = u
      BY <1>1, <3>2
    <3> QED BY <3>1, <3>2 DEF AtWork
  <2>3. AtWork(run.tx)'
    BY <1>1, <2>2 DEF AtWork
  <2>4. CASE AtWork(t)
    <3>1. OldSomewhere(t)
      BY <1>0, <2>1, <2>2, <2>4 DEF OldKept
    <3> QED BY <1>0, <1>1, <1>2, <2>1, <2>2, <3>1, OldMoves DEF OldSomewhere
  <2>5. CASE tree[Home] = plan[t].tree /\ tree' = tree
    BY <1>2, <2>2, <2>5 DEF OldSomewhere
  <2> QED BY <2>3, <2>4, <2>5, WorkBegins
<1>6. CleanupNew'
  <2> SUFFICES ASSUME NEW u \in Tx, plan[u].kind = "upgrade", ~Recorded(u)
               PROVE  tree'[PlaceOf("cleanup", u)] \in {Nothing, u, Torn}
    BY <1>2, <1>4 DEF CleanupNew
  <2>1. CASE u = t
    BY <1>0, <1>1, <2>1, CleanupMoves
  <2>2. CASE u # t
    BY <1>0, <1>1, <2>2, OthersPlaces DEF CleanupNew
  <2> QED BY <2>1, <2>2
<1> QED BY <1>3, <1>5, <1>6 DEF KInv

(* What does not touch the places of the transactions keeps them.           *)
LEMMA KeptFrame ==
    ASSUME OldKept, CleanupNew, UNCHANGED <<plan, journal, gone>>,
           \A t \in Tx : AtWork(t)' => AtWork(t),
           \A t \in Tx : \A q \in {Home, PlaceOf("backup", t), PlaceOf("cleanup", t)} : tree'[q] = tree[q]
    PROVE  OldKept' /\ CleanupNew'
<1>1. \A t \in Tx : (Replaces(t)' => Replaces(t)) /\ (Recorded(t)' <=> Recorded(t))
  BY SameRecorded DEF Replaces
<1>2. ASSUME NEW t \in Tx, OldSomewhere(t) PROVE OldSomewhere(t)'
  BY <1>2 DEF OldSomewhere
<1>3. OldKept'
  BY <1>1, <1>2 DEF OldKept
<1>4. CleanupNew'
  BY <1>1 DEF CleanupNew
<1> QED BY <1>3, <1>4

(* So does what does not touch trees at all.                                *)
LEMMA KeptIdle ==
    ASSUME OldKept, CleanupNew, UNCHANGED <<plan, journal, gone, tree, rec>>,
           run' = run \/ run'.phase \notin {"forward", "undo"} \/ run'.did = {}
    PROVE  OldKept' /\ CleanupNew'
<1>1. ASSUME NEW t \in Tx, AtWork(t)' PROVE AtWork(t)
  BY <1>1 DEF AtWork
<1> QED BY <1>1, KeptFrame

(* So does tearing: what is torn is not what is replaced.                   *)
LEMMA KeptTear ==
    ASSUME TInv, IInv, KInv, Tearing
    PROVE  KInv'
<1> DEFINE t == run.tx
           c == PlaceOf("cleanup", t)
<1>0. RunOK /\ QueueOK /\ FilesOK /\ OwnOnly /\ Commit /\ OldKept /\ CleanupNew
  BY DEF TInv, IInv, KInv
<1>1. At("delete") /\ tree' = [tree EXCEPT ![c] = Torn] /\ UNCHANGED <<journal, rec, FromOutside>>
      /\ run' = [run EXCEPT !.did = @ \cup {"tear"}]
  BY DEF Tearing
<1>2. run.phase \in Busy /\ t \in Tx
  BY <1>0, <1>1, StepIn DEF OwnOnly
<1>3. /\ run'.phase = run.phase /\ run'.tx = t /\ run'.todo = run.todo
      /\ run'.did = run.did \cup {"tear"}
  BY <1>0, <1>1 DEF RunOK, RunType
<1>4. UNCHANGED <<plan, gone, receipt>>
  BY <1>1 DEF FromOutside
<1>5. RecordHead' = RecordHead /\ \A u : Recorded(u)' <=> Recorded(u)
  BY <1>1, SameRecorded
<1>6. Commit'
  BY <1>0, <1>3, <1>4, <1>5 DEF Commit
<1>7. ASSUME NEW u \in Tx, AtWork(u)' PROVE AtWork(u)
  BY <1>1, <1>3, <1>7 DEF AtWork
<1>8. c \in Place /\ \A u \in Tx \ {t} : PlaceOf("cleanup", u) \in Place /\ PlaceOf("cleanup", u) # c
  BY <1>2, Places
<1>9. CleanupNew'
  BY <1>0, <1>1, <1>4, <1>5, <1>8 DEF CleanupNew, FilesOK
<1>10. OldKept'
  <2> SUFFICES ASSUME NEW u \in Tx, Replaces(u), AtWork(u) PROVE OldSomewhere(u)'
    BY <1>4, <1>5, <1>7 DEF OldKept, Replaces
  <2>1. OldSomewhere(u)
    BY <1>0 DEF OldKept
  <2>2. u = t
    <3>1. CASE rec[u].state \notin {"none", "prepared", "rolled-back", "closed"}
      <4>1. u \in Unresolved
        BY <3>1 DEF Unresolved
      <4> QED BY <1>0, <1>2, <4>1 DEF OwnOnly
    <3>2. CASE run.tx = u
      BY <3>2
    <3> QED BY <3>1, <3>2 DEF AtWork
  <2>3. \A s : s = "delete" => plan[t].tree \in gone'
           \/ \E q \in {Home, PlaceOf("backup", t), PlaceOf("cleanup", t)} : tree'[q] = plan[t].tree
    BY <1>0, <1>2, <2>1, <2>2, OldMoves
  <2> QED BY <1>4, <2>2, <2>3 DEF OldSomewhere
<1> QED BY <1>6, <1>9, <1>10 DEF KInv

(* So does a person, who writes over the companion.                         *)
LEMMA KeptEdit ==
    ASSUME TInv, KInv, EditCompanion
    PROVE  KInv'
<1>0. FilesOK /\ Commit /\ OldKept /\ CleanupNew
  BY DEF TInv, KInv
<1>1. /\ gone' = gone \cup {tree[Home]} /\ tree' = [tree EXCEPT ![Home] = User] /\ receipt' = NoReceipt
      /\ UNCHANGED <<plan, journal, rec, run>>
  BY DEF EditCompanion
<1>2. RecordHead' = RecordHead /\ \A u : Recorded(u)' <=> Recorded(u)
  BY <1>1, SameRecorded
<1>3. \A t \in Tx, n \in {"backup", "cleanup"} : tree'[PlaceOf(n, t)] = tree[PlaceOf(n, t)]
  BY <1>0, <1>1, Places DEF FilesOK
<1>4. ASSUME NEW t \in Tx, OldSomewhere(t) PROVE OldSomewhere(t)'
  BY <1>1, <1>3, <1>4 DEF OldSomewhere
<1>5. OldKept'
  BY <1>0, <1>1, <1>2, <1>4 DEF OldKept, Replaces, AtWork
<1>6. CleanupNew'
  BY <1>0, <1>1, <1>2, <1>3 DEF CleanupNew
<1>7. Commit'
  BY <1>0, <1>1, <1>2 DEF Commit
<1> QED BY <1>5, <1>6, <1>7 DEF KInv

(* The run that is none is in no phase and has done nothing.                *)
LEMMA IdlePhase == Idle.phase = "idle" /\ Idle.did = {} /\ Idle.tx = Nothing
BY DEF Idle

(* A review keeps the trees that are replaced.                              *)
LEMMA KeptReview ==
    ASSUME TInv, KInv, NEW t \in Tx, Review(t)
    PROVE  KInv'
<1>0. FilesOK /\ Unused /\ Planned /\ Commit /\ OldKept /\ CleanupNew
  BY DEF TInv, KInv
<1>1. plan[t] = NoPlan /\ UNCHANGED <<journal, gone, tree, rec, run, receipt>>
      /\ \E p : plan' = [plan EXCEPT ![t] = p]
  BY DEF Review, files
<1>2. t \notin claimed
  BY <1>0, <1>1 DEF Planned
<1>3. rec[t] = NoRecord /\ tree[PlaceOf("cleanup", t)] = Nothing /\ run.tx # t
  BY <1>0, <1>2 DEF Unused
<1>4. ~AtWork(t)
  BY <1>3 DEF AtWork, NoRecord
<1>5. RecordHead' = RecordHead /\ \A u : Recorded(u)' <=> Recorded(u)
  BY <1>1, SameRecorded
<1>6. \A u \in Tx \ {t} : plan'[u] = plan[u]
  BY <1>0, <1>1 DEF Planned
<1>7. \A u \in Tx : AtWork(u)' <=> AtWork(u)
  BY <1>1 DEF AtWork
<1>8. ASSUME NEW u \in Tx \ {t}, OldSomewhere(u) PROVE OldSomewhere(u)'
  BY <1>1, <1>6, <1>8 DEF OldSomewhere
<1>9. OldKept'
  BY <1>0, <1>4, <1>5, <1>6, <1>7, <1>8 DEF OldKept, Replaces
<1>10. CleanupNew'
  BY <1>0, <1>1, <1>3, <1>5, <1>6 DEF CleanupNew
<1>11. Commit'
  BY <1>0, <1>1, <1>5 DEF Commit
<1> QED BY <1>9, <1>10, <1>11 DEF KInv

(* So does the beginning of an application.                                 *)
LEMMA KeptBegin ==
    ASSUME TInv, IInv, KInv, NEW t \in Tx, Begin(t)
    PROVE  KInv'
<1>0. FilesOK /\ RecOK /\ Unused /\ Commit /\ OldKept /\ CleanupNew
  BY DEF TInv, KInv
<1>1. /\ run = Idle /\ t \notin claimed /\ UNCHANGED <<plan, gone, tree, journal>>
      /\ \/ UNCHANGED <<rec, run>>
         \/ /\ rec' = [rec EXCEPT ![t].state = "prepared"]
            /\ \/ run' = run
               \/ /\ run' = [Idle EXCEPT !.kind = "apply", !.phase = "forward", !.tx = t,
                                        !.todo = Forward(plan[t])]
                  /\ receipt' = NoReceipt
  BY BeginFacts DEF files
<1>2. ASSUME NEW u \in Tx, AtWork(u)' PROVE AtWork(u)
  <2>1. run' = run \/ run'.did = {}
    BY <1>1, BeginRun
  <2>2. rec'[u].state = rec[u].state \/ rec'[u].state = "prepared"
    BY <1>0, <1>1 DEF RecOK, RecType
  <2>3. run.phase = "idle"
    BY <1>1, IdlePhase
  <2> QED BY <1>1, <1>2, <2>1, <2>2, <2>3 DEF AtWork
<1>3. OldKept' /\ CleanupNew'
  BY <1>0, <1>1, <1>2, KeptFrame
<1>4. Commit'
  <2>1. CASE run' = run
    BY <1>1, <2>1, IdlePhase DEF Commit, Busy
  <2>2. CASE run' # run
    <3>1. run'.tx = t /\ run'.phase = "forward" /\ receipt' = NoReceipt
      BY <1>1, <2>2, BeginRun
    <3>2. ~Recorded(t)'
      BY <1>0, <1>1, SameRecorded DEF Unused
    <3> QED BY <3>1, <3>2 DEF Commit
  <2> QED BY <2>1, <2>2
<1> QED BY <1>3, <1>4 DEF KInv

(* So does the application of a recovery plan.                              *)
LEMMA KeptRecovery ==
    ASSUME TInv, KInv, ApplyRecovery
    PROVE  KInv'
<1>0. FilesOK /\ Commit /\ OldKept /\ CleanupNew
  BY DEF TInv, KInv
<1>1. run = Idle /\ UNCHANGED <<plan, gone, tree, journal, rec>>
  BY RecoveryFacts DEF files
<1>2. run' = run \/ run'.did = {}
  BY RecoveryFacts
<1>3. OldKept' /\ CleanupNew'
  BY <1>0, <1>1, <1>2, KeptIdle
<1>4. RecordHead' = RecordHead /\ \A u : Recorded(u)' <=> Recorded(u)
  BY <1>1, SameRecorded
<1>5. Commit'
  <2>1. CASE UNCHANGED <<run, receipt>>
    BY <1>0, <1>4, <2>1 DEF Commit
  <2>2. CASE ~UNCHANGED <<run, receipt>>
    <3>1. /\ receipt' = NoReceipt /\ run'.tx = advice.tx /\ Way(advice.tx) = advice.way
          /\ \/ advice.way = "rollback" /\ run'.phase = "rollback"
             \/ advice.way = "finalize" /\ run'.phase = "finalize"
      BY <2>2, RecoveryFacts
    <3>2. Way(advice.tx) = "rollback" => ~Recorded(advice.tx)
      BY DEF Way, Recorded
    <3>3. Way(advice.tx) = "finalize" => RecordHead = advice.tx
      BY DEF Way
    <3> QED BY <1>4, <3>1, <3>2, <3>3 DEF Commit
  <2> QED BY <2>1, <2>2
<1> QED BY <1>3, <1>5 DEF KInv

(* So does every step.                                                      *)
LEMMA KeptNext ==
    ASSUME TInv, IInv, IInv', KInv, [Next]_vars
    PROVE  KInv'
<1>0. RunOK /\ SideOK /\ OwnOnly /\ Commit /\ OldKept /\ CleanupNew
  BY DEF TInv, IInv, FilesOK, KInv
<1>1. ASSUME UNCHANGED <<plan, gone, tree, journal, rec>>,
             run' = Idle \/ UNCHANGED <<run, receipt>> \/ (run' = run /\ receipt' = NoReceipt)
      PROVE  KInv'
  <2>1. OldKept' /\ CleanupNew'
    BY <1>0, <1>1, KeptIdle, IdlePhase
  <2>2. Commit'
    BY <1>0, <1>1, SameRecorded, IdlePhase DEF Commit, Busy
  <2> QED BY <2>1, <2>2 DEF KInv
<1>2. CASE Step
  <2>1. End \/ Tearing \/ \E s : StepForm(s)
    BY <1>0, <1>2, StepForms
  <2>2. CASE End
    BY <1>1, <2>2 DEF End, files
  <2> QED BY <2>1, <2>2, KeptTear, KeptStep
<1>3. CASE Die
  BY <1>1, <1>3 DEF Die, files
<1>4. CASE EditCompanion
  BY <1>4, KeptEdit
<1>5. CASE EditConfig
  BY <1>1, <1>5 DEF EditConfig
<1>6. ASSUME NEW t \in Tx, Review(t) PROVE KInv'
  BY <1>6, KeptReview
<1>7. ASSUME NEW t \in Tx, Begin(t) PROVE KInv'
  BY <1>7, KeptBegin
<1>8. CASE ApplyRecovery
  BY <1>8, KeptRecovery
<1>9. ASSUME NEW t \in Tx, ReviewRecovery(t) PROVE KInv'
  BY <1>1, <1>9 DEF ReviewRecovery, files
<1>10. CASE UNCHANGED vars
  BY <1>1, <1>10 DEF vars, files
<1> QED BY <1>2, <1>3, <1>4, <1>5, <1>6, <1>7, <1>8, <1>9, <1>10 DEF Next, Around

(* The invariants so far hold in every state.                               *)
LEMMA AlwaysKept == Spec => [](IInv /\ TInv /\ KInv)
<1>1. Init => KInv
  <2> SUFFICES ASSUME Init PROVE KInv
    OBVIOUS
  <2>1. run = Idle /\ plan = [t \in Tx |-> NoPlan]
    BY DEF Init
  <2>2. NoPlan.kind = "none yet"
    BY DEF NoPlan
  <2> QED BY <2>1, <2>2, IdlePhase DEF KInv, Commit, OldKept, CleanupNew, Replaces, Busy
<1>2. TInv /\ IInv /\ IInv' /\ KInv /\ [Next]_vars => KInv'
  BY KeptNext
<1> QED BY <1>1, <1>2, AlwaysTyped, PTL DEF Spec

(* No tree is lost on the way: through every failure, uncertain outcome,    *)
(* death and recovery, and for every number of plans, the companion that an *)
(* upgrade or a removal replaces is whole at one of the places of the       *)
(* transaction until it is recorded, or a person wrote over it.             *)
THEOREM PreviousKeptHolds == Spec => []PreviousKept
<1>1. KInv => PreviousKept
  <2> SUFFICES ASSUME OldKept, NEW t \in Unresolved, plan[t].kind \in {"upgrade", "remove"},
                      rec[t].state # "prepared", ~Recorded(t)
               PROVE  \/ plan[t].tree \in gone
                      \/ \E p \in {Home} \cup {PlaceOf(n, t) : n \in {"backup", "cleanup"}} :
                             tree[p] = plan[t].tree
    BY DEF KInv, PreviousKept
  <2>1. OldSomewhere(t)
    BY DEF OldKept, Replaces, AtWork, Unresolved
  <2> QED BY <2>1 DEF OldSomewhere
<1> QED BY <1>1, AlwaysKept, PTL

-----------------------------------------------------------------------------
(* What was done tells the state.                                           *)

(* What each move does to the companion and to the transaction's own       *)
(* places.                                                                 *)
Shift(from, to, what) ==
    /\ tree[from] = what /\ tree[to] = Nothing
    /\ tree'[from] = Nothing /\ tree'[to] = what
    /\ \A q \in Own(run.tx) \ {from, to} : tree'[q] = tree[q]

(* What each move moves, and where.                                         *)
LEMMA MoveFacts ==
    ASSUME TInv, run.tx \in Tx, NEW s \in MoveStep, Moved(s)
    PROVE  LET t == run.tx
               old == plan[t].tree
               stage == PlaceOf("stage", t)
               backup == PlaceOf("backup", t)
               cleanup == PlaceOf("cleanup", t)
           IN
           /\ s = "backup" => Shift(Home, backup, old)
           /\ s = "install" => Shift(stage, Home, t)
           /\ s = "remove" => Shift(Home, cleanup, old)
           /\ s = "claimNew" => Shift(Home, cleanup, t)
           /\ s = "claimStage" => Shift(stage, cleanup, t)
           /\ s = "claimBackup" => Shift(backup, cleanup, old)
           /\ s = "restoreOld" => Shift(backup, Home, old)
           /\ s = "putNew" => Shift(cleanup, Home, t)
           /\ s = "putBack" /\ old # Nothing => Shift(backup, Home, old) \/ Shift(cleanup, Home, old)
<1> DEFINE t == run.tx
           old == plan[t].tree
           stage == PlaceOf("stage", t)
           backup == PlaceOf("backup", t)
           cleanup == PlaceOf("cleanup", t)
           w == Route(s, t)
<1>1. /\ tree[w.from] = w.what /\ tree[w.to] = Nothing /\ w.from \in Place /\ w.to \in Place
      /\ \A q \in Place : tree'[q] = IF q = w.to THEN w.what
                                     ELSE IF q = w.from THEN Nothing ELSE tree[q]
  BY MovedTree DEF TInv
<1>2. Own(t) \subseteq Place
  BY Places DEF Own
<1>3. ASSUME NEW from, NEW to, NEW what, from # to, w.from = from, w.to = to, w.what = what
      PROVE  Shift(from, to, what)
  <2> HIDE DEF w
  <2> QED BY <1>1, <1>2, <1>3 DEF Shift
<1>4. Home # stage /\ Home # backup /\ Home # cleanup /\ stage # backup /\ stage # cleanup /\ backup # cleanup
      /\ PlaceOf("companion", t) = Home
  BY Places
<1>5. s = "backup" => w.from = Home /\ w.to = backup /\ w.what = old
  BY <1>4 DEF Route
<1>6. s = "install" => w.from = stage /\ w.to = Home /\ w.what = t
  BY <1>4 DEF Route
<1>7. s = "remove" => w.from = Home /\ w.to = cleanup /\ w.what = old
  BY <1>4 DEF Route
<1>8. s = "claimNew" => w.from = Home /\ w.to = cleanup /\ w.what = t
  BY <1>4 DEF Route
<1>9. s = "claimStage" => w.from = stage /\ w.to = cleanup /\ w.what = t
  BY <1>4 DEF Route
<1>10. s = "claimBackup" => w.from = backup /\ w.to = cleanup /\ w.what = old
  BY <1>4 DEF Route
<1>11. s = "restoreOld" => w.from = backup /\ w.to = Home /\ w.what = old
  BY <1>4 DEF Route
<1>12. s = "putNew" => w.from = cleanup /\ w.to = Home /\ w.what = t
  BY <1>4 DEF Route
<1>13. ASSUME s = "putBack", old # Nothing PROVE Shift(backup, Home, old) \/ Shift(cleanup, Home, old)
  <2> DEFINE put == IF rec[t].proof["backup"] = "none" THEN "cleanup" ELSE rec[t].proof["backup"]
  <2>1. w.from = PlaceOf(put, t) /\ w.to = Home /\ w.what = old
    BY <1>4, <1>13 DEF Route
  <2>2. put \in {"backup", "companion", "cleanup"}
    BY DEF TInv, RecOK, RecType, Role
  <2>3. w.from # Home
    BY <1>1, <1>13, <2>1
  <2>4. w.from \in {backup, cleanup}
    BY <1>4, <2>1, <2>2, <2>3
  <2> HIDE DEF w, backup, cleanup
  <2> QED BY <1>3, <1>4, <2>1, <2>4
<1> HIDE DEF w, stage, backup, cleanup, old
<1>14. s = "backup" => Shift(Home, backup, old)
  BY <1>3, <1>4, <1>5
<1>15. s = "install" => Shift(stage, Home, t)
  BY <1>3, <1>4, <1>6
<1>16. s = "remove" => Shift(Home, cleanup, old)
  BY <1>3, <1>4, <1>7
<1>17. s = "claimNew" => Shift(Home, cleanup, t)
  BY <1>3, <1>4, <1>8
<1>18. s = "claimStage" => Shift(stage, cleanup, t)
  BY <1>3, <1>4, <1>9
<1>19. s = "claimBackup" => Shift(backup, cleanup, old)
  BY <1>3, <1>4, <1>10
<1>20. s = "restoreOld" => Shift(backup, Home, old)
  BY <1>3, <1>4, <1>11
<1>21. s = "putNew" => Shift(cleanup, Home, t)
  BY <1>3, <1>4, <1>12
<1> QED BY <1>13, <1>14, <1>15, <1>16, <1>17, <1>18, <1>19, <1>20, <1>21
        DEF stage, backup, cleanup, old

(* What has been done when a forward step is taken.                        *)
LEMMA ForwardOrder ==
    ASSUME RunOK, QueueOK, run.phase = "forward", NEW s, At(s)
    PROVE  /\ s = "check" => run.did \cap {"stage", "backup", "install", "remove", "config", "config=",
                                           "keep", "report"} = {}
           /\ s # "check" => "check" \in run.did
           /\ s = "stage" => "backup" \notin run.did /\ "install" \notin run.did
           /\ s = "backup" => "install" \notin run.did
           /\ s = "install" => "stage" \in run.did
           /\ s = "config" => "config=" \notin run.did
           /\ s = "config=" => "config" \in run.did
           /\ "config" \in run.did /\ "config=" \notin run.did => s \in {"config*", "config="}
           /\ s = "keep" => "report" \notin run.did
           /\ s = "report" => "keep" \in run.did
           /\ "keep" \in run.did /\ "report" \notin run.did => s \in {"report*", "report"}
           /\ s = "record" => ForwardSteps(plan[run.tx]) \subseteq run.did \cup {"record"}
<1> DEFINE p == plan[run.tx]
<1>1. /\ s \in ForwardSteps(p) /\ s \notin run.did
      /\ run.did \subseteq ForwardSteps(p) /\ "record" \notin run.did
      /\ \A y \in ForwardSteps(p) : Rank(y) < Rank(s) => y \in run.did
      /\ \A x \in run.did : Rank(x) <= Rank(s)
  BY ForwardAt
<1>2. s = "check" => run.did \cap {"stage", "backup", "install", "remove", "config", "config=",
                                   "keep", "report"} = {}
  BY <1>1, Ranks
<1>3. s # "check" => "check" \in run.did
  <2>1. "check" \in ForwardSteps(p) /\ (s # "check" => Rank("check") < Rank(s))
    BY <1>1, Ranks DEF ForwardSteps, If
  <2> QED BY <1>1, <2>1
<1>4. /\ s = "stage" => "backup" \notin run.did /\ "install" \notin run.did
      /\ s = "backup" => "install" \notin run.did
      /\ s = "config" => "config=" \notin run.did
      /\ s = "keep" => "report" \notin run.did
  BY <1>1, Ranks
<1>5. s = "install" => "stage" \in run.did
  <2>1. s = "install" => "stage" \in ForwardSteps(p) /\ Rank("stage") < Rank(s)
    BY <1>1, Ranks DEF ForwardSteps, If
  <2> QED BY <1>1, <2>1
<1>6. s = "config=" => "config" \in run.did
  <2>1. s = "config=" => "config" \in ForwardSteps(p) /\ Rank("config") < Rank(s)
    BY <1>1, Ranks DEF ForwardSteps, If
  <2> QED BY <1>1, <2>1
<1>7. s = "report" => "keep" \in run.did
  <2>1. s = "report" => "keep" \in ForwardSteps(p) /\ Rank("keep") < Rank(s)
    BY <1>1, Ranks DEF ForwardSteps, If
  <2> QED BY <1>1, <2>1
<1>8. "config" \in run.did /\ "config=" \notin run.did => s \in {"config*", "config="}
  <2> SUFFICES ASSUME "config" \in run.did, "config=" \notin run.did PROVE s \in {"config*", "config="}
    OBVIOUS
  <2>1. p.hook /\ "config=" \in ForwardSteps(p)
    BY <1>1 DEF ForwardSteps, If
  <2>2. ~(Rank("config=") < Rank(s)) /\ Rank("config") <= Rank(s)
    BY <1>1, <2>1
  <2> QED BY <1>1, <2>1, <2>2, Ranks DEF ForwardSteps, If
<1>9. "keep" \in run.did /\ "report" \notin run.did => s \in {"report*", "report"}
  <2> SUFFICES ASSUME "keep" \in run.did, "report" \notin run.did PROVE s \in {"report*", "report"}
    OBVIOUS
  <2>1. "report" \in ForwardSteps(p)
    BY DEF ForwardSteps
  <2>2. ~(Rank("report") < Rank(s)) /\ Rank("keep") <= Rank(s)
    BY <1>1, <2>1
  <2> QED BY <1>1, <2>2, Ranks DEF ForwardSteps, If
<1>10. s = "record" => ForwardSteps(p) \subseteq run.did \cup {"record"}
  <2> SUFFICES ASSUME s = "record", NEW y \in ForwardSteps(p), y # "record" PROVE y \in run.did
    OBVIOUS
  <2>1. Rank(y) < 18 /\ Rank(s) = 18
    BY StepRanks, Ranks
  <2> QED BY <1>1, <2>1
<1> QED BY <1>1, <1>2, <1>3, <1>4, <1>5, <1>6, <1>7, <1>8, <1>9, <1>10

(* What has been done when a step that undoes is taken.                    *)
LEMMA UndoOrder ==
    ASSUME RunOK, QueueOK, run.phase = "undo", NEW s, At(s)
    PROVE  LET p == plan[run.tx] IN
           /\ s = "undoReport" => "report" \in run.did
           /\ s = "putBack" => "remove" \in run.did /\ p.kind = "remove"
           /\ s \in {"claimConfig", "undoConfig"} => "config=" \in run.did /\ p.hook
           /\ s = "claimConfig" => "undoConfig" \notin run.did
           /\ s = "undoConfig" => "claimConfig" \in run.did
           /\ s = "restoreOld" => "backup" \in run.did /\ p.kind = "upgrade"
           /\ s \in {"claimNew", "claimStage", "delete"} => "stage" \in run.did /\ New(p)
           /\ s = "claimNew" => "install" \in run.did
           /\ s = "claimStage" => "install" \notin run.did
           /\ s \in {"claimNew", "claimStage"} => "delete" \notin run.did
           /\ s \notin {"check", "stage", "backup", "install", "remove", "config", "config=", "keep", "report",
                        "endReport", "claimBackup", "endConfig", "record", "bind"}
<1> DEFINE p == plan[run.tx]
<1>1. /\ s \in UndoSteps(Fore) /\ s \notin run.did /\ s \notin ForwardSteps(p)
      /\ \A y \in UndoSteps(Fore) : Rank(y) < Rank(s) => y \in run.did
      /\ \A x \in Back : Rank(x) <= Rank(s)
  BY UndoAt
<1>2. Fore \subseteq run.did /\ Fore \subseteq ForwardSteps(p)
  BY DEF Fore
<1>3. /\ s = "undoReport" => "report" \in run.did
      /\ s = "putBack" => "remove" \in run.did /\ p.kind = "remove"
      /\ s \in {"claimConfig", "undoConfig"} => "config=" \in run.did /\ p.hook
      /\ s = "restoreOld" => "backup" \in run.did /\ p.kind = "upgrade"
  BY <1>1, <1>2 DEF UndoSteps, If, NewClaim, ForwardSteps
<1>4. ASSUME s \in {"claimNew", "claimStage", "delete"} PROVE "stage" \in run.did /\ New(p)
  <2>1. "stage" \in Fore
    BY <1>1, <1>4 DEF UndoSteps, If
  <2> QED BY <1>2, <2>1 DEF ForwardSteps, If
<1>5. /\ s = "claimNew" => "install" \in run.did
      /\ s = "claimStage" => "install" \notin Fore
  BY <1>1, <1>2 DEF UndoSteps, If, NewClaim
<1>6. ASSUME s = "claimStage" PROVE "install" \notin run.did
  <2>1. New(p)
    BY <1>4, <1>6
  <2>2. "install" \in ForwardSteps(p)
    BY <2>1 DEF ForwardSteps, If
  <2> QED BY <1>5, <1>6, <2>2 DEF Fore
<1>7. s = "claimConfig" => "undoConfig" \notin run.did
  <2>1. "undoConfig" \notin ForwardSteps(p) \cup {"tear"}
    BY DEF ForwardSteps, If
  <2> QED BY <1>1, <2>1, Ranks DEF Back
<1>8. s \in {"claimNew", "claimStage"} => "delete" \notin run.did
  <2>1. "delete" \notin ForwardSteps(p) \cup {"tear"}
    BY DEF ForwardSteps, If
  <2> QED BY <1>1, <2>1, Ranks DEF Back
<1>9. s = "undoConfig" => "claimConfig" \in run.did
  <2> SUFFICES ASSUME s = "undoConfig" PROVE "claimConfig" \in run.did
    OBVIOUS
  <2>1. "claimConfig" \in UndoSteps(Fore)
    BY <1>1 DEF UndoSteps, If, NewClaim
  <2> QED BY <1>1, <2>1, Ranks
<1>10. s \notin {"check", "stage", "backup", "install", "remove", "config", "config=", "keep", "report",
                 "endReport", "claimBackup", "endConfig", "record", "bind"}
  BY <1>1 DEF UndoSteps, If, NewClaim
<1> QED BY <1>3, <1>4, <1>5, <1>6, <1>7, <1>8, <1>9, <1>10

(* What a run that undoes has done.                                        *)
LEMMA UndoDid ==
    ASSUME RunOK, QueueOK, run.phase = "undo"
    PROVE  LET p == plan[run.tx] IN
           /\ run.did \subseteq ForwardSteps(p) \cup {"tear"} \cup UndoSteps(Fore)
           /\ "install" \in run.did => "stage" \in run.did /\ New(p)
           /\ "install" \in run.did /\ p.kind = "upgrade" => "backup" \in run.did
           /\ Fore # {} => "check" \in run.did
<1> DEFINE p == plan[run.tx]
<1>1. /\ Elems(run.todo) \cup Back = UndoSteps(Fore)
      /\ \A x \in Fore, y \in ForwardSteps(p) : Rank(y) < Rank(x) => y \in run.did
  BY DEF QueueOK
<1>2. run.did \subseteq ForwardSteps(p) \cup {"tear"} \cup UndoSteps(Fore)
  BY <1>1 DEF Back
<1>3. "install" \notin UndoSteps(Fore)
  BY DEF UndoSteps, If, NewClaim
<1>4. "install" \in run.did => "install" \in Fore
  BY <1>2, <1>3 DEF Fore
<1>5. "install" \in Fore => New(p)
  BY DEF Fore, ForwardSteps, If
<1>6. New(p) => "stage" \in ForwardSteps(p)
  BY DEF ForwardSteps, If
<1>7. p.kind = "upgrade" => "backup" \in ForwardSteps(p)
  BY DEF ForwardSteps, If
<1>8. Rank("stage") < Rank("install") /\ Rank("backup") < Rank("install")
  BY Ranks
<1>9. ASSUME NEW x \in Fore PROVE "check" \in run.did
  <2>1. x \in ForwardSteps(p) /\ "check" \in ForwardSteps(p)
    BY DEF Fore, ForwardSteps
  <2>2. x = "check" \/ Rank("check") < Rank(x)
    BY <2>1, Ranks DEF ForwardSteps, If
  <2> QED BY <1>1, <2>1, <2>2 DEF Fore
<1> QED BY <1>1, <1>2, <1>4, <1>5, <1>6, <1>7, <1>8, <1>9

(* What a run that has done this much has left at the companion path.       *)
HomeNow(p, t, did) ==
    IF New(p)
    THEN IF "install" \in did /\ "claimNew" \notin did THEN t
         ELSE IF "backup" \in did /\ "restoreOld" \notin did THEN Nothing ELSE p.tree
    ELSE IF "remove" \in did /\ "putBack" \notin did THEN Nothing ELSE p.tree

(* The phases before the record.                                            *)
Exact == run.phase \in {"forward", "undo"}

(* The companion is what was done, unless a person wrote over it.           *)
HomeAs ==
    Exact => /\ "check" \in run.did => Was(tree[Home], HomeNow(plan[run.tx], run.tx, run.did))
             /\ {"restoreOld", "install"} \subseteq run.did => "claimNew" \in run.did

(* So is the configuration, with the files beside it.                       *)
ConfigAs ==
    LET t == run.tx
        old == plan[t].config
    IN
    Exact =>
        /\ "config=" \notin run.did =>
              /\ "check" \in run.did => Was(config, old)
              /\ "config" \notin run.did \/ run.phase = "undo" => side[t] = {}
        /\ "config=" \in run.did =>
              /\ "undoConfig" \in run.did => Was(config, old) /\ side[t] = {}
              /\ "undoConfig" \notin run.did /\ "claimConfig" \in run.did =>
                    Was(config, IF "bak" \in side[t] THEN Nothing ELSE old)
              /\ "undoConfig" \notin run.did /\ "claimConfig" \notin run.did => Was(config, t)

(* So is the report, with the one kept for it.                              *)
ReportAs ==
    LET t == run.tx
        saved == kept[t] \notin {Nothing, t}
        published == "report" \in run.did /\ "undoReport" \notin run.did
    IN
    Exact =>
        /\ published => report = t /\ saved
        /\ ~published => report # t
        /\ ~published /\ run.phase = "forward" /\ "keep" \in run.did => saved
        /\ ~published /\ (run.phase = "undo" \/ "keep" \notin run.did) => kept[t] = Nothing

(* A transaction is bound to its record only after revalidation.            *)
BoundAs == Exact /\ rec[run.tx].bound => "check" \in run.did

(* A run that still goes forward, or undoes, has done what it was at, or   *)
(* left it alone.                                                          *)
LEMMA GoesOn ==
    ASSUME TInv, IInv, NEW s, StepForm(s), Exact'
    PROVE  /\ At(s) /\ run'.tx = run.tx /\ run.tx \in Tx /\ UNCHANGED <<plan, edits>>
           /\ \/ /\ Done(s) /\ s # "record" /\ run.phase = "forward" /\ run'.phase = "forward"
                 /\ run'.did = run.did \cup {s}
              \/ /\ Done(s) /\ run.phase = "undo" /\ run'.phase = "undo" /\ run'.did = run.did \cup {s}
              \/ /\ Left(s) /\ run.phase = "forward" /\ run'.phase = "undo" /\ run'.did = run.did
<1>1. RunOK /\ QueueOK /\ OwnOnly /\ SideOK
  BY DEF TInv, IInv, FilesOK
<1>2. At(s) /\ run'.tx = run.tx /\ run.tx \in Tx /\ UNCHANGED <<plan, edits>>
  BY <1>1, StepCases, FormTouches DEF FromOutside
<1>3. run'.phase \in {"forward", "undo"}
  BY DEF Exact
<1> QED BY <1>1, <1>2, <1>3, StepCases

(* What a run that goes forward may be at, and has not done.                *)
LEMMA ForwardHas ==
    ASSUME RunOK, QueueOK, run.phase = "forward", NEW s, At(s)
    PROVE  LET p == plan[run.tx] IN
           /\ s \in {"check", "bind", "stage", "stage*", "backup", "backup*", "install", "prove",
                     "install*", "config", "config?", "config*", "config=", "remove", "remove*",
                     "keep", "report*", "report", "record"}
           /\ s \in {"stage", "install"} => New(p)
           /\ s = "backup" => p.kind = "upgrade"
           /\ s = "remove" => p.kind = "remove"
           /\ s \in {"config", "config*", "config="} => p.hook
           /\ run.did \cap {"restoreOld", "claimNew", "claimStage", "claimBackup", "putBack", "delete",
                            "tear", "claimConfig", "undoConfig", "undoReport", "endConfig", "endReport",
                            "closed"} = {}
           /\ ~p.hook => run.did \cap {"config", "config="} = {}
           /\ p.kind # "remove" => "remove" \notin run.did
           /\ p.kind # "upgrade" => "backup" \notin run.did
           /\ ~New(p) => run.did \cap {"stage", "install"} = {}
<1>1. s \in ForwardSteps(plan[run.tx]) /\ run.did \subseteq ForwardSteps(plan[run.tx])
  BY ForwardAt
<1> QED BY <1>1 DEF ForwardSteps, If, New

(* A forward step leaves the companion as it says.                          *)
LEMMA HomeForward ==
    ASSUME TInv, HomeAs, NEW s, At(s), Done(s), run.phase = "forward", run.tx \in Tx
    PROVE  "check" \in run.did \cup {s} =>
              \/ tree'[Home] = HomeNow(plan[run.tx], run.tx, run.did \cup {s})
              \/ Was(tree'[Home], HomeNow(plan[run.tx], run.tx, run.did \cup {s}))
<1> DEFINE t == run.tx
           p == plan[t]
           did == run.did \cup {s}
<1>0. RunOK /\ QueueOK /\ FilesOK
  BY DEF TInv
<1>1. did \cap {"restoreOld", "claimNew", "putBack"} = {}
  BY <1>0, ForwardHas
<1>2. CASE s = "check"
  <2>1. tree'[Home] = p.tree
    BY <1>2 DEF Done, Fresh, MoveStep
  <2>2. did \cap {"install", "backup", "remove"} = {}
    BY <1>0, <1>2, ForwardOrder
  <2>3. HomeNow(p, t, did) = p.tree
    BY <2>2 DEF HomeNow
  <2> QED BY <2>1, <2>3
<1>3. CASE s = "backup"
  <2>1. tree'[Home] = Nothing
    BY <1>3, MoveFacts DEF Done, MoveStep, Shift
  <2>2. New(p) /\ "install" \notin did /\ "backup" \in did
    BY <1>0, <1>3, ForwardHas, ForwardOrder DEF New
  <2>3. HomeNow(p, t, did) = Nothing
    BY <1>1, <2>2 DEF HomeNow
  <2> QED BY <2>1, <2>3
<1>4. CASE s = "install"
  <2>1. tree'[Home] = t
    BY <1>4, MoveFacts DEF Done, MoveStep, Shift
  <2>2. New(p) /\ "install" \in did
    BY <1>0, <1>4, ForwardHas
  <2>3. HomeNow(p, t, did) = t
    BY <1>1, <2>2 DEF HomeNow
  <2> QED BY <2>1, <2>3
<1>5. CASE s = "remove"
  <2>1. tree'[Home] = Nothing
    BY <1>5, MoveFacts DEF Done, MoveStep, Shift
  <2>2. ~New(p) /\ "remove" \in did
    BY <1>0, <1>5, ForwardHas DEF New
  <2>3. HomeNow(p, t, did) = Nothing
    BY <1>1, <2>2 DEF HomeNow
  <2> QED BY <2>1, <2>3
<1>6. CASE s \notin {"check", "backup", "install", "remove"}
  <2>1. s \notin MoveStep \cup {"delete", "claimNew", "restoreOld", "putBack"}
    BY <1>0, <1>6, ForwardHas DEF MoveStep
  <2>2. tree'[Home] = tree[Home]
    BY <1>0, <2>1, Places DEF Done, FilesOK
  <2>3. HomeNow(p, t, did) = HomeNow(p, t, run.did)
    BY <1>6, <2>1 DEF HomeNow
  <2>4. "check" \in run.did
    BY <1>0, <1>6, ForwardOrder
  <2> QED BY <2>2, <2>3, <2>4 DEF HomeAs, Exact
<1> QED BY <1>2, <1>3, <1>4, <1>5, <1>6

(* So does a step that undoes.                                              *)
LEMMA HomeUndo ==
    ASSUME TInv, HomeAs, NEW s, At(s), Done(s), run.phase = "undo", run.tx \in Tx
    PROVE  /\ "check" \in run.did \cup {s} =>
              \/ tree'[Home] = HomeNow(plan[run.tx], run.tx, run.did \cup {s})
              \/ Was(tree'[Home], HomeNow(plan[run.tx], run.tx, run.did \cup {s}))
           /\ {"restoreOld", "install"} \subseteq run.did \cup {s} => "claimNew" \in run.did \cup {s}
<1> DEFINE t == run.tx
           p == plan[t]
           did == run.did \cup {s}
<1>0. RunOK /\ QueueOK /\ FilesOK /\ PlanOK
  BY DEF TInv
<1>1. s \notin run.did /\ s \notin {"check", "install", "backup", "remove", "stage", "claimBackup"}
  BY <1>0, UndoAt, UndoOrder
<1>2. {"restoreOld", "install"} \subseteq run.did => "claimNew" \in run.did
  BY DEF HomeAs, Exact
<1>3. CASE s = "claimNew"
  <2>1. tree'[Home] = Nothing
    BY <1>3, MoveFacts DEF Done, MoveStep, Shift
  <2>2. New(p) /\ "install" \in run.did
    BY <1>0, <1>3, UndoOrder
  <2>3. "restoreOld" \notin run.did
    BY <1>1, <1>2, <1>3, <2>2
  <2>4. p.kind = "create" => p.tree = Nothing
    <3>1. NoPlan.kind # "create"
      BY DEF NoPlan
    <3> QED BY <1>0, <3>1 DEF PlanOK
  <2>5. p.kind = "upgrade" => "backup" \in run.did
    BY <1>0, <2>2, UndoDid
  <2>6. HomeNow(p, t, did) = Nothing
    BY <1>3, <2>2, <2>3, <2>4, <2>5 DEF HomeNow, New
  <2> QED BY <1>3, <2>1, <2>6
<1>4. CASE s = "restoreOld"
  <2>1. tree[Home] = Nothing /\ tree'[Home] = p.tree
    BY <1>4, MoveFacts DEF Done, MoveStep, Shift
  <2>2. p.kind = "upgrade" /\ "backup" \in run.did
    BY <1>0, <1>4, UndoOrder
  <2>3. "check" \in run.did
    <3>1. "backup" \in Fore
      BY <2>2 DEF Fore, ForwardSteps, If
    <3> QED BY <1>0, <3>1, UndoDid
  <2>4. "install" \in run.did => "claimNew" \in run.did
    <3> SUFFICES ASSUME "install" \in run.did, "claimNew" \notin run.did PROVE FALSE
      OBVIOUS
    <3>1. HomeNow(p, t, run.did) = t
      BY <2>2 DEF HomeNow, New
    <3>2. Was(tree[Home], t)
      BY <2>3, <3>1 DEF HomeAs, Exact
    <3> QED BY <2>1, <3>2, Distinct DEF Was
  <2>5. HomeNow(p, t, did) = p.tree
    BY <1>4, <2>2, <2>4 DEF HomeNow, New
  <2> QED BY <1>4, <2>1, <2>4, <2>5
<1>5. CASE s = "putBack"
  <2>1. p.kind = "remove" /\ "remove" \in run.did
    BY <1>0, <1>5, UndoOrder
  <2>2. p.tree # Nothing
    <3>1. NoPlan.kind # "remove"
      BY DEF NoPlan
    <3> QED BY <1>0, <2>1, <3>1 DEF PlanOK
  <2>3. tree'[Home] = p.tree
    BY <1>5, <2>2, MoveFacts DEF Done, MoveStep, Shift
  <2>4. HomeNow(p, t, did) = p.tree
    BY <1>5, <2>1 DEF HomeNow, New
  <2> QED BY <1>2, <1>5, <2>3, <2>4
<1>6. CASE s \notin {"claimNew", "restoreOld", "putBack"}
  <2>1. tree'[Home] = tree[Home]
    <3>1. CASE s = "claimStage"
      <4>1. Home \in Own(t) \ {PlaceOf("stage", t), PlaceOf("cleanup", t)}
        BY Places DEF Own
      <4> QED BY <3>1, <4>1, MoveFacts DEF Done, MoveStep, Shift
    <3>2. CASE s # "claimStage"
      <4>1. s \notin MoveStep \/ s = "putNew"
        BY <1>1, <1>6, <3>2 DEF MoveStep
      <4>2. s # "putNew"
        BY <1>0, UndoAt DEF UndoSteps, If, NewClaim
      <4> QED BY <1>0, <1>1, <4>1, <4>2, Places DEF Done, FilesOK
    <3> QED BY <3>1, <3>2
  <2>2. HomeNow(p, t, did) = HomeNow(p, t, run.did)
    BY <1>1, <1>6 DEF HomeNow
  <2> QED BY <1>1, <1>2, <1>6, <2>1, <2>2 DEF HomeAs, Exact
<1> QED BY <1>3, <1>4, <1>5, <1>6

(* So does every step.                                                      *)
LEMMA HomeStep ==
    ASSUME TInv, IInv, HomeAs, NEW s, StepForm(s)
    PROVE  HomeAs'
<1> SUFFICES ASSUME Exact' PROVE HomeAs'
  BY DEF HomeAs
<1>1. /\ At(s) /\ run'.tx = run.tx /\ run.tx \in Tx /\ UNCHANGED <<plan, edits>>
      /\ RunOK /\ QueueOK /\ FilesOK
  BY GoesOn DEF TInv
<1>3. CASE Done(s) /\ run.phase = "forward" /\ run'.did = run.did \cup {s}
  <2>1. "claimNew" \in run'.did \/ "restoreOld" \notin run'.did
    BY <1>1, <1>3, ForwardHas
  <2> QED BY <1>1, <1>3, <2>1, HomeForward DEF HomeAs, Was
<1>4. CASE Done(s) /\ run.phase = "undo" /\ run'.did = run.did \cup {s}
  BY <1>1, <1>4, HomeUndo DEF HomeAs, Was
<1>5. CASE Left(s) /\ run.phase = "forward" /\ run'.did = run.did
  BY <1>1, <1>5 DEF Left, HomeAs, Exact, Was
<1> QED BY <1>3, <1>4, <1>5, GoesOn

(* The files beside the configuration of one transaction.                   *)
LEMMA SideAfter ==
    ASSUME SideOK, NEW t \in Tx, NEW v, side' = [side EXCEPT ![t] = v]
    PROVE  side'[t] = v
BY DEF SideOK

(* A forward step leaves the configuration as it says.                      *)
LEMMA ConfigForward ==
    ASSUME TInv, ConfigAs, NEW s, At(s), Done(s), run.phase = "forward", run.tx \in Tx,
           run'.phase = "forward", run'.tx = run.tx, run'.did = run.did \cup {s},
           UNCHANGED <<plan, edits>>
    PROVE  ConfigAs'
<1> DEFINE t == run.tx
           old == plan[t].config
           did == run.did \cup {s}
<1>0. RunOK /\ QueueOK /\ SideOK
  BY DEF TInv, FilesOK
<1>1. did \cap {"claimConfig", "undoConfig"} = {} /\ s \notin {"endConfig", "claimConfig", "undoConfig"}
  BY <1>0, ForwardHas
<1>2. /\ "config=" \notin run.did => /\ "check" \in run.did => Was(config, old)
                                     /\ "config" \notin run.did => side[t] = {}
      /\ "config=" \in run.did => Was(config, t)
  BY <1>1 DEF ConfigAs, Exact
<1> SUFFICES /\ "config=" \notin did => /\ "check" \in did => Was(config', old)
                                        /\ "config" \notin did => side'[t] = {}
             /\ "config=" \in did => Was(config', t)
  BY <1>1 DEF ConfigAs, Was
<1>3. CASE s = "check"
  <2>1. config' = old /\ side' = side
    BY <1>3 DEF Done, Fresh
  <2>2. {"config", "config="} \cap run.did = {}
    BY <1>0, <1>3, ForwardOrder
  <2> QED BY <1>2, <1>3, <2>1, <2>2 DEF Was
<1>4. CASE s = "config"
  <2>1. config' = config /\ "check" \in run.did /\ "config=" \notin run.did
    BY <1>0, <1>4, ForwardOrder DEF Done
  <2> QED BY <1>2, <1>4, <2>1
<1>5. CASE s = "config="
  <2>1. config' = t
    BY <1>5 DEF Done
  <2> QED BY <1>5, <2>1 DEF Was
<1>6. CASE s \notin {"check", "config", "config="}
  <2>1. config' = config /\ side' = side
    BY <1>1, <1>6 DEF Done
  <2>2. "check" \in run.did
    BY <1>0, <1>6, ForwardOrder
  <2> QED BY <1>2, <1>6, <2>1, <2>2
<1> QED BY <1>3, <1>4, <1>5, <1>6

(* So does a step that undoes.                                              *)
LEMMA ConfigUndo ==
    ASSUME TInv, ConfigAs, NEW s, At(s), Done(s), run.phase = "undo", run.tx \in Tx,
           run'.phase = "undo", run'.tx = run.tx, run'.did = run.did \cup {s},
           UNCHANGED <<plan, edits>>
    PROVE  ConfigAs'
<1> DEFINE t == run.tx
           old == plan[t].config
<1>0. RunOK /\ QueueOK /\ SideOK
  BY DEF TInv, FilesOK
<1>1. s \notin run.did /\ s \notin {"check", "config", "config=", "endConfig"}
  BY <1>0, UndoAt, UndoOrder
<1>2. CASE s = "claimConfig"
  <2>1. "config=" \in run.did /\ "undoConfig" \notin run.did
    BY <1>0, <1>2, UndoOrder
  <2>2. \/ config = old /\ config' = config /\ side'[t] = {}
        \/ HasBackup(t) /\ config' = Nothing /\ side' = side
    BY <1>0, <1>2, SideAfter DEF Done
  <2>3. Was(config', IF "bak" \in side'[t] THEN Nothing ELSE old)
    BY <2>2 DEF HasBackup, Was
  <2> QED BY <1>2, <2>1, <2>3 DEF ConfigAs, Was
<1>3. CASE s = "undoConfig"
  <2>1. "config=" \in run.did /\ "claimConfig" \in run.did
    BY <1>0, <1>3, UndoOrder
  <2>2. Was(config, IF "bak" \in side[t] THEN Nothing ELSE old)
    BY <1>1, <1>3, <2>1 DEF ConfigAs, Exact
  <2>3. config' = (IF "bak" \in side[t] THEN old ELSE config) /\ side'[t] = {}
    BY <1>0, <1>3, SideAfter DEF Done
  <2>4. Was(config', old)
    BY <2>2, <2>3 DEF Was
  <2> QED BY <1>3, <2>1, <2>3, <2>4 DEF ConfigAs, Was
<1>4. CASE s \notin {"claimConfig", "undoConfig"}
  <2>1. config' = config /\ side' = side
    BY <1>1, <1>4 DEF Done
  <2> QED BY <1>1, <1>4, <2>1 DEF ConfigAs, Exact, Was
<1> QED BY <1>2, <1>3, <1>4

(* So does one that fails for certain.                                      *)
LEMMA ConfigLeft ==
    ASSUME TInv, ConfigAs, NEW s, At(s), Left(s), run.phase = "forward", run.tx \in Tx,
           run'.phase = "undo", run'.tx = run.tx, run'.did = run.did,
           UNCHANGED <<plan, edits>>
    PROVE  ConfigAs'
<1> DEFINE t == run.tx
           old == plan[t].config
<1>0. RunOK /\ QueueOK /\ SideOK
  BY DEF TInv, FilesOK
<1>1. run.did \cap {"claimConfig", "undoConfig"} = {}
  BY <1>0, ForwardHas
<1>2. config' = config /\ (side' = side \/ side'[t] = {})
      /\ (s \in {"config=", "config*"} => side'[t] = {})
  BY <1>0, SideAfter DEF Left
<1>3. "config=" \notin run.did => /\ "check" \in run.did => Was(config, old)
                                  /\ side'[t] = {}
  <2>1. CASE "config" \notin run.did
    BY <1>2, <2>1 DEF ConfigAs, Exact
  <2>2. CASE "config" \in run.did
    BY <1>0, <1>2, <2>2, ForwardOrder DEF ConfigAs, Exact
  <2> QED BY <2>1, <2>2
<1>4. "config=" \in run.did => Was(config, t)
  BY <1>1 DEF ConfigAs, Exact
<1> QED BY <1>1, <1>2, <1>3, <1>4 DEF ConfigAs, Was

(* A forward step leaves the report as it says.                             *)
LEMMA ReportForward ==
    ASSUME TInv, ReportAs, NEW s, At(s), Done(s), run.phase = "forward", run.tx \in Tx,
           run'.phase = "forward", run'.tx = run.tx, run'.did = run.did \cup {s}
    PROVE  ReportAs'
<1> DEFINE t == run.tx
           did == run.did \cup {s}
           saved == kept[t] \notin {Nothing, t}
<1>0. RunOK /\ QueueOK /\ FilesOK
  BY DEF TInv
<1>1. "undoReport" \notin did /\ s \notin {"undoReport", "endReport"}
  BY <1>0, ForwardHas
<1>2. /\ "report" \in run.did => report = t /\ saved
      /\ "report" \notin run.did => report # t /\ ("keep" \in run.did => saved)
                                    /\ ("keep" \notin run.did => kept[t] = Nothing)
  BY <1>1 DEF ReportAs, Exact
<1> SUFFICES /\ "report" \in did => report' = t /\ kept'[t] \notin {Nothing, t}
             /\ "report" \notin did => report' # t /\ ("keep" \in did => kept'[t] \notin {Nothing, t})
                                       /\ ("keep" \notin did => kept'[t] = Nothing)
  BY <1>1 DEF ReportAs
<1>3. CASE s = "keep"
  <2>1. report' = report /\ kept'[t] = report /\ "report" \notin run.did
    BY <1>0, <1>3, ForwardOrder DEF Done, FilesOK
  <2>2. report # Nothing
    BY <1>0, Distinct DEF FilesOK
  <2> QED BY <1>2, <1>3, <2>1, <2>2
<1>4. CASE s = "report"
  <2>1. report' = t /\ kept' = kept /\ "keep" \in run.did /\ "report" \notin run.did
    BY <1>0, <1>4, ForwardOrder, ForwardAt DEF Done
  <2> QED BY <1>2, <1>4, <2>1
<1>5. CASE s \notin {"keep", "report"}
  <2>1. report' = report /\ kept' = kept
    BY <1>1, <1>5 DEF Done
  <2> QED BY <1>2, <1>5, <2>1
<1> QED BY <1>3, <1>4, <1>5

(* So does a step that undoes.                                              *)
LEMMA ReportUndo ==
    ASSUME TInv, ReportAs, NEW s, At(s), Done(s), run.phase = "undo", run.tx \in Tx,
           run'.phase = "undo", run'.tx = run.tx, run'.did = run.did \cup {s}
    PROVE  ReportAs'
<1> DEFINE t == run.tx
           published == "report" \in run.did /\ "undoReport" \notin run.did
           published1 == "report" \in run'.did /\ "undoReport" \notin run'.did
<1>0. RunOK /\ QueueOK /\ FilesOK
  BY DEF TInv
<1>1. s \notin run.did /\ s \notin {"keep", "report", "endReport"}
  BY <1>0, UndoAt, UndoOrder
<1>2. /\ published => report = t /\ kept[t] \notin {Nothing, t}
      /\ ~published => report # t /\ kept[t] = Nothing
  BY DEF ReportAs, Exact
<1> SUFFICES /\ published1 => report' = t /\ kept'[t] \notin {Nothing, t}
             /\ ~published1 => report' # t /\ kept'[t] = Nothing
  BY DEF ReportAs
<1>3. CASE s = "undoReport"
  <2>1. published /\ ~published1
    BY <1>0, <1>1, <1>3, UndoOrder
  <2>2. report' = kept[t] /\ kept'[t] = Nothing
    BY <1>0, <1>3 DEF Done, FilesOK
  <2> QED BY <1>2, <2>1, <2>2
<1>4. CASE s # "undoReport"
  <2>1. report' = report /\ kept' = kept
    BY <1>1, <1>4 DEF Done
  <2>2. published1 <=> published
    BY <1>1, <1>4
  <2> QED BY <1>2, <2>1, <2>2
<1> QED BY <1>3, <1>4

(* So does one that fails for certain.                                      *)
LEMMA ReportLeft ==
    ASSUME TInv, ReportAs, NEW s, At(s), Left(s), run.phase = "forward", run.tx \in Tx,
           run'.phase = "undo", run'.tx = run.tx, run'.did = run.did
    PROVE  ReportAs'
<1> DEFINE t == run.tx
<1>0. RunOK /\ QueueOK /\ FilesOK
  BY DEF TInv
<1>1. "undoReport" \notin run.did
  BY <1>0, ForwardHas
<1>2. report' = report
  BY DEF Left
<1>3. CASE "report" \in run.did
  <2>1. s # "report" /\ s # "report*"
    <3>1. \A x \in run.did : Rank(x) <= Rank(s)
      BY <1>0, ForwardAt
    <3> QED BY <1>0, <1>3, <3>1, ForwardAt, Ranks
  <2>2. kept' = kept
    BY <2>1 DEF Left
  <2> QED BY <1>1, <1>2, <1>3, <2>2 DEF ReportAs, Exact
<1>4. CASE "report" \notin run.did
  <2>1. kept'[t] = Nothing
    <3>1. CASE "keep" \notin run.did
      BY <1>0, <1>4, <3>1 DEF ReportAs, Exact, Left, FilesOK
    <3>2. CASE "keep" \in run.did
      <4>1. s \in {"report*", "report"}
        BY <1>0, <1>4, <3>2, ForwardOrder
      <4> QED BY <1>0, <4>1 DEF Left, FilesOK
    <3> QED BY <3>1, <3>2
  <2> QED BY <1>2, <1>4, <2>1 DEF ReportAs, Exact
<1> QED BY <1>3, <1>4

(* A step binds the transaction after revalidation only.                    *)
LEMMA BoundStep ==
    ASSUME TInv, IInv, BoundAs, NEW s, StepForm(s)
    PROVE  BoundAs'
<1> DEFINE t == run.tx
<1> SUFFICES ASSUME Exact', rec'[run'.tx].bound PROVE "check" \in run'.did
  BY DEF BoundAs
<1>1. /\ At(s) /\ run'.tx = t /\ t \in Tx /\ RunOK /\ QueueOK /\ RecOK
      /\ run.did \subseteq run'.did /\ Exact
  BY GoesOn DEF TInv, Exact
<1>2. CASE rec' = rec
  BY <1>1, <1>2 DEF BoundAs
<1>3. CASE s \in NoteStep /\ Noting(s)
  <2>1. rec'[t] = Noted(s, rec[t]) /\ rec[t] \in RecType
    BY <1>1, <1>3 DEF Noting, RecOK
  <2>2. s = "bind" \/ rec[t].bound
    BY <1>1, <2>1 DEF Noted, RecType
  <2>3. s = "bind" => "check" \in run.did
    BY <1>1, ForwardOrder, UndoOrder DEF Exact
  <2> QED BY <1>1, <2>2, <2>3 DEF BoundAs
<1>4. CASE Done(s)
  BY <1>2, <1>3, <1>4 DEF Done
<1>5. CASE Left(s)
  BY <1>2, <1>5 DEF Left
<1> QED BY <1>4, <1>5, GoesOn

(* What was done before the record tells the state.                         *)
EInv == HomeAs /\ ConfigAs /\ ReportAs /\ BoundAs

(* A step keeps it so.                                                      *)
LEMMA ExactStep ==
    ASSUME TInv, IInv, EInv, NEW s, StepForm(s)
    PROVE  EInv'
<1>1. HomeAs' /\ BoundAs'
  BY HomeStep, BoundStep DEF EInv
<1>2. ConfigAs' /\ ReportAs'
  <2>1. CASE ~Exact'
    BY <2>1 DEF ConfigAs, ReportAs
  <2>2. CASE Exact'
    BY <2>2, GoesOn, ConfigForward, ConfigUndo, ConfigLeft, ReportForward, ReportUndo, ReportLeft
       DEF EInv
  <2> QED BY <2>1, <2>2
<1> QED BY <1>1, <1>2 DEF EInv

(* Nothing is told outside those phases.                                    *)
LEMMA NotExact ==
    ASSUME ~Exact'
    PROVE  EInv'
BY DEF EInv, HomeAs, ConfigAs, ReportAs, BoundAs

(* Tearing keeps it so.                                                     *)
LEMMA ExactTear ==
    ASSUME TInv, IInv, EInv, Tearing
    PROVE  EInv'
<1>0. RunOK /\ QueueOK /\ FilesOK /\ OwnOnly
  BY DEF TInv, IInv
<1>1. /\ At("delete") /\ tree' = [tree EXCEPT ![PlaceOf("cleanup", run.tx)] = Torn]
      /\ UNCHANGED <<config, side, report, kept, rec, FromOutside>>
      /\ run' = [run EXCEPT !.did = @ \cup {"tear"}]
  BY DEF Tearing
<1>2. run.tx \in Tx
  BY <1>0, <1>1, StepIn DEF OwnOnly
<1>3. run'.phase = run.phase /\ run'.tx = run.tx /\ run'.did = run.did \cup {"tear"}
  BY <1>0, <1>1 DEF RunOK, RunType
<1>4. tree'[Home] = tree[Home] /\ UNCHANGED <<plan, edits>>
  BY <1>0, <1>1, <1>2, Places DEF FilesOK, FromOutside
<1>5. HomeNow(plan[run.tx], run.tx, run'.did) = HomeNow(plan[run.tx], run.tx, run.did)
  BY <1>3 DEF HomeNow
<1>6. HomeAs'
  BY <1>3, <1>4, <1>5 DEF EInv, HomeAs, Exact, Was
<1>7. ConfigAs'
  BY <1>1, <1>3, <1>4 DEF EInv, ConfigAs, Exact, Was
<1>8. ReportAs' /\ BoundAs'
  BY <1>1, <1>3 DEF EInv, ReportAs, BoundAs, Exact
<1> QED BY <1>6, <1>7, <1>8 DEF EInv

(* So does what leaves the run alone, a person's edits included.            *)
LEMMA ExactStill ==
    ASSUME TInv, EInv, UNCHANGED <<run, side, report, kept, rec>>,
           Exact => plan'[run.tx] = plan[run.tx],
           \/ UNCHANGED <<tree, config, edits>>
           \/ /\ edits' = edits + 1
              /\ tree'[Home] \in {tree[Home], User} /\ config' \in {config, User}
    PROVE  EInv'
<1>1. edits \in Nat
  BY LimitsAreNaturals DEF TInv, BoundsOK
<1>2. \A what : Was(tree[Home], what) => tree'[Home] = what \/ (edits' > 0 /\ tree'[Home] = User)
  BY <1>1 DEF Was
<1>3. \A what : Was(config, what) => config' = what \/ (edits' > 0 /\ config' = User)
  BY <1>1 DEF Was
<1>4. HomeAs'
  BY <1>2 DEF EInv, HomeAs, Exact, Was
<1>5. ConfigAs'
  BY <1>3 DEF EInv, ConfigAs, Exact, Was
<1>6. ReportAs' /\ BoundAs'
  BY DEF EInv, ReportAs, BoundAs, Exact
<1> QED BY <1>4, <1>5, <1>6 DEF EInv

(* So does the beginning of an application.                                 *)
LEMMA ExactBegin ==
    ASSUME TInv, IInv, NEW t \in Tx, Begin(t)
    PROVE  EInv'
<1>0. Unused /\ RecOK
  BY DEF TInv
<1>1. /\ run = Idle /\ t \notin claimed
      /\ UNCHANGED <<plan, files>>
      /\ \/ UNCHANGED <<rec, run>>
         \/ /\ rec' = [rec EXCEPT ![t].state = "prepared"]
            /\ \/ run' = run
               \/ run' = [Idle EXCEPT !.kind = "apply", !.phase = "forward", !.tx = t,
                                     !.todo = Forward(plan[t])]
  BY BeginFacts
<1>2. CASE run' = run
  BY <1>1, <1>2, IdlePhase, NotExact DEF Exact
<1>3. CASE run' # run
  <2>1. run'.tx = t /\ run'.phase = "forward" /\ run'.did = {}
    BY <1>1, <1>3, BeginRun
  <2>2. side[t] = {} /\ report # t /\ kept[t] = Nothing /\ rec[t] = NoRecord
    BY <1>0, <1>1 DEF Unused
  <2>3. UNCHANGED <<side, report, kept>>
    BY <1>1 DEF files
  <2>4. ~rec'[t].bound
    <3>1. rec[t] \in RecType /\ ~rec[t].bound
      <4>1. ~NoRecord.bound
        BY DEF NoRecord
      <4> QED BY <1>0, <2>2, <4>1 DEF RecOK
    <3> QED BY <1>0, <1>1, <1>3, <3>1 DEF RecOK, RecType
  <2>5. HomeAs'
    BY <2>1 DEF HomeAs
  <2>6. ConfigAs'
    BY <2>1, <2>2, <2>3 DEF ConfigAs
  <2>7. ReportAs' /\ BoundAs'
    BY <2>1, <2>2, <2>3, <2>4 DEF ReportAs, BoundAs
  <2> QED BY <2>5, <2>6, <2>7 DEF EInv
<1> QED BY <1>2, <1>3

(* A review is of a plan that no run and no answer is about.                *)
LEMMA OtherPlan ==
    ASSUME TInv, NEW t \in Tx, Review(t)
    PROVE  /\ t \notin claimed /\ run.tx # t /\ receipt.tx # t /\ rec[t] = NoRecord
           /\ \A u \in Tx : u # t => plan'[u] = plan[u]
           /\ UNCHANGED <<claimed, files, rec, run, receipt, edits>>
<1>1. plan[t] = NoPlan /\ UNCHANGED <<claimed, files, rec, run, receipt, edits>>
      /\ \E p : plan' = [plan EXCEPT ![t] = p]
  BY DEF Review
<1>2. t \notin claimed
  BY <1>1 DEF TInv, Planned
<1>3. run.tx # t /\ receipt.tx # t /\ rec[t] = NoRecord
  BY <1>2 DEF TInv, Unused
<1>4. \A u \in Tx : u # t => plan'[u] = plan[u]
  <2>1. plan = [u \in Tx |-> plan[u]]
    BY DEF TInv, Planned
  <2> QED BY <1>1, <2>1
<1> QED BY <1>1, <1>2, <1>3, <1>4

(* So does every step.                                                      *)
LEMMA ExactNext ==
    ASSUME TInv, IInv, EInv, [Next]_vars
    PROVE  EInv'
<1>0. RunOK /\ SideOK /\ OwnOnly
  BY DEF TInv, IInv, FilesOK
<1>1. CASE Step
  <2>1. End \/ Tearing \/ \E s : StepForm(s)
    BY <1>0, <1>1, StepForms
  <2>2. CASE End
    BY <2>2, IdlePhase, NotExact DEF End, Exact
  <2> QED BY <2>1, <2>2, ExactTear, ExactStep
<1>2. CASE Die
  BY <1>2, IdlePhase, NotExact DEF Die, Exact
<1>3. CASE EditCompanion
  <2>1. tree'[Home] = User
    BY <1>3, Places DEF EditCompanion, TInv, FilesOK
  <2> QED BY <1>3, <2>1, ExactStill DEF EditCompanion
<1>4. CASE EditConfig
  BY <1>4, ExactStill DEF EditConfig
<1>5. ASSUME NEW t \in Tx, Review(t) PROVE EInv'
  <2>1. Exact => run.tx \in Tx /\ run.tx # t
    BY <1>0, <1>5, OtherPlan DEF Exact, OwnOnly, Busy
  <2> QED BY <1>5, <2>1, OtherPlan, ExactStill DEF files
<1>6. ASSUME NEW t \in Tx, Begin(t) PROVE EInv'
  BY <1>6, ExactBegin
<1>7. CASE ApplyRecovery
  <2>1. run = Idle /\ (run' = run \/ run'.phase \in {"rollback", "finalize"})
    BY <1>7, RecoveryFacts
  <2> QED BY <2>1, IdlePhase, NotExact DEF Exact
<1>8. ASSUME NEW t \in Tx, ReviewRecovery(t) PROVE EInv'
  BY <1>8, ExactStill DEF ReviewRecovery, files
<1>9. CASE UNCHANGED vars
  BY <1>9, ExactStill DEF vars, files
<1> QED BY <1>1, <1>2, <1>3, <1>4, <1>5, <1>6, <1>7, <1>8, <1>9 DEF Next, Around

(* What a recorded transaction says is in place.                           *)
Counts(t) ==
    \/ t \in Unresolved /\ RecordHead = t
    \/ run.phase = "finish" /\ run.tx = t

(* What is recorded is in place.                                            *)
RInv == \A t \in Tx : Counts(t) => Installed(t)

(* All is in place when the record is appended.                             *)
LEMMA RecordInstalls ==
    ASSUME TInv, EInv, At("record"), run.tx \in Tx
    PROVE  Installed(run.tx)
<1> DEFINE t == run.tx
           p == plan[t]
<1>0. RunOK /\ QueueOK
  BY DEF TInv
<1>1. run.phase = "forward"
  BY <1>0, RecordIsForward
<1>2. ForwardSteps(p) \subseteq run.did \cup {"record"}
  BY <1>0, <1>1, ForwardOrder
<1>3. run.did \cap {"claimNew", "restoreOld", "putBack", "claimConfig", "undoConfig", "undoReport"} = {}
      /\ (~p.hook => run.did \cap {"config", "config="} = {})
  BY <1>0, <1>1, ForwardHas
<1>4. "check" \in run.did /\ "report" \in run.did
  BY <1>2 DEF ForwardSteps
<1>5. HomeNow(p, t, run.did) = CASE p.kind \in {"create", "upgrade"} -> t
                                [] p.kind = "remove" -> Nothing
                                [] OTHER -> p.tree
  <2>1. CASE New(p)
    <3>1. "install" \in run.did
      BY <1>2, <2>1 DEF ForwardSteps, If
    <3> QED BY <1>3, <2>1, <3>1 DEF HomeNow, New
  <2>2. CASE p.kind = "remove"
    <3>1. "remove" \in run.did
      BY <1>2, <2>2 DEF ForwardSteps, If
    <3> QED BY <1>3, <2>2, <3>1 DEF HomeNow, New
  <2>3. CASE ~New(p) /\ p.kind # "remove"
    <3>1. "remove" \notin run.did
      BY <1>0, <1>1, <2>3, ForwardHas
    <3> QED BY <2>3, <3>1 DEF HomeNow, New
  <2> QED BY <2>1, <2>2, <2>3
<1>6. Was(tree[Home], HomeNow(p, t, run.did))
  BY <1>1, <1>4 DEF EInv, HomeAs, Exact
<1>7. Was(config, IF p.hook THEN t ELSE p.config)
  <2>1. CASE p.hook
    <3>1. "config=" \in run.did
      BY <1>2, <2>1 DEF ForwardSteps, If
    <3> QED BY <1>1, <1>3, <2>1, <3>1 DEF EInv, ConfigAs, Exact
  <2>2. CASE ~p.hook
    BY <1>1, <1>3, <1>4, <2>2 DEF EInv, ConfigAs, Exact
  <2> QED BY <2>1, <2>2
<1>8. report = t
  BY <1>1, <1>3, <1>4 DEF EInv, ReportAs, Exact
<1> QED BY <1>5, <1>6, <1>7, <1>8 DEF Installed

(* It stays in place where only a person touches it.                        *)
LEMMA InstalledStill ==
    ASSUME TInv, NEW t, Installed(t), report' = report, plan'[t] = plan[t],
           \/ UNCHANGED <<config, edits>> /\ tree'[Home] = tree[Home]
           \/ /\ edits' = edits + 1
              /\ tree'[Home] \in {tree[Home], User} /\ config' \in {config, User}
    PROVE  Installed(t)'
<1>1. edits \in Nat
  BY LimitsAreNaturals DEF TInv, BoundsOK
<1>2. \A what : Was(tree[Home], what) => tree'[Home] = what \/ (edits' > 0 /\ tree'[Home] = User)
  BY <1>1 DEF Was
<1>3. \A what : Was(config, what) => config' = what \/ (edits' > 0 /\ config' = User)
  BY <1>1 DEF Was
<1> QED BY <1>2, <1>3 DEF Installed, Was

(* No step after the record touches what the record says.                  *)
LEMMA AfterRecord ==
    ASSUME TInv, IInv, Commit, NEW s, StepForm(s), run.tx \in Tx, Recorded(run.tx)
    PROVE  s # "record" /\ tree'[Home] = tree[Home] /\ UNCHANGED <<config, report, journal>>
<1> DEFINE t == run.tx
<1>0. RunOK /\ QueueOK /\ FilesOK /\ SideOK /\ OwnOnly
  BY DEF TInv, IInv, FilesOK
<1>1. At(s) /\ Touched(s)
  BY <1>0, FormTouches DEF StepForm
<1>2. run.phase \in {"finish", "finalize", "stop"}
  BY <1>0, <1>1, StepIn DEF Commit, Busy
<1>3. s \in EndSteps \/ s \in StopSteps \ {"putNew"}
  BY <1>0, <1>1, <1>2, StepIn DEF Commit
<1>4. s \notin {"record", "stage", "config=", "claimConfig", "undoConfig", "report", "undoReport"}
      /\ s \notin MoveStep \ {"claimBackup"}
  BY <1>3 DEF EndSteps, StopSteps, MoveStep
<1>5. tree'[Home] = tree[Home]
  <2>1. CASE s = "claimBackup" /\ Moved(s)
    <3>1. Home \in Own(t) \ {PlaceOf("backup", t), PlaceOf("cleanup", t)}
      BY Places DEF Own
    <3> QED BY <2>1, <3>1, MoveFacts DEF MoveStep, Shift
  <2>2. CASE ~(s = "claimBackup" /\ Moved(s))
    <3>1. tree' = tree \/ \E v : tree' = [tree EXCEPT ![PlaceOf("cleanup", t)] = v]
      BY <1>1, <1>4, <2>2 DEF Touched
    <3> QED BY <1>0, <3>1, Places DEF FilesOK
  <2> QED BY <2>1, <2>2
<1> QED BY <1>1, <1>4, <1>5 DEF Touched

(* A step keeps what is recorded in place.                                  *)
LEMMA RecordedStep ==
    ASSUME TInv, IInv, IInv', KInv, EInv, RInv, NEW s, StepForm(s)
    PROVE  RInv'
<1> DEFINE t == run.tx
<1>0. RunOK /\ QueueOK /\ FilesOK /\ SideOK /\ OwnOnly /\ Commit /\ RecOK
  BY DEF TInv, IInv, KInv, FilesOK
<1>1. At(s) /\ run'.tx = t /\ t \in Tx /\ UNCHANGED <<plan, edits>> /\ Touched(s) /\ run'.phase \in Busy
  <2>1. run.phase \in Busy
    BY <1>0, FormTouches
  <2> QED BY <1>0, <2>1, StepCases, FormTouches DEF FromOutside, Busy
<1> SUFFICES ASSUME NEW u \in Tx, Counts(u)' PROVE Installed(u)'
  BY DEF RInv
<1>2. u = t
  <2>1. CASE u \in Unresolved'
    BY <1>1, <2>1 DEF IInv, OwnOnly
  <2>2. CASE run'.tx = u
    BY <1>1, <2>2
  <2> QED BY <2>1, <2>2 DEF Counts
<1>3. CASE s = "record"
  <2>1. Installed(t)
    BY <1>1, <1>3, RecordInstalls
  <2>2. CASE journal' = journal
    <3>1. ~Recorded(t) /\ run.phase = "forward"
      BY <1>0, <1>1, <1>3, RecordIsForward DEF Commit
    <3>2. RecordHead' # t
      BY <1>0, <1>1, <2>2, <3>1, SameRecorded, HeadRecorded
    <3>3. run'.phase = "finish" => Done(s)
      BY <1>0, <1>3, <3>1, StepCases
    <3>4. ~Done(s)
      <4> SUFFICES ASSUME Done(s) PROVE FALSE
        OBVIOUS
      <4>1. journal' = <<t>> \o journal
        BY <1>3 DEF Done
      <4>2. RecordHead' = t
        BY <1>0, <1>1, <4>1, RecordedAfter
      <4> QED BY <3>2, <4>2
    <3> QED BY <1>2, <3>2, <3>3, <3>4 DEF Counts
  <2>3. CASE journal' # journal
    <3>1. report' = report /\ config' = config /\ tree' = tree
      BY <1>1, <1>3 DEF Touched, MoveStep
    <3> QED BY <1>1, <1>2, <2>1, <3>1, InstalledStill
  <2> QED BY <2>2, <2>3
<1>4. CASE s # "record"
  <2>1. journal' = journal /\ RecordHead' = RecordHead
    BY <1>1, <1>4, JournalAfter, SameRecorded
  <2>2. Counts(t) /\ Recorded(t)
    <3>1. CASE u \in Unresolved' /\ RecordHead' = u
      <4>1. RecordHead = t /\ Recorded(t)
        BY <1>0, <1>1, <1>2, <2>1, <3>1, HeadRecorded
      <4>2. t \in Unresolved
        <5>1. CASE rec' = rec
          BY <1>2, <3>1, <5>1 DEF Unresolved
        <5>2. CASE Noting(s)
          <6>1. rec'[t].state \in Allowed(rec[t].state) /\ rec'[t].state \notin {"none", "rolled-back", "closed"}
            BY <1>0, <1>1, <1>2, <3>1, <5>2 DEF Noting, Legal, RecOK, Unresolved
          <6> QED BY <1>1, <6>1 DEF Allowed, Unresolved
        <5> QED BY <1>1, <5>1, <5>2 DEF Touched
      <4> QED BY <4>1, <4>2 DEF Counts
    <3>2. CASE run'.phase = "finish"
      <4>1. run.phase = "finish"
        BY <1>0, <1>4, <3>2, StepCases
      <4> QED BY <1>0, <1>1, <4>1, HeadRecorded DEF Counts, Commit
    <3> QED BY <3>1, <3>2 DEF Counts
  <2>3. tree'[Home] = tree[Home] /\ UNCHANGED <<config, report>>
    BY <1>0, <1>1, <2>2, AfterRecord
  <2> QED BY <1>1, <1>2, <2>2, <2>3, InstalledStill DEF RInv
<1> QED BY <1>3, <1>4

(* So does what changes neither the records nor the report.                 *)
LEMMA RecordedStill ==
    ASSUME TInv, RInv, UNCHANGED <<rec, journal, report>>,
           run' = run \/ run'.phase # "finish",
           \A t \in Tx : Counts(t) => plan'[t] = plan[t],
           \/ UNCHANGED <<config, edits>> /\ tree'[Home] = tree[Home]
           \/ /\ edits' = edits + 1
              /\ tree'[Home] \in {tree[Home], User} /\ config' \in {config, User}
    PROVE  RInv'
<1>1. ASSUME NEW t \in Tx, Counts(t)' PROVE Counts(t)
  BY <1>1, SameRecorded DEF Counts, Unresolved
<1> QED BY <1>1, InstalledStill DEF RInv

(* So does every step.                                                      *)
LEMMA RecordedNext ==
    ASSUME TInv, IInv, IInv', KInv, EInv, RInv, [Next]_vars
    PROVE  RInv'
<1>0. RunOK /\ SideOK /\ OwnOnly /\ QueueOK /\ FilesOK /\ RecOK /\ Unused
  BY DEF TInv, IInv, FilesOK
<1>1. CASE Step
  <2>1. End \/ Tearing \/ \E s : StepForm(s)
    BY <1>0, <1>1, StepForms
  <2>2. CASE End
    BY <2>2, IdlePhase, RecordedStill DEF End, files
  <2>3. CASE Tearing
    <3>1. /\ At("delete") /\ tree' = [tree EXCEPT ![PlaceOf("cleanup", run.tx)] = Torn]
          /\ UNCHANGED <<config, report, journal, rec, plan, edits>>
          /\ run' = [run EXCEPT !.did = @ \cup {"tear"}]
      BY <2>3 DEF Tearing, FromOutside
    <3>2. run.tx \in Tx
      BY <1>0, <3>1, StepIn DEF OwnOnly
    <3>3. tree'[Home] = tree[Home]
      BY <1>0, <3>1, <3>2, Places DEF FilesOK
    <3>4. run'.phase = run.phase /\ run'.tx = run.tx
      BY <1>0, <3>1 DEF RunOK, RunType
    <3>5. ASSUME NEW t \in Tx, Counts(t)' PROVE Counts(t)
      BY <3>1, <3>4, <3>5, SameRecorded DEF Counts, Unresolved
    <3> QED BY <3>1, <3>3, <3>5, InstalledStill DEF RInv
  <2> QED BY <2>1, <2>2, <2>3, RecordedStep
<1>2. CASE Die
  BY <1>2, IdlePhase, RecordedStill DEF Die, files
<1>3. CASE EditCompanion
  <2>1. tree'[Home] = User
    BY <1>0, <1>3, Places DEF EditCompanion, FilesOK
  <2> QED BY <1>3, <2>1, RecordedStill DEF EditCompanion
<1>4. CASE EditConfig
  BY <1>4, RecordedStill DEF EditConfig
<1>5. ASSUME NEW t \in Tx, Review(t) PROVE RInv'
  <2>1. ~Counts(t)
    BY <1>5, OtherPlan DEF Counts, Unresolved, NoRecord
  <2> QED BY <1>5, <2>1, OtherPlan, RecordedStill DEF files
<1>6. ASSUME NEW t \in Tx, Begin(t) PROVE RInv'
  <2>1. /\ run = Idle /\ t \notin claimed
        /\ UNCHANGED <<plan, files, edits>>
        /\ \A u \in Tx : u # t => rec'[u] = rec[u]
        /\ run'.phase # "finish"
    <3>1. run' = run \/ run'.phase = "forward"
      BY <1>6, BeginFacts, BeginRun
    <3>2. \A u \in Tx : u # t => rec'[u] = rec[u]
      BY <1>0, <1>6, BeginFacts DEF RecOK
    <3> QED BY <1>6, <3>1, <3>2, BeginFacts, IdlePhase
  <2>2. UNCHANGED <<tree, config, report, journal>>
    BY <2>1 DEF files
  <2>3. RecordHead # t
    BY <1>0, <2>1, HeadRecorded DEF Unused
  <2>4. ASSUME NEW u \in Tx, Counts(u)' PROVE Counts(u)
    BY <2>1, <2>2, <2>3, <2>4, SameRecorded DEF Counts, Unresolved
  <2> QED BY <2>1, <2>2, <2>4, InstalledStill DEF RInv
<1>7. CASE ApplyRecovery
  <2>1. /\ run' = run \/ run'.phase # "finish"
        /\ UNCHANGED <<plan, files, rec, edits>>
    BY <1>7, RecoveryFacts
  <2> QED BY <2>1, RecordedStill DEF files
<1>8. ASSUME NEW t \in Tx, ReviewRecovery(t) PROVE RInv'
  BY <1>8, RecordedStill DEF ReviewRecovery, files
<1>9. CASE UNCHANGED vars
  BY <1>9, RecordedStill DEF vars, files
<1> QED BY <1>1, <1>2, <1>3, <1>4, <1>5, <1>6, <1>7, <1>8, <1>9 DEF Next, Around

(* The invariants so far hold in every state.                               *)
LEMMA AlwaysRecorded == Spec => [](IInv /\ TInv /\ KInv /\ EInv /\ RInv)
<1>1. Init => EInv /\ RInv
  <2> SUFFICES ASSUME Init PROVE EInv /\ RInv
    OBVIOUS
  <2>1. run = Idle /\ rec = [t \in Tx |-> NoRecord]
    BY DEF Init
  <2>2. ~Exact
    BY <2>1, IdlePhase DEF Exact
  <2>3. EInv
    BY <2>2 DEF EInv, HomeAs, ConfigAs, ReportAs, BoundAs
  <2>4. RInv
    BY <2>1, IdlePhase DEF RInv, Counts, Unresolved, NoRecord
  <2> QED BY <2>3, <2>4
<1>2. TInv /\ IInv /\ EInv /\ [Next]_vars => EInv'
  BY ExactNext
<1>3. TInv /\ IInv /\ IInv' /\ KInv /\ EInv /\ RInv /\ [Next]_vars => RInv'
  BY RecordedNext
<1> QED BY <1>1, <1>2, <1>3, AlwaysKept, PTL DEF Spec

(* The record is the commit point: while a transaction is unresolved and    *)
(* its record is the latest, all it says is in place (but for what a person *)
(* wrote since), whatever failed, died or was recovered, for every number   *)
(* of plans.                                                                *)
THEOREM RecordedMeansDoneHolds == Spec => []RecordedMeansDone
<1>1. IInv /\ RInv => RecordedMeansDone
  BY DEF RInv, Counts, RecordedMeansDone, Unresolved
<1> QED BY <1>1, AlwaysRecorded, PTL

-----------------------------------------------------------------------------
(* The answers.                                                             *)

(* Something was brought to the place of the tree to be deleted, and not    *)
(* taken back.                                                              *)
Filled(did) ==
    \/ did \cap {"claimNew", "claimStage", "claimBackup"} # {}
    \/ "remove" \in did /\ "putBack" \notin did

(* The staged tree was never there, or was moved away.                      *)
EmptyStage(did) == "stage" \in did => did \cap {"install", "claimStage"} # {}

(* So with the backup.                                                      *)
EmptyBackup(did) == "backup" \in did => did \cap {"restoreOld", "claimBackup"} # {}

(* So with the tree to be deleted.                                          *)
EmptyCleanup(did) == "delete" \in did \/ ~Filled(did)

(* The transaction's own places are empty as what was done says.            *)
Private ==
    LET t == run.tx IN
    Precise => /\ EmptyStage(run.did) => tree[PlaceOf("stage", t)] = Nothing
               /\ EmptyBackup(run.did) => tree[PlaceOf("backup", t)] = Nothing
               /\ EmptyCleanup(run.did) => tree[PlaceOf("cleanup", t)] = Nothing

(* What was finished after the record leaves nothing behind.                *)
FinishAs ==
    LET t == run.tx IN
    run.phase = "finish" /\ ~run.warned =>
        /\ "endConfig" \in run.did \/ ~plan[t].hook => side[t] = {}
        /\ "endReport" \in run.did => kept[t] = Nothing
        /\ "closed" \in run.did => rec[t].state = "closed"

(* The steps of a run after the record, before a warning.                   *)
LEMMA FinishOrder ==
    ASSUME RunOK, QueueOK, run.phase = "finish", ~run.warned, NEW s, At(s)
    PROVE  /\ s \in {"committed", "endReport", "endReport*", "closed", "claimBackup", "delete",
                     "endTree*", "endConfig", "endConfig*"}
           /\ s = "claimBackup" => "delete" \notin run.did
<1>1. s \in FinishedSteps(plan[run.tx])
  BY FinishFacts
<1>2. \A x \in run.did : x # "tear" => Rank(x) <= Rank(s)
  BY AtHead DEF QueueOK, Precise, Sorted
<1>3. s = "claimBackup" => "delete" \notin run.did
  BY <1>2, Ranks
<1>4. s \in {"committed", "endReport", "endReport*", "closed", "claimBackup", "delete",
             "endTree*", "endConfig", "endConfig*"}
  BY <1>1 DEF FinishedSteps, TreeEnd, ConfigEnd, If
<1> QED BY <1>3, <1>4

(* A step of a run whose history is exact.                                 *)
LEMMA StaysPrecise ==
    ASSUME TInv, IInv, NEW s, StepForm(s), Precise'
    PROVE  /\ Precise /\ At(s) /\ run'.tx = run.tx /\ run.tx \in Tx /\ plan' = plan
           /\ \/ /\ Done(s) /\ s # "record" /\ run'.phase = run.phase /\ run'.did = run.did \cup {s}
                 /\ run'.warned = run.warned
              \/ /\ Done(s) /\ s = "record" /\ run.phase = "forward" /\ run'.did = run.did
              \/ /\ Left(s) /\ run.phase = "forward" /\ run'.phase = "undo" /\ run'.did = run.did
<1>1. RunOK /\ QueueOK /\ OwnOnly /\ SideOK
  BY DEF TInv, IInv, FilesOK
<1>2. At(s) /\ run'.tx = run.tx /\ run.tx \in Tx /\ plan' = plan
  BY <1>1, StepCases, FormTouches DEF FromOutside
<1>3. run'.phase \in {"forward", "undo"} \/ (run'.phase = "finish" /\ ~run'.warned)
  BY DEF Precise
<1> QED BY <1>1, <1>2, <1>3, StepCases DEF Precise

(* What a step of an exact run may follow.                                 *)
LEMMA PreciseOrder ==
    ASSUME RunOK, QueueOK, Precise, NEW s, At(s)
    PROVE  /\ s = "stage" => run.did \cap {"install", "claimStage"} = {}
           /\ s = "backup" => run.did \cap {"restoreOld", "claimBackup"} = {}
           /\ s = "remove" => run.did \cap {"putBack", "delete"} = {}
           /\ s \in {"claimNew", "claimStage", "claimBackup"} => "delete" \notin run.did
           /\ s = "putBack" => /\ plan[run.tx].kind = "remove" /\ "backup" \notin run.did
                               /\ run.did \cap {"claimNew", "claimStage", "claimBackup"} = {}
           /\ s # "putNew"
<1>1. CASE run.phase = "forward"
  <2>1. /\ s \notin {"claimNew", "claimStage", "claimBackup", "putBack", "putNew"}
        /\ run.did \cap {"restoreOld", "claimStage", "claimBackup", "putBack", "delete"} = {}
    BY <1>1, ForwardHas
  <2> QED BY <1>1, <2>1, ForwardOrder
<1>2. CASE run.phase = "undo"
  <2>1. s \notin {"stage", "backup", "remove", "claimBackup"}
    BY <1>2, UndoOrder
  <2>2. s # "putNew"
    BY <1>2, UndoAt DEF UndoSteps, If, NewClaim
  <2>3. s \in {"claimNew", "claimStage"} => "delete" \notin run.did
    BY <1>2, UndoOrder
  <2>4. ASSUME s = "putBack"
        PROVE  /\ plan[run.tx].kind = "remove" /\ "backup" \notin run.did
               /\ run.did \cap {"claimNew", "claimStage", "claimBackup"} = {}
    <3>1. plan[run.tx].kind = "remove"
      BY <1>2, <2>4, UndoOrder
    <3>2. /\ "backup" \notin ForwardSteps(plan[run.tx]) /\ "stage" \notin Fore
          /\ {"claimNew", "claimStage", "claimBackup"} \cap (ForwardSteps(plan[run.tx]) \cup {"tear"}) = {}
      BY <3>1 DEF ForwardSteps, If, Fore, New
    <3>3. {"backup", "claimNew", "claimStage", "claimBackup"} \cap UndoSteps(Fore) = {}
      BY <3>2 DEF UndoSteps, If
    <3> QED BY <1>2, <3>1, <3>2, <3>3, UndoDid
  <2> QED BY <2>1, <2>2, <2>3, <2>4
<1>3. CASE run.phase = "finish" /\ ~run.warned
  BY <1>3, FinishOrder
<1> QED BY <1>1, <1>2, <1>3 DEF Precise

(* A step that goes well leaves the own places as it says.                  *)
LEMMA PrivateDone ==
    ASSUME TInv, Private, Precise, NEW s, At(s), Done(s), run.tx \in Tx
    PROVE  LET t == run.tx
               did == run.did \cup {s}
           IN
           /\ EmptyStage(did) => tree'[PlaceOf("stage", t)] = Nothing
           /\ EmptyBackup(did) => tree'[PlaceOf("backup", t)] = Nothing
           /\ EmptyCleanup(did) => tree'[PlaceOf("cleanup", t)] = Nothing
<1> DEFINE t == run.tx
           did == run.did \cup {s}
           stage == PlaceOf("stage", t)
           backup == PlaceOf("backup", t)
           cleanup == PlaceOf("cleanup", t)
           Goal == /\ EmptyStage(did) => tree'[stage] = Nothing
                   /\ EmptyBackup(did) => tree'[backup] = Nothing
                   /\ EmptyCleanup(did) => tree'[cleanup] = Nothing
<1>0. RunOK /\ QueueOK /\ FilesOK /\ PlanOK
  BY DEF TInv
<1>1. /\ EmptyStage(run.did) => tree[stage] = Nothing
      /\ EmptyBackup(run.did) => tree[backup] = Nothing
      /\ EmptyCleanup(run.did) => tree[cleanup] = Nothing
  BY DEF Private
<1>2. /\ stage \in Place /\ backup \in Place /\ cleanup \in Place
      /\ Own(t) = {Home, stage, backup, cleanup}
      /\ Home # stage /\ Home # backup /\ Home # cleanup /\ stage # backup /\ stage # cleanup
      /\ backup # cleanup
  BY Places DEF Own
<1>3. Done(s) /\ At(s)
  OBVIOUS
<1>4. s \in MoveStep => Moved(s)
  BY <1>3 DEF Done
<1>5. /\ s \notin {"stage", "install", "claimStage"} => (EmptyStage(did) <=> EmptyStage(run.did))
      /\ s \notin {"backup", "restoreOld", "claimBackup"} => (EmptyBackup(did) <=> EmptyBackup(run.did))
      /\ s \notin {"delete", "remove", "putBack", "claimNew", "claimStage", "claimBackup"} =>
            (EmptyCleanup(did) <=> EmptyCleanup(run.did))
  BY DEF EmptyStage, EmptyBackup, EmptyCleanup, Filled
<1> SUFFICES Goal
  OBVIOUS
<1> HIDE DEF stage, backup, cleanup, did, Goal
<1>6. CASE s = "stage"
  <2>1. tree' = [tree EXCEPT ![stage] = t]
    BY <1>3, <1>6 DEF Done, stage
  <2>2. ~EmptyStage(did)
    BY <1>0, <1>6, PreciseOrder DEF EmptyStage, did
  <2> QED BY <1>0, <1>1, <1>2, <1>5, <1>6, <2>1, <2>2 DEF FilesOK, Goal
<1>7. CASE s = "delete"
  <2>1. tree' = [tree EXCEPT ![cleanup] = Nothing]
    BY <1>3, <1>7 DEF Done, cleanup
  <2> QED BY <1>0, <1>1, <1>2, <1>5, <1>7, <2>1 DEF FilesOK, Goal
<1>8. CASE s = "backup"
  <2>1. Shift(Home, backup, plan[t].tree)
    BY <1>4, <1>8, MoveFacts DEF MoveStep, backup
  <2>2. ~EmptyBackup(did)
    BY <1>0, <1>8, PreciseOrder DEF EmptyBackup, did
  <2> QED BY <1>1, <1>2, <1>5, <1>8, <2>1, <2>2 DEF Shift, Goal
<1>9. CASE s = "install"
  <2>1. Shift(stage, Home, t)
    BY <1>4, <1>9, MoveFacts DEF MoveStep, stage
  <2> QED BY <1>1, <1>2, <1>5, <1>9, <2>1 DEF Shift, Goal
<1>10. CASE s = "remove"
  <2>1. Shift(Home, cleanup, plan[t].tree)
    BY <1>4, <1>10, MoveFacts DEF MoveStep, cleanup
  <2>2. ~EmptyCleanup(did)
    BY <1>0, <1>10, PreciseOrder DEF EmptyCleanup, Filled, did
  <2> QED BY <1>1, <1>2, <1>5, <1>10, <2>1, <2>2 DEF Shift, Goal
<1>11. CASE s = "claimNew"
  <2>1. Shift(Home, cleanup, t)
    BY <1>4, <1>11, MoveFacts DEF MoveStep, cleanup
  <2>2. ~EmptyCleanup(did)
    BY <1>0, <1>11, PreciseOrder DEF EmptyCleanup, Filled, did
  <2> QED BY <1>1, <1>2, <1>5, <1>11, <2>1, <2>2 DEF Shift, Goal
<1>12. CASE s = "claimStage"
  <2>1. Shift(stage, cleanup, t)
    BY <1>4, <1>12, MoveFacts DEF MoveStep, stage, cleanup
  <2>2. ~EmptyCleanup(did)
    BY <1>0, <1>12, PreciseOrder DEF EmptyCleanup, Filled, did
  <2> QED BY <1>1, <1>2, <1>5, <1>12, <2>1, <2>2 DEF Shift, Goal
<1>13. CASE s = "claimBackup"
  <2>1. Shift(backup, cleanup, plan[t].tree)
    BY <1>4, <1>13, MoveFacts DEF MoveStep, backup, cleanup
  <2>2. ~EmptyCleanup(did)
    BY <1>0, <1>13, PreciseOrder DEF EmptyCleanup, Filled, did
  <2> QED BY <1>1, <1>2, <1>5, <1>13, <2>1, <2>2 DEF Shift, Goal
<1>14. CASE s = "restoreOld"
  <2>1. Shift(backup, Home, plan[t].tree)
    BY <1>4, <1>14, MoveFacts DEF MoveStep, backup
  <2> QED BY <1>1, <1>2, <1>5, <1>14, <2>1 DEF Shift, Goal
<1>15. CASE s = "putBack"
  <2>1. plan[t].kind = "remove" /\ EmptyBackup(run.did)
    BY <1>0, <1>15, PreciseOrder DEF EmptyBackup
  <2>2. plan[t].tree # Nothing
    <3>1. NoPlan.kind # "remove"
      BY DEF NoPlan
    <3> QED BY <1>0, <2>1, <3>1 DEF PlanOK
  <2>3. Shift(backup, Home, plan[t].tree) \/ Shift(cleanup, Home, plan[t].tree)
    BY <1>4, <1>15, <2>2, MoveFacts DEF MoveStep, backup, cleanup
  <2>4. Shift(cleanup, Home, plan[t].tree)
    BY <1>1, <2>1, <2>2, <2>3 DEF Shift
  <2> QED BY <1>1, <1>2, <1>5, <1>15, <2>4 DEF Shift, Goal
<1>16. CASE s \notin MoveStep \cup {"stage", "delete"}
  <2>1. tree' = tree
    BY <1>3, <1>16 DEF Done
  <2>2. s \notin {"stage", "install", "claimStage", "backup", "restoreOld", "claimBackup", "delete",
                   "remove", "putBack", "claimNew"}
    BY <1>16 DEF MoveStep
  <2> QED BY <1>1, <1>5, <2>1, <2>2 DEF Goal
<1>17. s # "putNew"
  BY <1>0, PreciseOrder
<1>18. Goal
  BY <1>6, <1>7, <1>8, <1>9, <1>10, <1>11, <1>12, <1>13, <1>14, <1>15, <1>16, <1>17 DEF MoveStep
<1> QED BY <1>18

(* So does every step.                                                      *)
LEMMA PrivateStep ==
    ASSUME TInv, IInv, Private, NEW s, StepForm(s)
    PROVE  Private'
<1> SUFFICES ASSUME Precise' PROVE Private'
  BY DEF Private
<1>1. Precise /\ At(s) /\ run'.tx = run.tx /\ run.tx \in Tx
  BY StaysPrecise
<1>2. CASE Done(s) /\ run'.did = run.did \cup {s}
  BY <1>1, <1>2, PrivateDone DEF Private
<1>3. CASE tree' = tree /\ run'.did = run.did
  BY <1>1, <1>3 DEF Private
<1>4. Left(s) => tree' = tree
  BY DEF Left
<1>5. Done(s) /\ s = "record" => tree' = tree
  BY DEF Done, MoveStep
<1> QED BY <1>2, <1>3, <1>4, <1>5, StaysPrecise

(* A step after the record leaves nothing of what it finishes.              *)
LEMMA FinishStep ==
    ASSUME TInv, IInv, EInv, FinishAs, NEW s, StepForm(s)
    PROVE  FinishAs'
<1> DEFINE t == run.tx
<1> SUFFICES ASSUME run'.phase = "finish", ~run'.warned PROVE FinishAs'
  BY DEF FinishAs
<1>0. RunOK /\ QueueOK /\ FilesOK /\ SideOK /\ RecOK
  BY DEF TInv, FilesOK
<1>1. Precise'
  BY DEF Precise
<1>2. At(s) /\ run'.tx = t /\ t \in Tx /\ plan' = plan
  BY <1>1, StaysPrecise
<1>3. CASE Done(s) /\ s = "record" /\ run.phase = "forward" /\ run'.did = run.did
  <2>1. side' = side /\ {"endConfig", "endReport", "closed"} \cap run.did = {}
        /\ (~plan[t].hook => {"config", "config="} \cap run.did = {})
    BY <1>0, <1>2, <1>3, ForwardHas DEF Done
  <2>2. ~plan[t].hook => side[t] = {}
    BY <1>3, <2>1 DEF EInv, ConfigAs, Exact
  <2> QED BY <1>2, <1>3, <2>1, <2>2 DEF FinishAs
<1>4. CASE Done(s) /\ run.phase = "finish" /\ ~run.warned /\ run'.did = run.did \cup {s}
  <2>1. s \in {"committed", "endReport", "endReport*", "closed", "claimBackup", "delete",
               "endTree*", "endConfig", "endConfig*"}
    BY <1>0, <1>2, <1>4, FinishOrder
  <2>2. "endConfig" \in run'.did \/ ~plan[t].hook => side'[t] = {}
    <3>1. CASE s = "endConfig"
      <4>1. side' = [side EXCEPT ![t] = {}]
        BY <1>4, <3>1 DEF Done
      <4> QED BY <1>0, <1>2, <4>1, SideAfter
    <3>2. CASE s # "endConfig"
      <4>1. side' = side
        BY <1>4, <2>1, <3>2 DEF Done
      <4> QED BY <1>4, <3>2, <4>1 DEF FinishAs
    <3> QED BY <3>1, <3>2
  <2>3. "endReport" \in run'.did => kept'[t] = Nothing
    <3>1. CASE s = "endReport"
      <4>1. kept' = [kept EXCEPT ![t] = Nothing]
        BY <1>4, <3>1 DEF Done
      <4> QED BY <1>0, <1>2, <4>1 DEF FilesOK
    <3>2. CASE s # "endReport"
      <4>1. kept' = kept
        BY <1>4, <2>1, <3>2 DEF Done
      <4> QED BY <1>4, <3>2, <4>1 DEF FinishAs
    <3> QED BY <3>1, <3>2
  <2>4. "closed" \in run'.did => rec'[t].state = "closed"
    <3>1. CASE s \in NoteStep
      <4>1. Noting(s)
        BY <1>4, <3>1 DEF Done
      <4>2. Legal(rec[t], Noted(s, rec[t])) /\ rec'[t] = Noted(s, rec[t]) /\ rec[t] \in RecType
        BY <1>0, <1>2, <4>1 DEF Noting, RecOK
      <4>3. rec[t].state # "closed"
        BY <4>2 DEF Legal, Allowed
      <4>4. s = "closed" => rec'[t].state = "closed"
        BY <4>2 DEF Noted, RecType
      <4> QED BY <1>4, <4>3, <4>4 DEF FinishAs
    <3>2. CASE s \notin NoteStep
      <4>1. rec' = rec /\ s # "closed"
        BY <1>4, <3>2 DEF Done, NoteStep
      <4> QED BY <1>4, <4>1 DEF FinishAs
    <3> QED BY <3>1, <3>2
  <2> QED BY <1>2, <2>2, <2>3, <2>4 DEF FinishAs
<1> QED BY <1>1, <1>3, <1>4, StaysPrecise

(* A tree that is being torn lies where something was brought.             *)
LEMMA PrivateTear ==
    ASSUME TInv, IInv, Private, FinishAs, Tearing
    PROVE  Private' /\ FinishAs'
<1> DEFINE t == run.tx
           stage == PlaceOf("stage", t)
           backup == PlaceOf("backup", t)
           cleanup == PlaceOf("cleanup", t)
<1>0. RunOK /\ QueueOK /\ FilesOK /\ OwnOnly
  BY DEF TInv, IInv
<1>1. /\ At("delete") /\ tree[cleanup] # Nothing /\ tree' = [tree EXCEPT ![cleanup] = Torn]
      /\ UNCHANGED <<side, kept, rec, plan>>
      /\ run' = [run EXCEPT !.did = @ \cup {"tear"}]
  BY DEF Tearing, FromOutside
<1>2. t \in Tx
  BY <1>0, <1>1, StepIn DEF OwnOnly
<1>3. /\ run'.phase = run.phase /\ run'.tx = t /\ run'.did = run.did \cup {"tear"}
      /\ run'.warned = run.warned
  BY <1>0, <1>1 DEF RunOK, RunType
<1>4. tree'[stage] = tree[stage] /\ tree'[backup] = tree[backup]
  BY <1>0, <1>1, <1>2, Places DEF FilesOK
<1>5. Private'
  <2> SUFFICES ASSUME Precise'
               PROVE  /\ EmptyStage(run'.did) => tree'[stage] = Nothing
                      /\ EmptyBackup(run'.did) => tree'[backup] = Nothing
                      /\ EmptyCleanup(run'.did) => tree'[cleanup] = Nothing
    BY <1>3 DEF Private
  <2>1. Precise
    BY <1>3 DEF Precise
  <2>2. ~EmptyCleanup(run.did)
    BY <1>1, <2>1 DEF Private
  <2>3. ~EmptyCleanup(run'.did)
    BY <1>3, <2>2 DEF EmptyCleanup, Filled
  <2>4. /\ EmptyStage(run'.did) => EmptyStage(run.did)
        /\ EmptyBackup(run'.did) => EmptyBackup(run.did)
    BY <1>3 DEF EmptyStage, EmptyBackup
  <2> QED BY <1>4, <2>1, <2>3, <2>4 DEF Private
<1>6. FinishAs'
  BY <1>1, <1>3 DEF FinishAs
<1> QED BY <1>5, <1>6

(* What leaves the run and its private files alone.                        *)
LEMMA PrivateStill ==
    ASSUME TInv, IInv, Private, FinishAs, UNCHANGED <<run, side, kept, rec>>,
           \A q \in Place \ {Home} : tree'[q] = tree[q],
           run.phase \in Busy => plan'[run.tx] = plan[run.tx]
    PROVE  Private' /\ FinishAs'
<1>1. run.phase \in Busy => run.tx \in Tx
  BY DEF IInv, OwnOnly
<1>2. Precise => run.phase \in Busy
  BY DEF Precise, Busy
<1>3. \A t \in Tx : \A n \in {"stage", "backup", "cleanup"} :
          tree'[PlaceOf(n, t)] = tree[PlaceOf(n, t)]
  BY Places
<1>4. Private'
  BY <1>1, <1>2, <1>3 DEF Private, Precise
<1>5. FinishAs'
  BY DEF FinishAs, Busy
<1> QED BY <1>4, <1>5

(* No run has no own places.                                                *)
LEMMA PrivateIdle ==
    ASSUME run'.phase \notin {"forward", "undo", "finish"}
    PROVE  Private' /\ FinishAs'
BY DEF Private, FinishAs, Precise

(* A run begins with its own places empty.                                  *)
LEMMA PrivateBegin ==
    ASSUME TInv, IInv, NEW t \in Tx, Begin(t)
    PROVE  Private' /\ FinishAs'
<1>1. run = Idle /\ t \notin claimed /\ UNCHANGED <<plan, files>>
      /\ (run' = run \/ run' = [Idle EXCEPT !.kind = "apply", !.phase = "forward", !.tx = t,
                                            !.todo = Forward(plan[t])])
  BY BeginFacts
<1>2. CASE run' = run
  BY <1>1, <1>2, IdlePhase, PrivateIdle
<1>3. CASE run' # run
  <2>1. run'.tx = t /\ run'.phase = "forward"
    BY <1>1, <1>3, BeginRun
  <2>2. \A n \in {"stage", "backup", "cleanup"} : tree'[PlaceOf(n, t)] = Nothing
    BY <1>1 DEF TInv, Unused, files
  <2> QED BY <2>1, <2>2 DEF Private, FinishAs
<1> QED BY <1>2, <1>3

(* Every step keeps the own places as what was done says.                   *)
LEMMA PrivateNext ==
    ASSUME TInv, IInv, EInv, Private, FinishAs, [Next]_vars
    PROVE  Private' /\ FinishAs'
<1>0. RunOK /\ SideOK /\ OwnOnly /\ FilesOK
  BY DEF TInv, IInv, FilesOK
<1>1. CASE Step
  <2>1. End \/ Tearing \/ \E s : StepForm(s)
    BY <1>0, <1>1, StepForms
  <2>2. CASE End
    BY <2>2, IdlePhase, PrivateIdle DEF End
  <2> QED BY <2>1, <2>2, PrivateTear, PrivateStep, FinishStep
<1>2. CASE Die
  BY <1>2, IdlePhase, PrivateIdle DEF Die
<1>3. CASE EditCompanion
  <2>1. \A q \in Place \ {Home} : tree'[q] = tree[q]
    BY <1>0, <1>3 DEF EditCompanion, FilesOK
  <2> QED BY <1>3, <2>1, PrivateStill DEF EditCompanion
<1>4. CASE EditConfig
  BY <1>4, PrivateStill DEF EditConfig
<1>5. ASSUME NEW t \in Tx, Review(t) PROVE Private' /\ FinishAs'
  <2>1. run.phase \in Busy => run.tx \in Tx /\ run.tx # t
    BY <1>0, <1>5, OtherPlan DEF OwnOnly
  <2> QED BY <1>5, <2>1, OtherPlan, PrivateStill DEF files
<1>6. ASSUME NEW t \in Tx, Begin(t) PROVE Private' /\ FinishAs'
  BY <1>6, PrivateBegin
<1>7. CASE ApplyRecovery
  <2>1. run = Idle /\ (run' = run \/ run'.phase \in {"rollback", "finalize"})
    BY <1>7, RecoveryFacts
  <2> QED BY <2>1, IdlePhase, PrivateIdle
<1>8. ASSUME NEW t \in Tx, ReviewRecovery(t) PROVE Private' /\ FinishAs'
  BY <1>8, PrivateStill DEF ReviewRecovery, files
<1>9. CASE UNCHANGED vars
  BY <1>9, PrivateStill DEF vars, files
<1> QED BY <1>1, <1>2, <1>3, <1>4, <1>5, <1>6, <1>7, <1>8, <1>9 DEF Next, Around

(* A transaction that has undone all it did leaves all as it found it.     *)
LEMMA UndoneIsRestored ==
    ASSUME TInv, IInv, KInv, EInv, Private, run.phase = "undo", run.todo = <<>>
    PROVE  Restored(run.tx) /\ ~Residue(run.tx)
<1> DEFINE t == run.tx
           p == plan[t]
           did == run.did
<1>0. RunOK /\ QueueOK
  BY DEF TInv
<1>1. /\ Exact /\ Precise /\ ~Recorded(t)
  BY DEF Exact, Precise, KInv, Commit
<1>2. /\ UndoSteps(Fore) \subseteq did
      /\ did \subseteq ForwardSteps(p) \cup {"tear"} \cup UndoSteps(Fore)
      /\ "install" \in did => "stage" \in did
  <2>1. Elems(run.todo) = {}
    BY Queue0
  <2> QED BY <1>0, <2>1, UndoDid DEF QueueOK, Back
<1>3. UndoSteps(Fore) \cap {"stage", "install", "backup", "remove", "config=", "report"} = {}
  BY DEF UndoSteps, If, NewClaim
<1>4. \A s \in {"stage", "install", "backup", "remove", "config=", "report"} :
          s \in did => s \in Fore
  BY <1>2, <1>3 DEF Fore
<1>5. /\ "report" \in did => "undoReport" \in did
      /\ "remove" \in did => "putBack" \in did
      /\ "config=" \in did => "undoConfig" \in did
      /\ "backup" \in did => "restoreOld" \in did
      /\ "stage" \in did => NewClaim(Fore) \in did /\ "delete" \in did
  BY <1>2, <1>4 DEF UndoSteps, If
<1>6. /\ "install" \in did => "claimNew" \in did
      /\ "stage" \in did => "install" \in did \/ "claimStage" \in did
  BY <1>2, <1>4, <1>5 DEF NewClaim, Fore
<1>7. did \cap {"claimNew", "claimStage", "claimBackup"} # {} => "delete" \in did
  <2>1. ({"tear"} \cup ForwardSteps(p)) \cap {"claimNew", "claimStage", "claimBackup"} = {}
    BY DEF ForwardSteps, If
  <2>2. \A s \in {"claimNew", "claimStage", "claimBackup"} : s \in UndoSteps(Fore) => "stage" \in Fore
    BY DEF UndoSteps, If
  <2>3. "stage" \in Fore => "stage" \in did
    BY DEF Fore
  <2> QED BY <1>2, <1>5, <2>1, <2>2, <2>3
<1>8. report # t /\ kept[t] = Nothing
  BY <1>1, <1>5 DEF EInv, ReportAs, Exact
<1>9. side[t] = {} /\ ("check" \in did => Was(config, p.config))
  BY <1>1, <1>5 DEF EInv, ConfigAs, Exact
<1>10. HomeNow(p, t, did) = p.tree
  BY <1>5, <1>6 DEF HomeNow
<1>11. rec[t].bound => Was(tree[Home], p.tree) /\ Was(config, p.config)
  BY <1>1, <1>9, <1>10 DEF EInv, BoundAs, HomeAs
<1>12. Restored(t)
  BY <1>1, <1>8, <1>11 DEF Restored
<1>13. EmptyStage(did) /\ EmptyBackup(did) /\ EmptyCleanup(did)
  BY <1>5, <1>6, <1>7 DEF EmptyStage, EmptyBackup, EmptyCleanup, Filled
<1>14. \A n \in {"stage", "backup", "cleanup"} : tree[PlaceOf(n, t)] = Nothing
  BY <1>1, <1>13 DEF Private
<1> QED BY <1>8, <1>9, <1>12, <1>14 DEF Residue

(* A transaction that has finished without a warning leaves nothing behind.*)
LEMMA FinishedIsTrue ==
    ASSUME TInv, IInv, RInv, Private, FinishAs, run.phase = "finish", run.todo = <<>>, run.tx \in Tx
    PROVE  /\ Installed(run.tx)
           /\ ~run.warned => ~Residue(run.tx) /\ run.tx \notin Unresolved
<1> DEFINE t == run.tx
           p == plan[t]
           did == run.did
<1>1. Installed(t)
  BY DEF RInv, Counts
<1> SUFFICES ASSUME ~run.warned PROVE ~Residue(t) /\ t \notin Unresolved
  BY <1>1
<1>2. Precise
  BY DEF Precise
<1>3. /\ did \subseteq ForwardSteps(p) \cup FinishedSteps(p) \cup {"tear"}
      /\ ForwardSteps(p) \cup FinishedSteps(p) \subseteq did \cup {"record"}
  <2>1. Elems(run.todo) = {}
    BY Queue0
  <2> QED BY <2>1 DEF TInv, QueueOK
<1>4. "stage" \in did => "install" \in did
  <2>1. "stage" \in ForwardSteps(p) \cup FinishedSteps(p) \cup {"tear"} => New(p)
    BY DEF ForwardSteps, FinishedSteps, TreeEnd, ConfigEnd, If
  <2>2. New(p) => "install" \in ForwardSteps(p)
    BY DEF ForwardSteps, If
  <2> QED BY <1>3, <2>1, <2>2
<1>5. "backup" \in did => "claimBackup" \in did
  <2>1. "backup" \in ForwardSteps(p) \cup FinishedSteps(p) \cup {"tear"} => p.kind = "upgrade"
    BY DEF ForwardSteps, FinishedSteps, TreeEnd, ConfigEnd, If
  <2>2. p.kind = "upgrade" => "claimBackup" \in FinishedSteps(p)
    BY DEF FinishedSteps, TreeEnd, If
  <2> QED BY <1>3, <2>1, <2>2
<1>6. did \cap {"claimNew", "claimStage", "claimBackup", "remove"} # {} => "delete" \in did
  <2>1. \A s \in {"claimNew", "claimStage", "claimBackup", "remove"} :
            s \in ForwardSteps(p) \cup FinishedSteps(p) \cup {"tear"} => p.kind \in {"upgrade", "remove"}
    BY DEF ForwardSteps, FinishedSteps, TreeEnd, ConfigEnd, If
  <2>2. p.kind \in {"upgrade", "remove"} => "delete" \in FinishedSteps(p)
    BY DEF FinishedSteps, TreeEnd, If
  <2> QED BY <1>3, <2>1, <2>2
<1>7. /\ "endReport" \in did /\ "closed" \in did
      /\ p.hook => "endConfig" \in did
  <2>1. /\ "endReport" \in FinishedSteps(p) /\ "closed" \in FinishedSteps(p)
        /\ p.hook => "endConfig" \in FinishedSteps(p)
    BY DEF FinishedSteps, ConfigEnd, If
  <2> QED BY <1>3, <2>1
<1>8. side[t] = {} /\ kept[t] = Nothing /\ rec[t].state = "closed"
  BY <1>7 DEF FinishAs
<1>9. EmptyStage(did) /\ EmptyBackup(did) /\ EmptyCleanup(did)
  BY <1>4, <1>5, <1>6 DEF EmptyStage, EmptyBackup, EmptyCleanup, Filled
<1>10. \A n \in {"stage", "backup", "cleanup"} : tree[PlaceOf(n, t)] = Nothing
  BY <1>2, <1>9 DEF Private
<1> QED BY <1>8, <1>10 DEF Residue, Unresolved

(* An answer is about a transaction.                                        *)
Answered == receipt = NoReceipt \/ receipt.tx \in Tx

(* What makes the answers true.                                             *)
PInv == Private /\ FinishAs /\ Answered /\ AnswersHold

(* No answer says nothing.                                                 *)
LEMMA Unanswered ==
    ASSUME receipt' = NoReceipt
    PROVE  Answered' /\ AnswersHold'
<1>1. NoReceipt.by = "none"
  BY DEF NoReceipt
<1> QED BY <1>1 DEF Answered, AnswersHold

(* An answer outlives what leaves its transaction alone.                   *)
LEMMA AnswerStands ==
    ASSUME Answered, AnswersHold, UNCHANGED <<files, rec, receipt, edits>>,
           receipt.tx \in Tx => plan'[receipt.tx] = plan[receipt.tx]
    PROVE  Answered' /\ AnswersHold'
<1>1. CASE receipt = NoReceipt
  BY <1>1, Unanswered
<1>2. CASE receipt.tx \in Tx
  <2> DEFINE t == receipt.tx
  <2>1. plan'[t] = plan[t] /\ UNCHANGED <<tree, config, side, report, kept, journal, rec, edits>>
    BY <1>2 DEF files
  <2>2. Restored(t) => Restored(t)'
    BY <2>1, SameRecorded DEF Restored, Was
  <2>3. Residue(t)' => Residue(t)
    BY <2>1 DEF Residue
  <2>4. Installed(t) => Installed(t)'
    BY <2>1 DEF Installed, Was
  <2>5. Unresolved' = Unresolved
    BY <2>1 DEF Unresolved
  <2>6. Answered'
    BY <1>2 DEF Answered
  <2>7. AnswersHold'
    BY <2>2, <2>3, <2>4, <2>5 DEF AnswersHold
  <2> QED BY <2>6, <2>7
<1> QED BY <1>1, <1>2 DEF Answered

(* The answer that ends a run.                                             *)
LEMMA AnswerOfEnd ==
    ASSUME TInv, IInv, KInv, EInv, RInv, Private, FinishAs, End
    PROVE  Answered' /\ AnswersHold'
<1>0. PICK t : t = run.tx
  OBVIOUS
<1>1. /\ run.phase \in Busy /\ t \in Tx /\ run.todo = <<>>
  <2>1. run.phase # "idle" /\ run.todo = <<>>
    BY DEF End
  <2>2. run.phase \in Busy
    BY <2>1 DEF TInv, RunOK, RunType
  <2> QED BY <1>0, <2>1, <2>2 DEF IInv, OwnOnly
<1>2. /\ receipt' = [tx |-> t, by |-> run.kind, outcome |-> Outcome, warned |-> run.warned]
      /\ UNCHANGED <<plan, files, rec, edits>>
  BY <1>0 DEF End, Answer
<1>3. /\ receipt'.tx = t /\ receipt'.outcome = Outcome /\ receipt'.warned = run.warned
  BY <1>2
<1>4. Answered'
  BY <1>1, <1>3 DEF Answered
<1>5. /\ Outcome = "rolled-back" => run.phase = "undo"
      /\ Outcome = "ready" => run.phase = "finish"
  BY <1>1 DEF Outcome, Busy
<1>6. UNCHANGED <<tree, config, side, report, kept, journal>>
  BY <1>2 DEF files
<1>7. Restored(t) => Restored(t)'
  BY <1>2, <1>6, SameRecorded DEF Restored, Was
<1>8. Residue(t)' => Residue(t)
  BY <1>6 DEF Residue
<1>9. Installed(t) => Installed(t)'
  BY <1>2, <1>6 DEF Installed, Was
<1>10. Unresolved' = Unresolved
  BY <1>2 DEF Unresolved
<1>11. AnswersHold'
  <2>1. receipt'.outcome = "rolled-back" => Restored(t)' /\ ~Residue(t)'
    BY <1>1, <1>3, <1>5, <1>7, <1>8, <1>0, UndoneIsRestored
  <2>2. receipt'.outcome = "ready" =>
          /\ Installed(t)'
          /\ ~receipt'.warned => ~Residue(t)' /\ t \notin Unresolved'
    BY <1>1, <1>3, <1>5, <1>8, <1>9, <1>10, <1>0, FinishedIsTrue
  <2> QED BY <1>3, <2>1, <2>2 DEF AnswersHold
<1> QED BY <1>4, <1>11

(* The answer to an application that could not begin.                      *)
LEMMA AnswerOfBegin ==
    ASSUME TInv, IInv, NEW t \in Tx, Begin(t)
    PROVE  Answered' /\ AnswersHold'
<1>1. CASE receipt' = NoReceipt
  BY <1>1, Unanswered
<1>2. CASE receipt'.tx = t /\ receipt'.outcome = "recovery-required"
  BY <1>2 DEF Answered, AnswersHold
<1>3. CASE UNCHANGED <<rec, run>> /\ receipt'.tx = t /\ receipt'.outcome = "rolled-back"
  <2>1. t \notin claimed /\ UNCHANGED <<plan, files, edits>>
    BY BeginFacts
  <2>2. UNCHANGED <<tree, config, side, report, kept, journal>>
    BY <2>1 DEF files
  <2>3. /\ rec[t] = NoRecord /\ ~Recorded(t) /\ report # t /\ side[t] = {} /\ kept[t] = Nothing
        /\ \A name \in {"stage", "backup", "cleanup"} : tree[PlaceOf(name, t)] = Nothing
    BY <2>1 DEF TInv, Unused
  <2>4. ~NoRecord.bound
    BY DEF NoRecord
  <2>5. Restored(t)'
    BY <1>3, <2>2, <2>3, <2>4, SameRecorded DEF Restored
  <2>6. ~Residue(t)'
    BY <2>2, <2>3 DEF Residue
  <2> QED BY <1>3, <2>5, <2>6 DEF Answered, AnswersHold
<1> QED BY <1>1, <1>2, <1>3, BeginFacts

(* Every step keeps the answers true.                                       *)
LEMMA AnswersNext ==
    ASSUME TInv, IInv, KInv, EInv, RInv, PInv, [Next]_vars
    PROVE  Answered' /\ AnswersHold'
<1>0. RunOK /\ SideOK /\ OwnOnly /\ Commit /\ Private /\ FinishAs /\ Answered /\ AnswersHold
  BY DEF TInv, IInv, FilesOK, KInv, PInv
<1>1. CASE Step
  <2>1. End \/ Tearing \/ \E s : StepForm(s)
    BY <1>0, <1>1, StepForms
  <2>2. CASE Tearing \/ \E s : StepForm(s)
    <3>1. (\E s : At(s)) /\ receipt' = receipt
      BY <2>2 DEF StepForm, Tearing, FromOutside
    <3>2. run.phase \in Busy
      BY <1>0, <3>1, AtHead
    <3> QED BY <1>0, <3>1, <3>2, Unanswered DEF Commit
  <2> QED BY <1>0, <2>1, <2>2, AnswerOfEnd
<1>2. CASE Die \/ EditCompanion \/ EditConfig
  BY <1>2, Unanswered DEF Die, EditCompanion, EditConfig
<1>3. ASSUME NEW t \in Tx, Review(t) PROVE Answered' /\ AnswersHold'
  BY <1>0, <1>3, OtherPlan, AnswerStands
<1>4. ASSUME NEW t \in Tx, Begin(t) PROVE Answered' /\ AnswersHold'
  BY <1>4, AnswerOfBegin
<1>5. CASE ApplyRecovery
  <2>1. UNCHANGED <<plan, files, rec, edits>> /\ (receipt' = receipt \/ receipt' = NoReceipt)
    BY <1>5, RecoveryFacts
  <2> QED BY <1>0, <2>1, AnswerStands, Unanswered
<1>6. ASSUME NEW t \in Tx, ReviewRecovery(t) PROVE Answered' /\ AnswersHold'
  BY <1>0, <1>6, AnswerStands DEF ReviewRecovery
<1>7. CASE UNCHANGED vars
  BY <1>0, <1>7, AnswerStands DEF vars
<1> QED BY <1>1, <1>2, <1>3, <1>4, <1>5, <1>6, <1>7 DEF Next, Around

(* The answer of an apply is true, for every number of plans, faults,       *)
(* deaths and edits: rolled back means that all is as it was and nothing    *)
(* private remains; ready means that all is in place and, without a         *)
(* warning, that nothing private remains and nothing is unresolved.         *)
THEOREM AnswersHoldHolds == Spec => []AnswersHold
<1>1. Init => PInv
  <2> SUFFICES ASSUME Init PROVE PInv
    OBVIOUS
  <2>1. run = Idle /\ receipt = NoReceipt
    BY DEF Init
  <2>2. NoReceipt.by = "none"
    BY DEF NoReceipt
  <2>3. Private /\ FinishAs
    BY <2>1, IdlePhase DEF Private, FinishAs, Precise
  <2> QED BY <2>1, <2>2, <2>3 DEF PInv, Answered, AnswersHold
<1>2. TInv /\ IInv /\ KInv /\ EInv /\ RInv /\ PInv /\ [Next]_vars => PInv'
  <2> SUFFICES ASSUME TInv, IInv, KInv, EInv, RInv, PInv, [Next]_vars PROVE PInv'
    OBVIOUS
  <2>1. Private' /\ FinishAs'
    BY PrivateNext DEF PInv
  <2>2. Answered' /\ AnswersHold'
    BY AnswersNext
  <2> QED BY <2>1, <2>2 DEF PInv
<1>3. PInv => AnswersHold
  BY DEF PInv
<1> QED BY <1>1, <1>2, <1>3, AlwaysRecorded, PTL DEF Spec
=============================================================================

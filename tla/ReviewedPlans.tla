--------------------------- MODULE ReviewedPlans ---------------------------
(* The store of reviewed plans (packages/store, reviewed-plans/): a plan is *)
(* previewed, written, and later claimed once by the command that applies   *)
(* it, while other commands discard it or clean the directory up.           *)
(*                                                                          *)
(* Files of different plan ids never share a name, so the model follows one *)
(* id.  An id may be written again; each write is a version with a file     *)
(* (inode) and an expiry of its own.  A call renames the pending file to a  *)
(* private name before it reads or removes it.                              *)
EXTENDS Naturals, FiniteSets

CONSTANTS
    Proc,         \* calls of the store, one after the other in each process
    Ver,          \* versions of the plan: written envelopes
    NoVer,        \* no file
    CrashLimit    \* bound: how many calls may be cut short by a process death

ASSUME PlanConstants ==
    /\ NoVer \notin Ver
    /\ CrashLimit \in Nat

VARIABLES
    pending,      \* the version at <id>.json
    name,         \* the kind of private name a call has created
    file,         \* the version still linked at that name
    residue,      \* private files left behind by calls that are over
    pc,
    has,          \* the version whose envelope a claim has read
    expiredAt,    \* versions expired at the call's "now"
    ancientAt,    \* versions past the residue grace at the call's "now"
    written, expired, ancient,
    uses,         \* how often each version was returned by a claim
    consumed,     \* versions refused, discarded or never published
    crashes

clock   == <<written, expired, ancient>>
history == <<uses, consumed>>
vars == <<pending, name, file, residue, pc, has, expiredAt, ancientAt, written, expired,
          ancient, uses, consumed, crashes>>

PrivateKinds == {"tmp", "claimed", "cleanup"}
WriteAt   == {"W.link", "W.drop"}
ClaimAt   == {"X.take", "X.read", "X.validate", "X.return", "X.drop", "X.restore", "X.unlink"}
DiscardAt == {"D.take", "D.drop"}
CleanAt   == {"C.scan", "C.take", "C.again", "C.drop", "C.restore", "C.unlink"}
PC == {"idle"} \cup WriteAt \cup ClaimAt \cup DiscardAt \cup CleanAt

Init ==
    /\ pending = NoVer
    /\ name = [p \in Proc |-> "none"]
    /\ file = [p \in Proc |-> NoVer]
    /\ residue = {}
    /\ pc = [p \in Proc |-> "idle"]
    /\ has = [p \in Proc |-> NoVer]
    /\ expiredAt = [p \in Proc |-> {}]
    /\ ancientAt = [p \in Proc |-> {}]
    /\ written = {} /\ expired = {} /\ ancient = {}
    /\ uses = [v \in Ver |-> 0]
    /\ consumed = {}
    /\ crashes = 0

(* The private file of a call, as a directory entry.                        *)
Private(p) == [kind |-> name[p], ver |-> file[p]]

Goto(p, label) == pc' = [pc EXCEPT ![p] = label]

(* rename(pending, <private name of kind k>): moves what is there by now.   *)
TakePending(p, k) ==
    /\ pending # NoVer
    /\ pending' = NoVer
    /\ name' = [name EXCEPT ![p] = k]
    /\ file' = [file EXCEPT ![p] = pending]

(* removeFile(<private name>): a file that is gone already is no error.     *)
RemoveMine(p) ==
    /\ name' = [name EXCEPT ![p] = "none"]
    /\ file' = [file EXCEPT ![p] = NoVer]

Forget(p) ==
    /\ has' = [has EXCEPT ![p] = NoVer]
    /\ expiredAt' = [expiredAt EXCEPT ![p] = {}]
    /\ ancientAt' = [ancientAt EXCEPT ![p] = {}]

(* Mutant of Leave: a call that throws takes its private file with it.      *)
LeaveTidily(p) ==
    /\ Goto(p, "idle")
    /\ Forget(p)
    /\ UNCHANGED <<name, file, residue>>

(* The call is over; a private file it has not removed stays as residue.    *)
Leave(p) ==
    /\ Goto(p, "idle")
    /\ Forget(p)
    /\ RemoveMine(p)
    /\ residue' = residue \cup {f \in {Private(p)} : f.ver # NoVer}

-----------------------------------------------------------------------------
(* writeReviewedPlan: an existing plan is never overwritten.                *)

WriteStart(p) ==
    /\ pc[p] = "idle" /\ pending = NoVer
    /\ \E v \in Ver \ written :
         /\ written' = written \cup {v}
         /\ name' = [name EXCEPT ![p] = "tmp"]
         /\ file' = [file EXCEPT ![p] = v]
    /\ Goto(p, "W.link")
    /\ UNCHANGED <<pending, residue, has, expiredAt, ancientAt, expired, ancient, history,
                   crashes>>

WriteLink(p) ==
    /\ pc[p] = "W.link"
    /\ \/ /\ file[p] # NoVer /\ pending = NoVer
          /\ pending' = file[p]
          /\ UNCHANGED consumed
       \/ /\ file[p] # NoVer /\ pending # NoVer                    \* CONFLICT
          /\ consumed' = consumed \cup {file[p]}
          /\ UNCHANGED pending
       \/ /\ file[p] = NoVer                             \* cleaned up meanwhile
          /\ UNCHANGED <<pending, consumed>>
    /\ Goto(p, "W.drop")
    /\ UNCHANGED <<name, file, residue, has, expiredAt, ancientAt, clock, uses, crashes>>

WriteDrop(p) ==
    /\ pc[p] = "W.drop"
    /\ RemoveMine(p) /\ Forget(p) /\ Goto(p, "idle")
    /\ UNCHANGED <<pending, residue, clock, history, crashes>>

-----------------------------------------------------------------------------
(* claimReviewedPlan.                                                       *)

ClaimStart(p) ==
    /\ pc[p] = "idle" /\ pending # NoVer
    /\ expiredAt' = [expiredAt EXCEPT ![p] = expired]
    /\ Goto(p, "X.take")
    /\ UNCHANGED <<pending, name, file, residue, has, ancientAt, clock, history, crashes>>

(* Mutant of ClaimTake: the plan is read in place and removed afterwards.   *)
ClaimInPlace(p) ==
    /\ pc[p] = "X.take" /\ pending # NoVer
    /\ name' = [name EXCEPT ![p] = "claimed"]
    /\ file' = [file EXCEPT ![p] = pending]
    /\ Goto(p, "X.read")
    /\ UNCHANGED <<pending, residue, has, expiredAt, ancientAt, clock, history, crashes>>

ClaimTake(p) ==
    /\ pc[p] = "X.take"
    /\ \/ /\ TakePending(p, "claimed")
          /\ Goto(p, "X.read")
          /\ UNCHANGED <<residue, has, expiredAt, ancientAt>>
       \/ /\ pending = NoVer                                 \* already claimed
          /\ Leave(p)
          /\ UNCHANGED pending
    /\ UNCHANGED <<clock, history, crashes>>

(* Another kind of plan, an expired plan or unreadable content is consumed  *)
(* without being returned.                                                  *)
ClaimRead(p) ==
    /\ pc[p] = "X.read"
    /\ \/ /\ file[p] \in Ver \ expiredAt[p]
          /\ has' = [has EXCEPT ![p] = file[p]]
          /\ Goto(p, "X.validate")
          /\ UNCHANGED consumed
       \/ /\ consumed' = consumed \cup ({file[p]} \ {NoVer})
          /\ Goto(p, "X.drop")
          /\ UNCHANGED has
    /\ expiredAt' = [expiredAt EXCEPT ![p] = {}]
    /\ UNCHANGED <<pending, name, file, residue, ancientAt, clock, uses, crashes>>

ClaimValidate(p) ==
    /\ pc[p] = "X.validate"
    /\ \/ Goto(p, "X.return")
       \/ Goto(p, "X.restore")
    /\ UNCHANGED <<pending, name, file, residue, has, expiredAt, ancientAt, clock, history,
                   crashes>>

ClaimReturn(p) ==
    /\ pc[p] = "X.return"
    /\ uses' = [uses EXCEPT ![has[p]] = @ + 1]
    /\ RemoveMine(p) /\ Forget(p) /\ Goto(p, "idle")
    /\ UNCHANGED <<pending, residue, clock, consumed, crashes>>

ClaimDrop(p) ==
    /\ pc[p] = "X.drop"
    /\ RemoveMine(p) /\ Forget(p) /\ Goto(p, "idle")
    /\ UNCHANGED <<pending, residue, clock, history, crashes>>

(* restoreOwnedPlan: link back unless a newer plan is pending, then unlink. *)
RestoreOwned(p, label) ==
    \/ /\ file[p] # NoVer /\ pending = NoVer
       /\ pending' = file[p]
       /\ Goto(p, label)
       /\ UNCHANGED <<name, file, residue, has, expiredAt, ancientAt>>
    \/ /\ file[p] = NoVer \/ pending # NoVer                    \* UNSAFE_STATE
       /\ Leave(p)
       /\ UNCHANGED pending

ClaimRestore(p) ==
    /\ pc[p] = "X.restore"
    /\ RestoreOwned(p, "X.unlink")
    /\ UNCHANGED <<clock, history, crashes>>

ClaimUnlink(p) ==
    /\ pc[p] = "X.unlink"
    /\ RemoveMine(p) /\ Forget(p) /\ Goto(p, "idle")
    /\ UNCHANGED <<pending, residue, clock, history, crashes>>

-----------------------------------------------------------------------------
(* discardReviewedPlan.                                                     *)

DiscardStart(p) ==
    /\ pc[p] = "idle" /\ pending # NoVer
    /\ Goto(p, "D.take")
    /\ UNCHANGED <<pending, name, file, residue, has, expiredAt, ancientAt, clock, history,
                   crashes>>

DiscardTake(p) ==
    /\ pc[p] = "D.take"
    /\ \/ /\ TakePending(p, "cleanup")
          /\ consumed' = consumed \cup {pending}
          /\ Goto(p, "D.drop")
          /\ UNCHANGED <<residue, has, expiredAt, ancientAt>>
       \/ /\ pending = NoVer
          /\ Leave(p)
          /\ UNCHANGED <<pending, consumed>>
    /\ UNCHANGED <<clock, uses, crashes>>

DiscardDrop(p) ==
    /\ pc[p] = "D.drop"
    /\ RemoveMine(p) /\ Forget(p) /\ Goto(p, "idle")
    /\ UNCHANGED <<pending, residue, clock, history, crashes>>

-----------------------------------------------------------------------------
(* cleanupExpiredReviewedPlans: expired pending plans, and private files    *)
(* older than the grace period.                                             *)

CleanStart(p) ==
    /\ pc[p] = "idle"
    /\ expiredAt' = [expiredAt EXCEPT ![p] = expired]
    /\ ancientAt' = [ancientAt EXCEPT ![p] = ancient]
    /\ Goto(p, "C.scan")
    /\ UNCHANGED <<pending, name, file, residue, has, clock, history, crashes>>

CleanEnd(p) ==
    /\ pc[p] = "C.scan"
    /\ Leave(p)
    /\ UNCHANGED <<pending, clock, history, crashes>>

CleanPending(p) ==
    /\ pc[p] = "C.scan" /\ pending \in expiredAt[p]
    /\ Goto(p, "C.take")
    /\ UNCHANGED <<pending, name, file, residue, has, expiredAt, ancientAt, clock, history,
                   crashes>>

CleanTake(p) ==
    /\ pc[p] = "C.take"
    /\ \/ TakePending(p, "cleanup") /\ Goto(p, "C.again")
       \/ pending = NoVer /\ Goto(p, "C.scan") /\ UNCHANGED <<pending, name, file>>
    /\ UNCHANGED <<residue, has, expiredAt, ancientAt, clock, history, crashes>>

(* Mutant of CleanAgain: what was moved is removed without a second look.   *)
CleanBlindly(p) ==
    /\ pc[p] = "C.again"
    /\ Goto(p, "C.drop")
    /\ UNCHANGED <<pending, name, file, residue, has, expiredAt, ancientAt, clock, history,
                   crashes>>

(* The second look, at the file that was moved.                             *)
CleanAgain(p) ==
    /\ pc[p] = "C.again"
    /\ Goto(p, IF file[p] \in expiredAt[p] THEN "C.drop" ELSE "C.restore")
    /\ UNCHANGED <<pending, name, file, residue, has, expiredAt, ancientAt, clock, history,
                   crashes>>

CleanDrop(p) ==
    /\ pc[p] = "C.drop"
    /\ RemoveMine(p) /\ Goto(p, "C.scan")
    /\ UNCHANGED <<pending, residue, has, expiredAt, ancientAt, clock, history, crashes>>

CleanRestore(p) ==
    /\ pc[p] = "C.restore"
    /\ RestoreOwned(p, "C.unlink")
    /\ UNCHANGED <<clock, history, crashes>>

CleanUnlink(p) ==
    /\ pc[p] = "C.unlink"
    /\ RemoveMine(p) /\ Goto(p, "C.scan")
    /\ UNCHANGED <<pending, residue, has, expiredAt, ancientAt, clock, history, crashes>>

(* cleanupStaleOwnedPlan: a .cleanup file that is still live goes only when *)
(* it is a second link of the pending plan.                                 *)
Disposable(p, f) ==
    /\ f.ver \in ancientAt[p]
    /\ f.kind = "cleanup" => f.ver \in expiredAt[p] \/ pending = f.ver

(* Mutant of CleanResidue: only .cleanup files are looked at.               *)
CleanResidueOfCleanup(p) ==
    /\ pc[p] = "C.scan"
    /\ \E f \in residue :
         /\ f.kind = "cleanup" /\ Disposable(p, f)
         /\ residue' = residue \ {f}
    /\ UNCHANGED <<pending, name, file, pc, has, expiredAt, ancientAt, clock, history, crashes>>

CleanResidue(p) ==
    /\ pc[p] = "C.scan"
    /\ \E f \in residue :
         /\ Disposable(p, f)
         /\ residue' = residue \ {f}
    /\ UNCHANGED <<pending, name, file, pc, has, expiredAt, ancientAt, clock, history, crashes>>

(* The same for the private file of a call that is still running.           *)
CleanRunning(p) ==
    /\ pc[p] = "C.scan"
    /\ \E q \in Proc \ {p} :
         /\ Disposable(p, Private(q))
         /\ file' = [file EXCEPT ![q] = NoVer]
    /\ UNCHANGED <<pending, name, residue, pc, has, expiredAt, ancientAt, clock, history,
                   crashes>>

(* A live .cleanup file beside a newer pending plan ends the scan.          *)
CleanConflict(p) ==
    /\ pc[p] = "C.scan"
    /\ \E f \in residue \cup {Private(q) : q \in Proc \ {p}} :
         /\ f.kind = "cleanup" /\ f.ver \in ancientAt[p] \ expiredAt[p]
         /\ pending \notin {f.ver, NoVer}
    /\ Leave(p)
    /\ UNCHANGED <<pending, clock, history, crashes>>

-----------------------------------------------------------------------------
(* The environment.                                                         *)

Crash(p) ==
    /\ crashes < CrashLimit /\ pc[p] # "idle"
    /\ crashes' = crashes + 1
    /\ Leave(p)
    /\ UNCHANGED <<pending, clock, history>>

Expire ==
    /\ \E v \in written \ expired : expired' = expired \cup {v}
    /\ UNCHANGED <<pending, name, file, residue, pc, has, expiredAt, ancientAt, written,
                   ancient, history, crashes>>

(* The grace counts from the time the envelope was written: a rename keeps  *)
(* the modification time.  Nothing in the store keeps an expiry below it.   *)
Age ==
    /\ \E v \in written \ ancient : ancient' = ancient \cup {v}
    /\ UNCHANGED <<pending, name, file, residue, pc, has, expiredAt, ancientAt, written,
                   expired, history, crashes>>

Start(p)      == WriteStart(p) \/ ClaimStart(p) \/ DiscardStart(p) \/ CleanStart(p)
WriteOn(p)    == WriteLink(p) \/ WriteDrop(p)
ClaimOn(p)    == \/ ClaimTake(p) \/ ClaimRead(p) \/ ClaimValidate(p) \/ ClaimReturn(p)
                 \/ ClaimDrop(p) \/ ClaimRestore(p) \/ ClaimUnlink(p)
DiscardOn(p)  == DiscardTake(p) \/ DiscardDrop(p)
CleanOn(p)    == \/ CleanPending(p) \/ CleanTake(p) \/ CleanAgain(p) \/ CleanDrop(p)
                 \/ CleanRestore(p) \/ CleanUnlink(p) \/ CleanResidue(p) \/ CleanRunning(p)
                 \/ CleanConflict(p) \/ CleanEnd(p)

Next ==
    \/ \E p \in Proc : \/ Start(p) \/ WriteOn(p) \/ ClaimOn(p) \/ DiscardOn(p) \/ CleanOn(p)
                       \/ Crash(p)
    \/ Expire
    \/ Age

Spec == Init /\ [][Next]_vars

-----------------------------------------------------------------------------
TypeOK ==
    /\ pending \in Ver \cup {NoVer}
    /\ name \in [Proc -> PrivateKinds \cup {"none"}]
    /\ file \in [Proc -> Ver \cup {NoVer}]
    /\ residue \subseteq [kind : PrivateKinds, ver : Ver]
    /\ pc \in [Proc -> PC]
    /\ has \in [Proc -> Ver \cup {NoVer}]
    /\ expiredAt \in [Proc -> SUBSET Ver] /\ ancientAt \in [Proc -> SUBSET Ver]
    /\ written \subseteq Ver /\ expired \subseteq Ver /\ ancient \subseteq Ver
    /\ uses \in [Ver -> Nat]
    /\ consumed \subseteq Ver
    /\ crashes \in Nat
    /\ \A p \in Proc : name[p] = "none" => file[p] = NoVer
    /\ \A p \in Proc : pc[p] = "idle" => name[p] = "none"

(* A written plan is returned by at most one claim, and never after it was  *)
(* refused or discarded, whatever is restored, cleaned up or left behind by *)
(* a crash in between ("a successful claim is the single-use boundary").    *)
AtMostOnce == \A v \in Ver : uses[v] <= 1 /\ (v \in consumed => uses[v] = 0)

(* Who may still make version v returnable: at most one holder at a time,   *)
(* and none once it is spent.                                               *)
Ticket(p, v) ==
    \/ pc[p] \in {"W.link", "X.read", "X.restore", "C.again", "C.restore"} /\ file[p] = v
    \/ pc[p] \in {"X.validate", "X.return"} /\ has[p] = v

Spent(v) == uses[v] # 0 \/ v \in consumed

TicketInv ==
    /\ \A v \in Ver, p, q \in Proc : Ticket(p, v) /\ Ticket(q, v) => p = q
    /\ \A v \in Ver, p \in Proc : Ticket(p, v) => pending # v /\ ~Spent(v) /\ v \in written
    /\ pending \in Ver => ~Spent(pending) /\ pending \in written
    /\ \A v \in Ver : Spent(v) => v \in written
    /\ \A p \in Proc : pc[p] \in {"X.validate", "X.return", "X.restore"} =>
         has[p] \in Ver /\ file[p] \in {has[p], NoVer}
    /\ AtMostOnce

(* Cleanup and restoration never delete the last file of a plan that has    *)
(* not expired, is younger than the residue grace and that nobody has       *)
(* claimed, refused or discarded.                                           *)
LiveNotLost ==
    \A v \in written \ (expired \cup consumed \cup ancient) :
        \/ uses[v] = 1
        \/ pending = v
        \/ \E p \in Proc : file[p] = v
        \/ \E f \in residue : f.ver = v

(* Fairness: calls run on, commands keep cleaning up, time passes, and each *)
(* scan visits every entry of the directory.                                *)
Fairness ==
    /\ \A p \in Proc : /\ WF_vars(WriteOn(p) \/ ClaimOn(p) \/ DiscardOn(p) \/ CleanOn(p))
                       /\ WF_vars(CleanStart(p))
                       /\ SF_vars(CleanResidue(p))
    /\ WF_vars(Expire) /\ WF_vars(Age)

FairSpec == Spec /\ Fairness

(* Nothing a crash leaves in the directory stays there for ever.            *)
ResidueGoes == residue # {} ~> residue = {}

=============================================================================

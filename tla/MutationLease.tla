--------------------------- MODULE MutationLease ---------------------------
(* The cross-process portfolio lease of packages/store: the file           *)
(* integration-mutation.lease, the guard file that serialises its removal, *)
(* and the intent files that serialise the recovery of an abandoned guard. *)
(* Every Integration, installation and recovery mutation runs inside       *)
(* withIntegrationMutationLease.                                            *)
(*                                                                          *)
(* A process makes calls one after the other.  Each file operation that    *)
(* other processes can see is a step of its own; a file is identified by   *)
(* an id, standing for the pair of random token and inode the code         *)
(* compares.  Private .tmp and .owned names, which no other process reads, *)
(* are left out.                                                            *)
EXTENDS Naturals, FiniteSets

CONSTANTS
    Proc,          \* operating-system processes (CLI commands, the dashboard)
    Id,            \* identities of published owner files
    NoId,          \* no identity
    CrashAt,       \* bound: the labels at which a process may die
    CrashLimit,    \* bound: how many processes may die or be suspended
    SleepLimit     \* bound: how often a live process is suspended past hardStaleMs

ASSUME LeaseConstants ==
    /\ NoId \notin Id
    /\ CrashLimit \in Nat
    /\ SleepLimit \in Nat

VARIABLES
    lease,      \* the file at integration-mutation.lease
    guard,      \* the file at integration-mutation-recovery.guard
    intents,    \* the guard-recovery intent files
    pc,         \* where each process is in its call
    task,       \* why it wants the guard
    leaseOf,    \* the lease file it publishes or holds
    guardOf,    \* the guard file it publishes or holds
    intentOf,   \* the intent file it holds
    seen,       \* the file it has observed and is about to rename away
    todo,       \* the intents its directory scan has still to look at
    crashes, sleeps,
    sleptInGuard \* history: a process was suspended with its guard file on disk

files  == <<lease, guard, intents>>
mine   == <<leaseOf, guardOf, intentOf>>
bounds == <<crashes, sleeps, sleptInGuard>>
vars   == <<lease, guard, intents, pc, task, leaseOf, guardOf, intentOf, seen, todo,
            crashes, sleeps, sleptInGuard>>

-----------------------------------------------------------------------------
(* Owner files.  "live": the owner runs and its file is younger than        *)
(* hardStaleMs; "dead": the owner is gone, the file younger than staleMs;   *)
(* "stale": old enough for mayRecover.  beat: a heartbeat timer refreshes   *)
(* the inode.                                                               *)

OwnerFile == [id : Id, pid : Proc, state : {"live", "dead", "stale"}, beat : BOOLEAN]
NoFile    == [id |-> NoId]

NewFile(i, p) == [id |-> i, pid |-> p, state |-> "live", beat |-> FALSE]

(* Mutant of MayRecover: neither age nor liveness of the owner counts.      *)
MayRecoverAny(f) == f # NoFile

MayRecover(f) == f # NoFile /\ f.state = "stale"

IntentIds == {f.id : f \in intents}

UsedIds == {lease.id, guard.id} \cup IntentIds
             \cup UNION {{leaseOf[p], guardOf[p], intentOf[p], seen[p]} \cup todo[p] : p \in Proc}

(* Mutant of Fresh: a published file carries no identity.                   *)
Anonymous == NoId

(* randomUUID() and a new inode: an identity nobody still refers to.        *)
Unused == Id \ UsedIds
Fresh  == CHOOSE i \in Id : i \notin UsedIds

PublishLeaseAt == {"L.pre", "L.link", "L.post", "L.back", "L.undo", "L.open"}
HoldGuardAt    == {"T.see", "T.take", "U.see", "U.take", "G.release", "G.take"}
GuardOnDiskAt  == HoldGuardAt \cup {"G.post", "G.rescan", "G.back", "G.undo"}
PublishGuardAt == {"G.pre", "G.scan", "G.post", "G.rescan", "G.back", "G.undo",
                   "G.look", "G.wait"}
RecoverAt      == {"R.intent", "R.see", "R.take", "R.recheck", "R.end"}
PC == {"idle", "work", "L.look", "L.lease", "L.wait"}
        \cup PublishLeaseAt \cup PublishGuardAt \cup HoldGuardAt \cup RecoverAt

Init ==
    /\ lease = NoFile /\ guard = NoFile /\ intents = {}
    /\ pc = [p \in Proc |-> "idle"]
    /\ task = [p \in Proc |-> "acquire"]
    /\ leaseOf = [p \in Proc |-> NoId]
    /\ guardOf = [p \in Proc |-> NoId]
    /\ intentOf = [p \in Proc |-> NoId]
    /\ seen = [p \in Proc |-> NoId]
    /\ todo = [p \in Proc |-> {}]
    /\ crashes = 0 /\ sleeps = 0 /\ sleptInGuard = FALSE

Goto(p, label) == pc' = [pc EXCEPT ![p] = label]

(* The call ends, by returning or by throwing: whatever it still has on     *)
(* disk stays there.                                                        *)
Leave(p) ==
    /\ Goto(p, "idle")
    /\ task' = [task EXCEPT ![p] = "acquire"]
    /\ leaseOf' = [leaseOf EXCEPT ![p] = NoId]
    /\ guardOf' = [guardOf EXCEPT ![p] = NoId]
    /\ intentOf' = [intentOf EXCEPT ![p] = NoId]
    /\ seen' = [seen EXCEPT ![p] = NoId]
    /\ todo' = [todo EXCEPT ![p] = {}]

-----------------------------------------------------------------------------
(* acquireLease: publish the lease unless a guard exists, before and after  *)
(* the link.                                                                *)

Begin(p) ==
    /\ pc[p] = "idle"
    /\ Goto(p, "L.pre")
    /\ UNCHANGED <<files, task, mine, seen, todo, bounds>>

LeasePre(p) ==
    /\ pc[p] = "L.pre"
    /\ Unused # {}
    /\ \/ /\ guard = NoFile
          /\ leaseOf' = [leaseOf EXCEPT ![p] = Fresh]
          /\ Goto(p, "L.link")
       \/ /\ guard # NoFile
          /\ Goto(p, "L.look")
          /\ UNCHANGED leaseOf
    /\ UNCHANGED <<files, task, guardOf, intentOf, seen, todo, bounds>>

(* Mutant of LeaseLink: rename over the destination instead of link.        *)
LeaseRename(p) ==
    /\ pc[p] = "L.link"
    /\ lease' = NewFile(leaseOf[p], p)
    /\ Goto(p, "L.post")
    /\ UNCHANGED <<leaseOf, guard, intents, task, guardOf, intentOf, seen, todo, bounds>>

LeaseLink(p) ==
    /\ pc[p] = "L.link"
    /\ \/ /\ lease = NoFile
          /\ lease' = NewFile(leaseOf[p], p)
          /\ Goto(p, "L.post")
          /\ UNCHANGED leaseOf
       \/ /\ lease # NoFile                                        \* EEXIST
          /\ leaseOf' = [leaseOf EXCEPT ![p] = NoId]
          /\ Goto(p, "L.look")
          /\ UNCHANGED lease
    /\ UNCHANGED <<guard, intents, task, guardOf, intentOf, seen, todo, bounds>>

LeasePost(p) ==
    /\ pc[p] = "L.post"
    /\ Goto(p, IF guard = NoFile THEN "L.open" ELSE "L.back")
    /\ UNCHANGED <<files, task, mine, seen, todo, bounds>>

LeaseBack(p) ==
    /\ pc[p] = "L.back"
    /\ \/ /\ lease.id = leaseOf[p]
          /\ Goto(p, "L.undo")
          /\ UNCHANGED leaseOf
       \/ /\ lease.id # leaseOf[p]
          /\ leaseOf' = [leaseOf EXCEPT ![p] = NoId]
          /\ Goto(p, "L.look")
    /\ UNCHANGED <<files, task, guardOf, intentOf, seen, todo, bounds>>

(* removeFile(destination): unlinks whatever is there by now.               *)
LeaseUndo(p) ==
    /\ pc[p] = "L.undo"
    /\ lease' = NoFile
    /\ leaseOf' = [leaseOf EXCEPT ![p] = NoId]
    /\ Goto(p, "L.look")
    /\ UNCHANGED <<guard, intents, task, guardOf, intentOf, seen, todo, bounds>>

LeaseOpen(p) ==
    /\ pc[p] = "L.open"
    /\ \/ /\ lease.id = leaseOf[p]
          /\ lease' = [lease EXCEPT !.beat = TRUE]
          /\ Goto(p, "work")
          /\ UNCHANGED <<task, mine, seen, todo>>
       \/ /\ lease.id # leaseOf[p]                       \* ENOENT or unsafe
          /\ Leave(p)
          /\ UNCHANGED lease
    /\ UNCHANGED <<guard, intents, bounds>>

(* Mutant of LookAtGuard: an abandoned guard is left to its owner.          *)
LookPastGuard(p) ==
    /\ pc[p] = "L.look"
    /\ Goto(p, "L.lease")
    /\ UNCHANGED <<files, task, mine, seen, todo, bounds>>

(* Publication failed: first an abandoned guard, then an abandoned lease.   *)
LookAtGuard(p) ==
    /\ pc[p] = "L.look"
    /\ Goto(p, IF MayRecover(guard) THEN "R.intent" ELSE "L.lease")
    /\ UNCHANGED <<files, task, mine, seen, todo, bounds>>

(* Mutant of LookAtLease: a lease is never taken over.                      *)
LookPastLease(p) ==
    /\ pc[p] = "L.lease"
    /\ Goto(p, "L.wait")
    /\ UNCHANGED <<files, task, mine, seen, todo, bounds>>

LookAtLease(p) ==
    /\ pc[p] = "L.lease"
    /\ \/ /\ MayRecover(lease)
          /\ task' = [task EXCEPT ![p] = "takeover"]
          /\ Goto(p, "G.pre")
       \/ /\ ~MayRecover(lease)
          /\ Goto(p, "L.wait")
          /\ UNCHANGED task
    /\ UNCHANGED <<files, mine, seen, todo, bounds>>

LeaseRetry(p) ==
    /\ pc[p] = "L.wait"
    /\ Goto(p, "L.pre")
    /\ UNCHANGED <<files, task, mine, seen, todo, bounds>>

(* The deadline has passed: INTEGRATION_BUSY.  A release that finds the     *)
(* guard busy leaves its lease, with a running heartbeat, on disk.          *)
Busy(p) ==
    /\ pc[p] \in {"L.wait", "G.wait"}
    /\ Leave(p)
    /\ UNCHANGED <<files, bounds>>

-----------------------------------------------------------------------------
(* acquireRecoveryGuard: publish the guard unless a recovery intent exists, *)
(* before and after the link.                                               *)

GuardPre(p) ==
    /\ pc[p] = "G.pre"
    /\ Unused # {}
    /\ guardOf' = [guardOf EXCEPT ![p] = Fresh]
    /\ todo' = [todo EXCEPT ![p] = IntentIds]
    /\ Goto(p, "G.scan")
    /\ UNCHANGED <<files, task, leaseOf, intentOf, seen, bounds>>

(* recoveryIntentExists: one entry of the directory listing.                *)
ScanIntent(p) ==
    /\ pc[p] \in {"G.scan", "G.rescan"}
    /\ \E i \in todo[p] :
         \/ /\ \A f \in intents : f.id = i => MayRecover(f)
            /\ intents' = {f \in intents : f.id # i}
            /\ todo' = [todo EXCEPT ![p] = @ \ {i}]
            /\ UNCHANGED <<pc, guardOf>>
         \/ /\ \E f \in intents : f.id = i /\ ~MayRecover(f)
            /\ todo' = [todo EXCEPT ![p] = {}]
            /\ \/ /\ pc[p] = "G.scan"
                  /\ guardOf' = [guardOf EXCEPT ![p] = NoId]
                  /\ Goto(p, "G.look")
               \/ /\ pc[p] = "G.rescan"
                  /\ Goto(p, "G.back")
                  /\ UNCHANGED guardOf
            /\ UNCHANGED intents
    /\ UNCHANGED <<lease, guard, task, leaseOf, intentOf, seen, bounds>>

(* Mutant of GuardLink: rename over the destination instead of link.        *)
GuardRename(p) ==
    /\ pc[p] = "G.scan" /\ todo[p] = {}
    /\ guard' = NewFile(guardOf[p], p)
    /\ Goto(p, "G.post")
    /\ UNCHANGED <<guardOf, lease, intents, task, leaseOf, intentOf, seen, todo, bounds>>

GuardLink(p) ==
    /\ pc[p] = "G.scan" /\ todo[p] = {}
    /\ \/ /\ guard = NoFile
          /\ guard' = NewFile(guardOf[p], p)
          /\ Goto(p, "G.post")
          /\ UNCHANGED guardOf
       \/ /\ guard # NoFile                                        \* EEXIST
          /\ guardOf' = [guardOf EXCEPT ![p] = NoId]
          /\ Goto(p, "G.look")
          /\ UNCHANGED guard
    /\ UNCHANGED <<lease, intents, task, leaseOf, intentOf, seen, todo, bounds>>

GuardPost(p) ==
    /\ pc[p] = "G.post"
    /\ todo' = [todo EXCEPT ![p] = IntentIds]
    /\ Goto(p, "G.rescan")
    /\ UNCHANGED <<files, task, mine, seen, bounds>>

GuardBack(p) ==
    /\ pc[p] = "G.back"
    /\ \/ /\ guard.id = guardOf[p]
          /\ Goto(p, "G.undo")
          /\ UNCHANGED guardOf
       \/ /\ guard.id # guardOf[p]
          /\ guardOf' = [guardOf EXCEPT ![p] = NoId]
          /\ Goto(p, "G.look")
    /\ UNCHANGED <<files, task, leaseOf, intentOf, seen, todo, bounds>>

GuardUndo(p) ==
    /\ pc[p] = "G.undo"
    /\ guard' = NoFile
    /\ guardOf' = [guardOf EXCEPT ![p] = NoId]
    /\ Goto(p, "G.look")
    /\ UNCHANGED <<lease, intents, task, leaseOf, intentOf, seen, todo, bounds>>

GuardOpen(p) ==
    /\ pc[p] = "G.rescan" /\ todo[p] = {}
    /\ \/ /\ guard.id = guardOf[p]
          /\ Goto(p, IF task[p] = "release" THEN "U.see" ELSE "T.see")
          /\ UNCHANGED <<task, mine, seen, todo>>
       \/ /\ guard.id # guardOf[p]                       \* ENOENT or unsafe
          /\ Leave(p)
    /\ UNCHANGED <<files, bounds>>

GuardLook(p) ==
    /\ pc[p] = "G.look"
    /\ Goto(p, IF MayRecover(guard) THEN "R.intent" ELSE "G.wait")
    /\ UNCHANGED <<files, task, mine, seen, todo, bounds>>

GuardRetry(p) ==
    /\ pc[p] = "G.wait"
    /\ Goto(p, "G.pre")
    /\ UNCHANGED <<files, task, mine, seen, todo, bounds>>

-----------------------------------------------------------------------------
(* recoverGuardIfSafe: under a published intent, rename an abandoned guard  *)
(* away.  The rename moves whatever file is at the path.                    *)

(* Mutant of PublishIntent: the guard is recovered without an intent file.  *)
RecoverUnannounced(p) ==
    /\ pc[p] = "R.intent"
    /\ Goto(p, "R.see")
    /\ UNCHANGED <<files, task, mine, seen, todo, bounds>>

PublishIntent(p) ==
    /\ pc[p] = "R.intent"
    /\ Unused # {}
    /\ intentOf' = [intentOf EXCEPT ![p] = Fresh]
    /\ intents' = intents \cup {NewFile(Fresh, p)}
    /\ Goto(p, "R.see")
    /\ UNCHANGED <<lease, guard, task, leaseOf, guardOf, seen, todo, bounds>>

RecoverSee(p) ==
    /\ pc[p] = "R.see"
    /\ \/ /\ MayRecover(guard)
          /\ seen' = [seen EXCEPT ![p] = guard.id]
          /\ Goto(p, "R.take")
       \/ /\ ~MayRecover(guard)
          /\ Goto(p, "R.end")
          /\ UNCHANGED seen
    /\ UNCHANGED <<files, task, mine, todo, bounds>>

RecoverTake(p) ==
    /\ pc[p] = "R.take"
    /\ guard' = NoFile
    /\ seen' = [seen EXCEPT ![p] = NoId]
    /\ Goto(p, IF guard.id = seen[p] THEN "R.end" ELSE "R.recheck")
    /\ UNCHANGED <<lease, intents, task, mine, todo, bounds>>

(* LEASE_LOST is forgiven when the guard path is empty by now.              *)
RecoverRecheck(p) ==
    /\ pc[p] = "R.recheck"
    /\ Goto(p, "R.end")
    /\ \/ /\ guard = NoFile
          /\ UNCHANGED task
       \/ /\ guard # NoFile
          /\ task' = [task EXCEPT ![p] = "abort"]
    /\ UNCHANGED <<files, mine, seen, todo, bounds>>

(* releasePublishedOwner(intent), then back to the caller.                  *)
RecoverEnd(p) ==
    /\ pc[p] = "R.end"
    /\ intents' = {f \in intents : f.id # intentOf[p]}
    /\ IF task[p] = "abort" \/ intentOf[p] \notin IntentIds
       THEN Leave(p)
       ELSE /\ intentOf' = [intentOf EXCEPT ![p] = NoId]
            /\ Goto(p, IF task[p] = "acquire" THEN "L.lease" ELSE "G.wait")
            /\ UNCHANGED <<task, leaseOf, guardOf, seen, todo>>
    /\ UNCHANGED <<lease, guard, bounds>>

-----------------------------------------------------------------------------
(* Under the guard: recoverLeaseIfSafe.                                     *)

TakeoverSee(p) ==
    /\ pc[p] = "T.see"
    /\ \/ /\ MayRecover(lease)
          /\ seen' = [seen EXCEPT ![p] = lease.id]
          /\ Goto(p, "T.take")
       \/ /\ ~MayRecover(lease)
          /\ Goto(p, "G.release")
          /\ UNCHANGED seen
    /\ UNCHANGED <<files, task, mine, todo, bounds>>

TakeoverTake(p) ==
    /\ pc[p] = "T.take"
    /\ lease' = NoFile
    /\ seen' = [seen EXCEPT ![p] = NoId]
    /\ task' = [task EXCEPT ![p] = IF lease.id = seen[p] THEN @ ELSE "abort"]
    /\ Goto(p, "G.release")
    /\ UNCHANGED <<guard, intents, mine, todo, bounds>>

(* The operation, and the end of it: releaseLease under the guard, with the *)
(* heartbeat stopped first.                                                 *)

EndWork(p) ==
    /\ pc[p] = "work"
    /\ task' = [task EXCEPT ![p] = "release"]
    /\ Goto(p, "G.pre")
    /\ UNCHANGED <<files, mine, seen, todo, bounds>>

(* Mutant of ReleaseSee: the lease at the path is not compared.             *)
ReleaseBlind(p) ==
    /\ pc[p] = "U.see"
    /\ Goto(p, "U.take")
    /\ UNCHANGED <<files, task, mine, seen, todo, bounds>>

ReleaseSee(p) ==
    /\ pc[p] = "U.see"
    /\ \/ /\ lease.id = leaseOf[p]
          /\ lease' = [lease EXCEPT !.beat = FALSE]
          /\ Goto(p, "U.take")
       \/ /\ lease.id # leaseOf[p]                       \* LEASE_LOST
          /\ Goto(p, "G.release")
          /\ UNCHANGED lease
    /\ UNCHANGED <<guard, intents, task, mine, seen, todo, bounds>>

ReleaseTake(p) ==
    /\ pc[p] = "U.take"
    /\ lease' = NoFile
    /\ leaseOf' = [leaseOf EXCEPT ![p] = NoId]
    /\ Goto(p, "G.release")
    /\ UNCHANGED <<guard, intents, task, guardOf, intentOf, seen, todo, bounds>>

(* releasePublishedOwner(guard): look, then rename whatever is there.       *)
GuardReleaseSee(p) ==
    /\ pc[p] = "G.release"
    /\ \/ /\ guard.id = guardOf[p]
          /\ Goto(p, "G.take")
          /\ UNCHANGED <<task, mine, seen, todo>>
       \/ /\ guard.id # guardOf[p]                       \* LEASE_LOST
          /\ Leave(p)
    /\ UNCHANGED <<files, bounds>>

GuardReleaseTake(p) ==
    /\ pc[p] = "G.take"
    /\ guard' = NoFile
    /\ IF task[p] = "takeover" /\ guard.id = guardOf[p]
       THEN /\ task' = [task EXCEPT ![p] = "acquire"]
            /\ guardOf' = [guardOf EXCEPT ![p] = NoId]
            /\ Goto(p, "L.wait")
            /\ UNCHANGED <<leaseOf, intentOf, seen, todo>>
       ELSE Leave(p)
    /\ UNCHANGED <<lease, intents, bounds>>

-----------------------------------------------------------------------------
(* The environment.                                                         *)

Orphan(f, p) ==
    IF f # NoFile /\ f.pid = p
    THEN [f EXCEPT !.state = IF @ = "live" THEN "dead" ELSE @, !.beat = FALSE]
    ELSE f

(* The process dies at any point; a new process takes its place.            *)
Crash(p) ==
    /\ crashes + sleeps < CrashLimit
    /\ pc[p] \in CrashAt
    /\ pc[p] # "idle" \/ (lease # NoFile /\ lease.pid = p)
    /\ crashes' = crashes + 1
    /\ lease' = Orphan(lease, p)
    /\ guard' = Orphan(guard, p)
    /\ intents' = {Orphan(f, p) : f \in intents}
    /\ Leave(p)
    /\ UNCHANGED <<sleeps, sleptInGuard>>

(* staleMs pass after the death of an owner.                                *)
GrowStale ==
    /\ \/ /\ lease # NoFile /\ lease.state = "dead"
          /\ lease' = [lease EXCEPT !.state = "stale"]
          /\ UNCHANGED <<guard, intents>>
       \/ /\ guard # NoFile /\ guard.state = "dead"
          /\ guard' = [guard EXCEPT !.state = "stale"]
          /\ UNCHANGED <<lease, intents>>
       \/ \E f \in intents :
            /\ f.state = "dead"
            /\ intents' = (intents \ {f}) \cup {[f EXCEPT !.state = "stale"]}
            /\ UNCHANGED <<lease, guard>>
    /\ UNCHANGED <<pc, task, mine, seen, todo, bounds>>

(* A live owner does not run for hardStaleMs (a suspended machine): every   *)
(* file it has on disk is old enough for mayRecover at once.  It runs again *)
(* with its next step; its heartbeat then renews the lease, nothing renews  *)
(* a guard or an intent.                                                    *)
Aged(f, p) == IF f # NoFile /\ f.pid = p THEN [f EXCEPT !.state = "stale"] ELSE f

Sleep(p) ==
    /\ sleeps < SleepLimit /\ crashes + sleeps < CrashLimit
    /\ sleeps' = sleeps + 1
    /\ sleptInGuard' = (sleptInGuard \/ pc[p] \in GuardOnDiskAt)
    /\ \E f \in {lease, guard} \cup intents : f # NoFile /\ f.pid = p /\ f.state = "live"
    /\ lease' = Aged(lease, p)
    /\ guard' = Aged(guard, p)
    /\ intents' = {Aged(f, p) : f \in intents}
    /\ UNCHANGED <<pc, task, mine, seen, todo, crashes>>

(* startHeartbeat: the timer touches the published inode.                   *)
Heartbeat ==
    /\ lease # NoFile /\ lease.beat /\ lease.state = "stale"
    /\ lease' = [lease EXCEPT !.state = "live"]
    /\ UNCHANGED <<guard, intents, pc, task, mine, seen, todo, bounds>>

Step(p) ==
    \/ LeasePre(p) \/ LeaseLink(p) \/ LeasePost(p) \/ LeaseBack(p) \/ LeaseUndo(p)
    \/ LeaseOpen(p) \/ LookAtGuard(p) \/ LookAtLease(p) \/ LeaseRetry(p)
    \/ GuardPre(p) \/ ScanIntent(p) \/ GuardLink(p) \/ GuardPost(p) \/ GuardBack(p)
    \/ GuardUndo(p) \/ GuardOpen(p) \/ GuardLook(p) \/ GuardRetry(p)
    \/ PublishIntent(p) \/ RecoverSee(p) \/ RecoverTake(p) \/ RecoverRecheck(p)
    \/ RecoverEnd(p) \/ TakeoverSee(p) \/ TakeoverTake(p) \/ EndWork(p)
    \/ ReleaseSee(p) \/ ReleaseTake(p) \/ GuardReleaseSee(p) \/ GuardReleaseTake(p)

Next ==
    \/ \E p \in Proc : Begin(p) \/ Step(p) \/ Busy(p) \/ Crash(p) \/ Sleep(p)
    \/ GrowStale
    \/ Heartbeat

Spec == Init /\ [][Next]_vars

-----------------------------------------------------------------------------
TypeOK ==
    /\ lease \in OwnerFile \cup {NoFile}
    /\ guard \in OwnerFile \cup {NoFile}
    /\ intents \in SUBSET OwnerFile
    /\ pc \in [Proc -> PC]
    /\ task \in [Proc -> {"acquire", "takeover", "release", "abort"}]
    /\ leaseOf \in [Proc -> Id \cup {NoId}]
    /\ guardOf \in [Proc -> Id \cup {NoId}]
    /\ intentOf \in [Proc -> Id \cup {NoId}]
    /\ seen \in [Proc -> Id \cup {NoId}]
    /\ todo \in [Proc -> SUBSET Id]
    /\ crashes \in Nat /\ sleeps \in Nat /\ sleptInGuard \in BOOLEAN
    /\ \A p \in Proc : pc[p] = "L.link" => leaseOf[p] # NoId
    /\ \A p \in Proc : pc[p] = "G.scan" => guardOf[p] # NoId

(* p is inside withIntegrationMutationLease and has not given the lease up. *)
Holding(p) == pc[p] = "work" \/ (task[p] = "release" /\ leaseOf[p] # NoId)
InGuard(p) == pc[p] \in HoldGuardAt

(* hardStaleMs is the code's measure of a lost owner: what follows about    *)
(* exclusion holds as long as no live owner has been suspended that long.   *)
Awake == sleeps = 0

(* Two calls are never inside their operations at once (withIntegration-    *)
(* MutationLease, "Serializes installations with every other portfolio      *)
(* mutation").                                                              *)
MutualExclusion == Awake => \A p, q \in Proc : Holding(p) /\ Holding(q) => p = q

(* Whoever has been given the lease or the guard keeps it: the file stays   *)
(* at its path, with the owner's identity, until the owner itself renames   *)
(* it away, whoever publishes, takes over or dies meanwhile.  This is what  *)
(* assertIntegrationMutationLeaseOwned relies on.                           *)
HeldKept ==
    Awake => \A p \in Proc :
        /\ Holding(p) => lease.id = leaseOf[p]
        /\ InGuard(p) => guard.id = guardOf[p]

(* At most one process is between acquireRecoveryGuard and its release.     *)
GuardExclusion == Awake => \A p, q \in Proc : InGuard(p) /\ InGuard(q) => p = q

(* The inductive invariant behind mutual exclusion.  It holds when no guard *)
(* file is ever abandoned, so that no recovery intent is ever published.    *)
LeaseOnDisk(p) == pc[p] \in {"L.post", "L.back", "L.undo", "L.open"} \/ Holding(p)

LeaseIsMine == \A p \in Proc : LeaseOnDisk(p) =>
    /\ lease \in OwnerFile /\ lease.id = leaseOf[p]
    /\ lease.pid = p /\ lease.state = "live"

GuardIsMine == \A p \in Proc : pc[p] \in GuardOnDiskAt =>
    guard \in OwnerFile /\ guard.id = guardOf[p] /\ guard.pid = p

GuardHasOwner == guard # NoFile => guard.state = "live" /\ pc[guard.pid] \in GuardOnDiskAt

NothingToRecover == intents = {} /\ \A p \in Proc : todo[p] = {} /\ pc[p] \notin RecoverAt

SeenIsStale == \A p \in Proc : pc[p] = "T.take" =>
    lease \in OwnerFile /\ lease.id = seen[p] /\ lease.state = "stale"

BeatsAreLive == lease # NoFile /\ lease.state # "live" => ~lease.beat

TaskFits == \A p \in Proc :
    /\ pc[p] \in {"idle", "work", "L.look", "L.lease", "L.wait"} \cup PublishLeaseAt
         => task[p] = "acquire"
    /\ pc[p] \in PublishGuardAt =>
         task[p] = "takeover" \/ (task[p] = "release" /\ leaseOf[p] # NoId)
    /\ pc[p] \in {"T.see", "T.take"} => task[p] = "takeover"
    /\ pc[p] \in {"U.see", "U.take"} => task[p] = "release" /\ leaseOf[p] # NoId

LeaseInv == /\ LeaseIsMine /\ GuardIsMine /\ GuardHasOwner /\ NothingToRecover
            /\ SeenIsStale /\ BeatsAreLive /\ TaskFits

(* A holder suspended past hardStaleMs while it runs its operation, whose   *)
(* lease has been taken over, never removes the lease of its successor when *)
(* it wakes up and releases: it does so under a guard of its own, and       *)
(* compares token and inode first (releaseLease, releasePublishedOwner).    *)
(* A suspension with the guard on disk is excepted: the guard is            *)
(* recoverable with the lease then, and the comparison does not help a      *)
(* holder that is overtaken between it and the rename.                      *)
SupersededHarmless ==
    [][~sleptInGuard => \A p \in Proc :
         Holding(p) /\ lease.id # leaseOf[p] /\ pc[p] # pc'[p] => lease'.id = lease.id]_vars

(* Fairness: a running process keeps running its call; calls keep coming;   *)
(* time passes over the files of dead owners.  Nothing makes a process die. *)
Fairness ==
    /\ \A p \in Proc : WF_vars(Step(p)) /\ WF_vars(Begin(p))
    /\ WF_vars(GrowStale)

FairSpec == Spec /\ Fairness

Abandoned(f) == f # NoFile /\ f.state \in {"dead", "stale"}

(* A lease whose owner died does not block the portfolio for ever: some     *)
(* later call takes it over (acquireLease, recoverLeaseIfSafe).  Neither    *)
(* does a guard whose owner died (recoverGuardIfSafe).                      *)
AbandonedRecovered ==
    /\ Abandoned(lease) ~> ~Abandoned(lease)
    /\ Abandoned(guard) ~> ~Abandoned(guard)

-----------------------------------------------------------------------------
(* The lock the lease implements: taken only when free, and one left behind *)
(* by a dead or failing holder must be recovered before it is taken again.  *)
LockState ==
    CASE ~Awake -> "overslept"
      [] Awake /\ \E p \in Proc : Holding(p) -> CHOOSE p \in Proc : Holding(p)
      [] /\ Awake /\ \A p \in Proc : ~Holding(p)
         /\ lease # NoFile
         /\ \A p \in Proc : pc[p] \in PublishLeaseAt => lease.id # leaseOf[p] -> "stranded"
      [] OTHER -> "free"

Lock == INSTANCE PortfolioLock WITH lock <- LockState
LockSpec == Lock!Spec

=============================================================================

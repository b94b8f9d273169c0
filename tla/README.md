# Skill Steward: a verification project in TLA+

Skill Steward keeps a portfolio of Skills (directories of instructions) that
several coding Harnesses read. It scans them, recommends a few for a task,
installs, quarantines and restores them, and connects itself to a Harness by a
hook and a companion Skill. Everything it owns is a file or a directory, several
processes of it run side by side (one per command, one per hook call, and a
dashboard that lives on), and the user edits the same directories with other
tools. There is no server and no database: what is correct here is the order of
renames, links, appends and removals, seen by other processes and cut short by
deaths.

This directory holds TLA+ models of that order, TLC configurations that check
them, and proofs checked by TLAPS. `PROJECT.json` lists components, runs,
mutants, the source lines of every definition, findings, hazards and theorems.

    tlc -workers 2 -config lease_two.cfg MCMutationLease
    tlapm PublicationProofs.tla

## 1. Inventory

| component | state it keeps | operations | what makes it correct |
|---|---|---|---|
| Portfolio mutation lease (`packages/store/src/integration-mutation-lease.ts`) | lease file, guard file, intent files | acquire, take over, heartbeat, release, recover a guard | one mutation at a time; abandoned files do not block for ever; nobody removes a successor's file |
| Reviewed plan store (`packages/store/src/reviewed-plan-store.ts`) | one file per reviewed plan; private names of calls | write, claim with validator, discard, clean up | a plan is applied at most once; a live plan is not lost; residue goes |
| Governance (`packages/governance`) | active Skill, staging, vault, rollback, journal | plan and apply quarantine and restore, compensate | nothing the user wants is lost; a quarantine record has its copy; only what was reviewed is moved |
| Installer (`packages/installer`: planner, transaction, rollback, journal) | destination, temporary copy, backups, journal | plan, apply, undo, roll back | backups match their records; rollback puts back what it names |
| Source staging (`packages/installer/src/staging.ts`, used by `cli/src/commands/install.ts`, `dashboard-server/src/installation-services.ts`, `catalog/src/refresh.ts`) | preview directories, tombstones, the server's plans in memory | create, stage, inspect, resolve, expire, clean up | what is installed is what was inspected; a preview somebody was shown stays; nothing stays without a reason |
| Companion transaction (`packages/integrations/src/companion-transaction.ts`) | companion tree, stage, backup, Harness configuration, readiness, lifecycle journal, recovery state | apply, disconnect, compensate, finish | all or nothing, the journal record being the commit |
| Integration recovery (`packages/integrations/src/integration-recovery.ts`, `packages/store/src/integration-recovery-*.ts`) | recovery fragments | classify, plan, roll back, finalize | the direction fits the evidence; retries converge |
| File and readiness publication (`packages/store/src/integration-file-*.ts`, `integration-readiness-*.ts`) | target, owned siblings, backups | publish, verify, restore, finalize, restart | what its owner wrote is somewhere on disk; answers are true; the next call succeeds |
| Owned companion trees (`packages/integrations/src/companion-owned-tree-*.ts`) | trees with recorded identity | copy, move, clean up, resume | only identified trees are moved or removed |
| Lifecycle journal (`packages/store/src/integration-store.ts`) | one file per record | append, compensate, prune, read | committed, not committed and unknown are told apart; no two records disagree |
| Catalog (`packages/catalog`, `catalog-store.ts`) | source list, snapshot | refresh, enable, add, remove | a failed source keeps its previous Skills; limits hold |
| Evidence stores (`preflight-store.ts`, `evidence-*-store.ts`, `evidence-privacy.ts`) | preflights, events, policy, salt | append, feedback, compact, plan and erase | bounds hold; reviewed erase and policy change stop on drift |
| Report history (`manifest-store.ts`, `history-store.ts`) | latest, previous, index | write, prune | the index names files that exist |
| Harness configuration (`packages/integrations/src/config.ts`, `companion-legacy.ts`) | Hooks of each Harness, the shared companion, the records' view of both | review, connect, disconnect, remove alpha | the companion stays while a Harness uses it; nobody is stuck; a person's work is kept |
| Inventory (`packages/engine/src/inventory`, `analyze.ts`) | none beyond a scan | plan per Harness, search, walk, read, resolve | what is not told is marked as not told; nothing is guessed; budgets hold; nothing is read outside its proof |
| Preflight selection, hook runtime, insights | none beyond a call | select, record, render | fail open; bounded choice |
| CLI, dashboard server, dashboard UI, native rename, release scripts | in-memory plan maps (server) | call the components above | see section 6 |

Interactions. A CLI mutation enters the lease, claims its plan from the reviewed
plan store, runs its transaction and leaves; the dashboard keeps its plans in
memory and runs the same transactions under the same lease. Installation and
integration use the lease; quarantine and restore do not, and rely on
fingerprints and on renames that fail when their target exists. Journals are
appended without a lock. The user's tools take part in no protocol.

What is hard: every file operation is an interleaving point between processes;
a check is always made on a path and the next operation may find another file
there; a process may die anywhere, and except for the lease and the integration
recovery nothing runs at the next start to clean up; failures are undone by
compensation, which may itself fail or meet a file of someone else; and two
clocks matter, the heartbeat of the lease and the expiry of plans.
`PROJECT.json` lists the hazards at their lines.

## 2. Plan

The order in which the project was built, the most important behaviour first:

1. `MutationLease` with the lock `PortfolioLock` it implements, `ReviewedPlans`,
   `Governance`, `Installation`: what moves Skills. Done, with proofs.
2. `CompanionTransaction` with `IntegrationRecovery`: one transaction over companion
   tree, configuration, readiness and journal, and its recovery. Done, with proofs.
3. `HarnessLifecycle`: many such transactions, of several Harnesses. Done, with proofs.
4. `RecordJournal`, `FilePublication`, `LocalStores`: what is kept on disk. Done, with
   proofs.
5. The inventory: `CodexInventory`, `ClaudeInventory`, `CopilotInventory`,
   `WorkspaceSearch`, `InventoryScan`, `SkillExposure`, `SecureRead`, and
   `InventoryBuild`, which composes them. Done, the last two with proofs.
6. `StagedPreviews`: the source of an installation. Done, with proofs.

What is left: an abstract specification `AtomicChange` of a companion transaction
(before or after, the journal record being the switch) refined by
`CompanionTransaction`; liveness of repeated recoveries; the insides of the owned
trees and of the central readiness backup, which are steps of the transaction so far;
the choice of Skills in a preflight; proofs about the planners, about the answers of
`FilePublication`, and of `CleanDeathRecovers`.

## 3. Modules

| module | models | by |
|---|---|---|
| `PortfolioLock` | what the lease promises | a lock that is free, held or stranded |
| `MutationLease`, `MutationLeaseProofs` | the lease | files with identity and age; a program counter per process |
| `ReviewedPlans`, `PublicationProofs` | the plan store | the pending file, the private file of each call, residue of dead calls |
| `Governance`, `GovernanceProofs` | quarantine and restore | trees as identity and content at five kinds of path |
| `Installation`, `InstallerProofs` | installation and rollback at the destination | contents at four kinds of path, under an instance of `PortfolioLock` |
| `StagedPreviews`, `InstallerProofs` | the staged source of an installation | a directory with or without metadata, a tombstone, a program counter per call |
| `CompanionTransaction`, `IntegrationRecovery`, `CompanionProofs` | connecting and disconnecting a Harness, and recovery | a queue of the steps the coordinator still has to take, beside the files they change |
| `HarnessLifecycle`, `HarnessProofs` | many connections and disconnections | configurations, companion, records; one step per transaction |
| `RecordJournal`, `PublicationProofs` | appends to the lifecycle journal | the fragments in the directory with their times, those that survive a power failure, a program counter per append |
| `FilePublication`, `PublicationProofs` | one configuration file and its siblings | names, inodes, bytes; a queue of file system calls |
| `LocalStores`, `LocalStoresProofs`, `StorageProofs` | evidence, catalog and report files | contents as the calls whose work they hold; a program counter per caller |
| `CodexInventory`, `ClaudeInventory`, `CopilotInventory` | the planner of each Harness | a tree of places, settings, budgets; one step per directory read |
| `WorkspaceSearch` | the search for nested Skill roots | a bounded queue |
| `InventoryScan` | the walk and the reading of Skills | places, proofs of places, the part being read |
| `SkillExposure` | which Harness sees which Skill | bindings of one scanned inventory |
| `SecureRead`, `HarnessProofs` | reading one metadata file | a path, sizes, an open file |
| `InventoryBuild`, `HarnessProofs` | the composition of the planners, and the roots governance may change | limits, planned sources, paths |
| `InventoryPlans` | what the planners share | operators |
| `InventoryCases` | the instances of the inventory's models | definitions |
| `MCMutationLease`, `MCReviewedPlans`, `MCGovernance`, `MCInstallation`, `MCCompanion`, `MCHarness`, `MCStorage` | the instances TLC checks | definitions, symmetry, the choice of a part |

Which module composes which: `MutationLease` implements `PortfolioLock`, which
`Installation` instantiates; `IntegrationRecovery` extends `CompanionTransaction`;
`InventoryBuild` composes any three planners that keep their limits, which the three
planner modules check. `MCInstallation`, `MCStorage` and `MCHarness` put modules that
share no state into one run: `part` chooses which of them runs.

Conventions. One action per code step that other processes can observe; steps
that only read private files are merged with their neighbours. Labels of `pc`
name the place in the code (`"Q.move"`: the rename of a quarantine). An action
with several outcomes has them as disjuncts: success, the guard of the code
refusing, the system call failing. A tree or file that is compared by
fingerprint is a content, one that is compared by device and inode is an
identity too. Operators called *mutant* are faulty variants of the definition
that follows them: each property is shown to fail when its mutant takes the
place of that definition.

**MutationLease.** Variables `lease`, `guard` and `intents` are the three kinds
of file in the state directory; an owner file has the identity that code
compares as token and inode. Its age is the part of it that the code tests:
`"live"` (younger than `hardStaleMs` and the owner runs), `"dead"` (the owner
is gone, not yet `staleMs` old), `"stale"` (`mayRecover` says yes). Publication
looks for blocking files, links, looks again, and withdraws; the withdrawal
compares and then unlinks by path, two steps. `renameOwned` moves first and
compares afterwards. `Crash` leaves files as they are, `Sleep` suspends a live
owner for `hardStaleMs`: `mayRecover` then no longer asks whether the owner runs, of
any file it has on disk, and a suspended holder can be superseded. `HeldKept`, which says
that whoever was granted the lease or the guard keeps it until it gives it up, holds
without sleeps only. With them `SupersededHarmless` says what remains: a holder suspended
in its operation does not remove its successor's lease. One that is suspended with its
guard on disk may: its guard is recovered with its lease, and if it had compared
(`observeOwner`, line 531) and not yet renamed (417, 542), it moves away whatever is at
the path when it wakes. The model has these behaviours, and `sleptInGuard` excepts them.
A call ends in success, failure of its
operation, or a timeout (`Busy`).

**ReviewedPlans.** One plan id; a version is one write under it. Each call
renames the pending file to a private name, decides, and either consumes or
restores it by link and unlink. `name` and `file` are the private name of each
call and what is there now: cleanup of another call may have taken it. Clocks
are two sets, the versions that have expired and those older than the residue
grace. The two are independent: nothing in the store keeps an expiry below the
grace.

**Governance.** Plans and Skills of one directory name. Quarantine: copy, verify,
check, move aside, check again, commit the vault, journal, confirm, drop
rollback; restore: copy, verify, place, check, journal, confirm, remove the
vault. `Throw` is every way into compensation, the `U.*` steps. A failed append
may have left its record in the journal: such a record is on disk although the
operation was compensated, so `RecordBacked` speaks of operations that reported
success (`"logged"`), and a restore of a compensated quarantine ends with vault
drift.

**Installation.** One destination. `InstallCheck` to `InstallLog` are
`applyInstallationPlan`, the `U.*` steps its catch block, the `R.*` steps
`rollbackInstallation`. `StartInstall` and `StartRollback` take
`Lease!Acquire`, an action of `PortfolioLock`; a death leaves the lock stranded
until `Recover`. An append to the journal that fails may have written its record all
the same (`"doubtful"`): the installation is undone, and the record names a backup
that was put back, which is why `BackupMatches` excepts it. That the real lease behaves so is what `lease_two` checks and
`MutualExclusionHolds` proves, with the limits given below.

**CompanionTransaction and IntegrationRecovery.** A transaction creates, upgrades,
keeps or removes the companion, and may write the Harness configuration (`hook`).
The coordinator is sequential under the lease, so there is one `run`; what is
left of its program is the queue `run.todo`, built by `Forward`, `Finish` and
`Undo` from what was reviewed and from what has been done. `Try` takes a
step: it succeeds, is refused by a check of the code, fails, or is uncertain (done,
but reported as failed). `Note` takes a step whose name ends in `*`: it appends
to the recovery log what the step before it did. An append that is uncertain leaves
the run with a stale sequence number (`synced`), with which no later append
succeeds, as in the store. A failure replaces the queue by that of
the matching catch block: `Failed` before the lifecycle record, `AfterWarning`
after it. `tree` is the companion path with the private siblings of each
transaction (stage, backup, cleanup), `config` and `side` the
configuration with the temporary and the backup beside it, `report` and `kept` the
readiness report with its central backup, `journal` the lifecycle records (their
append is the commit), `rec` the latest state of each transaction in the recovery
log. `Review` says what a review may offer, from the installed tree, the
head of the journal and the configuration; `Revalidate` compares all of it again.
`Die` forgets `run` and nothing else. `ReviewRecovery` and `ApplyRecovery` are the
two calls of a recovery: `Way` classifies the evidence, `Rollback` and `Finalize`
are queues for the same machine, built from the log alone. `gone` and `clean`
are history variables: what a person wrote over, and whether a death fell
between an effect and its record.

**StagedPreviews.** One preview, the calls of commands and of the dashboard's server
that create it, plan from it and apply it, and the cleanups everybody runs.
`place` is the directory under the preview's id: created without metadata (`Create`),
described, filled file by file (`StageFile`, which goes on under the path even when
a cleanup has taken the directory away, and so makes another one), inspected.
`agreed` is what was inspected, the fingerprint in the plan. `stored` is the plan: in
the plan store for a command, in the server's memory otherwise, where it is
`"forgotten"` when the server dies. `past` holds the times that are over: the plan's,
the preview's, and the grace of the tombstone. `Apply`, `Commit` and what follows
them are inside the lease (`LeaseFree`); cleanups are not. What happens at the
destination is `Installation`; here it is the copy, its verification and a step that
may always fail. `uses`, `told` and `cut` are histories.

**HarnessLifecycle.** A transaction is one step here. `config` is what each Harness's
configuration holds, `tree` the shared companion, `journal` the records, cut after
`RecordLimit` records. `PlanConnect` and `PlanDisconnect` derive a plan from all of it,
`ApplyConnect` and `ApplyDisconnect` derive it again and stop when it differs. Who uses the companion is computed from the newest
record and from the configurations (`ResolveConsumers`), as in `companion-legacy.ts`.

**RecordJournal.** An append stages a file, renames it into the directory, verifies it,
flushes the directory, prunes what is too old, lists again and checks what others have
published meanwhile; if they disagree it takes its own back. `stamp` is the time of the
rename, by which listings are ordered (`ctime`; the clock is taken not to go back). A power
failure keeps some listing since the last flush (`onDisk`). `verdict` is the answer: a
receipt, a failure, or "uncertain".

**FilePublication.** Names lead to inodes. `todo` is what the running call still has to do,
as file system calls; every one may fail before or after its effect, and the process
may die between any two. The owner writes the target at any moment, by replacing it or
in place. Publication, restoration, finalization and restart after a death are
sequences built by operators of those names.

**LocalStores.** Files of the state directory; every caller reads, computes, opens a
temporary file, fills it and renames it. What is in a file is the set of
calls whose work is in it. `writeFile` truncates when it opens and then writes from the
beginning of the file: two writes under one temporary name that were both opened before
either wrote (`overtaken`) may leave the shorter content with the end of the longer one
after it, a file that is `Torn` for good although both calls succeed. `topic` chooses what the callers of one behaviour are about:
hook events, preflights with their feedback, the policy, the sources with their snapshot, or
the reports.

**The inventory.** Each planner is a state machine over a tree of places: it reads a
directory per step, under budgets, and tells of each thing it met as a source with a
status, while another program may replace places. `CodexInventory` asks in addition which
profiles may be active, `ClaudeInventory` which of three settings files decides,
`CopilotInventory` which of three tiers, and whether a link stays in the cache.
`InventoryScan` walks the plan's sources and reads the candidates; before each part is
read the proof of its place is made again. `SkillExposure` takes one scanned inventory
and computes the exposures in the order of the code, in which the answer must not depend on
the order of sources. `SecureRead` reads one file whole or not at all. `InventoryBuild` runs
three planners with what is left of the limits, adds the roots by convention, and
computes the Skill roots governance may change.

## 4. Runs

| run | instance | shows |
|---|---|---|
| `lease_two` | 2 processes, 2 deaths anywhere (or 1 and a suspension past `hardStaleMs`), fairness | `TypeOK`, `MutualExclusion`, `HeldKept`, refinement of `PortfolioLock`, `SupersededHarmless`, abandoned leases and guards are recovered |
| `lease_stale_guard` | 3 processes, 1 death anywhere | violation of `MutualExclusion` |
| `plans_short` | 3 calls, 2 versions, 1 death | `TypeOK`, `AtMostOnce`, `LiveNotLost` |
| `plans_long` | 2 calls, 1 version, 2 deaths, fairness | the inductive `TicketInv`, `ResidueGoes` |
| `governance_apply` | 2 quarantines, 1 restore, 3 contents, 1 death | `TypeOK`, `NothingLost`, `RecordBacked`, `MovesOnlyReviewed` |
| `governance_twice` | 1 quarantine, 2 restores | violation of `RestoredOnce` |
| `install_serial` | destination: 3 plans, 2 rollbacks, 2 sources, 2 own contents, 1 death; source: 2 callers, 4 calls, 2 files, 1 failure or death, 1 edit | `TypeOK`, `BackupMatches`, `NothingLost`, `RollbackRestores`, `StagingSound` |
| `install_edit` | 1 plan, 1 rollback, the user writing at any time | violation of `RollbackGuarded` |
| `companion` | 1 plan with 2 faults, 2 deaths, 1 write by a person; 2 plans with 1 fault, 1 death | `TypeOK`, `OneInFlight`, `RecordedMeansDone`, `PreviousKept`, `AnswersHold`, `CleanDeathRecovers` |
| `companion_lost` | 1 plan, 1 death | violation of `RecoveryRestores` |
| `harness` | 3 Harnesses, 2 releases, 4 applied plans, 3 records, 1 change by a person; the inventory on the families of `InventoryCases`, 1 or 2 replacements | `TypeOK`, `CompanionWhileUsed`, `NeverStuck`, `PersonsWorkKept`; `AccountedFor`, `NothingGuessed`, `WithinBudgets`, `TrustKept` |
| `storage` | journal: 3 appends, 2 kept, 2 mishaps; file: 7 inodes, 2 faults, 2 writes by the owner; stores: 2 callers, 3 calls, 1 trouble | `PartsTypeOK`, `PartsAnswersHold`, `NextCallSucceeds`, `OthersWorkKept`, `ErasedForGood`, `FilesReadable` |

`StagingSound`, `PartsAnswersHold`, `OthersWorkKept` and the four properties of the
inventory are conjunctions of a property per part, each stated where the part is
modelled; a part that rests keeps its first state.

Bounds. In the governance runs an operation that dies and one that is never
scheduled again leave the same trees behind, so one death is enough; restores
that compete for one quarantine are in `governance_twice` and in the proof of
`RecordBackedHolds`, which covers any number. In the companion runs two faults let
a compensation fail itself, and two deaths let a recovery die and a second one
continue; two plans let one be stale, or blocked by the other. `CleanDeathRecovers`
is about deaths that fall after an effect was recorded (`clean`). When the death falls
between an effect and its record, the next recovery repeats the effect, and three
of the repeated effects refuse what they find done already: restoring and
finalizing the configuration, finalizing the readiness report, and deleting the
backup of an upgrade. The transaction then stays unresolved, with its evidence, until
a person acts; the "full idempotent finalize path" of `docs/architecture.md`
does not cover these.
Three actors are what the races need: one that holds, one that recovers
or restores, and one that arrives in between; every violation found needs at
most three. Two deaths let the recoverer die as well. Identities (`Id`, eight)
are reused only when nothing refers to them any more, so their number does not
restrict behaviours of these instances; the model stops publishing if they run
out, and `CHECK_DEADLOCK` stays on in the lease runs. Three contents of the user
are the reviewed one, an edit, and an edit during compensation. Calls of the
lease repeat without bound; plans, operations and contents of the other modules
are used once each, which is why those runs allow the system to stop. In
`StagedPreviews` the four calls are what a race about one preview needs: one that creates
it, one that applies it or plans again, and two cleanups, one of which removes while the
other has already looked; previews have ids of their own and meet nowhere else. Two files
let a copy be half of one state and half of another. In `FilePublication` two faults let a
restoration fail and the one after it too; in `LocalStores` two callers are every
lost update, and the third call sees what is left; a call that takes the temporary
name of another costs the one trouble, and is part of the run. The trees of the inventory have one or two of
everything that is looped over (marketplaces, plugins, versions, roots), and limits from
too little to enough, since what the loops do with a third does not differ. Symmetry
is used for sets whose members no definition tells apart, and never in runs
with liveness properties.

Fairness. A running process goes on with its call (`WF` of each process's steps);
calls keep coming (`WF` of `Begin` and `CleanStart`); time passes over the files
of dead owners and over plans (`WF` of `GrowStale`, `Expire`, `Age`). Node's event
loop and the operating system's scheduler give the first, time the last. Further
calls are an assumption about use: nothing is recovered by a program that nobody
starts. `plans_long` also assumes strong fairness of visiting a residue entry,
that is, that a directory scan does not miss the same entry for ever; the limit of
1000 entries per scan can break that (see the hazards). No fairness is assumed of
deaths, sleeps, or failures.

## 5. What was found

* `lease_stale_guard`: mutual exclusion fails when a guard was abandoned. A
  publisher that is blocked after its link compares the guard with its own
  identity and unlinks the path in a second step; a late recoverer of the old
  guard moves it away in between and a third process is granted the guard whose
  file then is unlinked. Two processes are inside the guard, a live lease is moved
  away, two operations run at once. It takes one death and three processes.
* `governance_twice`: a quarantine can be restored twice, since the journal is read
  before the copy and no lock is held.
* `install_edit`: rollback removes a tree that it has not fingerprinted since the
  rename; an edit made between check and rename goes with it.
* `companion_lost`: an upgrade moves the installed companion to its private backup and
  records the move afterwards. After a death in between, recovery knows of the
  stage only: it deletes it, closes the transaction and answers `recovered`, with
  nothing installed and the previous companion in a directory no record
  names. A later review refuses to create the companion again, since the
  lifecycle records say that one exists.

Limits the models show, which the properties except or which no doc denies:

* Staging. A death between `mkdir` and the metadata, a removal cut short after
  `preview.json` went, and a stage that continues after its preview expired leave
  directories no cleanup recognises (`cut`). The dashboard never expires a preview
  itself, a command's cleanup does. When `afterCommit` fails the dashboard answers an error
  though the installation is committed. `writeReviewedPlan` may report a failure with the plan
  in place; its preview is gone then, and applying it fails.
* Configuration. A write by its owner in the window between the last exact read and the rename
  that publishes, or just before an unlink of a target proved exact, is overwritten.
  Failures may leave temporary files under private names.
* Stores. Of two writers that meet on a file the first one's change is lost; an event
  written after the check of an erase plan is erased with the rest. Two writes of one process
  to one file in the same millisecond use one temporary name: one of them fails, or the file
  is put in place before it is written, or it holds a mixture of both contents and no later
  call can read it (`FilesReadable` excepts the collision, and says that nothing else does this).
* Journal of the lifecycle. The record of a connected Harness may be cut off; the newest record
  and the configurations then decide (`CompanionWhileUsed` holds all the same).
* Codex: with no `config.toml` the gates of a named active profile are not consulted
  (`codex.ts:532`). Claude Code: a plugin configured as `<dir>@skills-dir` whose manifest has
  another name is told of nowhere, and a truncated nested search denies
  project roots to governance. Copilot: a Skill is `effective` by first-found though a better
  ranked one of the same name is ambiguous. All three: a directory replaced between the last
  check and the last read shows nowhere.
* `classifyPathRelation` takes the file-system root to be above nothing, so an exclusion at
  `/` would exclude nothing; no planner makes one.

## 6. What is proved, and what is not

| theorem | for every |
|---|---|
| `MutationLeaseProofs!TypeCorrect` | set of processes, place and number of deaths and sleeps |
| `MutationLeaseProofs!MutualExclusionHolds`, `HeldKeptHolds` | set of processes and number of deaths, as long as nobody dies while its guard file is on disk and nobody is suspended past `hardStaleMs` (`NoAbandonedGuard`) |
| `MutationLeaseProofs!LockImplemented` | the same: the lease refines `PortfolioLock`, every step being one of the lock or a stutter |
| `PublicationProofs!PlansTypeCorrect` | set of calls, versions, deaths |
| `PublicationProofs!TicketHolds`, `AtMostOnceHolds`, `LiveNotLostHolds` | the same, whatever the life time of plans |
| `GovernanceProofs!GovTypeCorrect`, `MovesOnlyReviewedHolds`, `RecordBackedHolds`, `NothingLostHolds` | set of quarantines, restores, contents, number of deaths; user edits at any time |
| `InstallerProofs!InstallTypeCorrect` | set of plans, rollbacks, contents, number of deaths |
| `InstallerProofs!BackupMatchesHolds`, `NothingLostHolds`, `RollbackRestoresHolds` | the same, as long as the user does not write during a mutation (`~UserDuring`) |
| `InstallerProofs!StagingTypeCorrect`, `InstalledAsInspectedHolds`, `StagingSoundHolds` | set of calls and files, number of calls, failures, deaths and edits, any expiry |
| `CompanionProofs!OneInFlightHolds`, `TypeOKHolds` | set of plans, number of faults, deaths, writes and recoveries |
| `CompanionProofs!PreviousKeptHolds`, `RecordedMeansDoneHolds`, `AnswersHoldHolds` | the same |
| `HarnessProofs!TypeOKHolds`, `CompanionWhileUsedHolds`, `NeverStuckHolds`, `PersonsWorkKeptHolds` | set of Harnesses and releases, number of plans and of changes by a person, length of the journal, if it has room for one record of every Harness of version 1 |
| `PublicationProofs!JournalTypeOKHolds`, `AppendAnswersHolds`, `ReceiptsAgreeHolds` | finite set of appends, set of ids, number of kept records, failures, deaths and power failures |
| `PublicationProofs!FilesSafe`, `FilesTypeCorrect`, `OwnersWorkStays` | set of inodes, number of failing operations, deaths and changes by the owner |
| `LocalStoresProofs!StoreTypeOKHolds`, `TornsHolds`, `ErasedForGoodHolds`, `FilesReadableHolds` | set of callers and of reports, length of the lists, limits of the catalog, number of calls, failures, deaths and shared temporary names |
| `StorageProofs!WorkSurvivesHolds` | the same |
| `StorageProofs!PartsTypeCorrect`, `OthersWorkKeptHolds` | the three parts of the storage run side by side, as `MCStorage` composes them |
| `HarnessProofs!BuildInvariant`, `BuildBudgetKept`, `PluginsNeverTouched` | limits, requests, planners that keep the limit they are given, catalogs of roots, sets of paths |
| `HarnessProofs!MetadataWhole` | bound on the size, number of replacements and writes |

*Mutual exclusion.* `MutualExclusion` is not inductive: that a link succeeds only
when the path is free says nothing unless every process that believes it holds
the lease has its own file there. `LeaseInv` adds this (`LeaseIsMine`), the same for the
guard (`GuardIsMine`), that a guard on disk has a living owner (`GuardHasOwner`),
that hence no recovery of a guard is under way (`NothingToRecover`), and that a
take-over has seen a stale lease that cannot have been replaced since, because
replacing needs the guard (`SeenIsStale`). The assumption `NoAbandonedGuard` is
needed: without it the theorem is false (section 5). The proof has one step per
action and under it one per conjunct the action touches. The refinement of
`PortfolioLock` follows: `LockState` is the process that holds the lease, or whether one
that is dead has left it; a new holder is one that opens its lease (`HolderStep`), which
`LeaseIsMine` allows only where nobody holds, and where no lease is left behind.

*Single use of plans.* The right to return a version, its ticket, is at the pending
name, with one call, or spent. `TicketInv` says that it is in one of these places
only and that a spent version never comes back. Moves between private names, which
is most of what claims, restorations and cleanup do, cannot create a ticket
(`MovesKeepTickets`); only a write does. That a live plan is not lost needs the other
half (`KeepInv` there): a version that is neither spent nor expired is pending, or with a call that
will still decide about it, or in the residue of a dead one; and a call at a step that
removes without looking holds one that may go (`MayGo`).

*Governance.* `GovInv` says what each quarantine knows at each step (its copy is
verified before the tree is moved, and vault and rollback are whole when it is
journaled), that a restore has been planned from a journaled quarantine, and that an
operation that was journaled is never compensated (`LogIsFinal`). With the last one,
the only step that takes a vault away from a successful quarantine belongs to a
restore that has been journaled. Most steps change only what belongs to their own
operation; `QuietStep` deals with them at once. `NothingLost` is about all operations
together, since each may remove what the one before it made. The copies of one content
form chains, from the tree a quarantine copied to its vault, to what a restore made of
that, and so on: an operation that was journaled may remove what it was made
from, one that was not may remove what it made. `KeepInv` says that each wanted content
has a copy at the end of its chain (`Final`), which nobody may remove. That the chains
have ends is their being finite: the operations have ages that grow along them (`Chains`).

*Installation.* `InstInv` says that whoever works holds the lease, and what
`dest`, the copy, the backup and the tree moved aside are at each step. The
exclusion makes each step's knowledge last until the next one, which is why the
theorems need `~UserDuring`: the user holds no lease (section 5 shows what follows).

*Companion transactions.* That two transactions are never unresolved at once is not
inductive: an append of the run to its own, resolved transaction could open a second
one. `IInv` adds that while a run is in progress nothing but its own
transaction is unresolved (`OwnOnly`): it begins one only when `NoneUnresolved` holds,
a recovery takes up the only one there is, and every append afterwards is made under
the name of the run. It needs no limit on faults, deaths, or a person's writes.

The other promises are about what a run has done, so the first thing to know of a run is
that the steps it has done and those it has left make up the program of its phase, in
one order (`QueueOK`; every step has a rank, and the ranks of what is done are below
those of what is left). With this a step is one of a few forms (`StepForm`), and the rest
is said of `run.did`. `KInv`: the record is in the journal only if the run has taken that step,
and until then the tree that is replaced is at the companion path or in the backup
of the transaction (`OldKept`), while what cleanup holds is the new one. `EInv`:
before the record, what is at the companion path, in the configuration and in
the report is exactly what the steps done tell, unless a person has written there
(`HomeAs`, `ConfigAs`, `ReportAs`); `RInv` carries this over the record. `PInv`: of the
private places each is empty once the steps that empty it are done (`Private`), which
makes a rolled-back answer, and a ready one without a warning, true.

*The life of the integrations.* `LifeInv` says of the journal that the newest record of a
Harness that it still has is the newest one that Harness ever got (`NewestIsLast`): records
are cut from the old end. Records of version 1 are gone from the head as soon as there is one
of version 2 (`OldAlone`), and the head of version 2 tells the packaged companion. As long as no
person interferes, configurations and tree are what these records say (`AsRecorded`), from which every
refusal of `PlanConnect` and `PlanDisconnect` can be excluded one by one (`NeverStuck`).
That the journal has room for one record of version 1 per Harness is needed for
`NewestIsLast` at the start: 3 Harnesses and 100 records in the code.

*The lifecycle journal.* `JournalInv` says of each append what its step has made certain
(`AppendInv`): nothing is published before the rename; from the rename to the first
flush the record is in the directory, after the flush in every directory a power failure may
leave, unless enough newer ones have been published. Cleanups of other appends take out what is
outlived only, whatever they saw and however late they do it, since publication times
are never given again and the number of newer records only grows (`NewStamp`). A
receipt is given to a record that agrees with all that is there, and what is there
can only become less or be published by somebody who has still to check
(`ReceiptsAgree` itself is inductive with this).

*Publishing a file.* What a call of `FilePublication` still has to do is a queue, and what is
safe about its next step depends on the checks that went before it. `Core` says of
the queue that each step is one its call may take (`Fitting`) and that each step which must not
stand alone follows the one it belongs to, with the same names and bytes (`Chained`): the write its
creation, the link its check, the unlink the comparison of both names. Every sequence
the code has is such a piece (`WithdrawalPart`, `PutBackWhole`, ...), and so is what a failure leaves
of it (`PieceRest`). Of the disk it says that what the program made never holds the owner's bytes and
that only the target, its way out and its way back may share a file with the target
(`Owned`); that as long as a call copies the saved bytes, they are in the backup
(`Copying`); and that where it gives them up the target has them already (`Dropping`). `HeadOK` is what the
next step relies on: the name it will remove is not the only one that bears what the owner
wrote. `WantedKept` follows step by step, each name being left alone or safe (`Safe`).

*The plain files.* Nobody holds a lock here, so all that can be relied on is in the calls
themselves. `Shape` says that the steps a call has left are well formed: a temporary
file is opened, written and renamed by three steps in a row with one value, an event is
written by the step after the one that opened the journal, and every step has the key or the
value it needs (`Runs`, `HandsOK`). Every step and every reading of a file (`After`) keeps this,
and `StoreTypeOK` follows. `Torns` adds what tears a file; for that, only calls that shared a
temporary name may write over each other (`Overtaking`, `Collided`).

For `ErasedForGood` the invariant follows erased work wherever it could come back from:
the file, the steps of a call that has read it before, and the temporary file of one that is about
to rename (`Erased`). That an erase which met nobody finds none of these is what `Meetings`
is for; that it removes what was reviewed follows from its own order of checks and removals
(`Erasings`): what it has checked stays as it is while nobody else writes the file. The salts
are counted (`SaltCount`): those in use or used are at most one more than the erases of
one, and only while there is a salt.

For `FilesReadable` the steps a scan has left are a plan (`IndexPlan`, `OrderPlan`) against the files
as they are now: the index it will write names only reports that are there or that an
earlier step of it will write, and what it prunes at the end the index no longer
names. Each step executed moves one line from the plan to the files. A death at any point
leaves files of which the invariant says enough (`Whole`); only the order of the latest and
the previous report needs that nothing failed (`Orderly`).

`WorkSurvives` is about calls that are over, so its invariant (`SurviveInv`) has to say where
the work of each of them is now: in its file, unless it was retired or that file is torn, and in every
value on its way to that file, that is, in the steps a call has left after it read the file and
in the temporary file it is about to rename (`WritesFine` and the rest). A call nobody ran beside
still has its own temporary file and its own handle, nobody has written to it (`Crossing`), and
its work is in the file or still to be written (`Lone`). A value a call writes holds work of calls that began, of none that
failed, and of a delivery that is closed it holds the stop after the prompt (`Closing`), which is
what keeps a compaction from opening it again. The order of the steps of a call (`Ensues`) gives what its
answer says about its own work.

*Staged previews.* `InstalledAsInspected` rests on three facts about different actors: until
the source has been inspected nobody plans or installs (`EarlyNothing`), so that what
was agreed does not change under an installation; one call is inside the lease
(`OneInside`), so that a copy that was verified is still the same when it is put in place;
and a plan that can be applied has not been used (`UnusedWhileApplied`), for which the command that
writes the stored plan must be the only one that ever does (`OneWriter`). Cleanups may
take the preview away at any moment; they touch nothing of this (`QuietStep`), which is
the point: the safety of an installation does not rest on the preview staying. That a
shown plan has its whole preview (`Shown`) is the reverse: while somebody waits for it and
it has not expired, no cleanup is between its look and its removal (`KeptUntilExpiry`).
And what is left when nobody works has a reason (`LeftInv`), because every call that
took charge of the directory hands it on, to a plan or to the call that removes it.

*The build.* `BudgetInv` carries what is left of each limit beside what has been read, so that the
sum of what three planners read stays within the build's limit if each keeps its own.
`PluginsNeverTouched` needs no invariant: it is about the roots computed from any plan
(`Minimal` keeps of the exclusions those that no other contains, and
authorization asks each of them in both directions).

*Reading.* The reader's open file is the one it looked at (same identity) and its
offset has reached the size when it stops; the buffer is one block longer than the
bound, which is why a file that grew is noticed.

The proofs assume only `~UserDuring` and `NoAbandonedGuard` where stated, and the
named assumptions on constants (`LeaseConstants`, `PlanConstants`,
`GovernanceConstants`, `InstallationConstants`, `LimitsAreNaturals`,
`NamesAreDistinct`, `StagingConstants`, `StoreConstants`, `LifecycleConstants`, `NothingIsNeither`,
`JournalConstants`, `BuildPathAssumption`, `MetadataBounds`), which TLC evaluates in every run.

Only model-checked: `MutualExclusion` and `HeldKept` with abandoned guards (two
processes); `SupersededHarmless`; `CleanDeathRecovers`, which says that no step of a recovery fails;
of the storage run `NextCallSucceeds`, and `FileAnswersHold`, the part of `PartsAnswersHold` that is about
`FilePublication`; all properties of the planners, the scan, the search
and the exposures; all liveness.
Liveness under fairness stays with TLC, as the prover does not handle `ENABLED`.

## 7. Abstractions, and what is not modelled

* Checks of ownership, permissions, file type and symbolic links, and hostile writers
  that replace directories of the state: the models assume the state directory is
  the program's own.
* Contents: a tree or a plan is an identity and a content. Copies may be incomplete
  (`Mixed`) and any system call may fail where the code handles the failure.
* Journals are sets of records; half-written lines are a hazard that is listed and not
  modelled. A governance record of status `failed` changes no later decision and is
  kept only as such.
* Cleanup of plan residue of dead calls is one step: a private name nobody uses any
  more has no concurrent reader, except cleanup calls, which tolerate its absence.
* Installation: `NothingLost` is checked with the user writing between mutations. With
  the user writing during one it fails at the undo that removes the destination after
  a failed journal append, and at rollback (`install_edit`).
* Rolling back installations out of order is possible when an earlier content is
  installed again; `RollbackRestores` says what then still holds: each rollback puts
  back what its own record names.
* Companion transactions: parent directories that are created and removed again, an
  extra append after a failed cleanup of prepared files, a lease that fails to be
  released, and records of older formats are left out. The latest and the previous report
  are one value; a proof of identity is the comparison of one value; a stage is whole or
  absent. The expiry of a plan is a refusal of `Revalidate` that may always happen. There
  is one Harness: others show only as a reason to retain the companion, and as a
  record at the head of the journal (`Other`); several of them are `HarnessLifecycle`.
  The rename that publishes the configuration looks at nothing after its checkpoint;
  that window is in `FilePublication`.
* Staging: one preview; symbolic links and foreign directories in the staging root are
  refused by every call and left out; the check of a removal and its rename are one step;
  a cleanup visits at most 1000 entries. The server is not asked for a second plan while one
  is pending.
* Storage: the temporary name of a publication is never taken by someone else; a
  listing of the journal that does not settle is a failure; the size limit of the event
  journal, exports and finding labels are left out. A truncated file and a mixture of two
  contents are taken as unreadable; a list of lines that is empty, or whose mixture falls on
  the end of a line, would still be read.
* The life of the integrations: `Append1` cuts all records alike. The code cuts the
  records that have files of their own, and those of an older `integrations.json`, which
  come after all others in the order, stay: such a record may be the newest of its Harness
  again after a hundred newer ones were written, which the model does not have.
* A Skill directory that may not be entered is passed over by the scan, and the Skills below a
  `.claude` that may not be entered by the search, without a word: `AccountedFor` speaks of what
  may be opened.
* The inventory: paths are lexical (the scan follows links above a path too), names are numbers in their order, settings
  files are what their parse gives; rules about the quality of a Skill, overlap scores and
  fingerprints are left out. The planners are checked on families of trees that vary one or
  two things each (`InventoryCases`), not on all.
* Not modelled: the choice of Skills in a preflight (tokenization and scores), report texts,
  source formats (Git, ZIP, folders) but for their writes into a preview, argument parsing,
  HTTP routing, the user interface, the native rename (used as an atomic step), and the release
  scripts, which are not part of the program.

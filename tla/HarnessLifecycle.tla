-------------------------- MODULE HarnessLifecycle --------------------------
(***************************************************************************)
(* Connecting several Harnesses to one companion Skill, and disconnecting  *)
(* them: packages/integrations/src/config.ts, companion-legacy.ts,         *)
(* companion-inspector-internal.ts and the record rules of                 *)
(* packages/store/src/integration-store.ts.                                *)
(*                                                                         *)
(* A transaction is one step here (CompanionTransaction models its inside);*)
(* what is left is the protocol of evidence over many of them: each review *)
(* and each apply derives from the lifecycle records, the Harness          *)
(* configurations and the companion tree what is connected, and stops when *)
(* they do not agree.  A fingerprint is the value it is computed from.     *)
(***************************************************************************)
EXTENDS Naturals, Sequences, SequencesExt, FiniteSets

CONSTANTS
    Merged,       \* Harnesses whose Hook is merged into a configuration they share
    Copilot,      \* the Harness with a Hook file of its own
    Packaged,     \* companion trees that releases of the program carry
    Legacy,       \* the allow-listed companion tree of the alpha releases
    Foreign,      \* a companion tree, or Hook file, of somebody else
    Nothing,      \* no file, no tree, no record, no plan
    RecordLimit,  \* records the journal keeps (MAX_RECORDS)
    CallLimit,    \* bound: plans applied
    PlanLimit,    \* bound: reviewed plans waiting at one time
    PersonLimit   \* bound: changes made by a person

ASSUME LifecycleConstants ==
    /\ IsFiniteSet(Merged) /\ Copilot \notin Merged
    /\ "unproven" \notin Merged \cup {Copilot}
    /\ Legacy # Foreign /\ Nothing \notin {Legacy, Foreign}
    /\ {Legacy, Foreign, Nothing} \cap Packaged = {}
    /\ {RecordLimit, CallLimit, PlanLimit, PersonLimit} \subseteq Nat
    /\ Cardinality(Merged \cup {Copilot}) <= RecordLimit

Harness == Merged \cup {Copilot}
Tree    == Packaged \cup {Legacy, Foreign}

(* A configuration: how much of the Hook it has (nothing, a part of its    *)
(* entries, exactly one canonical group per event, a group that was        *)
(* changed, one group twice), and whether the person has settings there.   *)
(* The Copilot file with Hook "none" is what a disconnect leaves, the      *)
(* tombstone {version: 1, hooks: {}}.                                      *)
Hook   == {"none", "part", "whole", "changed", "twice"}
Config == [hook : Hook, own : BOOLEAN]
Ours   == [hook |-> "whole", own |-> FALSE]

VARIABLES
    config,   \* the configuration of each Harness
    tree,     \* the companion Skill
    source,   \* the companion tree the running release carries
    journal,  \* lifecycle records, newest first, at most RecordLimit
    plans,    \* the latest reviewed plan of each Harness
    calls, edits,
    last,     \* history: the newest record ever of each Harness
    touched   \* history: a person changed a configuration or the tree

vars == <<config, tree, source, journal, plans, calls, edits, last, touched>>

-----------------------------------------------------------------------------
(* Lifecycle records (schemas of integration-store.ts).  Records of        *)
(* version 1 say nothing of the companion.                                 *)

NoCompanion == [action |-> "unknown", before |-> Nothing, after |-> Nothing,
                installed |-> Nothing, source |-> Nothing, proof |-> "none", consumers |-> {}]

Record == [v : {1, 2}, id : 0..CallLimit, harness : Harness,
           status : {"installed", "removed"}, after : Config \cup {Nothing},
           companion : [action : {"unknown", "create", "upgrade", "none", "retain", "remove"},
                        before : Tree \cup {Nothing}, after : Tree \cup {Nothing},
                        installed : Tree \cup {Nothing}, source : Tree \cup {Nothing},
                        proof : {"none", "new", "recorded", "legacy-alpha"},
                        consumers : SUBSET Harness]]

(* The transition a record of version 2 tells must be one of five; the     *)
(* append refuses any other record.                                        *)
ValidTransition(c) ==
    \/ /\ c.action = "create" /\ c.before = Nothing /\ c.proof = "new"
       /\ c.after = c.source /\ c.after = c.installed
    \/ /\ c.before # Nothing /\ c.proof # "new"
       /\ \/ /\ c.action = "none" /\ c.before = c.after
             /\ c.after = c.source /\ c.after = c.installed
          \/ /\ c.action = "upgrade" /\ c.before # c.after
             /\ c.after = c.source /\ c.after = c.installed
          \/ /\ c.action = "retain" /\ c.before = c.after
             /\ c.before = c.installed /\ c.proof = "recorded"
          \/ /\ c.action = "remove" /\ c.after = Nothing
             /\ c.before = c.installed /\ c.proof = "recorded" /\ c.consumers = {}

ValidRecord(r) ==
    r.v = 2 =>
        /\ ValidTransition(r.companion)
        /\ \/ /\ r.status = "installed" /\ r.harness \in r.companion.consumers
              /\ r.companion.action \in {"none", "create", "upgrade"}
           \/ /\ r.status = "removed" /\ r.harness \notin r.companion.consumers
              /\ r.companion.action \in {"retain", "remove"}

ASSUME NothingIsNeither == Nothing \notin Config \cup Record

(* What a snapshot of the journal says.                                    *)
HeadIs2  == journal # <<>> /\ Head(journal).v = 2
Any2     == \E i \in DOMAIN journal : journal[i].v = 2
Newest(h) ==
    IF \E i \in DOMAIN journal : journal[i].harness = h
    THEN journal[CHOOSE i \in DOMAIN journal :
                    journal[i].harness = h /\ \A j \in 1..(i - 1) : journal[j].harness # h]
    ELSE Nothing
Installed(h) == Newest(h) # Nothing /\ Newest(h).status = "installed"

(* A new record is the newest, and the oldest goes when the journal is     *)
(* full.  The code cuts the records kept in files of their own; those of   *)
(* the older integrations.json, which come after all of them, stay, and    *)
(* may so be the newest of their Harness again.  Here they are cut too.    *)
\* A mutant: the oldest record stays although the journal is full.
AppendUncut(r) ==
    /\ journal' = <<r>> \o journal
    /\ last' = [last EXCEPT ![r.harness] = r]

Append1(r) ==
    /\ journal' = SubSeq(<<r>> \o journal, 1,
                         IF Len(journal) < RecordLimit THEN Len(journal) + 1 ELSE RecordLimit)
    /\ last' = [last EXCEPT ![r.harness] = r]

-----------------------------------------------------------------------------
(* Who uses the companion.                                                 *)

(* The newest record says installed, and the configuration has exactly the *)
(* recorded Hook (readCanonicalConfig).                                    *)
HasHook(h) == config[h] # Nothing /\ config[h].hook = "whole"
Proven(h)  == Installed(h) /\ HasHook(h)

Unproven == {"unproven"}

(* The consumers after an apply for h: those of the head of the journal,   *)
(* each proven, and h; without records of version 2 the Harnesses whose    *)
(* older records and configurations agree.                                 *)
Candidates(h) ==
    IF HeadIs2 THEN Head(journal).companion.consumers \ {h}
    ELSE {g \in Harness \ {h} : Installed(g) /\ Newest(g).v = 1}

\* A mutant: a consumer whose evidence is missing is dropped, as for old records.
DropUnproven(h) ==
    IF HeadIs2 # Any2 THEN Unproven
    ELSE {g \in Candidates(h) : Proven(g)} \cup {h}

ResolveConsumers(h) ==
    IF HeadIs2 # Any2 \/ (HeadIs2 /\ \E g \in Candidates(h) : ~Proven(g)) THEN Unproven
    ELSE {g \in Candidates(h) : Proven(g)} \cup {h}

(* The companion part of a connection plan: what to do with the tree, with *)
(* the evidence of why it is ours (recordId is that of the head).          *)
Subplan(action, proof, recordId) ==
    [action |-> action, before |-> tree, after |-> source, proof |-> proof, recordId |-> recordId]
Conflict == Subplan("conflict", "conflict", 0)

\* A mutant: a tree that a disconnect removed counts as lost.
MissingAfterRemoval == IF Any2 THEN Conflict ELSE Subplan("create", "new", 0)

MissingCompanion ==
    CASE ~Any2   -> Subplan("create", "new", 0)
      [] HeadIs2 /\ Head(journal).companion.action = "remove"
                 -> Subplan("create", "new", Head(journal).id)
      [] OTHER   -> Conflict

ManagedProof(h) ==
    CASE HeadIs2 /\ (h \in Head(journal).companion.consumers => Proven(h)) ->
            [proof |-> "recorded", id |-> Head(journal).id,
             installed |-> Head(journal).companion.installed]
      [] ~Any2 /\ tree = Legacy /\ Proven(h) ->
            [proof |-> "legacy-alpha", id |-> Newest(h).id, installed |-> tree]
      [] OTHER -> [proof |-> "conflict", id |-> 0, installed |-> Nothing]

InspectCompanion(h) ==
    LET m == ManagedProof(h) IN
    CASE tree = Nothing -> MissingCompanion
      [] tree # Nothing /\ m.proof # "conflict" /\ m.installed = tree /\ tree = source ->
            Subplan("none", m.proof, m.id)
      [] tree # Nothing /\ m.proof # "conflict" /\ m.installed = tree /\ tree # source ->
            Subplan("upgrade", m.proof, m.id)
      [] OTHER -> Conflict

(* The head of the journal records that a disconnect of ours left the      *)
(* Copilot file without Hook, as it is.                                    *)
Tombstone == [hook |-> "none", own |-> FALSE]

TombstoneRecorded ==
    /\ config[Copilot] = Tombstone /\ HeadIs2
    /\ LET r == Head(journal) IN
       /\ r.harness = Copilot /\ r.status = "removed" /\ r.after = Tombstone
       /\ r.companion.before = r.companion.installed
       /\ r.companion.consumers = {h \in Harness : Installed(h)}

(* Such a file may be replaced only when the companion is as recorded too. *)
TombstoneProven ==
    /\ TombstoneRecorded
    /\ LET r == Head(journal)
           c == InspectCompanion(Copilot) IN
       IF r.companion.action = "remove" THEN c.action = "create"
       ELSE c.action = "none" /\ c.proof = "recorded" /\ c.recordId = r.id
            /\ c.after = r.companion.source

-----------------------------------------------------------------------------
(* Reviewing and applying a connection.                                    *)

NoPlan == [kind |-> "none"]

Room(h) == /\ calls < CallLimit
           /\ Cardinality({g \in Harness \ {h} : plans[g] # NoPlan}) < PlanLimit

(* The plan a review of the connection of h gives now.  A configuration    *)
(* with a doubled or changed Hook, and a foreign Copilot file, are refused.*)
ConnectPlan(h) ==
    [kind |-> "connect", before |-> config[h],
     after |-> IF config[h] = Nothing THEN Ours ELSE [config[h] EXCEPT !.hook = "whole"],
     companion |-> InspectCompanion(h)]

(* What the schema asks of the companion part.                             *)
ValidSubplan(c) ==
    \/ c.action = "create" /\ c.before = Nothing /\ c.proof = "new"
    \/ c.action \in {"none", "upgrade"} /\ c.before # Nothing
       /\ c.proof \in {"recorded", "legacy-alpha"}
       /\ (c.action = "none") = (c.before = c.after)

MayConnect(h) ==
    /\ ValidSubplan(InspectCompanion(h))
    /\ IF h = Copilot
       THEN config[h] \in {Nothing, Ours} \/ TombstoneProven
       ELSE config[h] # Nothing => config[h].hook \in {"none", "part", "whole"}

(* buildLifecycleRecord, with the consumers of the moment of the apply.    *)
ConnectRecord(h, p) ==
    [v |-> 2, id |-> calls + 1, harness |-> h, status |-> "installed", after |-> p.after,
     companion |-> [action |-> p.companion.action, before |-> p.companion.before,
                    after |-> p.companion.after, installed |-> p.companion.after,
                    source |-> p.companion.after, proof |-> p.companion.proof,
                    consumers |-> ResolveConsumers(h)]]

PlanConnect(h) ==
    /\ Room(h) /\ MayConnect(h)
    /\ plans' = [plans EXCEPT ![h] = ConnectPlan(h)]
    /\ UNCHANGED <<config, tree, source, journal, calls, edits, last, touched>>

(* A claimed plan is used up.  It takes effect when the review repeated    *)
(* now gives the same plan and the consumers can be proven.                *)
\* A mutant: the plan is applied without being reviewed again.
ApplyUnchecked(h) ==
    LET p == plans[h] IN
    /\ p.kind = "connect" /\ calls < CallLimit
    /\ plans' = [plans EXCEPT ![h] = NoPlan]
    /\ calls' = calls + 1
    /\ config' = [config EXCEPT ![h] = p.after] /\ tree' = p.companion.after
    /\ Append1(ConnectRecord(h, p))
    /\ UNCHANGED <<source, edits, touched>>

ApplyConnect(h) ==
    LET p == plans[h]
        r == ConnectRecord(h, p) IN
    /\ p.kind = "connect" /\ calls < CallLimit
    /\ plans' = [plans EXCEPT ![h] = NoPlan]
    /\ calls' = calls + 1
    /\ IF MayConnect(h) /\ p = ConnectPlan(h) /\ ResolveConsumers(h) # Unproven /\ ValidRecord(r)
       THEN /\ config' = [config EXCEPT ![h] = p.after]
            /\ tree' = p.companion.after
            /\ Append1(r)
       ELSE UNCHANGED <<config, tree, journal, last>>
    /\ UNCHANGED <<source, edits, touched>>

-----------------------------------------------------------------------------
(* Reviewing and applying a disconnection.                                 *)

(* The head of the journal must be of version 2 and name h as a consumer,  *)
(* the newest record of h must be its connection, the tree the recorded    *)
(* one, the whole configuration the one that connection left, and every    *)
(* other consumer proven.                                                  *)
MayDisconnect(h) ==
    /\ HeadIs2 /\ h \in Head(journal).companion.consumers
    /\ Installed(h) /\ Newest(h).v = 2
    /\ Head(journal).companion.after = Head(journal).companion.installed
    /\ tree = Head(journal).companion.installed
    /\ config[h] = Newest(h).after /\ HasHook(h)
    /\ ResolveConsumers(h) # Unproven

DisconnectPlan(h) ==
    [kind |-> "disconnect", head |-> Head(journal), record |-> Newest(h), before |-> config[h],
     after |-> [config[h] EXCEPT !.hook = "none"], remaining |-> ResolveConsumers(h) \ {h}]

DisconnectRecord(h, p) ==
    LET c == p.head.companion
        removes == p.remaining = {} IN
    [v |-> 2, id |-> calls + 1, harness |-> h, status |-> "removed", after |-> p.after,
     companion |-> [action |-> IF removes THEN "remove" ELSE "retain", before |-> c.installed,
                    after |-> IF removes THEN Nothing ELSE c.installed,
                    installed |-> c.installed, source |-> c.source, proof |-> "recorded",
                    consumers |-> p.remaining]]

(* What the schema asks of the plan: exactly its Harness leaves, and the   *)
(* configuration changes by nothing but the Hook.                          *)
ValidDisconnectPlan(h, p) ==
    /\ h \in p.head.companion.consumers
    /\ p.remaining = p.head.companion.consumers \ {h}
    /\ p.record.status = "installed" /\ p.after.own = p.before.own

PlanDisconnect(h) ==
    /\ Room(h) /\ MayDisconnect(h) /\ ValidDisconnectPlan(h, DisconnectPlan(h))
    /\ plans' = [plans EXCEPT ![h] = DisconnectPlan(h)]
    /\ UNCHANGED <<config, tree, source, journal, calls, edits, last, touched>>

ApplyDisconnect(h) ==
    LET p == plans[h]
        r == DisconnectRecord(h, p) IN
    /\ p.kind = "disconnect" /\ calls < CallLimit
    /\ plans' = [plans EXCEPT ![h] = NoPlan]
    /\ calls' = calls + 1
    /\ IF MayDisconnect(h) /\ p = DisconnectPlan(h) /\ ValidRecord(r)
       THEN /\ config' = [config EXCEPT ![h] = p.after]
            /\ tree' = r.companion.after
            /\ Append1(r)
       ELSE UNCHANGED <<config, tree, journal, last>>
    /\ UNCHANGED <<source, edits, touched>>

(* Removal of a connection older than version 2, possible only while the   *)
(* journal has no record of version 2.  The companion stays.               *)
RemoveLegacy(h) ==
    /\ calls < CallLimit /\ ~Any2 /\ Proven(h)
    /\ calls' = calls + 1
    /\ LET left == IF h = Copilot THEN Nothing ELSE [config[h] EXCEPT !.hook = "none"] IN
       /\ config' = [config EXCEPT ![h] = left]
       /\ Append1([v |-> 1, id |-> calls + 1, harness |-> h, status |-> "removed",
                   after |-> left, companion |-> NoCompanion])
    /\ UNCHANGED <<tree, source, plans, edits, touched>>

-----------------------------------------------------------------------------
(* What happens around it: a new release, and a person.                    *)

Upgrade ==
    /\ source' \in Packaged \ {source}
    /\ calls < CallLimit /\ edits < PersonLimit /\ edits' = edits + 1
    /\ UNCHANGED <<config, tree, journal, plans, calls, last, touched>>

(* Settings of the person that have nothing to do with the Hook.           *)
EditOwn(h) ==
    /\ h # Copilot /\ calls < CallLimit /\ edits < PersonLimit /\ edits' = edits + 1
    /\ config' = [config EXCEPT ![h] = IF @ = Nothing THEN [hook |-> "none", own |-> TRUE]
                                       ELSE [@ EXCEPT !.own = ~config[h].own]]
    /\ touched' = TRUE
    /\ UNCHANGED <<tree, source, journal, plans, calls, last>>

EditHook(h) ==
    /\ calls < CallLimit /\ edits < PersonLimit /\ edits' = edits + 1
    /\ \E hook \in Hook :
        /\ config[h] # Nothing => config[h].hook # hook
        /\ config' = [config EXCEPT ![h] = IF @ = Nothing THEN [hook |-> hook, own |-> FALSE]
                                           ELSE [@ EXCEPT !.hook = hook]]
    /\ touched' = TRUE
    /\ UNCHANGED <<tree, source, journal, plans, calls, last>>

DeleteConfig(h) ==
    /\ config[h] # Nothing /\ calls < CallLimit /\ edits < PersonLimit /\ edits' = edits + 1
    /\ config' = [config EXCEPT ![h] = Nothing]
    /\ touched' = TRUE
    /\ UNCHANGED <<tree, source, journal, plans, calls, last>>

EditTree ==
    /\ calls < CallLimit /\ edits < PersonLimit /\ edits' = edits + 1
    /\ tree' \in {Nothing, Foreign} \ {tree}
    /\ touched' = TRUE
    /\ UNCHANGED <<config, source, journal, plans, calls, last>>

(* Before: nothing, or what an alpha release connected (records of version *)
(* 1 and the allow-listed tree), beside the person's own configurations.   *)
OldRecord(h) == [v |-> 1, id |-> 0, harness |-> h, status |-> "installed",
                 after |-> config[h], companion |-> NoCompanion]

Init ==
    /\ \E old \in SUBSET Harness, others \in {{}, Merged} :
        /\ config = [h \in Harness |->
                       IF h \in old THEN [hook |-> "whole", own |-> h \in others]
                       ELSE IF h \in others THEN [hook |-> "none", own |-> TRUE] ELSE Nothing]
        /\ journal \in SetToSeqs({OldRecord(h) : h \in old})
        /\ last = [h \in Harness |-> IF h \in old THEN OldRecord(h) ELSE Nothing]
        /\ tree = IF old = {} THEN Nothing ELSE Legacy
    /\ source \in Packaged
    /\ plans = [h \in Harness |-> NoPlan]
    /\ calls = 0 /\ edits = 0 /\ touched = FALSE

Next ==
    \/ \E h \in Harness :
        \/ PlanConnect(h) \/ ApplyConnect(h) \/ PlanDisconnect(h) \/ ApplyDisconnect(h)
        \/ RemoveLegacy(h) \/ EditOwn(h) \/ EditHook(h) \/ DeleteConfig(h)
    \/ EditTree \/ Upgrade

Spec == Init /\ [][Next]_vars

-----------------------------------------------------------------------------
(* What the status of a Harness says of its Hook (integrationHookStatus).  *)

HookStatus(h) ==
    CASE h = Copilot /\ config[h] = Ours ->
            IF Installed(h) /\ Newest(h).after # config[h] THEN "drifted" ELSE "installed"
      [] h = Copilot /\ config[h] # Ours ->
            IF TombstoneRecorded THEN "not-installed"
            ELSE IF config[h] # Nothing \/ Installed(h) THEN "drifted" ELSE "not-installed"
      [] h # Copilot /\ HasHook(h) -> "installed"
      [] h # Copilot /\ config[h] # Nothing /\ config[h].hook = "changed" ->
            IF Installed(h) THEN "drifted" ELSE "installed"
      [] h # Copilot /\ config[h] # Nothing /\ config[h].hook \in {"part", "twice"} -> "drifted"
      [] OTHER -> IF Installed(h) THEN "drifted" ELSE "not-installed"

-----------------------------------------------------------------------------
(* Properties.                                                             *)

(* Everything has its type, and the journal holds valid records only.      *)
TypeOK ==
    /\ config \in [Harness -> Config \cup {Nothing}]
    /\ tree \in Tree \cup {Nothing} /\ source \in Packaged
    /\ journal \in Seq(Record) /\ Len(journal) <= RecordLimit
    /\ \A i \in DOMAIN journal : ValidRecord(journal[i])
    /\ DOMAIN plans = Harness
    /\ \A h \in Harness : plans[h].kind \in {"none", "connect", "disconnect"}
    /\ calls \in 0..CallLimit /\ edits \in 0..PersonLimit /\ touched \in BOOLEAN
    /\ last \in [Harness -> Record \cup {Nothing}]

Connected(h) == last[h] # Nothing /\ last[h].v = 2 /\ last[h].status = "installed"

(* The consumers the head of the journal names are the connected Harnesses:*)
(* each was last connected, and none that was connected under version 2 is *)
(* forgotten, even when its own record has been cut from the journal.  So  *)
(* the companion, unless a person took it away, is there as long as any is *)
(* connected (resolveCompanionConsumers and its use in disconnects).       *)
CompanionWhileUsed ==
    LET used == Head(journal).companion.consumers IN
    /\ HeadIs2 =>
        /\ \A h \in used : last[h] # Nothing /\ last[h].status = "installed"
        /\ \A h \in Harness : Connected(h) => h \in used
    /\ ~touched => \A h \in Harness : Connected(h) => tree = Head(journal).companion.installed

(* As long as no person interferes and no record was cut, nothing gets     *)
(* stuck: every connected Harness can be disconnected and says so, every   *)
(* other one can be connected, whatever order of connections,              *)
(* disconnections and new releases came before, and the records this would *)
(* append are accepted by the journal.  Not promised to the Harness with a *)
(* Hook file of its own, whose tombstone is no longer recognised once      *)
(* another record follows, and where the alpha tree has not been taken     *)
(* over yet, to Harnesses without an old record.                           *)
NeverStuck ==
    ~touched /\ (\A h \in Harness : Newest(h) = last[h]) =>
        \A h \in Harness :
            IF Connected(h)
            THEN /\ MayDisconnect(h) /\ ValidDisconnectPlan(h, DisconnectPlan(h))
                 /\ ValidRecord(DisconnectRecord(h, DisconnectPlan(h)))
                 /\ HookStatus(h) = "installed"
            ELSE \/ h = Copilot \/ (tree = Legacy /\ ~Any2 /\ ~Installed(h))
                 \/ /\ MayConnect(h) /\ ResolveConsumers(h) # Unproven
                    /\ ValidRecord(ConnectRecord(h, ConnectPlan(h)))
                    /\ HookStatus(h) = IF Installed(h) THEN "installed" ELSE "not-installed"

(* No apply ever changes or removes what a person made: a foreign tree at  *)
(* the companion path, a changed or doubled Hook, settings beside the Hook *)
(* (the plan is claimed and repeated, revalidateClaimedIntegrationPlan).   *)
PersonsWorkKept ==
    [][calls' # calls =>
        /\ tree' # tree => tree # Foreign
        /\ \A h \in Harness : config'[h] # config[h] /\ config[h] # Nothing =>
              /\ config[h].hook \notin {"changed", "twice"}
              /\ config'[h] # Nothing => config'[h].own = config[h].own
              /\ config'[h] = Nothing => ~config[h].own]_vars
=============================================================================

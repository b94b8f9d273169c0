--------------------------- MODULE CopilotInventory --------------------------
(***************************************************************************)
(* Planning what GitHub Copilot can see: packages/engine/src/inventory/    *)
(* adapters/github-copilot.ts and github-copilot-metadata.ts.  An          *)
(* installed plugin may be reached by a link, as long as what it leads to  *)
(* stays in the cache; whether it is on is said by five settings files in  *)
(* three tiers and, where they are silent, by a file of Copilot.           *)
(*                                                                         *)
(* <<0>> is the cache of installed plugins, <<0, m>> a container of        *)
(* plugins and <<0, m, p>> a plugin; <<r>>, r > 0, is a Skill root.  An id *)
(* of the settings that names no place of the cache is <<9, n>>.           *)
(***************************************************************************)
EXTENDS InventoryPlans

CONSTANTS
    CopilotPlace,      \* places of the cache and of the Skill roots
    CopilotIll,        \* ids of the settings that name no place of the cache
    CopilotCases       \* bound: the trees, settings and limits considered, and
                       \* the number of changes made while the planner runs

CopilotId == {x \in CopilotPlace : Len(x) = 3} \cup CopilotIll
Tier == << {"user"}, {"project", "sharedProject"}, {"local", "sharedLocal"} >>

VARIABLES
    copilotTree,       \* what is at each place, where a link leads, each bundle
    copilotHome,       \* settings, managed state, direct and custom Skill roots
    copilotLimits,     \* the limits of this plan
    copilotChanged,    \* history: how often each place was replaced
    copilot            \* the planner: its step, what it read, what it told

copilotVars == <<copilotTree, copilotHome, copilotLimits, copilotChanged, copilot>>
CopilotStays == UNCHANGED <<copilotTree, copilotHome, copilotLimits, copilotChanged>>

ThingAt(x) == KindIn(copilotTree.kind, x)
Held(x, known) == ThingAt(x) \in {"directory", "locked"} /\ copilotChanged[x] = known
NamesIn(x, room) ==
    LET l == ReadDirectory(copilotTree.kind, x, room, copilot.visited >= copilotLimits.directories)
    IN  [l EXCEPT !.visits = IF l.spent THEN 0 ELSE 1]

Planned(role, at, root, part, status, read) ==
    [role |-> role, at |-> at, root |-> root, part |-> part, status |-> status, read |-> read]
Evidence(role, at, status) == Planned(role, at, <<>>, 0, status, FALSE)
CopilotTell(p, sources) == [p EXCEPT !.sources = @ \cup sources]
CopilotStep(step) == copilot.at = step

(* A tier with a file that cannot be trusted, or whose files differ, decides*)
(* nothing: neither it nor a lower tier is believed.  Mutant: the file that *)
(* has a value is believed, whatever the other of its tier is.              *)
FirstOfTier(id, tier) ==
    LET on == {copilotHome.settings[f].entries[id] : f \in tier} \ {"absent"}
    IN  IF on = {} THEN "absent" ELSE IF "on" \in on THEN "on" ELSE "off"

TierBoolean(id, tier) ==
    LET says == {copilotHome.settings[f].entries[id] : f \in tier} \ {"absent"}
    IN  IF \E f \in tier : copilotHome.settings[f].kind \notin {"valid", "missing"} THEN "unknown"
        ELSE IF says = {} THEN "absent"
        ELSE IF Cardinality(says) = 1 THEN CHOOSE w \in says : TRUE
        ELSE "unknown"

ResolveEnabled(id) ==
    LET speaking == {k \in 1 .. 3 : TierBoolean(id, Tier[k]) # "absent"}
    IN  IF speaking = {} THEN "absent"
        ELSE TierBoolean(id, Tier[CHOOSE k \in speaking : \A j \in speaking : j <= k])

PluginDisposition(id) ==
    LET on      == IF id \in CopilotId THEN ResolveEnabled(id) ELSE "absent"
        managed == IF id \in CopilotId /\ copilotHome.managed.kind = "valid"
                   THEN copilotHome.managed.entries[id] ELSE "absent"
        word    == IF on = "absent" THEN managed ELSE on
    IN  CASE word = "on"  -> "scanned"
          [] word = "off" -> "disabled"
          [] OTHER        -> "ambiguous"

(* The identities by their keys: ids that name no place, then containers    *)
(* that could not be read, then plugins.                                    *)
KeyBefore(a, b) ==
    \/ a[1] = 9 /\ (b[1] # 9 \/ a[2] < b[2])
    \/ a[1] = 0 /\ b[1] = 0 /\ Len(a) < Len(b)
    \/ a[1] = 0 /\ b[1] = 0 /\ Len(a) = Len(b)
       /\ \E k \in DOMAIN a : a[k] < b[k] /\ \A j \in 1 .. k - 1 : a[j] = b[j]
BoundedPlugins(keys, room) ==
    SetToSortSeq({a \in keys : Cardinality({b \in keys : KeyBefore(b, a)}) < room}, KeyBefore)

SettingsFiles == DOMAIN copilotHome.settings
Named(state) == IF state.kind \in {"missing", "unreadable"} THEN {}
                ELSE {i \in CopilotId : state.entries[i] # "absent"}
ConfiguredPlugins ==
    (UNION {Named(copilotHome.settings[f]) : f \in SettingsFiles}) \cup Named(copilotHome.managed)

(* The custom Skill roots: of the environment before those of the settings. *)
CustomRoots ==
    LET room == copilotLimits.custom
        env  == IF copilotHome.env.kind = "valid" THEN copilotHome.env.roots ELSE {}
        user == IF copilotHome.settings["user"].kind = "valid" THEN copilotHome.userRoots ELSE {}
        keys == {<<1, r>> : r \in Smallest(env, room)} \cup {<<2, r>> : r \in user}
        Less(a, b) == a[1] < b[1] \/ (a[1] = b[1] /\ a[2] < b[2])
    IN  [roots   |-> SetToSortSeq({a \in keys : Cardinality({b \in keys : Less(b, a)}) < room}, Less),
         cut     |-> copilotHome.env.kind = "truncated" \/ Truncated(env, room) \/ Truncated(keys, room),
         invalid |-> copilotHome.env.kind # "valid"]

(* A direct Skill root is trusted only when it is itself a directory.       *)
DirectStatus(x) ==
    CASE ThingAt(x) = "none"             -> "missing"
      [] ThingAt(x) \in {"other", "link"} -> "invalid"
      [] OTHER                           -> "scanned"
Direct(role, x) == Planned(role, x, x, 0, DirectStatus(x), DirectStatus(x) = "scanned")

NoBundle == [id |-> <<>>, root |-> <<>>, known |-> 0, parts |-> <<>>, next |-> 1, told |-> FALSE]

CopilotInit ==
    /\ \E case \in CopilotCases : /\ copilotTree = case.tree
                                  /\ copilotHome = case.home
                                  /\ copilotLimits = case.limits
    /\ copilotChanged = [x \in CopilotPlace |-> 0]
    /\ copilot = [at |-> "direct", visited |-> 0, cut |-> FALSE, full |-> FALSE,
                  direct |-> copilotHome.direct, cache |-> "none", known |-> 0, containers |-> <<>>,
                  listed |-> [x \in {} |-> "none"], identities |-> <<>>, bundle |-> NoBundle,
                  custom |-> <<>>, sources |-> {}]

ClassifyDirectRoot ==
    /\ CopilotStep("direct") /\ copilot.direct # <<>>
    /\ copilot' = CopilotTell([copilot EXCEPT !.direct = Tail(@)],
                              {Direct("direct", <<Head(copilot.direct)>>)})
    /\ CopilotStays

(* The settings are read and, of the cache, its containers.                 *)
OpenCopilotCache ==
    LET bad  == {f \in SettingsFiles : copilotHome.settings[f].kind # "valid"}
        told == {Evidence(f, <<9>>, copilotHome.settings[f].kind) : f \in bad}
                \cup (IF copilotHome.managed.kind = "valid" THEN {}
                      ELSE {Evidence("config", <<9>>, copilotHome.managed.kind)})
        kind == ThingAt(<<0>>)
        l    == NamesIn(<<0>>, copilotLimits.plugins + 1)
        p    == [copilot EXCEPT !.at = "containers"]
        q    == [p EXCEPT !.cache = "directory", !.known = copilotChanged[<<0>>], !.visited = @ + l.visits,
                          !.cut = @ \/ l.cut, !.full = l.cut, !.containers = l.entries]
        Without(status) == CopilotTell([p EXCEPT !.cache = status], {Evidence("cache", <<0>>, status)})
    IN  /\ CopilotStep("direct") /\ copilot.direct = <<>>
        /\ copilot' = CopilotTell(
              IF kind = "none" THEN Without("missing")
              ELSE IF kind \in {"other", "link"} THEN Without("invalid")
              ELSE IF l.error # "none" THEN CopilotTell(q, {Evidence("cache", <<0>>, l.error)})
              ELSE q, told)
        /\ CopilotStays

(* A container that is a link, a file or cannot be read becomes an identity *)
(* of its own, so that it is told of.                                       *)
ListContainer ==
    LET c    == Head(copilot.containers)
        l    == NamesIn(c.at, copilotLimits.plugins + 1)
        rest == [copilot EXCEPT !.containers = Tail(@)]
        p    == [rest EXCEPT !.visited = @ + l.visits, !.cut = @ \/ l.cut, !.full = @ \/ l.cut]
    IN  /\ CopilotStep("containers") /\ copilot.containers # <<>>
        /\ copilot' = IF c.kind \in {"other", "link"} THEN [rest EXCEPT !.listed = @ @@ (c.at :> c.kind)]
                      ELSE IF l.error # "none"
                      THEN [p EXCEPT !.listed = @ @@ (c.at :> IF l.error = "invalid" THEN "other" ELSE "link")]
                      ELSE [p EXCEPT !.listed = @ @@ [x \in {l.entries[k].at : k \in DOMAIN l.entries} |->
                                                        copilotTree.kind[x]]]
        /\ CopilotStays

SelectPlugins ==
    LET keys == DOMAIN copilot.listed \cup ConfiguredPlugins
        full == copilot.full \/ Truncated(keys, copilotLimits.plugins)
                \/ \E f \in SettingsFiles : copilotHome.settings[f].kind = "truncated"
                \/ copilotHome.managed.kind = "truncated"
    IN  /\ CopilotStep("containers") /\ copilot.containers = <<>>
        /\ copilot' = [copilot EXCEPT !.at = "plugins", !.full = full,
                                      !.identities = BoundedPlugins(keys, copilotLimits.plugins)]
        /\ CopilotStays

(* Where the alias of a plugin leads: a place of the cache that is a        *)
(* directory, while the cache is the one that was listed; or an error.      *)
(* Mutant: a link is followed wherever it leads.                            *)
FollowsAnywhere(x) ==
    LET root == IF x \in CopilotPlace /\ ThingAt(x) = "link" THEN copilotTree.link[x] ELSE x
    IN  IF root \in CopilotPlace /\ ThingAt(root) \in {"directory", "locked"} THEN root ELSE <<>>

VerifiedPluginRoot(x) ==
    LET root == IF x \in CopilotPlace /\ ThingAt(x) = "link" THEN copilotTree.link[x] ELSE x
    IN  IF /\ Held(<<0>>, copilot.known)
           /\ root \in CopilotPlace /\ root[1] = 0 /\ ThingAt(root) \in {"directory", "locked"}
        THEN root ELSE <<>>

ManifestStatus(root) ==
    IF ThingAt(root) = "locked" THEN "unreadable"
    ELSE CASE copilotTree.bundle[root].manifest = "none" -> "missing"
           [] copilotTree.bundle[root].manifest = "bad"  -> "invalid"
           [] OTHER                                      -> "scanned"

NextPlugin == [copilot EXCEPT !.identities = Tail(@)]

(* Without a cache a plugin can only be said to be missing.                 *)
WithoutCache(id) ==
    LET says == PluginDisposition(id)
    IN  CopilotTell(NextPlugin, {Evidence("cache unavailable", id, IF says = "scanned" THEN "missing" ELSE says)})

InspectPlugin ==
    LET id     == Head(copilot.identities)
        listed == id \in DOMAIN copilot.listed
        root   == VerifiedPluginRoot(id)
        says   == PluginDisposition(id)
        p      == [NextPlugin EXCEPT !.visited = @ + 1]
        Refused(role, status) == CopilotTell(p, {Evidence(role, id, status)})
    IN  /\ CopilotStep("plugins") /\ copilot.identities # <<>> /\ copilot.bundle = NoBundle
        /\ copilot' =
              IF copilot.cache # "directory" THEN WithoutCache(id)
              ELSE IF copilot.visited >= copilotLimits.directories
              THEN CopilotTell([NextPlugin EXCEPT !.cut = TRUE], {Evidence("plugin limit", id, "truncated")})
              ELSE IF listed /\ copilot.listed[id] = "other" THEN Refused("entry", "invalid")
              ELSE IF root = <<>> /\ ~listed
              THEN Refused("configured", IF says = "scanned" THEN "missing" ELSE says)
              ELSE IF root = <<>> THEN Refused("plugin root", "invalid")
              ELSE IF ManifestStatus(root) # "scanned" THEN Refused("manifest", ManifestStatus(root))
              ELSE [p EXCEPT !.bundle = [id |-> id, root |-> root, known |-> copilotChanged[root],
                                         parts |-> copilotTree.bundle[root].parts, next |-> 1, told |-> FALSE]]
        /\ CopilotStays

(* The components of a bundle, as long as its root is the one verified.     *)
PartStatus(b) ==
    LET kind == b.parts[b.next]
    IN  IF ~Held(b.root, b.known) THEN "invalid"
        ELSE CASE kind = "directory" -> PluginDisposition(b.id)
               [] kind = "missing"   -> "missing"
               [] kind = "deep"      -> "truncated"
               [] OTHER              -> "invalid"

PlanComponent ==
    LET b    == copilot.bundle
        kind == b.parts[b.next]
        read == kind = "directory" /\ Held(b.root, b.known)
        p    == [copilot EXCEPT !.visited = @ + 1, !.bundle.next = @ + 1]
        Tells(q, role, status, inspect) ==
            CopilotTell([q EXCEPT !.bundle.told = TRUE], {Planned(role, b.id, b.root, b.next, status, inspect)})
    IN  /\ CopilotStep("plugins") /\ b.next \in DOMAIN b.parts
        /\ copilot' = IF copilot.visited >= copilotLimits.directories
                      THEN Tells([copilot EXCEPT !.cut = TRUE, !.bundle.parts = <<>>], "components", "truncated", FALSE)
                      ELSE IF kind = "again" /\ Held(b.root, b.known) THEN p
                      ELSE Tells(p, "component", PartStatus(b), read)
        /\ CopilotStays

FinishBundle ==
    LET b == copilot.bundle
        p == [copilot EXCEPT !.bundle = NoBundle]
    IN  /\ CopilotStep("plugins") /\ b # NoBundle /\ b.next \notin DOMAIN b.parts
        /\ copilot' = IF b.told THEN p ELSE CopilotTell(p, {Planned("empty", b.id, b.root, 0, "missing", FALSE)})
        /\ CopilotStays

FindCustomRoots ==
    LET found == CustomRoots
    IN  /\ CopilotStep("plugins") /\ copilot.identities = <<>> /\ copilot.bundle = NoBundle
        /\ copilot' = CopilotTell([copilot EXCEPT !.at = "custom", !.custom = found.roots],
               (IF copilot.full THEN {Evidence("plugins limit", <<0>>, "truncated")} ELSE {})
               \cup (IF found.cut THEN {Evidence("custom roots", <<9>>, "truncated")}
                     ELSE IF found.invalid THEN {Evidence("custom roots", <<9>>, "invalid")} ELSE {}))
        /\ CopilotStays

ClassifyCustomRoot ==
    /\ CopilotStep("custom") /\ copilot.custom # <<>>
    /\ copilot' = CopilotTell([copilot EXCEPT !.custom = Tail(@)],
                              {Direct("custom", <<Head(copilot.custom)[2]>>)})
    /\ CopilotStays

TellCopilotLimits ==
    /\ CopilotStep("custom") /\ copilot.custom = <<>>
    /\ copilot' = CopilotTell([copilot EXCEPT !.at = "done"],
                      IF copilot.cut THEN {Evidence("directory limit", <<0>>, "truncated")} ELSE {})
    /\ CopilotStays

(* Copilot, or a person, replaces, removes or adds something; a link is put *)
(* in the place of a plugin only.                                           *)
ReplaceThing ==
    /\ ~CopilotStep("done")
    /\ \A x \in CopilotPlace : copilotChanged[x] < copilotLimits.changes
    /\ \E x \in CopilotPlace : \E kind \in {"none", "directory", "other", "link"} :
          /\ kind = "none" => copilotTree.kind[x] # "none"
          /\ kind = "link" => Len(x) = 3
          /\ copilotTree' = [copilotTree EXCEPT !.kind[x] = kind]
          /\ copilotChanged' = [copilotChanged EXCEPT ![x] = @ + 1]
    /\ UNCHANGED <<copilotHome, copilotLimits, copilot>>

CopilotNext ==
    \/ ClassifyDirectRoot \/ OpenCopilotCache \/ ListContainer \/ SelectPlugins
    \/ InspectPlugin \/ PlanComponent \/ FinishBundle
    \/ FindCustomRoots \/ ClassifyCustomRoot \/ TellCopilotLimits \/ ReplaceThing

CopilotSpec == CopilotInit /\ [][CopilotNext]_copilotVars

----------------------------------------------------------------------------

CopilotTold(x) == \E s \in copilot.sources : s.at = x
Undisturbed(x) == \A y \in {x} \cup Above(x) : copilotChanged[y] = 0

(* Nothing is passed over in silence: when the plan is made each plugin and *)
(* each container that is not a directory, each id of the settings, and     *)
(* each Skill root, is told of, or else a limit is.                         *)
CopilotAccounted ==
    CopilotStep("done") /\ ~(\E s \in copilot.sources : s.status = "truncated") =>
        /\ \A x \in CopilotPlace :
              /\ x[1] = 0 /\ Undisturbed(x) /\ ThingAt(x) # "none"
              /\ Len(x) = 3 \/ (Len(x) = 2 /\ ThingAt(x) # "directory")
              => CopilotTold(x)
        /\ \A i \in ConfiguredPlugins : CopilotTold(i)
        /\ \A r \in ToSet(copilotHome.direct) : CopilotTold(<<r>>)

(* What the settings say, tier by tier from the highest.                    *)
Sound(tier) == \A f \in tier : copilotHome.settings[f].kind \in {"valid", "missing"}
Quiet(id, tier) == \A f \in tier : copilotHome.settings[f].entries[id] = "absent"
EnabledForSure(id) ==
    LET Silent(above) == \A j \in above .. 3 : Sound(Tier[j]) /\ Quiet(id, Tier[j])
    IN  \/ \E k \in 1 .. 3 : /\ Sound(Tier[k]) /\ ~Quiet(id, Tier[k]) /\ Silent(k + 1)
                             /\ \A f \in Tier[k] : copilotHome.settings[f].entries[id] \in {"on", "absent"}
        \/ Silent(1) /\ copilotHome.managed.kind = "valid" /\ copilotHome.managed.entries[id] = "on"

(* Skills are offered as effective only where Copilot is sure to load them: *)
(* from a plugin that is switched on, in a directory of the cache, and from *)
(* a Skill root that is no link.                                            *)
CopilotSure ==
    \A s \in copilot.sources : s.read =>
        /\ s.part # 0 => s.root[1] = 0
        /\ s.part # 0 /\ s.status = "scanned" => s.at \in CopilotId /\ EnabledForSure(s.at)
        /\ s.part = 0 /\ Undisturbed(s.at) => ThingAt(s.at) \in {"directory", "locked"}

(* What the planner used of the directory budget is within it, and covers   *)
(* each component it looked for; no more plugins are told of than allowed.  *)
CopilotWithinBudget ==
    /\ copilot.visited <= copilotLimits.directories
    /\ Cardinality({s \in copilot.sources : s.role = "component"}) <= copilot.visited
    /\ Len(copilot.identities) <= copilotLimits.plugins
=============================================================================

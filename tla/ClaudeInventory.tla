--------------------------- MODULE ClaudeInventory ---------------------------
(***************************************************************************)
(* Planning what Claude Code can see: packages/engine/src/inventory/       *)
(* adapters/claude-code.ts and claude-code-metadata.ts.  A plugin may come *)
(* from the plugin cache, as in Codex, or be a directory with a manifest   *)
(* among the Skills of a Skill root; whether it is on is said by three     *)
(* settings files of different precedence, and which of its versions is    *)
(* the installed one by a file of Claude Code.                             *)
(*                                                                         *)
(* <<0>> is the plugin cache, and <<r>>, r > 0, a Skill root; several of   *)
(* the roots the planner knows may be one directory.  A plugin of the      *)
(* cache is named by its place, one of a Skill root by <<9, name>>, where  *)
(* name is the name of its directory or the one its manifest gives.        *)
(***************************************************************************)
EXTENDS InventoryPlans

CONSTANTS
    ClaudePlace,       \* places of the cache and of the Skill roots
    ClaudeName,        \* names under which Skill-root plugins are configured
    ClaudeCases        \* bound: the trees, settings and limits considered, and
                       \* the number of changes made while the planner runs

ClaudePlugin == {x \in ClaudePlace : Len(x) = 3 /\ x[1] = 0}
ClaudeId     == ClaudePlugin \cup {<<9, n>> : n \in ClaudeName}
ClaudeRoot   == {"user", "project", "ancestor", "nested"}
ActiveRoot   == {"user", "project"}
Scope        == <<"local", "project", "user">>

VARIABLES
    claudeTree,      \* what is at each place, and the bundle of a plugin
    claudeHome,      \* settings, installed plugins, the place of each root
    claudeLimits,    \* the limits of this plan
    claudeChanged,   \* history: how often each place was replaced
    claude           \* the planner: its step, what it read, what it told

claudeVars == <<claudeTree, claudeHome, claudeLimits, claudeChanged, claude>>

KindOf(x) == KindIn(claudeTree.kind, x)
Children(x, room) ==
    ReadDirectory(claudeTree.kind, x, room, claude.visited >= claudeLimits.directories)
Fewer(a, b) == IF a < b THEN a ELSE b
LeftOver == Residual(claudeLimits.directories, claude.visited)

(* The settings: the first scope that names the plugin decides, unless a    *)
(* scope before it cannot be trusted.                                       *)
Decides(scope, id) ==
    scope.kind \in {"invalid", "unreadable"} \/ (scope.kind = "valid" /\ scope.entries[id] # "absent")
(* Mutant of ResolveSetting: a scope that cannot be trusted is passed over.  *)
ResolveTrusting(id) ==
    LET deciding == {k \in 1 .. 3 : claudeHome.settings[Scope[k]].kind = "valid"
                                     /\ claudeHome.settings[Scope[k]].entries[id] # "absent"}
    IN  IF deciding = {} THEN "absent"
        ELSE claudeHome.settings[Scope[CHOOSE k \in deciding : \A j \in deciding : k <= j]].entries[id]

ResolveSetting(id) ==
    LET deciding == {k \in 1 .. 3 : Decides(claudeHome.settings[Scope[k]], id)}
        first    == claudeHome.settings[Scope[CHOOSE k \in deciding : \A j \in deciding : k <= j]]
    IN  IF deciding = {} THEN "absent"
        ELSE IF first.kind # "valid" \/ first.entries[id] = "odd" THEN "unknown"
        ELSE first.entries[id]

(* The installed plugins: one record that cannot be proven spoils them all. *)
ReadActive ==
    LET a == claudeHome.active
    IN  IF a.kind = "valid" /\ \E x \in a.installed : KindOf(x) # "directory"
        THEN [kind |-> "invalid", installed |-> {}]
        ELSE IF a.kind = "valid" THEN a ELSE [a EXCEPT !.installed = {}]

(* The status of each version of a plugin of the cache.                     *)
SettingDisposition(id, versions, cut, installed) ==
    LET own    == {x \in installed : Front(x) = id}
        proven == own \cap versions
        on     == ResolveSetting(id)
    IN  [v \in versions |->
            CASE cut                                                  -> "truncated"
              [] ~cut /\ on = "off"                                   -> "disabled"
              [] ~cut /\ on \in {"absent", "unknown"}                 -> "ambiguous"
              [] OTHER -> IF Cardinality(versions) = 1
                          THEN IF own # {} /\ proven = {} THEN "stale" ELSE "scanned"
                          ELSE IF Cardinality(proven) = 1
                          THEN IF v \in proven THEN "scanned" ELSE "stale"
                          ELSE "ambiguous"]

(* The identities are kept by their keys, the smallest as many as plugins   *)
(* are allowed: of the cache, then configured, configured for a Skill root, *)
(* and found in a Skill root.                                               *)
CacheKey(x)      == <<1, x[3], x[2]>>
ConfiguredKey(x) == <<2, x[3], x[2]>>
NamedKey(id)     == <<3, id[2], 0>>
FoundKey(x)      == <<4, x[1], x[2]>>
PlaceOfKey(key)  == <<0, key[3], key[2]>>

Before(a, b) ==
    \E k \in 1 .. 3 : a[k] < b[k] /\ \A j \in 1 .. k - 1 : a[j] = b[j]
BoundedIdentities(keys, room) ==
    SetToSortSeq({a \in keys : Cardinality({b \in keys : Before(b, a)}) < room}, Before)

ConfiguredIds ==
    {i \in ClaudeId : \E k \in 1 .. 3 : LET s == claudeHome.settings[Scope[k]]
                                        IN  s.kind = "valid" /\ s.entries[i] # "absent"}

ClaudeTell(p, sources) == [p EXCEPT !.sources = @ \cup sources]
ClaudeStep(step) == claude.at = step
ClaudeStays == UNCHANGED <<claudeTree, claudeHome, claudeLimits, claudeChanged>>

NoTask == [at |-> <<0>>, via |-> "", status |-> "scanned", known |-> 0, listed |-> "directory", version |-> FALSE]

ClaudeInit ==
    /\ \E case \in ClaudeCases : /\ claudeTree = case.tree
                                 /\ claudeHome = case.home
                                 /\ claudeLimits = case.limits
    /\ claudeChanged = [x \in ClaudePlace |-> 0]
    /\ claude = [at |-> "roots", visited |-> 0, cut |-> FALSE, full |-> FALSE,
                 direct |-> [r \in ClaudeRoot \ {"nested"} |-> [status |-> "scanned", excluded |-> {}]],
                 active |-> [kind |-> "valid", installed |-> {}],
                 roots |-> <<>>, plugins |-> {}, known |-> claudeChanged,
                 markets |-> <<>>, listed |-> [x \in {} |-> "none"],
                 keys |-> {}, names |-> [x \in {} |-> 0],
                 identities |-> <<>>, tasks |-> <<>>, sources |-> {}]

(* The Skill roots below the workspace that a session finds on demand: a    *)
(* walk of its own, which takes `workspace` directories of the budget.  It  *)
(* is cut where the budget ends or a bound of its own is met, and what it   *)
(* found before that is kept.                                               *)
FindNestedRoots ==
    LET place  == claudeHome.root["nested"]
        walked == Fewer(claudeLimits.workspace, claudeLimits.directories)
        ended  == claudeLimits.directories = 0 \/ claudeLimits.directories < claudeLimits.workspace
        there  == /\ KindOf(place) \in {"directory", "locked"}
                  /\ \A r \in DOMAIN claude.direct : claudeHome.root[r] # place
        Found(kept, cut) ==
            [claude EXCEPT !.at = "trust", !.visited = walked, !.cut = cut,
                !.direct = IF kept THEN @ @@ ("nested" :> [status |-> "scanned", excluded |-> {}]) ELSE @]
    IN  /\ ClaudeStep("roots")
        /\ \E cut, kept \in BOOLEAN :
              /\ ended => cut
              /\ IF walked = 0 THEN cut = ended /\ ~kept ELSE kept => there
              /\ walked > 0 /\ there /\ ~cut => kept
              /\ claude' = IF cut THEN ClaudeTell(Found(kept, cut), {Mark("nested limit", place, "truncated")})
                           ELSE Found(kept, cut)
        /\ ClaudeStays

(* A root found on demand must still be there to be trusted.                *)
TrustNestedRoot ==
    LET kind == KindOf(claudeHome.root["nested"])
    IN  /\ ClaudeStep("trust")
        /\ claude' = [claude EXCEPT !.at = "settings",
                         !.direct = IF "nested" \in DOMAIN @ /\ kind \notin {"directory", "locked"}
                                    THEN [@ EXCEPT !["nested"].status =
                                             IF kind = "other" THEN "invalid" ELSE "unreadable"]
                                    ELSE @]
        /\ ClaudeStays

(* The physical Skill roots that are there now, in order.                   *)
RootPlaces ==
    SetToSortSeq({claudeHome.root[r] : r \in {q \in DOMAIN claude.direct :
                     KindOf(claudeHome.root[q]) \in {"directory", "locked"}}},
                 LAMBDA x, y : x[1] < y[1])

ReadClaudeSettings ==
    LET active == ReadActive
        bad    == {k \in 1 .. 3 : claudeHome.settings[Scope[k]].kind # "valid"}
    IN  /\ ClaudeStep("settings")
        /\ claude' = ClaudeTell([claude EXCEPT !.at = "classify", !.active = active, !.roots = RootPlaces,
                                               !.keys = {CacheKey(Front(x)) : x \in active.installed}],
               {Mark("settings", <<9, k>>, claudeHome.settings[Scope[k]].kind) : k \in bad}
               \cup {Mark("managed", <<9>>, "ambiguous")}
               \cup (IF active.kind # "valid" THEN {Mark("active", <<0>>, active.kind)} ELSE {}))
        /\ ClaudeStays

(* A directory of a Skill root with a manifest is a plugin, and no Skill of *)
(* that root; where the budget ends first, the root is not read at all.     *)
(* Mutant of IsPlugin: only a manifest that can be used makes a plugin.       *)
IsSoundPlugin(x) == KindOf(x) = "directory" /\ claudeTree.bundle[x].manifest = "good"

IsPlugin(x) == KindOf(x) = "directory" /\ claudeTree.bundle[x].manifest # "none"
ClassifyRoot ==
    LET root   == Head(claude.roots)
        l      == Children(root, LeftOver)
        room   == Residual(claudeLimits.directories, claude.visited + l.visits)
        seen   == IF room < Len(l.entries) THEN room ELSE Len(l.entries)
        cut    == l.cut \/ seen < Len(l.entries)
        found  == {l.entries[k].at : k \in {j \in 1 .. seen : IsPlugin(l.entries[j].at)}}
        Of(r)  == claudeHome.root[r] = root
        Mine(r, d) == IF ~Of(r) THEN d
                      ELSE [status   |-> IF cut THEN "truncated" ELSE d.status,
                            excluded |-> d.excluded \cup found]
    IN  /\ ClaudeStep("classify") /\ claude.roots # <<>>
        /\ claude' = IF l.error # "none" THEN [claude EXCEPT !.roots = Tail(@), !.visited = @ + l.visits]
                     ELSE [claude EXCEPT !.roots = Tail(@), !.visited = @ + l.visits + seen,
                              !.cut = @ \/ cut,
                              !.direct = [r \in DOMAIN @ |-> Mine(r, @[r])],
                              !.plugins = @ \cup found,
                              !.known = [x \in DOMAIN @ |-> IF x \in found THEN claudeChanged[x] ELSE @[x]],
                              !.keys = @ \cup {FoundKey(x) : x \in found}]
        /\ ClaudeStays

OpenClaudeCache ==
    LET kind == KindOf(<<0>>)
        l    == Children(<<0>>, LeftOver)
        p    == [claude EXCEPT !.at = "markets", !.visited = @ + l.visits, !.cut = @ \/ l.cut,
                               !.markets = l.entries]
    IN  /\ ClaudeStep("classify") /\ claude.roots = <<>>
        /\ claude' = IF kind = "none" THEN ClaudeTell([claude EXCEPT !.at = "markets"], {Mark("cache", <<0>>, "missing")})
                     ELSE IF kind = "other" THEN ClaudeTell([claude EXCEPT !.at = "markets"], {Mark("cache", <<0>>, "invalid")})
                     ELSE IF l.error # "none" THEN ClaudeTell(p, {Mark("cache", <<0>>, l.error)})
                     ELSE p
        /\ ClaudeStays

ListClaudeMarket ==
    LET market == Head(claude.markets)
        l      == Children(market.at, claudeLimits.plugins + 1)
        p      == [claude EXCEPT !.markets = Tail(@), !.visited = @ + l.visits, !.cut = @ \/ l.cut]
        rest   == [claude EXCEPT !.markets = Tail(@)]
    IN  /\ ClaudeStep("markets") /\ claude.markets # <<>>
        /\ claude' = IF market.kind \notin {"directory", "locked"}
                     THEN ClaudeTell(rest, {Mark("marketplace", market.at, "invalid")})
                     ELSE IF l.error # "none" THEN ClaudeTell(p, {Mark("marketplace", market.at, l.error)})
                     ELSE [p EXCEPT !.full = @ \/ l.cut,
                                    !.keys = @ \cup {CacheKey(l.entries[k].at) : k \in DOMAIN l.entries},
                                    !.listed = [x \in {l.entries[k].at : k \in DOMAIN l.entries} |->
                                                  claudeTree.kind[x]] @@ @]
        /\ ClaudeStays

(* Everything known by now, with what the settings name besides, is cut to  *)
(* the limit; a plugin of a Skill root is known by its directory's name.    *)
SelectIdentities ==
    LET raw   == {<<9, x[2]>> : x \in claude.plugins}
        cache == {x \in ClaudePlugin : CacheKey(x) \in claude.keys}
        keys  == claude.keys
                 \cup {NamedKey(i) : i \in {j \in ConfiguredIds : j[1] = 9} \ raw}
                 \cup {ConfiguredKey(i) : i \in {j \in ConfiguredIds : j[1] = 0} \ cache}
    IN  /\ ClaudeStep("markets") /\ claude.markets = <<>>
        /\ claude' = [claude EXCEPT !.at = "manifests", !.full = @ \/ Truncated(keys, claudeLimits.plugins),
                                    !.identities = BoundedIdentities(keys, claudeLimits.plugins)]
        /\ ClaudeStays

(* The manifests of the Skill-root plugins that were selected: a directory  *)
(* that was replaced since it was classified is refused.  Absence from      *)
(* `names` is a failure.                                                    *)
Same(x) == KindOf(x) = "directory" /\ claudeChanged[x] = claude.known[x]
InspectManifests ==
    LET chosen == {x \in claude.plugins : FoundKey(x) \in ToSet(claude.identities)}
        good   == {x \in chosen : Same(x) /\ claudeTree.bundle[x].manifest = "good"}
    IN  /\ ClaudeStep("manifests")
        /\ claude' = [claude EXCEPT !.at = "identities",
                         !.names = [x \in good |-> IF claudeTree.bundle[x].name = 0 THEN x[2]
                                                   ELSE claudeTree.bundle[x].name]]
        /\ ClaudeStays

(* The status of a Skill-root plugin under one of the roots that lead to it;*)
(* its mutant forgets that only two of the roots load plugins.              *)
DispositionAnywhere(root, x) ==
    LET on == ResolveSetting(<<9, claude.names[x]>>)
    IN  CASE on = "on"      -> "scanned"
          [] on = "off"     -> "disabled"
          [] on = "unknown" -> "ambiguous"
          [] OTHER          -> IF claudeTree.bundle[x].enabled THEN "scanned" ELSE "disabled"

RootDisposition(root, x) ==
    LET on == ResolveSetting(<<9, claude.names[x]>>)
    IN  CASE root \notin ActiveRoot -> "disabled"
          [] root \in ActiveRoot /\ on = "on"  -> "scanned"
          [] root \in ActiveRoot /\ on = "off" -> "disabled"
          [] root \in ActiveRoot /\ on = "unknown" -> "ambiguous"
          [] OTHER -> IF claudeTree.bundle[x].enabled THEN "scanned" ELSE "disabled"

Aliases(x) == SetToSeq({r \in DOMAIN claude.direct : claudeHome.root[r] = <<x[1]>>})
Missing(id) == LET on == ResolveSetting(id)
               IN  IF on = "on" THEN "missing" ELSE IF on = "off" THEN "disabled" ELSE "ambiguous"
NextIdentity == [claude EXCEPT !.identities = Tail(@)]
Handles(origin) ==
    /\ ClaudeStep("identities") /\ claude.tasks = <<>> /\ claude.identities # <<>>
    /\ Head(claude.identities)[1] \in origin
    /\ ClaudeStays

PlanFound ==
    LET x     == <<Head(claude.identities)[2], Head(claude.identities)[3]>>
        roots == Aliases(x)
    IN  /\ Handles({4})
        /\ claude' = IF x \in DOMAIN claude.names
                     THEN [NextIdentity EXCEPT !.tasks = [k \in DOMAIN roots |->
                              [NoTask EXCEPT !.at = x, !.via = roots[k], !.known = claude.known[x],
                                             !.status = RootDisposition(roots[k], x)]]]
                     ELSE ClaudeTell(NextIdentity,
                              {Source("manifest", x, r, 0, "invalid", FALSE) : r \in ToSet(roots)})

PlanNamed ==
    LET id == <<9, Head(claude.identities)[2]>>
    IN  /\ Handles({3})
        /\ claude' = IF \E x \in DOMAIN claude.names : claude.names[x] = id[2] THEN NextIdentity
                     ELSE ClaudeTell(NextIdentity,
                              {Source("configured", id, r, 0, Missing(id), FALSE) : r \in ActiveRoot})

PlanCached ==
    LET id    == PlaceOfKey(Head(claude.identities))
        l     == Children(id, LeftOver)
        dirs  == {l.entries[k].at : k \in {j \in DOMAIN l.entries : l.entries[j].kind = "directory"}}
        says  == SettingDisposition(id, dirs, l.cut, claude.active.installed)
        p     == [NextIdentity EXCEPT !.visited = @ + l.visits, !.cut = @ \/ l.cut]
        Tells(q, role, status) == ClaudeTell(q, {Mark(role, id, status)})
    IN  /\ Handles({1, 2})
        /\ claude' = CASE id \notin DOMAIN claude.listed -> Tells(NextIdentity, "configured", Missing(id))
                       [] id \in DOMAIN claude.listed /\ claude.listed[id] = "other"
                             -> Tells(NextIdentity, "plugin", "invalid")
                       [] OTHER ->
                             IF l.error # "none" THEN Tells(p, "versions", l.error)
                             ELSE IF l.entries = <<>>
                             THEN Tells(p, "versions", IF l.cut THEN "truncated" ELSE "missing")
                             ELSE [p EXCEPT !.tasks = [k \in DOMAIN l.entries |->
                                      LET v == l.entries[k].at
                                      IN  [NoTask EXCEPT !.at = v, !.version = TRUE, !.listed = l.entries[k].kind,
                                              !.status = IF v \in dirs THEN says[v] ELSE "invalid"]]]

(* The Skill directories of a bundle: the default one, which may be absent, *)
(* and those its manifest declares; one declared twice is told of once.     *)
BundlePart(t, k, kind) ==
    CASE kind = "directory" -> {Source("component", t.at, t.via, k, t.status, TRUE)}
      [] kind = "deep"      -> {Source("component", t.at, t.via, k, "truncated", FALSE)}
      [] kind = "missing"   -> IF k = 1 THEN {} ELSE {Source("component", t.at, t.via, k, "missing", FALSE)}
      [] kind = "again"     -> {}
      [] OTHER              -> {Source("component", t.at, t.via, k, "invalid", FALSE)}

(* Only a bundle with neither is a Skill itself.                            *)
RootSkill(t, bundle) ==
    CASE bundle.marker = "file"  -> {Source("root skill", t.at, t.via, 0, t.status, TRUE)}
      [] bundle.marker = "other" -> {Source("root skill", t.at, t.via, 0, "invalid", FALSE)}
      [] OTHER                   -> {}

Of(role, t, status) == {Source(role, t.at, t.via, 0, status, FALSE)}
PlannedBundle(t, room) ==
    LET bundle == claudeTree.bundle[t.at]
        parts  == <<bundle.default>> \o (IF bundle.manifest = "good" THEN bundle.custom ELSE <<>>)
        read   == IF room < Len(parts) THEN room ELSE Len(parts)
        told   == UNION {BundlePart(t, k, parts[k]) : k \in 1 .. read}
                  \cup (IF read < Len(parts) THEN Of("components", t, "truncated")
                        ELSE IF bundle.default = "directory" \/ (bundle.manifest = "good" /\ bundle.skills)
                        THEN {} ELSE RootSkill(t, bundle))
    IN  IF KindOf(t.at) \notin {"directory", "locked"}
        THEN [visits |-> 0, told |-> Of("bundle", t, IF KindOf(t.at) = "other" THEN "invalid" ELSE "unreadable")]
        ELSE IF (~t.version /\ ~Same(t.at)) \/ bundle.manifest = "bad"
        THEN [visits |-> 0, told |-> Of("manifest", t, "invalid")]
        ELSE [visits |-> read, told |-> IF told = {} THEN Of("empty", t, "missing") ELSE told]

PlanBundle ==
    LET t     == Head(claude.tasks)
        rest  == [claude EXCEPT !.tasks = Tail(@)]
        spent == claude.visited >= claudeLimits.directories
        own   == IF t.version THEN 1 ELSE 0
        b     == PlannedBundle(t, Residual(claudeLimits.directories, claude.visited + own))
    IN  /\ ClaudeStep("identities") /\ claude.tasks # <<>>
        /\ claude' = IF t.version /\ t.listed # "directory" THEN ClaudeTell(rest, Of("version", t, "invalid"))
                     ELSE IF t.version /\ spent
                     THEN ClaudeTell([claude EXCEPT !.tasks = <<>>, !.cut = TRUE], Of("version", t, "truncated"))
                     ELSE ClaudeTell([rest EXCEPT !.visited = @ + own + b.visits,
                                          !.cut = @ \/ \E x \in b.told : x.role = "components"], b.told)
        /\ ClaudeStays

TellClaudeLimits ==
    /\ ClaudeStep("identities") /\ claude.tasks = <<>> /\ claude.identities = <<>>
    /\ claude' = ClaudeTell([claude EXCEPT !.at = "done"],
                     (IF claude.full THEN {Mark("plugin limit", <<0>>, "truncated")} ELSE {})
                     \cup (IF claude.cut THEN {Mark("directory limit", <<0>>, "truncated")} ELSE {}))
    /\ ClaudeStays

(* Claude Code, or a person, replaces, removes or adds a directory.         *)
ReplacePlace ==
    /\ ~ClaudeStep("done")
    /\ \A x \in ClaudePlace : claudeChanged[x] < claudeLimits.changes
    /\ \E x \in ClaudePlace : \E kind \in {"none", "directory", "other"} :
          /\ kind = "none" => claudeTree.kind[x] # "none"
          /\ claudeTree' = [claudeTree EXCEPT !.kind[x] = kind]
          /\ claudeChanged' = [claudeChanged EXCEPT ![x] = @ + 1]
    /\ UNCHANGED <<claudeHome, claudeLimits, claude>>

ClaudeNext ==
    \/ FindNestedRoots \/ TrustNestedRoot \/ ReadClaudeSettings \/ ClassifyRoot \/ OpenClaudeCache
    \/ ListClaudeMarket \/ SelectIdentities \/ InspectManifests \/ PlanFound \/ PlanNamed
    \/ PlanCached \/ PlanBundle \/ TellClaudeLimits \/ ReplacePlace

ClaudeSpec == ClaudeInit /\ [][ClaudeNext]_claudeVars

----------------------------------------------------------------------------

ClaudeTold(x) == \E s \in claude.sources : s.at = x \/ x \in Above(s.at)
ClaudeLimitTold == \E s \in claude.sources : s.role \in {"plugin limit", "directory limit"}
Unchanged(x) == \A y \in {x} \cup Above(x) : claudeChanged[y] = 0

(* Nothing is passed over in silence: when the plan is made each plugin and *)
(* version of the cache, each plugin of a Skill root and each plugin that   *)
(* the settings name, is told of, or else a limit is.  (A Skill-root plugin *)
(* is looked up by its directory's name, and told of by its manifest's: one *)
(* named like the directory of another is not told of.)                     *)
ClaudeAccounted ==
    ClaudeStep("done") /\ ~ClaudeLimitTold =>
        /\ \A x \in ClaudePlace :
              /\ \/ x[1] = 0 /\ Len(x) \in {3, 4} /\ KindOf(Front(x)) = "directory"
                 \/ /\ x[1] # 0 /\ Len(x) = 2 /\ KindOf(<<x[1]>>) = "directory" /\ IsPlugin(x)
                    /\ \E r \in DOMAIN claude.direct : claudeHome.root[r] = <<x[1]>>
              /\ Unchanged(x) /\ KindOf(x) # "none"
              => ClaudeTold(x)
        /\ \A i \in ConfiguredIds :
              \/ ClaudeTold(i) \/ \E x \in DOMAIN claude.names : claude.names[x] = i[2]
              \/ i[1] = 9 /\ \E x \in claude.plugins : x[2] = i[2]

(* What the settings say, scope by scope.                                   *)
SettingIs(id, word) ==
    \E k \in 1 .. 3 :
        /\ claudeHome.settings[Scope[k]].kind = "valid" /\ claudeHome.settings[Scope[k]].entries[id] = word
        /\ \A j \in 1 .. k - 1 : LET s == claudeHome.settings[Scope[j]]
                                IN  s.kind = "missing" \/ (s.kind = "valid" /\ s.entries[id] = "absent")
NothingSays(id) ==
    \A k \in 1 .. 3 : LET s == claudeHome.settings[Scope[k]]
                      IN  s.kind = "missing" \/ (s.kind = "valid" /\ s.entries[id] = "absent")

(* Skills are offered as effective only where Claude Code is sure to load   *)
(* them: a plugin of the cache that is switched on and whose other versions *)
(* are none, or not the installed one; a plugin of the user's or of this    *)
(* project's Skill root that is not switched off.                           *)
ClaudeSure ==
    \A s \in claude.sources : s.read /\ s.status = "scanned" =>
        IF s.at[1] = 0
        THEN /\ SettingIs(Front(s.at), "on")
             /\ (\A x \in ClaudePlace : claudeChanged[x] = 0) =>
                  \A v \in EntriesIn(claudeTree.kind, Front(s.at)) \ {s.at} :
                     KindOf(v) = "directory" =>
                        s.at \in claudeHome.active.installed /\ v \notin claudeHome.active.installed
        ELSE /\ s.via \in ActiveRoot
             /\ LET id == <<9, claude.names[s.at]>>
                IN  SettingIs(id, "on") \/ (NothingSays(id) /\ claudeTree.bundle[s.at].enabled)

(* A directory of a Skill root that is a plugin is not also read as a Skill *)
(* of that root, whatever name or limit it was found under.                 *)
PluginsApart ==
    claude.at \in {"markets", "manifests", "identities", "done"} =>
        \A r \in DOMAIN claude.direct : \A x \in ClaudePlace :
            /\ claude.direct[r].status = "scanned"
            /\ Len(x) = 2 /\ claudeHome.root[r] = <<x[1]>> /\ Unchanged(x)
            /\ KindOf(x) = "directory" /\ claudeTree.bundle[x].manifest # "none"
            => x \in claude.direct[r].excluded

(* What the planner used of the directory budget is within it, and covers   *)
(* each component it looked for.                                            *)
ClaudeWithinBudget ==
    /\ claude.visited <= claudeLimits.directories
    /\ Cardinality({s \in claude.sources : s.part # 0}) <= claude.visited
    /\ Len(claude.identities) <= claudeLimits.plugins
=============================================================================

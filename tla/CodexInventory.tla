--------------------------- MODULE CodexInventory ---------------------------
(***************************************************************************)
(* Planning what Codex can see: packages/engine/src/inventory/adapters/    *)
(* codex.ts.  The planner reads the settings, the profiles that may be     *)
(* active, and the plugin cache (marketplaces, plugins, versions, and the  *)
(* manifest of each version) under three budgets, and tells of everything  *)
(* it met as a source with a status; the walk reads Skills only from       *)
(* sources that are "scanned" or marked for inspection.                    *)
(*                                                                         *)
(* Codex may install or remove plugins meanwhile: every read of a          *)
(* directory is a step.  A place of the cache is a path of numbers, and a  *)
(* plugin is named by its place <<0, marketplace, plugin>>.                   *)
(***************************************************************************)
EXTENDS InventoryPlans

CONSTANTS
    CodexPlace,        \* <<0>> is the cache; marketplace, plugin, version follow
    CodexIllNamed,     \* a configured plugin that names no place
    CodexCases         \* bound: the caches, settings and limits considered, and
                       \* the number of changes made while the planner runs

CodexPlugin == {x \in CodexPlace : Len(x) = 3}
CodexId     == CodexPlugin \cup {CodexIllNamed}

VARIABLES
    codexCache,     \* what is at each place, a version's bundle, a plugin's marker
    codexSettings,  \* config.toml, the profiles, and the profile asked for
    codexLimits,    \* the limits of this plan
    codexTouched,   \* history: the places changed since the planner began
    codex           \* the planner: its step, what it read, what it told

codexVars == <<codexCache, codexSettings, codexLimits, codexTouched, codex>>

Gates == {"plugins", "remote"}

(* What readConfig makes of config.toml: defaults unless it is valid.       *)
ReadConfig(base) ==
    [kind |-> base.kind, unsure |-> {},
     enabled |-> [i \in CodexId |-> IF base.kind = "valid" THEN base.enabled[i] ELSE "absent"],
     gate |-> [g \in Gates |-> IF base.kind = "valid" THEN base.gate[g] ELSE "on"]]

Unsure(c, gates) == [c EXCEPT !.unsure = gates]

(* The profile asked for overrides the gates; one that cannot be read, or   *)
(* is config.toml itself, leaves both unknown.                              *)
ActiveProfile(c, s) ==
    IF s.home = "directory" /\ s.active \in DOMAIN s.profiles \ {s.itself} /\ s.profiles[s.active].valid
    THEN [c EXCEPT !.gate = [g \in Gates |-> IF s.profiles[s.active].gate[g] = "unset"
                                             THEN c.gate[g] ELSE s.profiles[s.active].gate[g]]]
    ELSE Unsure(c, Gates)

(* Mutant of AnyProfile: the profiles beyond the limit are forgotten.       *)
SomeProfiles(c, s, limit) ==
    LET kept == Smallest(DOMAIN s.profiles \ {s.itself}, limit)
    IN  IF s.home = "missing" THEN c
        ELSE IF s.home # "directory" \/ \E p \in kept : ~s.profiles[p].valid THEN Unsure(c, Gates)
        ELSE Unsure(c, {g \in Gates : \E p \in kept : s.profiles[p].gate[g] \notin {"unset", c.gate[g]}})

(* With none asked for, any profile may be the one: a gate on which one of  *)
(* them differs is unknown.                                                 *)
AnyProfile(c, s, limit) ==
    LET names == DOMAIN s.profiles \ {s.itself}
        kept  == Smallest(names, limit)
    IN  IF s.home = "missing" THEN c
        ELSE IF s.home # "directory" \/ Truncated(names, limit) \/ \E p \in kept : ~s.profiles[p].valid
        THEN Unsure(c, Gates)
        ELSE Unsure(c, {g \in Gates : \E p \in kept : s.profiles[p].gate[g] \notin {"unset", c.gate[g]}})

ProfileFeatures(c, s, limit) ==
    IF c.kind = "invalid" THEN c
    ELSE IF s.active # 0 THEN ActiveProfile(c, s) ELSE AnyProfile(c, s, limit)

(* What the settings say of a plugin with this remote marker.               *)
DisabledBy(c, id, marker) ==
    /\ c.kind = "valid"
    /\ \/ c.enabled[id] = "off"
       \/ /\ "plugins" \notin c.unsure
          /\ \/ c.gate["plugins"] = "off"
             \/ marker = "remote" /\ "remote" \notin c.unsure /\ c.gate["remote"] = "off"

UncertainBy(c, marker) ==
    "plugins" \in c.unsure \/ marker = "invalid" \/ (marker = "remote" /\ "remote" \in c.unsure)

(* The status of the version at hand, and whether it outlives an error in   *)
(* the version's metadata.                                                  *)
Disposition(c, id, marker, plausible, cut) ==
    LET Is(status, keeps) == [status |-> status, keeps |-> keeps]
    IN  IF DisabledBy(c, id, marker) THEN Is("disabled", TRUE)
        ELSE IF UncertainBy(c, marker) THEN Is("ambiguous", TRUE)
        ELSE IF cut THEN Is("truncated", TRUE)
        ELSE IF plausible # 1 THEN Is("ambiguous", TRUE)
        ELSE IF c.kind = "invalid" \/ c.enabled[id] = "odd" THEN Is("ambiguous", FALSE)
        ELSE Is("scanned", FALSE)

(* The roots that need no settings: of the workspace, its ancestors, the    *)
(* user and the administrator.                                              *)
CodexDirect == {Mark(r, <<>>, "scanned") : r \in {"project", "inherited", "user", "admin"}}

Kind(x)    == KindIn(codexCache.kind, x)
Entries(x) == EntriesIn(codexCache.kind, x)
Listing(x, room) == ReadDirectory(codexCache.kind, x, room, codex.visited >= codexLimits.directories)

(* Mutant of Listed: a directory that is only partly read goes unmarked.    *)
ListedSilently(l, marks) == [codex EXCEPT !.visited = @ + l.visits, !.cut = @ \/ l.spent]

(* The error of a listing ends up in a source; the listing counts as a visit. *)
Listed(l, marks) ==
    [codex EXCEPT !.visited = @ + l.visits, !.cut = @ \/ l.spent \/ (marks /\ l.cut)]

CodexStep(step) == codex.at = step
CodexStays == UNCHANGED <<codexCache, codexSettings, codexLimits, codexTouched>>
Tell(p, sources) == [p EXCEPT !.sources = @ \cup sources]

CodexInit ==
    /\ \E case \in CodexCases : /\ codexCache = case.cache
                                /\ codexSettings = case.settings
                                /\ codexLimits = case.limits
    /\ codexTouched = {}
    /\ codex = [at |-> "config", config |-> ReadConfig(codexSettings.base), sources |-> CodexDirect,
                visited |-> 0, cut |-> FALSE, full |-> FALSE, found |-> {}, physical |-> FALSE,
                markets |-> <<>>, plugins |-> <<>>, versions |-> <<>>,
                current |-> [id |-> CodexIllNamed, marker |-> "local", plausible |-> 0, cut |-> FALSE],
                asked |-> <<>>]

(* A config.toml that cannot be trusted is told of, and nothing it says.    *)
ReadProfiles ==
    LET config == ProfileFeatures(codex.config, codexSettings, codexLimits.profiles)
    IN  /\ CodexStep("config")
        /\ codex' = Tell([codex EXCEPT !.at = "cache", !.config = config],
                         IF config.kind = "invalid" THEN {Mark("config", <<>>, "invalid")} ELSE {})
        /\ CodexStays

(* The plugins the settings name, in the order in which they are asked for. *)
Configured(config) ==
    SetToSortSeq({i \in CodexId : config.enabled[i] # "absent"},
                 LAMBDA i, j : i[3] < j[3] \/ (i[3] = j[3] /\ i[2] < j[2]))
AskNext(p) == [p EXCEPT !.at = "configured", !.asked = Configured(p.config)]

OpenCache ==
    /\ CodexStep("cache")
    /\ codex' = CASE Kind(<<0>>) = "none"  -> AskNext(Tell(codex, {Mark("cache", <<>>, "missing")}))
                  [] Kind(<<0>>) = "other" -> AskNext(Tell(codex, {Mark("cache", <<>>, "invalid")}))
                  [] OTHER                -> [codex EXCEPT !.at = "markets", !.physical = TRUE]
    /\ CodexStays

ListCache ==
    LET l == Listing(<<0>>, Residual(codexLimits.directories, 1))
        p == Listed(l, TRUE)
    IN  /\ CodexStep("markets")
        /\ codex' = IF l.error # "none" THEN AskNext(Tell(p, {Mark("cache", <<>>, l.error)}))
                    ELSE [p EXCEPT !.at = "market", !.markets = l.entries]
        /\ CodexStays

(* A marketplace: its plugins are noted, with their remote markers, until   *)
(* there is one more than the limit.                                        *)
ListMarket ==
    LET market == Head(codex.markets)
        room   == codexLimits.plugins - Cardinality(codex.found)
        l      == Listing(market.at, room + 1)
        full   == Len(l.entries) > room
        taken  == SubSeq(l.entries, 1, IF full THEN room ELSE Len(l.entries))
        queued == SelectSeq(taken, LAMBDA e : e.kind \in {"directory", "locked"})
        rest   == [codex EXCEPT !.markets = Tail(@)]
        p      == [Listed(l, FALSE) EXCEPT
                      !.markets = IF full THEN <<>> ELSE Tail(@), !.full = @ \/ full,
                      !.found   = @ \cup {taken[k].at : k \in DOMAIN taken},
                      !.plugins = @ \o [k \in DOMAIN queued |->
                                           [id |-> queued[k].at, marker |-> codexCache.marker[queued[k].at]]]]
    IN  /\ CodexStep("market") /\ codex.markets # <<>>
        /\ codex' = IF market.kind \notin {"directory", "locked"}
                    THEN Tell(rest, {Mark("marketplace", market.at, "invalid")})
                    ELSE IF l.error # "none"
                    THEN Tell([Listed(l, FALSE) EXCEPT !.markets = Tail(@)],
                              {Mark("marketplace", market.at, l.error)})
                    ELSE Tell(p, {Mark("plugin", taken[k].at, "invalid") :
                                     k \in {j \in DOMAIN taken : taken[j].kind = "other"}})
        /\ CodexStays

(* The versions of a plugin: directories are plausible, and one is expected.*)
ListPlugin ==
    LET plugin == Head(codex.plugins)
        l      == Listing(plugin.id, Residual(codexLimits.directories, codex.visited + 1))
        dirs   == SelectSeq(l.entries, LAMBDA e : e.kind \in {"directory", "locked"})
        p      == [Listed(l, TRUE) EXCEPT !.plugins = Tail(@)]
        none   == {Mark("plugin", plugin.id, IF l.cut THEN "truncated" ELSE "missing")}
    IN  /\ CodexStep("market") /\ codex.markets = <<>> /\ codex.versions = <<>> /\ codex.plugins # <<>>
        /\ codex' = IF l.error # "none" THEN Tell(p, {Mark("plugin", plugin.id, l.error)})
                    ELSE Tell([p EXCEPT !.versions = l.entries,
                                        !.current = [id |-> plugin.id, marker |-> plugin.marker,
                                                     plausible |-> Len(dirs), cut |-> l.cut]],
                              IF dirs = <<>> THEN none ELSE {})
        /\ CodexStays

(* An error in a version's metadata: the plugin stays what it was said to   *)
(* be if it is inactive or unknown already.                                 *)
Terminal(d, status) == IF d.keeps THEN d.status ELSE status

PartSource(at, k, kind, d) ==
    CASE kind = "deep"      -> Source("depth", at, "", k, "truncated", FALSE)
      [] kind = "directory" -> Source("component", at, "", k, d.status, TRUE)
      [] kind = "missing"   -> Source("component", at, "", k, Terminal(d, "missing"), FALSE)
      [] OTHER              -> Source("component", at, "", k, Terminal(d, "invalid"), FALSE)

(* manifestSources: the components a manifest declares, as far as the       *)
(* budget goes.                                                             *)
ManifestSources(at, d, room) ==
    LET bundle == codexCache.bundle[at]
        read   == IF room < Len(bundle.parts) THEN room ELSE Len(bundle.parts)
    IN  IF Kind(at) \notin {"directory", "locked"}
        THEN {Mark("version", at, Terminal(d, IF Kind(at) = "other" THEN "invalid" ELSE "unreadable"))}
        ELSE IF Kind(at) = "locked" \/ bundle.manifest = "bad" THEN {Mark("version", at, Terminal(d, "invalid"))}
        ELSE {PartSource(at, k, bundle.parts[k], d) : k \in 1 .. read}
             \cup (IF read < Len(bundle.parts) THEN {Mark("components", at, "truncated")} ELSE {})

ReadVersion ==
    LET v     == Head(codex.versions)
        c     == codex.current
        rest  == [codex EXCEPT !.versions = Tail(@)]
        d     == Disposition(codex.config, c.id, c.marker, c.plausible, c.cut)
        told  == ManifestSources(v.at, d, Residual(codexLimits.directories, codex.visited + 1))
        parts == {s \in told : s.part # 0}
    IN  /\ CodexStep("market") /\ codex.versions # <<>>
        /\ codex' = IF v.kind \notin {"directory", "locked"} THEN Tell(rest, {Mark("version", v.at, "invalid")})
                    ELSE IF codex.visited >= codexLimits.directories
                    THEN Tell([rest EXCEPT !.cut = TRUE], {Mark("version", v.at, "truncated")})
                    ELSE Tell([rest EXCEPT !.visited = @ + 1 + Cardinality(parts),
                                           !.cut = @ \/ \E s \in told : s.role = "components"], told)
        /\ CodexStays

CacheDone ==
    /\ CodexStep("market") /\ codex.markets = <<>> /\ codex.plugins = <<>> /\ codex.versions = <<>>
    /\ codex' = AskNext(codex)
    /\ CodexStays

(* A plugin the settings name and the cache did not show.                   *)
ConfiguredStatus(id) ==
    CASE codex.config.enabled[id] = "on"  -> "missing"
      [] codex.config.enabled[id] = "off" -> "disabled"
      [] OTHER                            -> "ambiguous"

(* The first thing above the place that is no directory hides what is there.*)
Hidden(id) == \E y \in Above(id) : Kind(y) \in {"other", "locked"}

AskConfigured ==
    LET id    == Head(codex.asked)
        rest  == [codex EXCEPT !.asked = Tail(@)]
        asked == [rest EXCEPT !.found = @ \cup {id}]
        Tells(p, status) == Tell(p, {Mark("configured", id, status)})
    IN  /\ CodexStep("configured") /\ codex.asked # <<>>
        /\ codex' = CASE id \in codex.found -> rest
                      [] id \notin codex.found /\ Cardinality(codex.found) >= codexLimits.plugins
                            -> [codex EXCEPT !.full = TRUE, !.asked = <<>>]
                      [] OTHER ->
                            IF id = CodexIllNamed THEN Tells(asked, "invalid")
                            ELSE IF ~codex.physical THEN Tells(asked, ConfiguredStatus(id))
                            ELSE IF codex.cut \/ codex.visited >= codexLimits.directories
                            THEN Tells([asked EXCEPT !.cut = TRUE], "truncated")
                            ELSE IF Hidden(id) THEN Tells(asked, "unreadable")
                            ELSE IF Kind(id) = "other" THEN Tells(asked, "invalid")
                            ELSE IF Kind(id) # "none"
                            THEN Tells([asked EXCEPT !.visited = @ + 1], "truncated")
                            ELSE Tells(asked, ConfiguredStatus(id))
        /\ CodexStays

TellLimits ==
    /\ CodexStep("configured") /\ codex.asked = <<>>
    /\ codex' = Tell([codex EXCEPT !.at = "done"],
                     (IF codex.full THEN {Mark("plugin limit", <<>>, "truncated")} ELSE {})
                     \cup (IF codex.cut THEN {Mark("directory limit", <<>>, "truncated")} ELSE {}))
    /\ CodexStays

(* Codex, or a person, changes the cache.                                   *)
ChangeCache ==
    /\ ~CodexStep("done") /\ Cardinality(codexTouched) < codexLimits.changes
    /\ \E x \in CodexPlace : \E kind \in {"none", "directory", "other"} \ {codexCache.kind[x]} :
          /\ codexCache' = [codexCache EXCEPT !.kind[x] = kind]
          /\ codexTouched' = codexTouched \cup {x}
    /\ UNCHANGED <<codexSettings, codexLimits, codex>>

CodexNext ==
    \/ ReadProfiles \/ OpenCache \/ ListCache \/ ListMarket \/ ListPlugin \/ ReadVersion
    \/ CacheDone \/ AskConfigured \/ TellLimits \/ ChangeCache

CodexSpec == CodexInit /\ [][CodexNext]_codexVars

----------------------------------------------------------------------------

Told(x) == \E s \in codex.sources : s.at = x \/ x \in Above(s.at)
LimitTold == \E s \in codex.sources : s.role \in {"plugin limit", "directory limit"}
Untouched(x) == ({x} \cup Above(x)) \cap codexTouched = {}

(* Nothing is passed over in silence: when the plan is made, each plugin    *)
(* and version that was in the cache all along, and each plugin the         *)
(* settings name, is told of, or else a limit is.                           *)
CodexAccounted ==
    CodexStep("done") /\ ~LimitTold =>
        /\ \A x \in CodexPlace :
              Len(x) \in {3, 4} /\ Untouched(x) /\ Kind(x) # "none" /\ Kind(Front(x)) = "directory" => Told(x)
        /\ codexSettings.base.kind = "valid" =>
              \A i \in CodexId : codexSettings.base.enabled[i] # "absent" => Told(i)

(* The gate is open under every profile that may be the active one.  (With  *)
(* no config.toml the code asks the gates of no profile that is named.)     *)
GateOpen(g) ==
    LET s      == codexSettings
        base   == IF s.base.kind = "valid" THEN s.base.gate[g] ELSE "on"
        may    == IF s.active # 0 THEN {s.active} ELSE DOMAIN s.profiles \ {s.itself}
        Says(p) == IF s.profiles[p].gate[g] = "unset" THEN base ELSE s.profiles[p].gate[g]
    IN  /\ \A p \in may : p \in DOMAIN s.profiles /\ s.profiles[p].valid
                            /\ (Says(p) = "on" \/ (s.base.kind = "missing" /\ s.active # 0))
        /\ s.active = 0 => base = "on"

(* Skills are offered as effective only where Codex is sure to load them:   *)
(* of a plugin with one version, not switched off by config.toml, and with  *)
(* its gates open under every profile that may be active.                   *)
CodexSure ==
    \A s \in codex.sources : s.role = "component" /\ s.status = "scanned" =>
        LET id == Front(s.at)
            c  == codexSettings.base
        IN  /\ c.kind # "invalid" /\ (c.kind = "valid" => c.enabled[id] \in {"on", "absent"})
            /\ GateOpen("plugins")
            /\ codexCache.marker[id] = "local" \/ (codexCache.marker[id] = "remote" /\ GateOpen("remote"))
            /\ codexTouched = {} =>
                  /\ {v \in Entries(id) : Kind(v) = "directory"} = {s.at}
                  /\ codexCache.bundle[s.at].parts[s.part] = "directory"

(* What the planner used of the directory budget, which the other planners  *)
(* and the walk share, is within it, and covers each place it opened.       *)
CodexWithinBudget ==
    /\ codex.visited <= codexLimits.directories
    /\ Cardinality({s \in codex.sources : s.part # 0}) <= codex.visited
    /\ Cardinality(codex.found) <= codexLimits.plugins
=============================================================================

--------------------------- MODULE InventoryCases ---------------------------
(***************************************************************************)
(* The file systems, settings and limits on which TLC runs the models of   *)
(* the inventory.  A place is the sequence of steps that lead to it.  Each *)
(* set varies one or two things and keeps the rest plain, and is a         *)
(* definition of its own, which TLC evaluates and sorts once.              *)
(***************************************************************************)
EXTENDS Naturals, Sequences, FiniteSets

-----------------------------------------------------------------------------
(* Codex: a cache of two marketplaces, four plugins and three versions.     *)

CodexPlaces == {<<0>>, <<0,1>>, <<0,2>>, <<0,1,1>>, <<0,1,2>>, <<0,2,1>>, <<0,2,2>>,
                <<0,1,1,1>>, <<0,1,1,2>>, <<0,2,1,1>>}
IllNamed == <<0,0,0>>
LOCAL Plugins == {x \in CodexPlaces : Len(x) = 3}

LOCAL CodexKind == [x \in CodexPlaces |-> IF x \in {<<0,2,2>>, <<0,1,1,2>>} THEN "none" ELSE "directory"]
LOCAL CodexOne == {[CodexKind EXCEPT ![x] = k] : k \in {"none", "other", "locked", "directory"}, x \in CodexPlaces}
LOCAL CodexTwo == UNION {{[f EXCEPT ![y] = k] : k \in {"none", "other", "locked", "directory"}, y \in CodexPlaces} : f \in CodexOne}

LOCAL Version(m, parts) == [manifest |-> m, parts |-> parts]
LOCAL Versions == {Version("good", <<"directory">>), Version("good", <<"directory", "missing">>),
                   Version("good", <<"deep", "directory">>), Version("good", <<"other">>), Version("bad", <<>>)}
LOCAL Cache(kind, b, marker) ==
    [kind |-> kind, bundle |-> [v \in {x \in CodexPlaces : Len(x) = 4} |-> b],
     marker |-> [p \in Plugins |-> IF p = <<0,1,1>> THEN marker ELSE "local"]]
LOCAL Simple(kind) == Cache(kind, Version("good", <<"directory">>), "local")

LOCAL Gate(p, r) == [g \in {"plugins", "remote"} |-> IF g = "plugins" THEN p ELSE r]
LOCAL Unset == Gate("unset", "unset")
LOCAL NoProfile == [p \in {} |-> [valid |-> TRUE, gate |-> Unset]]
LOCAL OneProfile == [{1} -> [valid : {TRUE}, gate : {Unset, Gate("off", "unset"), Gate("unset", "off"), Gate("on", "on")}]
                            \cup {[valid |-> FALSE, gate |-> Unset]}]
LOCAL TwoProfiles == {[p \in {1, 2} |-> IF p = 1 THEN q[1] ELSE [valid |-> TRUE, gate |-> Gate("off", "unset")]] : q \in OneProfile}
LOCAL SomeOn == [i \in Plugins \cup {IllNamed} |-> IF i \in {<<0,1,1>>, <<0,2,2>>} THEN "on" ELSE "absent"]
LOCAL EnabledOne ==
    {[i \in Plugins \cup {IllNamed} |-> IF i = j THEN e ELSE IF i = <<0,2,1>> THEN "on" ELSE "absent"] :
        j \in Plugins \cup {IllNamed}, e \in {"on", "off", "odd"}}
LOCAL Config(k, e, g, p, a, h, i) ==
    [base |-> [kind |-> k, enabled |-> e, gate |-> g], profiles |-> p, active |-> a, home |-> h, itself |-> i]
LOCAL PlainConfig == Config("valid", SomeOn, Gate("on", "on"), NoProfile, 0, "directory", 0)
LOCAL CodexBounds(p, d, c) == [plugins |-> p, directories |-> d, profiles |-> 1, changes |-> c]
LOCAL CodexCase(c, s, l) == [cache |-> c, settings |-> s, limits |-> l]

\* What lies in the cache, whole and cut by the limit of directories.
CodexTrees ==
    {CodexCase(Simple(k), PlainConfig, CodexBounds(4, d, 0)) : k \in CodexTwo, d \in {7, 20}}

CodexReplaced ==
    {CodexCase(Simple(k), PlainConfig, CodexBounds(4, d, 1)) : k \in CodexOne, d \in {7, 20}}

CodexVersions ==
    {CodexCase(Cache(k, b, "local"), PlainConfig, l) : k \in CodexOne, b \in Versions,
             l \in {CodexBounds(4, 20, 0), CodexBounds(2, 20, 0), CodexBounds(4, 4, 0)}}

\* What the settings and the profiles say.
CodexSettled ==
    {CodexCase(Cache(CodexKind, Version("good", <<"directory">>), m), s, CodexBounds(4, 20, 0)) :
             m \in {"local", "remote", "invalid"},
             s \in {Config(k, SomeOn, Gate(x, y), p, a, "directory", i) :
                       k \in {"valid", "missing", "invalid"}, x, y \in {"on", "off"},
                       p \in {NoProfile} \cup OneProfile \cup TwoProfiles, a \in {0, 1, 3}, i \in {0, 1}}
                   \cup {Config(k, SomeOn, Gate("on", "on"), NoProfile, a, h, 0) :
                            k \in {"valid", "missing"}, a \in {0, 1}, h \in {"missing", "other"}}}

\* What is configured against what is there, at every small limit.
CodexLimited ==
    {CodexCase(Simple(k), Config("valid", e, Gate("on", "on"), NoProfile, 0, "directory", 0), l) :
             k \in {CodexKind, [CodexKind EXCEPT ![<<0,1>>] = "none"]}, e \in EnabledOne,
             l \in {CodexBounds(1, 20, 0), CodexBounds(0, 20, 0)} \cup {CodexBounds(4, d, 0) : d \in {0, 1, 2, 3, 5, 6, 20}}}

CodexInstances == CodexTrees \cup (CodexReplaced \cup (CodexVersions \cup (CodexSettled \cup CodexLimited)))

-----------------------------------------------------------------------------
(* Claude Code: a cache of one marketplace, two plugins and two versions,   *)
(* and Skill roots 1 (with two directories) and 2 (with one).               *)

ClaudePlaces == {<<0>>, <<0,1>>, <<0,1,1>>, <<0,1,2>>, <<0,1,1,1>>, <<0,1,1,2>>, <<1>>, <<1,1>>, <<1,2>>, <<2>>, <<2,1>>}
ClaudeNames == {1, 3}
LOCAL ClaudeIds == {x \in ClaudePlaces : Len(x) = 3} \cup {<<9,1>>, <<9,3>>}
LOCAL ClaudeKind == [x \in ClaudePlaces |-> IF x = <<0,1,1,2>> THEN "none" ELSE "directory"]
LOCAL ClaudeOne == {[ClaudeKind EXCEPT ![x] = k] : k \in {"none", "other", "locked", "directory"}, x \in ClaudePlaces}
LOCAL TwoVersions == [ClaudeKind EXCEPT ![<<0,1,1,2>>] = "directory"]

LOCAL Plugin(m, n, e, d, c, s, k) ==
    [manifest |-> m, name |-> n, enabled |-> e, default |-> d, custom |-> c, skills |-> s, marker |-> k]
LOCAL Good == Plugin("good", 0, TRUE, "directory", <<>>, FALSE, "none")
LOCAL Bare == Plugin("none", 0, TRUE, "missing", <<>>, FALSE, "file")
LOCAL Renamed == Plugin("good", 3, TRUE, "missing", <<"directory", "missing">>, TRUE, "none")
LOCAL SomePlugins ==
    {Good, Bare, Renamed, Plugin("bad", 0, TRUE, "directory", <<>>, FALSE, "none"),
     Plugin("good", 0, FALSE, "missing", <<>>, FALSE, "file"), Plugin("good", 0, TRUE, "missing", <<>>, TRUE, "file"),
     Plugin("good", 0, TRUE, "directory", <<"again", "deep">>, TRUE, "file"),
     Plugin("good", 0, TRUE, "other", <<>>, FALSE, "other")}
LOCAL PlainPlugins == [x \in {x \in ClaudePlaces : Len(x) = 4 \/ (Len(x) = 2 /\ x[1] # 0)} |-> IF x = <<1,2>> THEN Bare ELSE Good]

LOCAL Settings(k, e) == [kind |-> k, entries |-> e]
LOCAL Silent == [i \in ClaudeIds |-> "absent"]
LOCAL EveryOn == [i \in ClaudeIds |-> "on"]
LOCAL Scopes(l, p, u) == [local |-> l, project |-> p, user |-> u]
LOCAL SomeScopes ==
    {Scopes(l, p, u) : l \in {Settings("valid", Silent), Settings("missing", Silent)},
        p \in {Settings("invalid", Silent), Settings("valid", Silent)}
              \cup {Settings("valid", [Silent EXCEPT ![i] = w]) : i \in ClaudeIds, w \in {"off", "odd"}},
        u \in {Settings("valid", EveryOn), Settings("valid", Silent), Settings("unreadable", Silent)}}
LOCAL PlainScopes == Scopes(Settings("valid", Silent), Settings("missing", Silent),
                            Settings("valid", [EveryOn EXCEPT ![<<0,1,2>>] = "off"]))
LOCAL ActiveFile(k, v) == [kind |-> k, installed |-> v]
LOCAL Active1 == ActiveFile("valid", {<<0,1,1,1>>})
LOCAL SomeActive == {ActiveFile("valid", v) : v \in SUBSET {<<0,1,1,1>>, <<0,1,1,2>>}}
                    \cup {ActiveFile(k, {}) : k \in {"invalid", "missing"}}
LOCAL Roots(p, a, n) == [r \in {"user", "project", "ancestor", "nested"} |->
    CASE r = "user" -> <<1>> [] r = "project" -> <<p>> [] r = "ancestor" -> <<a>> [] OTHER -> <<n>>]
LOCAL ClaudeHome(s, a, r) == [settings |-> s, active |-> a, root |-> r]
LOCAL PlainHome == ClaudeHome(PlainScopes, ActiveFile("valid", {}), Roots(2, 2, 2))
LOCAL ClaudeBounds(p, d, w, c) == [plugins |-> p, directories |-> d, workspace |-> w, changes |-> c]
LOCAL ClaudeCase(k, b, h, l) == [tree |-> [kind |-> k, bundle |-> b], home |-> h, limits |-> l]

ClaudeTrees ==
    {ClaudeCase(k, [PlainPlugins EXCEPT ![x] = b], PlainHome, ClaudeBounds(9, 30, 1, 0)) :
        k \in ClaudeOne, x \in {<<0,1,1,1>>, <<1,1>>}, b \in SomePlugins}

ClaudeReplaced ==
    {ClaudeCase(k, PlainPlugins, h, ClaudeBounds(9, 30, 1, 1)) : k \in {ClaudeKind, TwoVersions},
             h \in {PlainHome, ClaudeHome(PlainScopes, Active1, Roots(1, 2, 2))}}

\* What the scopes of the settings say, and which versions are installed.
ClaudeSettled ==
    {ClaudeCase(k, PlainPlugins, ClaudeHome(s, a, Roots(1, 2, 2)), ClaudeBounds(9, 30, 1, 0)) :
             k \in {ClaudeKind, TwoVersions}, s \in SomeScopes, a \in {ActiveFile("valid", {}), Active1}}

\* Roots that are one directory, or not.
ClaudeRooted ==
    {ClaudeCase(k, PlainPlugins, ClaudeHome(PlainScopes, a, Roots(x, y, z)), ClaudeBounds(9, 30, 1, 0)) :
             k \in {ClaudeKind, TwoVersions}, a \in SomeActive, x, y, z \in {1, 2}}

\* Every small limit.
ClaudeLimited ==
    {ClaudeCase(k, b, PlainHome, ClaudeBounds(p, d, w, 0)) : k \in {ClaudeKind, TwoVersions},
             b \in {PlainPlugins, [PlainPlugins EXCEPT ![<<1,1>>] = Renamed]},
             p \in {0, 1, 2, 3, 9}, d \in 0 .. 16, w \in {0, 1, 4}}

ClaudeInstances == ClaudeTrees \cup (ClaudeReplaced \cup (ClaudeSettled \cup (ClaudeRooted \cup ClaudeLimited)))

-----------------------------------------------------------------------------
(* GitHub Copilot: a cache of two containers and three plugins, one of them *)
(* a link, and Skill roots 1 and 2.                                         *)

CopilotPlaces == {<<0>>, <<0,1>>, <<0,2>>, <<0,1,1>>, <<0,1,2>>, <<0,2,1>>, <<1>>, <<2>>}
CopilotIllNamed == {<<9,1>>}
LOCAL CopilotIds == {x \in CopilotPlaces : Len(x) = 3} \cup CopilotIllNamed
LOCAL CopilotKind == [x \in CopilotPlaces |-> IF x = <<0,2,1>> THEN "link" ELSE "directory"]
LOCAL CopilotOne == {[CopilotKind EXCEPT ![x] = k] : k \in {"none", "other", "locked", "directory", "link"}, x \in CopilotPlaces}

LOCAL Bundle(m, p) == [manifest |-> m, parts |-> p]
LOCAL PlainBundles == [x \in CopilotPlaces |-> Bundle("good", <<"directory">>)]
LOCAL WithBundle(b) == [PlainBundles EXCEPT ![<<0,1,1>>] = b]
LOCAL SomeBundles ==
    {Bundle("good", <<"directory">>), Bundle("none", <<>>), Bundle("bad", <<>>), Bundle("good", <<>>),
     Bundle("good", <<"directory", "again", "missing">>), Bundle("good", <<"deep", "other">>)}
LOCAL CopilotTrees(k, b, to) ==
    [kind |-> k, bundle |-> b,
     link |-> [x \in CopilotPlaces |-> IF x = <<0,2,1>> THEN to ELSE IF Len(x) = 3 THEN <<1>> ELSE <<>>]]

LOCAL File(k, e) == [kind |-> k, entries |-> e]
LOCAL Blank == [i \in CopilotIds |-> "absent"]
LOCAL Missing == File("missing", Blank)
LOCAL Says(i, w) == File("valid", [Blank EXCEPT ![i] = w])
LOCAL First == <<0,1,1>>
LOCAL Files(u, p, sp, sl) == [user |-> u, project |-> p, sharedProject |-> sp, local |-> Missing, sharedLocal |-> sl]
LOCAL SomeFiles ==
    {Missing, File("valid", Blank), Says(First, "on"), Says(First, "off"), File("unreadable", Blank),
     File("invalid", [Blank EXCEPT ![First] = "odd"]), File("truncated", [Blank EXCEPT ![First] = "on"])}
LOCAL SomeManaged ==
    {Missing, File("invalid", [Blank EXCEPT ![First] = "on"]), Says(First, "on"), Says(First, "off"), File("truncated", Blank)}
LOCAL PlainFiles == Files(File("valid", [i \in CopilotIds |-> "on"]), Missing, Missing, Missing)

LOCAL Env(k, r) == [kind |-> k, roots |-> r]
LOCAL Home(s, m, d, e, u) == [settings |-> s, managed |-> m, direct |-> d, env |-> e, userRoots |-> u]
LOCAL PlainCopilot == Home(PlainFiles, Says(<<0,2,1>>, "on"), <<1>>, Env("valid", {}), {2})
LOCAL CopilotBounds(p, d, u, c) == [plugins |-> p, directories |-> d, custom |-> u, changes |-> c]
LOCAL CopilotCase(t, h, l) == [tree |-> t, home |-> h, limits |-> l]

CopilotPlaced ==
    {CopilotCase(CopilotTrees(k, WithBundle(b), to), PlainCopilot, CopilotBounds(9, 30, 9, 0)) :
        k \in CopilotOne, b \in SomeBundles, to \in {First, <<0,1>>, <<1>>, <<>>}}

CopilotReplaced ==
    {CopilotCase(CopilotTrees(CopilotKind, WithBundle(b), to), PlainCopilot, CopilotBounds(9, 30, 9, 1)) :
             b \in {Bundle("good", <<"directory">>), Bundle("good", <<"directory", "again", "missing">>)}, to \in {First, <<1>>}}

\* What the tiers of the settings and the managed state say.
CopilotSettled ==
    {CopilotCase(CopilotTrees(CopilotKind, PlainBundles, First),
                      Home(Files(u, p, sp, sl), m, <<1>>, Env("valid", {}), {2}), CopilotBounds(9, 30, 9, 0)) :
             u, p, sp \in SomeFiles, sl \in {Missing, Says(First, "on")}, m \in SomeManaged}

\* Every small limit.
CopilotLimited ==
    {CopilotCase(CopilotTrees(CopilotKind, WithBundle(b), First), PlainCopilot, CopilotBounds(p, d, 9, 0)) :
             b \in {Bundle("good", <<"directory">>), Bundle("good", <<"directory", "other">>)}, p \in {0, 1, 2, 3, 9}, d \in 0 .. 12}

CopilotCustom ==
    {CopilotCase(CopilotTrees(CopilotKind, PlainBundles, First),
                      Home(PlainFiles, Missing, <<1, 2>>, Env(k, r), u), CopilotBounds(9, 30, n, 0)) :
             k \in {"valid", "invalid", "truncated"}, r, u \in SUBSET {1, 2}, n \in 0 .. 3}

CopilotInstances == CopilotPlaced \cup (CopilotReplaced \cup (CopilotSettled \cup (CopilotLimited \cup CopilotCustom)))

-----------------------------------------------------------------------------
(* The scan: a Skill root 1 that holds a Skill, a link and a directory, and *)
(* a plugin 2 whose root holds a Skill and a link.                          *)

ScanPlaces == {<<1>>, <<1,1>>, <<1,2>>, <<1,3>>, <<2>>, <<2,1>>, <<2,1,1>>, <<2,1,2>>}
LOCAL ScanKind == [x \in ScanPlaces |-> IF x \in {<<1,2>>, <<2,1,2>>} THEN "link" ELSE "directory"]
LOCAL ScanOne == {[ScanKind EXCEPT ![x] = k] : x \in ScanPlaces, k \in {"none", "other", "locked", "link", "directory"}}
LOCAL Marked == [x \in ScanPlaces |-> IF x \in {<<1,1>>, <<2,1,1>>} THEN "file" ELSE "none"]
LOCAL ThirdMarked == [Marked EXCEPT ![<<1,3>>] = "file"]
LOCAL ScanTree(k, to, to2, m, bad) ==
    [kind |-> k, marker |-> m, malformed |-> bad,
     link |-> [x \in ScanPlaces |-> IF x = <<1,2>> THEN to ELSE IF x = <<2,1,2>> THEN to2 ELSE <<1>>]]

LOCAL ScanBounds(p, d, k) == [depth |-> p, directories |-> d, skills |-> k]
LOCAL Ample == ScanBounds(3, 20, 9)
LOCAL Trust(r, p) == [root |-> r, place |-> p]
LOCAL Untrusted == [root |-> <<>>, place |-> <<>>]
LOCAL From(at, trust, policy, layout, status, inspect) ==
    [at |-> at, trust |-> trust, policy |-> policy, layout |-> layout, status |-> status,
     inspect |-> inspect, excluded |-> {}, bounds |-> Ample]
LOCAL CopilotRoot(status) == From(<<1>>, Trust(<<1>>, <<1>>), "none", "children", status, FALSE)
LOCAL ClaudeRootSource == From(<<1>>, Trust(<<1>>, <<1>>), "external", "children", "scanned", FALSE)
LOCAL CodexRoot == From(<<1>>, Trust(<<1>>, <<1>>), "default", "children", "scanned", FALSE)
LOCAL Convention == From(<<1>>, Untrusted, "default", "children", "scanned", FALSE)
LOCAL PluginRoot(status) == From(<<2,1>>, Trust(<<2>>, <<2,1>>), "contained", "children", status, status # "scanned")
LOCAL PluginItself == From(<<2,1,1>>, Trust(<<2>>, <<2,1,1>>), "contained", "self", "scanned", FALSE)
LOCAL LinkedRoot == From(<<1,2>>, Trust(<<2,1>>, <<2,1>>), "external", "children", "scanned", FALSE)
LOCAL SomeSources ==
    {CopilotRoot("scanned"), CopilotRoot("invalid"), ClaudeRootSource, [ClaudeRootSource EXCEPT !.excluded = {<<1,1>>}],
     Convention, [Convention EXCEPT !.bounds.depth = 0], CodexRoot, PluginRoot("scanned"), PluginRoot("disabled"),
     PluginItself, From(<<2,1,1>>, Untrusted, "default", "self", "scanned", FALSE),
     LinkedRoot, From(<<1,2>>, Untrusted, "default", "children", "scanned", FALSE)}
LOCAL ScanCase(t, sources, b, c, legacy) ==
    [tree |-> t, plan |-> [sources |-> sources, bounds |-> b, changes |-> c, legacy |-> legacy]]

ScanTrees ==
    {ScanCase(ScanTree(k, to, to2, Marked, {}), <<s>>, Ample, 0, FALSE) :
        k \in ScanOne, to \in {<<2,1,1>>, <<2,1>>, <<>>}, to2 \in {<<1,1>>, <<2,1,1>>}, s \in SomeSources}

ScanLegacy ==
    {ScanCase(ScanTree(k, <<1,3>>, <<2,1,1>>, Marked, {}), <<s>>, Ample, 0, TRUE) : k \in ScanOne, s \in SomeSources}

\* Two sources: what both may read, what is malformed, odd SKILL.md.
ScanShared ==
    {ScanCase(ScanTree(ScanKind, <<2,1,1>>, to2, m, bad), <<s, t>>, Ample, 0, FALSE) :
             to2 \in {<<1,1>>, <<2,1,1>>}, s, t \in SomeSources, bad \in SUBSET {<<1,1>>},
             m \in {ThirdMarked, [Marked EXCEPT ![<<1,3>>] = "link"], [Marked EXCEPT ![<<1,1>>] = "link"]}}

\* Every small limit, shared by two sources.
ScanLimited ==
    {ScanCase(ScanTree(ScanKind, <<2,1,1>>, <<1,1>>, ThirdMarked, {}), <<s, t>>, ScanBounds(3, d, k), 0, FALSE) :
             s \in {ClaudeRootSource, Convention}, t \in {ClaudeRootSource, PluginRoot("scanned"), PluginRoot("disabled"), PluginItself},
             d \in 0 .. 8, k \in 0 .. 3}

\* Directories are replaced while the plan is scanned.
ScanReplaced ==
    {ScanCase(ScanTree(ScanKind, <<2,1>>, to2, Marked, {}), <<s>>, Ample, 1, FALSE) : to2 \in {<<1,1>>, <<2,1,1>>},
             s \in {CopilotRoot("scanned"), ClaudeRootSource, Convention, CodexRoot, PluginRoot("scanned"),
                    PluginRoot("disabled"), PluginItself, LinkedRoot}}

ScanSwapped ==
    {ScanCase(ScanTree(ScanKind, <<2,1,1>>, <<1,1>>, Marked, {}), <<ClaudeRootSource, PluginRoot("scanned")>>, Ample, 1, FALSE)}

ScanInstances == ScanTrees \cup (ScanLegacy \cup (ScanShared \cup (ScanLimited \cup (ScanReplaced \cup ScanSwapped))))

-----------------------------------------------------------------------------
(* Exposures: up to three Skills of one name, from up to three sources.     *)

LOCAL Saw(h, o, q, sc, k, r, st) ==
    [harness |-> h, owner |-> o, qualifier |-> q, scope |-> sc, kind |-> k, rank |-> r, status |-> st]
LOCAL AnySource ==
    {Saw(h, 0, q, sc, "root", r, "scanned") : h \in {"claude", "copilot"}, q \in {0, 1}, sc \in {"global", "project"}, r \in {1, 2}}
    \cup {Saw(h, 1, q, "global", "plugin", 2, st) : h \in {"claude", "copilot"}, q \in {0, 5}, st \in {"scanned", "disabled", "invalid"}}
    \cup {Saw("codex", 0, 0, "global", "root", 1, st) : st \in {"scanned", "truncated"}}
    \cup {Saw("other", 0, 0, "global", "convention", 9, "scanned"), Saw("claude", 0, 0, "global", "root", 1, "ambiguous"),
          Saw("copilot", 0, 0, "global", "root", 1, "stale")}
LOCAL FewSources ==
    {Saw("claude", 0, 0, "project", "root", 1, "scanned"), Saw("copilot", 0, 0, "global", "root", 2, "scanned"),
     Saw("claude", 1, 5, "global", "plugin", 2, "scanned"), Saw("copilot", 2, 0, "global", "plugin", 3, "scanned"),
     Saw("copilot", 2, 0, "global", "plugin", 3, "disabled")}
LOCAL At(p, n, s) == [path |-> p, name |-> n, sources |-> s]
LOCAL SomeFound ==
    {{At(1, 1, {1}), At(2, 1, {2})}, {At(1, 1, {1, 3}), At(2, 1, {2})}, {At(1, 1, {1}), At(2, 1, {2}), At(3, 1, {3})},
     {At(1, 1, {1, 2, 3})}, {At(1, 1, {1, 2}), At(2, 2, {3})}}
LOCAL Disabled(st, n) == [status |-> st, names |-> n]

ExposedSkills ==
    {[sources |-> <<a, b, c>>, found |-> f, disabled |-> Disabled("known", {})] :
        a, b \in AnySource, c \in FewSources, f \in SomeFound}

ExposedDisabled ==
    {[sources |-> <<a, b, c>>, found |-> f, disabled |-> d] : a, b, c \in FewSources, f \in SomeFound,
             d \in {Disabled("known", {1}), Disabled("ambiguous", {})}}

ExposureInstances == ExposedSkills \cup ExposedDisabled

-----------------------------------------------------------------------------
(* The search of a workspace for nested Claude Code Skill roots.            *)

Folders == {<<0>>, <<0,1>>, <<0,2>>, <<0,1,1>>, <<0,1,2>>, <<0,2,1>>}
LOCAL AllFolders == [x \in Folders |-> "directory"]
LOCAL AllSkills == [x \in Folders |-> "skills"]
LOCAL NoSkill == [x \in Folders |-> FALSE]
LOCAL Workspace(k, c, s, i) == [kind |-> k, claude |-> c, skill |-> s, ignored |-> i]
LOCAL SearchBounds(p, d, c) == [depth |-> p, directories |-> d, changes |-> c]

SearchTrees ==
    {[folders |-> Workspace([AllFolders EXCEPT ![x] = k], [AllSkills EXCEPT ![y] = c], [NoSkill EXCEPT ![z] = b], i),
      limits  |-> SearchBounds(9, 9, 0)] :
        x \in Folders, k \in {"none", "other", "locked"}, y \in {<<0>>, <<0,1>>}, c \in {"none", "refused", "skills"},
        z \in {<<0,2>>, <<0,1,1>>}, b \in BOOLEAN, i \in SUBSET {<<0,1>>}}

SearchLimited ==
    {[folders |-> Workspace(AllFolders, AllSkills, NoSkill, {}), limits |-> SearchBounds(p, d, c)] :
             p \in 0 .. 3, d \in 0 .. 7, c \in 0 .. 1}

SearchInstances == SearchTrees \cup SearchLimited

-----------------------------------------------------------------------------
(* The build of a plan: a root with what may overlap it, and small limits.  *)

BuildPaths == {<<>>, <<1>>, <<1,1>>, <<1,1,1>>, <<1,1,2>>, <<1,2>>, <<2>>}
BuildIds == {<<"a">>, <<"b">>, <<"c">>, <<"d">>}
BuildHarnesses == {"codex", "claude", "copilot", "other"}
LOCAL Direct(i, sc, x, out, h) ==
    [id |-> <<i>>, ownership |-> "direct", kind |-> "root", scope |-> sc, at |-> x, scanned |-> TRUE,
     plugin |-> 0, excluded |-> out, visible |-> {h}]
LOCAL OfPlugin(i, x, n) ==
    [Direct(i, "global", x, {}, "codex") EXCEPT !.ownership = "native-plugin", !.kind = "other", !.plugin = n]
LOCAL Planned(x, y, z) == [h \in {"codex", "claude", "copilot"} |-> IF h = "codex" THEN x ELSE IF h = "claude" THEN y ELSE z]
LOCAL MayUse(p, d) == [plugins |-> p, directories |-> d]
LOCAL Catalogued == {[scope |-> "global", at |-> <<1>>, visible |-> {"codex", "other"}],
                     [scope |-> "project", at |-> <<1,1>>, visible |-> {"other"}]}

\* Roots and what is left out of them, where they overlap.
BuildOverlaps ==
    {[limits |-> MayUse(3, 0), requests |-> [h \in {"codex", "claude", "copilot"} |-> MayUse(3, 0)],
      planned |-> Planned(<<OfPlugin("a", x, 1), OfPlugin("b", y, 2)>>, <<Direct("c", "global", <<1>>, out, "claude")>>,
                          <<Direct("d", sc, r, {}, "copilot"), OfPlugin("a", <<2>>, 3)>>),
      catalog |-> c] :
        x \in BuildPaths, y \in {<<1,1,2>>, <<2>>}, out \in {{}, {<<1,1>>, <<1,1,2>>}, {<<1,2>>}, {<<>>}},
        sc \in {"global", "project"}, r \in {<<1>>, <<1,1>>, <<>>}, c \in {{}, Catalogued}}

\* Limits, and planners that ask for less.
BuildLimited ==
    {[limits |-> MayUse(p, d), requests |-> Planned(MayUse(i, j), MayUse(3, 4), MayUse(3, k)),
           planned |-> Planned(<<OfPlugin("a", <<1,1>>, 1), OfPlugin("b", <<1,2>>, 1), OfPlugin("c", <<1>>, 2)>>,
                               <<OfPlugin("a", <<1,1>>, 3), OfPlugin("b", <<1,2>>, 2)>>, <<OfPlugin("d", <<2>>, 4)>>),
           catalog |-> {}] : p \in 0 .. 3, d \in 0 .. 3, i \in {1, 3}, j \in {1, 4}, k \in {1, 4}}

BuildInstances == BuildOverlaps \cup BuildLimited
=============================================================================

--------------------------- MODULE InventoryBuild ---------------------------
(***************************************************************************)
(* The plan of an inventory, packages/engine/src/inventory/plan.ts: the    *)
(* three planners run one after the other and share what is left of the    *)
(* limits, the roots every other Harness reads by convention are added,    *)
(* one source is kept of each id; and from the plan, the Skill roots in    *)
(* which a governance action may touch a Skill.                            *)
(*                                                                         *)
(* A planner is any that keeps within the limits it is given, which the    *)
(* modules of the three check (CodexWithinBudget and its like).            *)
(***************************************************************************)
EXTENDS Naturals, FiniteSets, Sequences

CONSTANTS BuildPath,     \* absolute paths, the root of the file system being <<>>
          BuildHarness,  \* the Harnesses
          BuildPlugin,   \* the identities of plugins
          BuildId,       \* the ids the planners give their sources
          BuildCases     \* limits, planned sources of each planner and Skill roots of the catalog

Planners == {"codex", "claude", "copilot"}

(* Where a source is, who owns it, and what it leaves out.  "root" stands    *)
(* for the three kinds of source that are Skill roots of a Harness.          *)
PlanSource ==
    [id : BuildId \cup (BuildHarness \X {"global", "project"} \X BuildPath), ownership : {"direct", "native-plugin"}, kind : {"root", "other"},
     scope : {"global", "project"}, at : BuildPath, scanned : BOOLEAN,
     plugin : BuildPlugin \cup {0}, excluded : SUBSET BuildPath, visible : SUBSET BuildHarness]

BuildLimits == [plugins : Nat, directories : Nat]
CatalogRoot == [scope : {"global", "project"}, at : BuildPath, visible : SUBSET BuildHarness]

ASSUME BuildPathAssumption == BuildPath \subseteq Seq(Nat)
ASSUME BuildCasesAssumption ==
    BuildCases \subseteq [limits   : BuildLimits,
                          requests : [Planners -> BuildLimits],
                          planned  : [Planners -> Seq(PlanSource)],
                          catalog  : SUBSET CatalogRoot]

VARIABLES buildCase,        \* what the build was asked for and what there is to plan
          buildStep,        \* the planner to run next, then "rest" and "built"
          restPlugins,      \* remainingPlugins
          restDirectories,  \* remainingDirectories
          visited,          \* how many directories the planners read, for the properties
          gathered,         \* sources of the planners
          built             \* the sources of the plan

buildVars == <<buildCase, buildStep, restPlugins, restDirectories, visited, gathered, built>>

AtMost(n, m) == IF n <= m THEN n ELSE m
Left(n, m) == IF m <= n THEN n - m ELSE 0

(* countPluginIdentities                                                    *)
PluginsOf(sources) == {sources[k].plugin : k \in {j \in DOMAIN sources : sources[j].ownership = "native-plugin"}}

(* Mutant: what a planner was asked to keep within, when it asked for less. *)
RequestedLimit(requested, remaining) == requested

(* adapterLimit: a request that was not made is the limit of the build.      *)
AdapterLimit(requested, remaining) == AtMost(requested, remaining)

(* Mutant: a later planner starts with the limit the earlier one had.        *)
ResidualForgotten(bound, previous) == previous

(* residualDirectories: the bound a planner leaves is its limit less what it *)
(* read.                                                                    *)
ResidualDirectories(bound, previous) == AtMost(previous, bound)

BuildInit ==
    /\ buildCase \in BuildCases
    /\ buildStep = "codex"
    /\ restPlugins = buildCase.limits.plugins
    /\ restDirectories = buildCase.limits.directories
    /\ visited = 0
    /\ gathered = <<>>
    /\ built = {}

(* A planner tells of a beginning of what there is, with no more plugins and *)
(* after reading no more directories than it may.  What the last leaves of  *)
(* the plugins is not computed: nobody asks for it.                          *)
Plan(p, then) ==
    /\ buildStep = p
    /\ \E n \in 0 .. Len(buildCase.planned[p]),
          read \in 0 .. AdapterLimit(buildCase.requests[p].directories, restDirectories) :
          LET told  == SubSeq(buildCase.planned[p], 1, n)
              count == Cardinality(PluginsOf(told))
              limit == AdapterLimit(buildCase.requests[p].directories, restDirectories)
          IN  /\ count <= AdapterLimit(buildCase.requests[p].plugins, restPlugins)
              /\ gathered' = gathered \o told
              /\ restPlugins' = IF p = "copilot" THEN restPlugins ELSE Left(restPlugins, count)
              /\ restDirectories' = ResidualDirectories(limit - read, restDirectories)
              /\ visited' = visited + read
    /\ buildStep' = then
    /\ UNCHANGED <<buildCase, built>>

(* conventionSource for every Harness the catalog names with a root, the     *)
(* three that have a planner left out; and one source of each id, the first *)
(* there is.                                                                *)
ConventionSource(root, harness) ==
    [id |-> <<harness, root.scope, root.at>>, ownership |-> "direct", kind |-> "root",
     scope |-> root.scope, at |-> root.at, scanned |-> TRUE,
     plugin |-> 0, excluded |-> {}, visible |-> {harness}]
Conventions ==
    UNION {{ConventionSource(root, h) : h \in root.visible \ Planners} : root \in buildCase.catalog}
FirstOfEachId(sources) ==
    {sources[k] : k \in {j \in DOMAIN sources : \A i \in 1 .. j - 1 : sources[i].id # sources[j].id}}

Complete ==
    /\ buildStep = "rest"
    /\ built' = FirstOfEachId(gathered) \cup
                {s \in Conventions : \A k \in DOMAIN gathered : gathered[k].id # s.id}
    /\ buildStep' = "built"
    /\ UNCHANGED <<buildCase, restPlugins, restDirectories, visited, gathered>>

BuildNext == Plan("codex", "claude") \/ Plan("claude", "copilot") \/ Plan("copilot", "rest") \/ Complete
BuildSpec == BuildInit /\ [][BuildNext]_buildVars

-----------------------------------------------------------------------------
(* classifyPathRelation.  Nothing is below the root of the file system: the *)
(* code looks for it with a second separator, "//".                         *)
Below(x, root) ==
    root # <<>> /\ Len(root) < Len(x) /\ \A k \in 1 .. Len(root) : x[k] = root[k]
Disjoint(x, y) == x # y /\ ~Below(x, y) /\ ~Below(y, x)

(* Mutant: what has nothing below it.                                       *)
Innermost(paths) == {x \in paths : \A y \in paths : ~Below(y, x)}

(* minimalExcludedPaths: what is not below another.                         *)
Minimal(paths) == {x \in paths : \A y \in paths : ~Below(x, y)}

DirectRoots(sources) == {s \in sources : s.scanned /\ s.ownership = "direct" /\ s.kind = "root"}
OfRoot(sources, root) == {s \in DirectRoots(sources) : s.scope = root.scope /\ s.at = root.at}
Native(sources) == {s.at : s \in {t \in sources : t.ownership = "native-plugin"}}

(* activeMutableRoots: the direct roots that are scanned, one of each scope *)
(* and path, visible to every Harness that reads it, without the plugins    *)
(* and other exclusions inside; a root within an exclusion is left out.     *)
MutableRoot(sources, root) ==
    LET mine == OfRoot(sources, root)
        out  == (UNION {s.excluded : s \in mine}) \cup Native(sources)
    IN  [scope    |-> root.scope, at |-> root.at,
         visible  |-> UNION {s.visible : s \in mine},
         denied   |-> \E x \in out : x = root.at \/ Below(root.at, x),
         excluded |-> Minimal({x \in out : Below(x, root.at)})]
MutableRoots(sources) == {r \in {MutableRoot(sources, s) : s \in DirectRoots(sources)} : ~r.denied}

(* Mutant: only what is inside an exclusion is refused, not what holds one.  *)
AuthorizesAround(root, x) == Below(x, root.at) /\ \A y \in root.excluded : x # y /\ ~Below(x, y)

(* mutableRootAuthorizes                                                    *)
Authorizes(root, x) == Below(x, root.at) /\ \A y \in root.excluded : Disjoint(y, x)

-----------------------------------------------------------------------------
(* However a build shares its limits among the planners, they read no more  *)
(* directories than the build may, what is left for the scan included, and  *)
(* tell of no more plugins.                                                 *)
BuildWithinBudget ==
    /\ visited + restDirectories <= buildCase.limits.directories
    /\ Cardinality(PluginsOf(gathered)) <= buildCase.limits.plugins

(* Where a governance action may touch a Skill there is a scanned direct    *)
(* root above it, and neither a plugin's directory nor anything the root    *)
(* leaves out is at, above or below it.                                     *)
MutableApart ==
    buildStep = "built" =>
        \A root \in MutableRoots(built), x \in BuildPath :
            Authorizes(root, x) =>
                /\ \E s \in DirectRoots(built) : s.at = root.at /\ s.scope = root.scope /\ Below(x, s.at)
                /\ \A y \in Native(built) : Disjoint(y, x)
                /\ \A s \in OfRoot(built, root) : \A y \in s.excluded : Disjoint(y, x)
=============================================================================

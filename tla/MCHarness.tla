------------------------------ MODULE MCHarness ------------------------------
(***************************************************************************)
(* Small instances of the parts that deal with one Harness or with all: the*)
(* life of the integrations and the inventory of Skills.  They share no    *)
(* state and each is checked on its own: a behaviour is one of the part    *)
(* chosen first, while the others rest.                                    *)
(***************************************************************************)
EXTENDS HarnessLifecycle, CodexInventory, ClaudeInventory, CopilotInventory,
        InventoryScan, SkillExposure, WorkspaceSearch, SecureRead, InventoryBuild,
        InventoryCases, TLC

VARIABLE part

parts == <<vars, codexVars, claudeVars, copilotVars, scanVars, exposureVars, searchVars, metadataVars, buildVars, part>>

(* The part at work starts as it does by itself.  A resting one has no      *)
(* state; the integrations rest as before the first of them.                *)
MCInit ==
    /\ part \in {"integrations", "codex", "claude", "copilot", "scan", "exposure", "search", "metadata", "build"}
    /\ Init
    /\ part # "integrations" =>
          (\A h \in Harness : config[h] = Nothing) /\ source = CHOOSE v \in Packaged : TRUE
    /\ IF part = "codex" THEN CodexInit
       ELSE codexCache = 0 /\ codexSettings = 0 /\ codexLimits = 0 /\ codexTouched = 0 /\ codex = 0
    /\ IF part = "claude" THEN ClaudeInit
       ELSE claudeTree = 0 /\ claudeHome = 0 /\ claudeLimits = 0 /\ claudeChanged = 0 /\ claude = 0
    /\ IF part = "copilot" THEN CopilotInit
       ELSE copilotTree = 0 /\ copilotHome = 0 /\ copilotLimits = 0 /\ copilotChanged = 0 /\ copilot = 0
    /\ IF part = "scan" THEN ScanInit ELSE scanTree = 0 /\ scanPlan = 0 /\ scanChanged = 0 /\ scan = 0
    /\ IF part = "exposure" THEN ExposureInit ELSE inventory = 0 /\ exposure = 0
    /\ IF part = "search" THEN SearchInit ELSE folders = 0 /\ searchLimits = 0 /\ folderChanged = 0 /\ search = 0
    /\ IF part = "build" THEN BuildInit
       ELSE /\ buildCase = 0 /\ buildStep = 0 /\ restPlugins = 0 /\ restDirectories = 0
            /\ visited = 0 /\ gathered = 0 /\ built = 0
    /\ IF part = "metadata" THEN MetadataInit ELSE metadataPath = 0 /\ metadataSize = 0 /\ metadataReader = 0

MCNext ==
    /\ UNCHANGED part
    /\ part # "integrations" => UNCHANGED vars
    /\ part # "codex" => UNCHANGED codexVars
    /\ part # "claude" => UNCHANGED claudeVars
    /\ part # "copilot" => UNCHANGED copilotVars
    /\ part # "scan" => UNCHANGED scanVars
    /\ part # "exposure" => UNCHANGED exposureVars
    /\ part # "search" => UNCHANGED searchVars
    /\ part # "metadata" => UNCHANGED metadataVars
    /\ part # "build" => UNCHANGED buildVars
    /\ \/ part = "integrations" /\ Next
       \/ part = "codex" /\ CodexNext
       \/ part = "claude" /\ ClaudeNext
       \/ part = "copilot" /\ CopilotNext
       \/ part = "scan" /\ ScanNext
       \/ part = "exposure" /\ ExposureNext
       \/ part = "search" /\ SearchNext
       \/ part = "metadata" /\ MetadataNext
       \/ part = "build" /\ BuildNext

MCSpec == MCInit /\ [][MCNext]_parts

(* An inventory that does not say it is partial tells of all that was there *)
(* from first to last: each planner of its places and settings, the scan of *)
(* the Skills it may open, the search of the Skill roots it may open.  (The *)
(* directory of a Skill that may not be entered is passed over in silence,  *)
(* and so are the Skills below a .claude that may not be.)                  *)
AccountedFor ==
    /\ part = "codex" => CodexAccounted
    /\ part = "claude" => ClaudeAccounted
    /\ part = "copilot" => CopilotAccounted
    /\ part = "scan" => ScanAccounted
    /\ part = "search" => SearchAccounted

(* Nothing is taken as active, or as a source of Skills, on less than what  *)
(* the settings, the profiles and the places prove; and of one name no two  *)
(* Skills are taken to be in effect for one Harness.                        *)
NothingGuessed ==
    /\ part = "codex" => CodexSure
    /\ part = "claude" => ClaudeSure
    /\ part = "copilot" => CopilotSure
    /\ part = "scan" => ScanSure
    /\ part = "exposure" => ExposureSure /\ OneWinner

(* However the limits are shared among what is read, none is exceeded.      *)
WithinBudgets ==
    /\ part = "codex" => CodexWithinBudget
    /\ part = "claude" => ClaudeWithinBudget
    /\ part = "copilot" => CopilotWithinBudget
    /\ part = "scan" => ScanWithinBudget
    /\ part = "search" => SearchWithinBudget
    /\ part = "build" => BuildWithinBudget

(* Nothing is read, or may be changed, where the proof of its place does    *)
(* not reach: no Claude Code plugin a second time as a direct Skill, no     *)
(* Skill outside what the plan proved, no metadata file but whole, no Skill *)
(* of a plugin by a governance action.                                      *)
TrustKept ==
    /\ part = "claude" => PluginsApart
    /\ part = "scan" => ReadWhereProven
    /\ part = "metadata" => WholeFile
    /\ part = "build" => MutableApart

Interchangeable == Permutations(Merged) \cup Permutations(Packaged)
=============================================================================

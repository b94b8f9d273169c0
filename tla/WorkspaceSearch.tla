--------------------------- MODULE WorkspaceSearch ---------------------------
(***************************************************************************)
(* Looking for the Skill roots of Claude Code below the workspace:         *)
(* packages/engine/src/inventory/workspace.ts.  A breadth-first search     *)
(* with a queue that is bounded together with what was visited; what was   *)
(* queued is looked at again when its turn comes.                          *)
(***************************************************************************)
EXTENDS InventoryPlans

CONSTANTS
    Folder,          \* directories of the workspace, <<0>> its root
    SearchCases      \* bound: the workspaces and limits considered, and the
                     \* number of changes made during the search

VARIABLES
    folders,         \* kind of each folder, its .claude (one that may not be
                     \* entered counts as none), its SKILL.md, ignored
    searchLimits,    \* depth, directories, changes
    folderChanged,   \* history: how often each folder was replaced
    search           \* the search: queue, what is left to queue, what it found

searchVars == <<folders, searchLimits, folderChanged, search>>
SearchStays == UNCHANGED <<folders, searchLimits, folderChanged>>

FolderAt(x) == KindIn(folders.kind, x)
PhysicalFolder(x) == FolderAt(x) \in {"directory", "locked"}
Depth(x) == Len(x) - 1

SearchInit ==
    /\ \E case \in SearchCases : folders = case.folders /\ searchLimits = case.limits
    /\ folderChanged = [x \in Folder |-> 0]
    /\ search = [step |-> "start", queue |-> <<>>, children |-> <<>>, visited |-> 0,
                 cut |-> FALSE, found |-> {}]

StartSearch ==
    /\ search.step = "start"
    /\ search' = IF searchLimits.directories = 0 THEN [search EXCEPT !.step = "done", !.cut = TRUE]
                 ELSE IF ~PhysicalFolder(<<0>>) THEN [search EXCEPT !.step = "done"]
                 ELSE [search EXCEPT !.step = "visit", !.queue = <<<<0>>>>]
    /\ SearchStays

(* What a folder may still add to the queue.  Mutant: what is queued already*)
(* is not counted.                                                          *)
CapacityAlone(x, pending) ==
    IF Depth(x) < searchLimits.depth THEN Residual(searchLimits.directories, search.visited + 1) ELSE 0

Capacity(x, pending) ==
    IF Depth(x) < searchLimits.depth
    THEN Residual(searchLimits.directories, search.visited + 1 + pending) ELSE 0

(* Folders that are not queued, for want of room or below the depth, cut the*)
(* search short.  Mutant: below the depth they do not.                      *)
CutByRoom(x, names, room) == Depth(x) < searchLimits.depth /\ Truncated(names, room)
LeavesOut(x, names, room) == Truncated(names, room)

VisitFolder ==
    LET x     == Head(search.queue)
        p     == [search EXCEPT !.queue = Tail(@), !.visited = @ + 1]
        q     == [p EXCEPT !.found = IF folders.claude[x] = "skills" THEN @ \cup {x} ELSE @,
                           !.cut = @ \/ folders.claude[x] = "refused"]
        names == {Last(y) : y \in {z \in EntriesIn(folders.kind, x) \ folders.ignored : PhysicalFolder(z)}}
        room  == Capacity(x, Len(p.queue))
    IN  /\ search.step = "visit" /\ search.queue # <<>> /\ search.children = <<>>
        /\ search' = IF ~PhysicalFolder(x) THEN [p EXCEPT !.cut = TRUE]
                     ELSE IF FolderAt(x) = "locked" THEN [p EXCEPT !.cut = TRUE]
                     ELSE IF folders.skill[x] THEN p
                     ELSE [q EXCEPT !.cut = @ \/ LeavesOut(x, names, room),
                                    !.children = IF Depth(x) >= searchLimits.depth THEN <<>>
                                                 ELSE [k \in DOMAIN Selected(names, room) |->
                                                          Append(x, Selected(names, room)[k])]]
        /\ SearchStays

QueueFolder ==
    LET x == Head(search.children)
    IN  /\ search.step = "visit" /\ search.children # <<>>
        /\ search' = IF PhysicalFolder(x) THEN [search EXCEPT !.children = Tail(@), !.queue = Append(@, x)]
                     ELSE [search EXCEPT !.children = Tail(@), !.cut = TRUE]
        /\ SearchStays

FinishSearch ==
    /\ search.step = "visit" /\ search.queue = <<>> /\ search.children = <<>>
    /\ search' = [search EXCEPT !.step = "done"]
    /\ SearchStays

ReplaceFolder ==
    /\ search.step # "done"
    /\ \A x \in Folder : folderChanged[x] < searchLimits.changes
    /\ \E x \in Folder : \E kind \in {"none", "directory", "other"} :
          /\ kind = "none" => folders.kind[x] # "none"
          /\ folders' = [folders EXCEPT !.kind[x] = kind]
          /\ folderChanged' = [folderChanged EXCEPT ![x] = @ + 1]
    /\ UNCHANGED <<searchLimits, search>>

SearchNext ==
    \/ StartSearch \/ VisitFolder \/ QueueFolder \/ FinishSearch \/ ReplaceFolder

SearchSpec == SearchInit /\ [][SearchNext]_searchVars

----------------------------------------------------------------------------

(* A search that does not say it was cut short found every Skill root that  *)
(* was there all the time: none below a Skill, none in what is ignored.     *)
SearchAccounted ==
    search.step = "done" /\ ~search.cut =>
        \A x \in Folder :
            /\ folders.claude[x] = "skills" /\ FolderAt(x) = "directory"
            /\ \A y \in {x} \cup Above(x) : /\ folderChanged[y] = 0
                                            /\ ~folders.skill[y] /\ y \notin folders.ignored
            => x \in search.found

(* What was visited and what is still to be visited fit the bound together. *)
SearchWithinBudget ==
    /\ search.step = "visit" => search.visited + Len(search.queue) + Len(search.children) <= searchLimits.directories
    /\ search.visited <= searchLimits.directories
=============================================================================

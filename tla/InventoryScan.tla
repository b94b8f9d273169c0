---------------------------- MODULE InventoryScan ----------------------------
(***************************************************************************)
(* Scanning a plan: packages/engine/src/inventory/walk.ts, parse-skill.ts  *)
(* and analyze.ts.  The sources of the plan are walked one after another,  *)
(* what looks like a Skill becomes a candidate, and then each candidate is *)
(* read.  A source that the planner proved carries the directory it        *)
(* proved, and everything read through it is proved again: between the     *)
(* plan, the walk and each read, directories may be replaced.              *)
(*                                                                         *)
(* The plan was made when no place had been replaced, so that the identity *)
(* it holds of a directory is that of the count 0.                         *)
(***************************************************************************)
EXTENDS InventoryPlans

CONSTANTS
    ScanPlace,       \* places of the file system
    ScanCases        \* bound: the trees and plans considered, and the number of
                     \* changes made while the plan is scanned

VARIABLES
    scanTree,        \* kind of each place, where a link leads, its SKILL.md
    scanPlan,        \* the sources in order, the bounds, whether legacy
    scanChanged,     \* history: how often each place was replaced
    scan             \* the scan: its step, source, candidates, results

scanVars == <<scanTree, scanPlan, scanChanged, scan>>
ScanStays == UNCHANGED <<scanTree, scanPlan, scanChanged>>

Least(a, b) == IF a < b THEN a ELSE b
(* A path leads through links, of which at most three follow one another,   *)
(* and links in a ring lead nowhere.                                        *)
Directly(x) == IF x \in ScanPlace THEN KindIn(scanTree.kind, x) ELSE "none"
Unlinked(x) ==
    LET links == {y \in {x} \cup Above(x) : Directly(y) = "link"}
        y     == CHOOSE y \in links : TRUE
    IN  IF links = {} THEN x
        ELSE IF scanTree.link[y] = <<>> THEN <<>> ELSE scanTree.link[y] \o SubSeq(x, Len(y) + 1, Len(x))
RealPath(x) ==
    LET z == Unlinked(Unlinked(Unlinked(x))) IN IF Unlinked(z) = z THEN z ELSE <<>>
Parent(x) == IF Len(x) > 1 THEN RealPath(Front(x)) ELSE <<>>
What(x) == IF x = <<>> \/ (Len(x) > 1 /\ Parent(x) = <<>>) THEN "none" ELSE Directly(Append(Parent(x), Last(x)))
IsDirectory(x) == What(x) \in {"directory", "locked"}
Contained(root, x) == x = root \/ root \in Above(x)
NotReplaced(x, known) == Directly(x) \in {"directory", "locked"} /\ scanChanged[x] = known

NoProof == [root |-> <<>>, place |-> <<>>]
Trusted(s) == s.trust # NoProof
TrustHolds(trust) == NotReplaced(trust.root, 0) /\ NotReplaced(trust.place, 0)
FollowsLinks(s) == scanPlan.legacy \/ (Trusted(s) /\ s.policy \in {"external", "contained"})

(* validateSourceRoot: "proven", or the status the source ends with.        *)
ProofOfSource(s) ==
    LET kind == What(s.at)
        real == RealPath(s.at)
    IN  CASE kind = "none" ->
               IF Len(s.at) > 1 /\ What(Front(s.at)) \in {"other", "locked", "link"} THEN "unreadable" ELSE "missing"
          [] kind = "link" /\ s.policy = "none" -> "invalid"
          [] kind # "none" /\ ~(kind = "link" /\ s.policy = "none") /\ Trusted(s) ->
               IF /\ IsDirectory(s.at) \/ (kind = "link" /\ s.policy = "external")
                  /\ real = s.trust.place /\ TrustHolds(s.trust) /\ Contained(s.trust.root, real)
               THEN "proven" ELSE "invalid"
          [] kind = "link" /\ s.policy # "none" /\ ~Trusted(s) ->
               IF What(real) = "none" THEN "unreadable" ELSE IF IsDirectory(real) THEN "proven" ELSE "invalid"
          [] kind = "other" /\ ~Trusted(s) -> "invalid"
          [] OTHER -> "proven"

(* readablePhysicalSkill: the directory of a Skill, <<>> where there is     *)
(* none, or word that what was planned is no longer so.                     *)
Nowhere == [path |-> <<>>, changed |-> FALSE]
(* Mutant: a link may lead out of the plugin it is in.                      *)
SkillAnywhere(x, s) ==
    IF What(x) = "link" /\ ~FollowsLinks(s) THEN [Nowhere EXCEPT !.changed = Trusted(s)]
    ELSE IF IsDirectory(RealPath(x)) /\ What(RealPath(x)) = "directory" /\ scanTree.marker[RealPath(x)] = "file"
    THEN [Nowhere EXCEPT !.path = RealPath(x)] ELSE Nowhere

SkillAt(x, s) ==
    LET real  == RealPath(x)
        apart == \/ s.policy # "external" /\ ~Contained(s.trust.root, real)
                 \/ s.policy \notin {"external", "contained"} /\ ~Contained(s.trust.place, real)
        marker == scanTree.marker[real]
    IN  CASE What(x) \in {"none", "other"}          -> Nowhere
          [] What(x) = "link" /\ ~FollowsLinks(s)   -> [Nowhere EXCEPT !.changed = Trusted(s)]
          [] What(x) = "link" /\ FollowsLinks(s) /\ ~IsDirectory(real)
                -> [Nowhere EXCEPT !.changed = Trusted(s) /\ What(real) # "none"]
          [] OTHER ->
                IF Trusted(s) /\ apart THEN [Nowhere EXCEPT !.changed = TRUE]
                ELSE IF What(real) = "locked" \/ marker = "none" THEN Nowhere
                ELSE IF marker = "link" /\ ~scanPlan.legacy THEN [Nowhere EXCEPT !.changed = Trusted(s)]
                ELSE [Nowhere EXCEPT !.path = real]

Idle == [path |-> <<>>, entries |-> <<>>, found |-> {}, dirs |-> 0, skills |-> 0,
         visited |-> 0, cut |-> FALSE, full |-> FALSE, changed |-> FALSE]

ScanInit ==
    /\ \E case \in ScanCases : scanTree = case.tree /\ scanPlan = case.plan
    /\ scanChanged = [x \in ScanPlace |-> 0]
    /\ scan = [step |-> "source", next |-> 1, task |-> Idle, status |-> <<>>,
               directories |-> 0, skills |-> 0, found |-> {}, queue |-> <<>>,
               reading |-> [part |-> 1, checked |-> FALSE, known |-> {}], read |-> {}, failed |-> {}]

Current == scanPlan.sources[scan.next]
Known == {c.path : c \in scan.found}

(* The source ends: an inspected source keeps the status it was planned     *)
(* with, unless the walk found less than it should have.  A candidate keeps *)
(* the proof of the first source that has one.  Mutant: the walk's word is  *)
(* the last, whatever the plan said of the source.                          *)
WalkDecides(s, status) == status
StatusOf(s, status) == IF s.inspect /\ s.status # "scanned" /\ status = "scanned" THEN s.status ELSE status

NewProof(x) == IF Trusted(Current)
               THEN [trust |-> Current.trust, policy |-> Current.policy, known |-> scanChanged[x]]
               ELSE [trust |-> NoProof, policy |-> "default", known |-> 0]
Merge(found) ==
    {[c EXCEPT !.sources = IF \E f \in found : f.path = c.path THEN @ \cup {scan.next} ELSE @,
               !.proof   = IF @.trust = NoProof /\ \E f \in found : f.path = c.path
                           THEN (CHOOSE f \in found : f.path = c.path).proof ELSE @] : c \in scan.found}
    \cup {[path |-> f.path, sources |-> {scan.next}, proof |-> f.proof] : f \in {g \in found : g.path \notin Known}}

Ended(status, visited, found) ==
    LET fresh == {f \in found : f.path \notin Known}
    IN  [scan EXCEPT !.step = "source", !.next = @ + 1, !.task = Idle,
                     !.status = Append(@, StatusOf(Current, status)),
                     !.directories = @ + visited, !.skills = @ + Cardinality(fresh),
                     !.found = Merge(found)]

StartSource ==
    LET s      == Current
        dirs   == Least(s.bounds.directories, Residual(scanPlan.bounds.directories, scan.directories))
        skills == Least(s.bounds.skills, Residual(scanPlan.bounds.skills, scan.skills))
        proof  == ProofOfSource(s)
    IN  /\ scan.step = "source" /\ scan.next \in DOMAIN scanPlan.sources
        /\ scan' = IF s.status # "scanned" /\ ~s.inspect THEN Ended(s.status, 0, {})
                   ELSE IF dirs < 1 THEN Ended("truncated", 0, {})
                   ELSE IF proof # "proven" THEN Ended(proof, 0, {})
                   ELSE [scan EXCEPT !.step = "list",
                            !.task = [Idle EXCEPT !.path = RealPath(s.at), !.dirs = dirs, !.skills = skills]]
        /\ ScanStays

(* A source that is a Skill itself.                                         *)
InspectSelf ==
    LET s == Current
        t == scan.task
        i == SkillAt(t.path, s)
    IN  /\ scan.step = "list" /\ s.layout = "self"
        /\ scan' = IF i.changed THEN Ended("invalid", 0, {})
                   ELSE IF i.path = <<>> THEN Ended("invalid", 1, {})
                   ELSE IF t.skills < 1 /\ i.path \notin Known THEN Ended("truncated", 1, {})
                   ELSE Ended("scanned", 1, {[path |-> i.path, proof |-> NewProof(i.path)]})
        /\ ScanStays

ListSource ==
    LET s     == Current
        t     == scan.task
        depth == Least(scanPlan.bounds.depth, s.bounds.depth)
        names == {Last(y) : y \in {x \in EntriesIn(scanTree.kind, t.path) :
                      /\ x \notin s.excluded
                      /\ IsDirectory(x) \/ (What(x) = "link" /\ (Trusted(s) \/ FollowsLinks(s)))}}
        room  == t.dirs - 1
    IN  /\ scan.step = "list" /\ s.layout = "children"
        /\ scan' = IF depth < 1 THEN Ended("truncated", 1, {})
                   ELSE IF What(RealPath(t.path)) # "directory" THEN Ended("unreadable", 1, {})
                   ELSE [scan EXCEPT !.step = "entries", !.task.visited = 1, !.task.cut = Truncated(names, room),
                            !.task.entries = [k \in DOMAIN Selected(names, room) |->
                                                 Append(t.path, Selected(names, room)[k])]]
        /\ ScanStays

InspectEntry ==
    LET s == Current
        t == scan.task
        i == SkillAt(Head(t.entries), s)
        p == [t EXCEPT !.entries = Tail(@), !.visited = @ + 1]
        fresh == {f \in t.found : f.path \notin Known}
    IN  /\ scan.step = "entries" /\ t.entries # <<>>
        /\ scan' = [scan EXCEPT !.task =
              IF i.changed THEN [p EXCEPT !.changed = TRUE]
              ELSE IF i.path = <<>> \/ \E f \in t.found : f.path = i.path THEN p
              ELSE IF i.path \notin Known /\ Cardinality(fresh) >= t.skills THEN [p EXCEPT !.full = TRUE]
              ELSE [p EXCEPT !.found = @ \cup {[path |-> i.path, proof |-> NewProof(i.path)]}]]
        /\ ScanStays

FinishSource ==
    LET t == scan.task
    IN  /\ scan.step = "entries" /\ t.entries = <<>>
        /\ scan' = Ended(IF t.changed THEN "invalid" ELSE IF t.cut \/ t.full THEN "truncated" ELSE "scanned",
                         t.visited, t.found)
        /\ ScanStays

----------------------------------------------------------------------------
(* Reading the candidates.  Part 1 is SKILL.md, part 2 the list of files,   *)
(* part 3 the files.                                                        *)

PathBefore(a, b) ==
    \/ Len(a) < Len(b) /\ \A k \in DOMAIN a : a[k] = b[k]
    \/ \E k \in DOMAIN a \cap DOMAIN b : a[k] < b[k] /\ \A j \in 1 .. k - 1 : a[j] = b[j]

NotReading == [part |-> 1, checked |-> FALSE, known |-> {}]
StartReading ==
    /\ scan.step = "source" /\ scan.next \notin DOMAIN scanPlan.sources
    /\ scan' = [scan EXCEPT !.step = "read", !.queue = SetToSortSeq(Known, PathBefore)]
    /\ ScanStays

Candidate(x) == CHOOSE c \in scan.found : c.path = x
ProofHolds(c) ==
    /\ TrustHolds(c.proof.trust) /\ NotReplaced(c.path, c.proof.known)
    /\ Contained(c.proof.trust.root, c.proof.trust.place)
    /\ c.proof.policy \in {"default", "none"} => Contained(c.proof.trust.place, c.path)
    /\ c.proof.policy = "contained" => Contained(c.proof.trust.root, c.path)

Failed(x) == [scan EXCEPT !.queue = Tail(@), !.failed = @ \cup {x}, !.reading = NotReading]

(* Before each part is read the whole proof is made again; SKILL.md must be *)
(* a plain file.  Mutant: it is made before the first part only.            *)
CheckedOnce(c) == scan.reading.part = 1 => ProofHolds(c) /\ scanTree.marker[c.path] = "file"
MayRead(c) == ProofHolds(c) /\ (scan.reading.part = 1 => scanTree.marker[c.path] = "file")

CheckPart ==
    LET c == Candidate(Head(scan.queue))
    IN  /\ scan.step = "read" /\ scan.queue # <<>> /\ ~scan.reading.checked
        /\ scan' = IF c.proof.trust = NoProof \/ MayRead(c) THEN [scan EXCEPT !.reading.checked = TRUE]
                   ELSE Failed(c.path)
        /\ ScanStays

(* What was read while its proof still held is remembered.                  *)
ReadPart ==
    LET c    == Candidate(Head(scan.queue))
        real == RealPath(c.path)
        r    == scan.reading
        asIs == IF ProofHolds(c) THEN r.known \cup {r.part} ELSE r.known
    IN  /\ scan.step = "read" /\ scan.queue # <<>> /\ r.checked
        /\ scan' = IF \/ Directly(real) # "directory"
                      \/ r.part = 1 /\ (scanTree.marker[real] = "none" \/ real \in scanTree.malformed)
                   THEN Failed(c.path)
                   ELSE IF r.part < 3
                   THEN [scan EXCEPT !.reading = [part |-> r.part + 1, checked |-> FALSE, known |-> asIs]]
                   ELSE [scan EXCEPT !.queue = Tail(@), !.reading = NotReading,
                                     !.read = @ \cup {[path |-> c.path, known |-> asIs]}]
        /\ ScanStays

ReportScan ==
    /\ scan.step = "read" /\ scan.queue = <<>>
    /\ scan' = [scan EXCEPT !.step = "done"]
    /\ ScanStays

ReplaceDirectory ==
    /\ scan.step # "done"
    /\ \A x \in ScanPlace : scanChanged[x] < scanPlan.changes
    /\ \E x \in ScanPlace : \E kind \in {"none", "directory", "other", "link"} :
          /\ kind = "none" => scanTree.kind[x] # "none"
          /\ kind = "link" => Len(x) > 1
          /\ scanTree' = [scanTree EXCEPT !.kind[x] = kind]
          /\ scanChanged' = [scanChanged EXCEPT ![x] = @ + 1]
    /\ UNCHANGED <<scanPlan, scan>>

ScanNext ==
    \/ StartSource \/ InspectSelf \/ ListSource \/ InspectEntry \/ FinishSource
    \/ StartReading \/ CheckPart \/ ReadPart \/ ReportScan \/ ReplaceDirectory

ScanSpec == ScanInit /\ [][ScanNext]_scanVars

----------------------------------------------------------------------------

Walked == scan.step \in {"read", "done"}
Calm(x) == \A z \in {x, Unlinked(x), Unlinked(Unlinked(x)), RealPath(x)} :
              \A y \in {z} \cup Above(z) : y \in ScanPlace => scanChanged[y] = 0

(* A source that ends as it was planned is complete: every Skill it has is  *)
(* a candidate of it, unless the Skill's directory or its SKILL.md may not  *)
(* be opened, which nothing tells of.  A source that may not be listed, or  *)
(* was cut off by a bound or replaced, shows it in its status, and each     *)
(* candidate is read or told of.                                            *)
ScanAccounted ==
    /\ Walked =>
         \A k \in DOMAIN scanPlan.sources :
            LET s == scanPlan.sources[k]
                Has(x) == \E c \in scan.found : c.path = RealPath(x) /\ k \in c.sources
            IN  /\ s.status = "scanned" \/ s.inspect
                /\ s.status \in {"scanned", "disabled", "stale", "ambiguous"}
                /\ scan.status[k] = s.status /\ Calm(s.at) /\ Calm(RealPath(s.at))
                => \A x \in IF s.layout = "self" THEN {RealPath(s.at)}
                            ELSE EntriesIn(scanTree.kind, RealPath(s.at)) \ s.excluded :
                      /\ What(RealPath(x)) = "directory" /\ scanTree.marker[RealPath(x)] = "file"
                      /\ Calm(x) /\ Calm(RealPath(x))
                      /\ What(x) = "link" => FollowsLinks(s)
                      => Has(x)
    /\ scan.step = "done" => \A c \in scan.found : c.path \in scan.failed \/ \E r \in scan.read : r.path = c.path

(* A source that was not to be used does not become one that is, and what   *)
(* is found through a proven source lies where its policy allows.           *)
ScanSure ==
    /\ \A k \in DOMAIN scan.status : scan.status[k] = "scanned" => scanPlan.sources[k].status = "scanned"
    /\ \A c \in scan.found : \A k \in c.sources :
          LET s == scanPlan.sources[k]
          IN  Trusted(s) /\ s.policy # "external" =>
                 Contained(IF s.policy = "contained" THEN s.trust.root ELSE s.trust.place, c.path)

(* Of a Skill that is reported through a proof, every part but the last was *)
(* read from the very directories that were planned and found, even where   *)
(* they were replaced between two reads.  (A replacement between the last   *)
(* check and the last read shows nowhere.)                                  *)
ReadWhereProven ==
    \A r \in scan.read : Candidate(r.path).proof.trust # NoProof => {1, 2} \subseteq r.known

(* The bounds hold for all sources together.                                *)
ScanWithinBudget ==
    /\ scan.directories <= scanPlan.bounds.directories
    /\ Cardinality(scan.found) <= scanPlan.bounds.skills /\ scan.skills = Cardinality(scan.found)
=============================================================================

--------------------------- MODULE StagedPreviews ---------------------------
(***************************************************************************)
(* The private copy of a source that waits for its installation: staging   *)
(* (packages/installer/src/staging.ts), the commands that review and apply *)
(* an installation (cli/src/commands/install.ts), the dashboard's services *)
(* (dashboard-server/src/installation-services.ts) and the inspection of a *)
(* catalog source (catalog/src/refresh.ts).                                *)
(*                                                                         *)
(* A preview has a random id and is created once.  Everybody cleans up     *)
(* what has expired, without a lock, while the creator may still write and *)
(* an installation may still copy.  A directory is recognised by its       *)
(* metadata (preview.json) and removed in two steps: it is renamed to a    *)
(* tombstone, and that is removed entry by entry.                          *)
(***************************************************************************)
EXTENDS Naturals, FiniteSets

CONSTANTS
    StagingCall,    \* calls: commands, or requests to one server
    PreviewFile,    \* files of the source
    NoDirectory,    \* nothing under a name
    StagingCalls,   \* bound: calls that begin
    StagingFaults,  \* bound: deaths, and operations that fail
    SourceEdits     \* bound: a person's changes of the staged source

Bytes    == {"none", "reviewed", "edited"}
Sources  == [PreviewFile -> Bytes]
NoSource == [f \in PreviewFile |-> "none"]
Staged   == [f \in PreviewFile |-> "reviewed"]

(* A directory: the one that was created, or one made again by a stage     *)
(* that goes on; with or without its metadata; and the files of the source. *)
Directory == [original : BOOLEAN, described : BOOLEAN, file : Sources]
ASSUME StagingConstants ==
    {StagingCalls, StagingFaults, SourceEdits} \subseteq Nat /\ NoDirectory \notin Directory

Bare(original) == [original |-> original, described |-> FALSE, file |-> NoSource]

VARIABLES
    purpose,    \* who created the preview, and for what; "none" before
    place,      \* the directory under the preview's id
    tombstone,  \* the directory renamed by a removal
    stored,     \* "none", "pending", "spent", or "forgotten" with its server
    past,       \* of "plan", "preview" and "grace" the times that are over
    agreed,     \* what was inspected: the fingerprint the plan names
    run,        \* what each call is doing
    copied,     \* the copy beside the destination; its maker holds the lease
    installed,  \* the installed files; NoSource when nothing is
    uses,       \* history: installations by the latest plan
    told,       \* history: the plan has been shown to a person
    cut,        \* history: a death, a removal that failed, a stage past expiry
    begun, faults, edited

stagingVars == <<purpose, place, tombstone, stored, past, agreed, run, copied,
                 installed, uses, told, cut, begun, faults, edited>>
clocks  == <<begun, faults, edited>>
content == <<copied, installed, uses>>

-----------------------------------------------------------------------------
(* Calls.  `then' follows a removal, `next' a cleanup; `left' holds the     *)
(* files still to be written or copied, or the entries still to be visited. *)

Step == {"idle", "describe", "stage", "inspect", "plan", "write", "print", "discard",
         "read", "move", "wipe", "sweep", "claim", "resolve", "seek", "check",
         "copy", "verify", "settle"}
Entry == {"place", "tombstone"}
Job == [who : {"command", "server"}, at : Step, then : Step, next : Step,
        left : SUBSET (PreviewFile \cup Entry)]

At(who, step) == [who |-> who, at |-> step, then |-> "idle", next |-> "idle", left |-> {}]
Idle == At("command", "idle")
Free(c) == run[c] = Idle
Goes(c, step) == run' = [run EXCEPT ![c] = [@ EXCEPT !.at = step]]
Loops(c, step, left) == run' = [run EXCEPT ![c] = [@ EXCEPT !.at = step, !.left = left]]
Removes(c, step, then) == run' = [run EXCEPT ![c] = [@ EXCEPT !.at = step, !.then = then]]
Ends(c) == run' = [run EXCEPT ![c] = Idle]
Returns(c, step) ==
    IF step = "idle" THEN Ends(c)
    ELSE run' = [run EXCEPT ![c] = [@ EXCEPT !.at = step, !.then = "idle"]]

(* Commands expire the preview of a call that failed, the server does not. *)
GivesUp(c) == IF run[c].who = "command" THEN Removes(c, "read", "idle") ELSE Ends(c)

Begins == begun < StagingCalls /\ begun' = begun + 1 /\ UNCHANGED <<faults, edited>>
Trouble == faults < StagingFaults /\ faults' = faults + 1 /\ UNCHANGED <<begun, edited>>
Smooth == UNCHANGED clocks

(* Applications, commits and rollbacks hold the lease of the portfolio; a  *)
(* dead holder's is taken over.                                            *)
Inside(c) == run[c].next = "claim" \/ run[c].at \in {"check", "copy", "verify", "settle"}
LeaseFree == \A c \in StagingCall : ~Inside(c)

Described(d) == d # NoDirectory /\ d.described

-----------------------------------------------------------------------------
(* Creation.  The directory appears before its metadata does; a failure in *)
(* between that cannot prove the directory its own leaves it.               *)

Create(c, p) ==
    /\ Free(c) /\ purpose = "none" /\ Begins
    /\ purpose' = p
    /\ place' = Bare(TRUE)
    /\ run' = [run EXCEPT ![c] = At(IF p = "dashboard" THEN "server" ELSE "command", "describe")]
    /\ UNCHANGED <<tombstone, stored, past, agreed, content, told, cut>>

Unproven(c) ==
    /\ run[c].at = "describe" /\ Trouble
    /\ ~place.described
    /\ Ends(c) /\ cut' = TRUE
    /\ UNCHANGED <<purpose, place, tombstone, stored, past, agreed, content, told>>

(* Mutant of Describe: a directory whose metadata could not be written is  *)
(* left there.                                                              *)
DescribeOrLeave(c) ==
    /\ run[c].at = "describe"
    /\ \/ /\ place' = [place EXCEPT !.described = TRUE]
          /\ Loops(c, "stage", PreviewFile) /\ Smooth
       \/ /\ \E b \in BOOLEAN : place' = [place EXCEPT !.described = b]
          /\ Ends(c) /\ Trouble
    /\ UNCHANGED <<purpose, tombstone, stored, past, agreed, content, told, cut>>

Describe(c) ==
    /\ run[c].at = "describe"
    /\ \/ /\ place' = [place EXCEPT !.described = TRUE]
          /\ Loops(c, "stage", PreviewFile) /\ Smooth
       \/ /\ \E b \in BOOLEAN : place' = [place EXCEPT !.described = b]
          /\ Removes(c, "move", "idle") /\ Trouble
    /\ UNCHANGED <<purpose, tombstone, stored, past, agreed, content, told, cut>>

(* Files are written under the path of the preview, directories on the way *)
(* to them made as needed, even when a cleanup has taken the preview away.  *)
StageFile(c) ==
    /\ run[c].at = "stage"
    /\ \E f \in run[c].left :
        /\ place' = [IF place = NoDirectory THEN Bare(FALSE) ELSE place
                        EXCEPT !.file[f] = "reviewed"]
        /\ LET left == run[c].left \ {f} IN Loops(c, IF left = {} THEN "inspect" ELSE "stage", left)
    /\ cut' = (cut \/ place = NoDirectory)
    /\ Smooth /\ UNCHANGED <<purpose, tombstone, stored, past, agreed, content, told>>

StageFails(c) ==
    /\ run[c].at = "stage"
    /\ GivesUp(c)
    /\ Smooth /\ UNCHANGED <<purpose, place, tombstone, stored, past, agreed, content, told, cut>>

(* The command wants what the catalog recorded, the server takes what is   *)
(* there, and the catalog's refresh only looks.                             *)
Inspect(c) ==
    /\ run[c].at = "inspect"
    /\ LET found == IF place = NoDirectory THEN NoSource ELSE place.file
           right == found # NoSource /\ (purpose = "install" => found = Staged)
       IN  /\ agreed' = IF right /\ purpose # "refresh" THEN found ELSE agreed
           /\ IF ~right \/ purpose = "refresh" THEN GivesUp(c)
              ELSE IF purpose = "install" THEN Goes(c, "plan") ELSE Ends(c)
    /\ Smooth /\ UNCHANGED <<purpose, place, tombstone, stored, past, content, told, cut>>

Unchanged == place # NoDirectory /\ place.file = agreed

(* planInstallation, and what becomes of its plan.  A plan that has nothing *)
(* to do, or a conflict, cannot be applied and counts as none.              *)
Plan(c) ==
    /\ run[c].at = "plan"
    /\ \/ GivesUp(c) /\ UNCHANGED <<stored, past, uses, told>>
       \/ /\ Unchanged /\ run[c].who = "command"
          /\ Goes(c, "write") /\ UNCHANGED <<stored, past, uses, told>>
       \/ /\ Unchanged /\ run[c].who = "server"
          /\ Ends(c) /\ stored' = "pending" /\ past' = past \ {"plan"} /\ uses' = 0 /\ told' = TRUE
    /\ Smooth /\ UNCHANGED <<purpose, place, tombstone, agreed, copied, installed, cut>>

WritePlan(c) ==
    /\ run[c].at = "write"
    /\ \/ stored' = "pending" /\ Goes(c, "print") /\ Smooth
       \/ stored' \in {"none", "pending"} /\ GivesUp(c) /\ Trouble
    /\ UNCHANGED <<purpose, place, tombstone, past, agreed, content, told, cut>>

PrintPlan(c) ==
    /\ run[c].at = "print"
    /\ \/ told' = TRUE /\ Ends(c)
       \/ Goes(c, "discard") /\ UNCHANGED told
    /\ Smooth
    /\ UNCHANGED <<purpose, place, tombstone, stored, past, agreed, content, cut>>

(* The preview is expired only after its plan has been discarded.           *)
Discard(c) ==
    /\ run[c].at = "discard"
    /\ \/ stored' = "spent" /\ GivesUp(c) /\ Smooth
       \/ Ends(c) /\ Trouble /\ UNCHANGED stored
    /\ UNCHANGED <<purpose, place, tombstone, past, agreed, content, told, cut>>

-----------------------------------------------------------------------------
(* Removal: the metadata is read, the directory with that identity is      *)
(* renamed, and the tombstone is removed in no particular order.            *)

Read(c) ==
    /\ run[c].at = "read"
    /\ IF Described(place) THEN Goes(c, "move") ELSE Returns(c, run[c].then)
    /\ Smooth
    /\ UNCHANGED <<purpose, place, tombstone, stored, past, agreed, content, told, cut>>

Move(c) ==
    /\ run[c].at = "move"
    /\ IF place # NoDirectory /\ place.original
       THEN /\ tombstone' = place /\ place' = NoDirectory /\ past' = past \ {"grace"}
            /\ Goes(c, "wipe")
       ELSE Returns(c, run[c].then) /\ UNCHANGED <<place, tombstone, past>>
    /\ Smooth /\ UNCHANGED <<purpose, stored, agreed, content, told, cut>>

Wipe(c) ==
    /\ run[c].at = "wipe"
    /\ \/ /\ tombstone \in {NoDirectory, Bare(TRUE)}
          /\ tombstone' = NoDirectory /\ Returns(c, run[c].then)
       \/ /\ Described(tombstone)
          /\ tombstone' = [tombstone EXCEPT !.described = FALSE] /\ UNCHANGED run
       \/ \E f \in PreviewFile :
             /\ tombstone # NoDirectory /\ tombstone.file[f] # "none"
             /\ tombstone' = [tombstone EXCEPT !.file[f] = "none"] /\ UNCHANGED run
    /\ Smooth /\ UNCHANGED <<purpose, place, stored, past, agreed, content, told, cut>>

WipeFails(c) ==
    /\ run[c].at = "wipe" /\ Trouble
    /\ Returns(c, run[c].then) /\ cut' = TRUE
    /\ UNCHANGED <<purpose, place, tombstone, stored, past, agreed, content, told>>

(* cleanupExpired visits every entry.  A tombstone belongs to the call that *)
(* made it for an hour; what has no metadata is never touched.              *)
Clean(c) ==
    /\ Free(c) /\ Begins
    /\ run' = [run EXCEPT ![c] = [At("command", "sweep") EXCEPT !.left = Entry]]
    /\ UNCHANGED <<purpose, place, tombstone, stored, past, agreed, content, told, cut>>

(* Mutant of Expired: a preview is old as soon as its plan has been made.   *)
SeenBefore == "preview" \in past \/ stored # "none"

Expired == "preview" \in past

Visits(c, e, step) ==
    run' = [run EXCEPT ![c] = [@ EXCEPT !.left = run[c].left \ {e}, !.at = step, !.then = "sweep"]]

Sweep(c) ==
    /\ run[c].at = "sweep"
    /\ \/ run[c].left = {} /\ Returns(c, run[c].next)
       \/ "place" \in run[c].left
          /\ Visits(c, "place", IF Described(place) /\ Expired THEN "move" ELSE "sweep")
       \/ "tombstone" \in run[c].left
          /\ Visits(c, "tombstone",
                    IF Described(tombstone) /\ "grace" \in past THEN "wipe" ELSE "sweep")
    /\ Smooth
    /\ UNCHANGED <<purpose, place, tombstone, stored, past, agreed, content, told, cut>>

-----------------------------------------------------------------------------
(* Applying: the command claims the stored plan, the server looks it up in *)
(* its memory.                                                              *)

Apply(c) ==
    /\ Free(c) /\ purpose = "install" /\ LeaseFree /\ Begins
    /\ run' = [run EXCEPT ![c] = [At("command", "sweep") EXCEPT !.left = Entry, !.next = "claim"]]
    /\ UNCHANGED <<purpose, place, tombstone, stored, past, agreed, content, told, cut>>

Claim(c) ==
    /\ run[c].at = "claim"
    /\ IF stored = "pending"
       THEN /\ stored' = "spent"
            /\ Goes(c, IF "plan" \in past THEN "read" ELSE "resolve")
       ELSE Ends(c) /\ UNCHANGED stored
    /\ Smooth /\ UNCHANGED <<purpose, place, tombstone, past, agreed, content, told, cut>>

(* resolve, for an application and for a plan of the server.                *)
Resolve(c) ==
    /\ run[c].at \in {"resolve", "seek"}
    /\ IF ~Described(place) THEN GivesUp(c)
       ELSE IF Expired THEN Removes(c, "move", IF run[c].who = "command" THEN "read" ELSE "idle")
       ELSE Goes(c, IF run[c].at = "resolve" THEN "check" ELSE "plan")
    /\ Smooth
    /\ UNCHANGED <<purpose, place, tombstone, stored, past, agreed, content, told, cut>>

(* Bound: the server is not asked again while a plan of it is pending.      *)
PlanAgain(c) ==
    /\ Free(c) /\ Begins
    /\ purpose = "dashboard" /\ agreed # NoSource /\ stored \in {"none", "spent"}
    /\ run' = [run EXCEPT ![c] = At("server", "seek")]
    /\ UNCHANGED <<purpose, place, tombstone, stored, past, agreed, content, told, cut>>

Commit(c) ==
    /\ Free(c) /\ Begins
    /\ purpose = "dashboard" /\ LeaseFree /\ stored = "pending"
    /\ run' = [run EXCEPT ![c] = At("server", "check")]
    /\ UNCHANGED <<purpose, place, tombstone, stored, past, agreed, content, told, cut>>

(* applyInstallationPlan; what it does at the destination is the module    *)
(* Installation, and here a step that may always fail.                      *)
Check(c) ==
    /\ run[c].at = "check"
    /\ \/ "plan" \notin past /\ Unchanged
          /\ Loops(c, "copy", PreviewFile) /\ copied' = NoSource
       \/ GivesUp(c) /\ UNCHANGED copied
    /\ Smooth
    /\ UNCHANGED <<purpose, place, tombstone, stored, past, agreed, installed, uses, told, cut>>

CopyFile(c) ==
    /\ run[c].at = "copy"
    /\ IF place = NoDirectory THEN GivesUp(c) /\ UNCHANGED copied
       ELSE \/ run[c].left = {} /\ Goes(c, "verify") /\ UNCHANGED copied
            \/ \E f \in run[c].left :
                  /\ copied' = [copied EXCEPT ![f] = place.file[f]]
                  /\ Loops(c, "copy", run[c].left \ {f})
    /\ Smooth
    /\ UNCHANGED <<purpose, place, tombstone, stored, past, agreed, installed, uses, told, cut>>

(* Mutant of Verify: the copy is trusted.                                   *)
VerifyNothing(c) ==
    /\ run[c].at = "verify" /\ Goes(c, "settle")
    /\ Smooth
    /\ UNCHANGED <<purpose, place, tombstone, stored, past, agreed, content, told, cut>>

Verify(c) ==
    /\ run[c].at = "verify"
    /\ IF copied = agreed THEN Goes(c, "settle") ELSE GivesUp(c)
    /\ Smooth
    /\ UNCHANGED <<purpose, place, tombstone, stored, past, agreed, content, told, cut>>

(* Mutant of Settle: the server keeps the plan it has committed.            *)
SettleAndKeep(c) ==
    /\ run[c].at = "settle"
    /\ \/ installed' = copied /\ uses' = uses + 1
       \/ UNCHANGED <<installed, uses>>
    /\ GivesUp(c)
    /\ Smooth /\ UNCHANGED <<purpose, place, tombstone, stored, past, agreed, copied, told, cut>>

Settle(c) ==
    /\ run[c].at = "settle"
    /\ \/ /\ installed' = copied /\ uses' = uses + 1 /\ stored' = "spent"
       \/ UNCHANGED <<installed, uses, stored>>
    /\ GivesUp(c)
    /\ Smooth /\ UNCHANGED <<purpose, place, tombstone, past, agreed, copied, told, cut>>

-----------------------------------------------------------------------------
(* Time, deaths and a person.  The command reads the clock for the plan    *)
(* before it does for the preview, with one life time for both.             *)

Pass(t) ==
    /\ purpose # "none" /\ t \notin past
    /\ t = "preview" => purpose # "install" \/ "plan" \in past
    /\ t = "grace" => tombstone # NoDirectory
    /\ past' = past \cup {t}
    /\ Smooth
    /\ UNCHANGED <<purpose, place, tombstone, stored, agreed, run, content, told, cut>>

(* With the server die its requests and what it remembers.                  *)
Dies(c) ==
    /\ ~Free(c) /\ Trouble /\ cut' = TRUE
    /\ IF run[c].who = "command" THEN run' = [run EXCEPT ![c] = Idle] /\ UNCHANGED stored
       ELSE /\ run' = [d \in StagingCall |-> IF run[d].who = "server" THEN Idle ELSE run[d]]
            /\ stored' = "forgotten"
    /\ UNCHANGED <<purpose, place, tombstone, past, agreed, content, told>>

EditSource ==
    /\ edited < SourceEdits /\ edited' = edited + 1
    /\ \E f \in PreviewFile :
        /\ place # NoDirectory /\ place.file[f] = "reviewed"
        /\ place' = [place EXCEPT !.file[f] = "edited"]
    /\ UNCHANGED <<purpose, tombstone, stored, past, agreed, run, content, told, cut, begun, faults>>

StagingInit ==
    /\ purpose = "none" /\ place = NoDirectory /\ tombstone = NoDirectory
    /\ stored = "none" /\ past = {} /\ agreed = NoSource
    /\ run = [c \in StagingCall |-> Idle]
    /\ copied = NoSource /\ installed = NoSource
    /\ uses = 0 /\ told = FALSE /\ cut = FALSE
    /\ begun = 0 /\ faults = 0 /\ edited = 0

StagingStep(c) ==
    \/ \E p \in {"install", "dashboard", "refresh"} : Create(c, p)
    \/ Unproven(c) \/ Describe(c) \/ StageFile(c) \/ StageFails(c) \/ Inspect(c)
    \/ Plan(c) \/ WritePlan(c) \/ PrintPlan(c) \/ Discard(c)
    \/ Read(c) \/ Move(c) \/ Wipe(c) \/ WipeFails(c) \/ Clean(c) \/ Sweep(c)
    \/ Apply(c) \/ Claim(c) \/ Resolve(c) \/ PlanAgain(c) \/ Commit(c)
    \/ Check(c) \/ CopyFile(c) \/ Verify(c) \/ Settle(c) \/ Dies(c)

StagingNext ==
    \/ \E c \in StagingCall : StagingStep(c)
    \/ \E t \in {"plan", "preview", "grace"} : Pass(t)
    \/ EditSource

StagingSpec == StagingInit /\ [][StagingNext]_stagingVars

-----------------------------------------------------------------------------
StagingTypeOK ==
    /\ purpose \in {"none", "install", "dashboard", "refresh"}
    /\ {place, tombstone} \subseteq Directory \cup {NoDirectory}
    /\ stored \in {"none", "pending", "spent", "forgotten"}
    /\ past \subseteq {"plan", "preview", "grace"}
    /\ {agreed, copied, installed} \subseteq Sources
    /\ run \in [StagingCall -> Job]
    /\ uses \in Nat /\ {told, cut} \subseteq BOOLEAN
    /\ begun \in 0..StagingCalls /\ faults \in 0..StagingFaults /\ edited \in 0..SourceEdits

(* Whatever cleanups and edits fall between inspection, check, copy and    *)
(* verification, what is installed is what was inspected, and one plan     *)
(* installs once, however often it is applied or committed                 *)
(* (applyInstallationPlan, claimReviewedPlan, commit of the server).       *)
InstalledAsInspected ==
    /\ installed # NoSource => installed = agreed
    /\ uses <= 1

(* A plan that a person has been shown, and that can still be applied, has *)
(* its preview: no cleanup and no failing call took it, or a file of it.   *)
ShownPlanHasPreview ==
    told /\ stored = "pending" /\ past \cap {"plan", "preview"} = {} =>
        /\ Described(place)
        /\ \A f \in PreviewFile : agreed[f] # "none" => place.file[f] # "none"

(* When nobody is at work, a directory is still there for a reason: it     *)
(* waits for its plan, or for the server's cleanup, and a cleanup will     *)
(* recognise it.  Only deaths, removals that failed and stages that went   *)
(* on after the preview expired leave anything else.                        *)
LeftForAReason ==
    (\A c \in StagingCall : Free(c)) /\ ~cut =>
        /\ tombstone = NoDirectory
        /\ place # NoDirectory =>
              /\ place.described
              /\ purpose = "dashboard" \/ (purpose = "install" /\ stored = "pending")

(* The staged source is removed neither too early nor never, and what is   *)
(* installed from it is what was inspected.                                 *)
StagingSound ==
    StagingTypeOK /\ InstalledAsInspected /\ ShownPlanHasPreview /\ LeftForAReason
=============================================================================

--------------------------- MODULE FilePublication ---------------------------
(***************************************************************************)
(* Publishing one configuration file, and taking that back, while its      *)
(* owner may write it at any moment: packages/store/src/integration-file-  *)
(* proof.ts, -publication.ts, -recovery.ts and -restart-recovery.ts.       *)
(*                                                                         *)
(* The granularity is that of the calls to the file system.  A directory   *)
(* maps names to files, a file is what an inode is: names may share it,    *)
(* and its bytes outlive a rename.  What a call of the program still has   *)
(* to do is the sequence todo; a failing check drops it, or the part of it *)
(* up to the next "resume".  Every file system call may fail, with what    *)
(* was to be done before fsync undone or not; the process may die between  *)
(* any two of them.                                                        *)
(***************************************************************************)
EXTENDS Naturals, Sequences, FiniteSets

CONSTANTS
    File,         \* inodes
    NoFile,       \* what a free name leads to
    SaveLimit,    \* bound: changes the owner makes to the target
    FaultLimit    \* bound: failing operations and deaths

ASSUME FileConstants == NoFile \notin File /\ {SaveLimit, FaultLimit} \subseteq Nat

(* The target; beside it the new bytes, the backup, and for a restoration  *)
(* the bytes to be put back and the published file on its way out.  Each   *)
(* sibling is removed by way of a claim, one name per kind of call.        *)
Target  == <<"target", "name">>
Tmp     == <<"tmp", "name">>
Backup  == <<"backup", "name">>
Back    == <<"restore", "name">>
Discard == <<"discard", "name">>
Claim(n, use) == <<n[1], use>>

Name == {Target, Tmp, Backup, Back, Discard, Claim(Tmp, "publish"), Claim(Tmp, "restart"),
         Claim(Back, "restore"), Claim(Discard, "restore")}
        \cup {Claim(Backup, use) : use \in {"publish", "restore", "restart", "finalize"}}

Bytes == {"none", "part", "before", "after", "own"}

VARIABLES
    dir,          \* the file each name leads to
    bytes,        \* the bytes of each file
    before,       \* what the plan found: "none", or the bytes "before"
    seen,         \* the target as the publication first observed it
    made,         \* identities of the new and the backup file, for the proof
    todo,         \* what the running call has still to do
    call,         \* the latest call
    answer,       \* its answer
    handle,       \* the process holds the proof of its publication
    noted,        \* the recovery artifact is in the recovery log
    way,          \* what the caller decided: to restore or to finalize
    wanted,       \* history: what the owner last put into the target
    exposed,      \* history: that was done in a window named below
    saves, faults,
    smooth,       \* history: the latest call met no failure
    halted        \* history: an undoing stopped half-way, and its proof is gone

disk  == <<dir, bytes>>
known == <<before, seen, made>>
stage == <<call, handle, noted, way>>
owner == <<wanted, exposed, saves>>
luck  == <<faults, smooth, halted>>
fileVars == <<disk, known, todo, answer, stage, owner, luck>>

-----------------------------------------------------------------------------
(* Reading.                                                                *)

Links(f) == Cardinality({n \in Name : dir[n] = f})

(* readExactIntegrationFile accepts a free name or a file of one name.     *)
Readable(n) == dir[n] = NoFile \/ Links(dir[n]) = 1
Holds(n, b) == Readable(n) /\ dir[n] # NoFile /\ bytes[dir[n]] = b
Exact(n, f, b) == Holds(n, b) /\ dir[n] = f
AsBefore    == IF before = "none" THEN dir[Target] = NoFile ELSE Holds(Target, before)

(* A new file is none of those whose identity is remembered (bound: File). *)
Unused == {f \in File : Links(f) = 0 /\ f \notin {made.new, made.backup, seen}}
Fresh  == CHOOSE f \in Unused : TRUE

Link(n, f) == dir' = [dir EXCEPT ![n] = f]
Unlinked(n) == dir' = [dir EXCEPT ![n] = NoFile]

-----------------------------------------------------------------------------
(* Steps, and the sequences of them that the functions of the code are.    *)

Step(op, n, m, f, b) == [op |-> op, at |-> n, to |-> m, file |-> f, bytes |-> b]
Plain(op)            == Step(op, Target, Target, NoFile, "none")

(* moveExactIntegrationFileClaimed: a hard link that never overwrites,     *)
(* then the removal of the old name.                                       *)
Move(n, m, f, b) == <<Step("ready", n, m, f, b), Step("link", n, m, f, b),
                      Step("linked", n, m, f, b), Step("unlink", n, m, f, b),
                      Step("moved", n, m, f, b)>>

(* removeExactIntegrationFileStateClaimed, by way of a claim.              *)
RemoveBy(n, use, f, b) ==
    LET c == Claim(n, use) IN <<Step("collapse", c, n, f, b), Step("remove", n, c, f, b)>>

Erase(c, f, b) == <<Step("exact", c, c, f, b), Step("unlink", c, c, f, b),
                    Step("gone", c, c, f, b)>>

Write(n, c, b) == <<Step("create", n, c, NoFile, b), Step("write", n, c, NoFile, b)>>

When(p, steps) == IF p THEN steps ELSE <<>>

Publication ==
    <<Plain("observe")>>
    \o When(before = "before", Write(Backup, Claim(Backup, "publish"), "before"))
    \o Write(Tmp, Claim(Tmp, "publish"), "after")
    \o <<Plain("unchanged"), Plain("note"), Plain("rename"), Plain("classify"),
         Plain("verify"), Plain("published")>>

(* A mutant: the backup stays when nothing was published.                  *)
WithdrawalOfNew ==
    When(made.new # NoFile, RemoveBy(Tmp, "publish", made.new, "after")) \o <<Plain("failed")>>

(* After a failure that published nothing: the owned files go, the backup  *)
(* also when removing the temporary fails.                                 *)
Withdrawal ==
    When(made.new # NoFile, RemoveBy(Tmp, "publish", made.new, "after")) \o <<Plain("resume")>>
    \o When(made.backup # NoFile, RemoveBy(Backup, "publish", made.backup, "before"))
    \o <<Plain("resume"), Plain("failed")>>

(* Two names of one file are what a move that stopped half-way leaves.     *)
Restoration ==
    <<Step("collapse", Discard, Target, made.new, "after"),
      Step("collapse", Discard, Claim(Discard, "restore"), made.new, "after")>>
    \o When(before = "before",
            <<Step("collapse", Target, Back, NoFile, "before"),
              Step("collapse", Back, Claim(Back, "restore"), NoFile, "before"),
              Step("collapse", Backup, Claim(Backup, "restore"), made.backup, "before")>>)
    \o <<Plain("assess")>>

DropDiscard == RemoveBy(Discard, "restore", made.new, "after")
DropBackup  == When(before = "before", RemoveBy(Backup, "restore", made.backup, "before"))

(* The target is as before already: only the cleanup remains.              *)
CleanedUp ==
    When(dir[Back] # NoFile, RemoveBy(Back, "restore", dir[Back], "before"))
    \o DropDiscard \o DropBackup \o <<Plain("restored")>>

PutBack ==
    When(dir[Target] # NoFile, Move(Target, Discard, made.new, "after"))
    \o IF before = "none" THEN DropDiscard \o <<Plain("restored")>>
       ELSE IF dir[Backup] = NoFile THEN <<Plain("refuse")>>
       ELSE When(dir[Back] = NoFile, Write(Back, Claim(Back, "restore"), "before"))
            \o Move(Back, Target, dir[Back], "before") \o <<Plain("tidy")>>

BothDropped == DropDiscard \o <<Plain("resume")>> \o DropBackup
               \o <<Plain("resume"), Plain("restored")>>

Finalization ==
    <<Plain("confirm")>>
    \o When(before = "before", RemoveBy(Backup, "finalize", made.backup, "before"))
    \o <<Plain("finalized")>>

Undone ==   \* cleanupPreparedPublication
    RemoveBy(Tmp, "restart", made.new, "after")
    \o When(before = "before",
            <<Step("exact", Backup, Backup, made.backup, "before")>>
            \o RemoveBy(Backup, "restart", made.backup, "before"))
    \o <<Plain("restored")>>

-----------------------------------------------------------------------------
(* How a call goes on, fails and ends.                                     *)

Idle      == todo = <<>>
Now       == IF Idle THEN Plain("idle") ELSE Head(todo)
Doing(op) == Now.op = op
Proceed      == todo' = Tail(todo) /\ UNCHANGED <<answer, stage>>
Do(steps) == todo' = steps \o Tail(todo) /\ UNCHANGED <<answer, stage>>

Fault   == /\ faults < FaultLimit /\ faults' = faults + 1 /\ smooth' = FALSE
           /\ halted' = (halted \/ (call # "publish" /\ ~handle))
NoFault == UNCHANGED luck

(* A failing step ends the call; a publication is withdrawn first, unless  *)
(* it happened or may have.                                                *)
FailWith(a) ==
    LET marks == {i \in DOMAIN todo : todo[i].op = "resume"}
        tried == call = "publish" /\ ~(Now.op \in {"classify", "verify"})
    IN /\ IF tried THEN call' = "withdraw" /\ todo' = Withdrawal /\ answer' = a
          ELSE /\ UNCHANGED call
               /\ IF marks = {} THEN todo' = <<>>
                  ELSE todo' = SubSeq(todo, 1 + CHOOSE i \in marks : \A j \in marks : i <= j,
                                      Len(todo))
               /\ answer' = IF call = "publish" THEN "uncertain" ELSE "incomplete"
       /\ UNCHANGED <<handle, noted, way>>

Fail == FailWith("failed")

(* A check: what has to hold for the call to go on with more steps.        *)
Check(op, good, more) ==
    /\ Doing(op)
    /\ \/ good /\ NoFault /\ Do(more)
       \/ ~good /\ NoFault /\ Fail
       \/ Fault /\ Fail
    /\ UNCHANGED <<disk, known, owner>>

Begin(name, steps, decision) ==
    /\ Idle /\ call' = name /\ todo' = steps /\ answer' = "none" /\ way' = decision
    /\ smooth' = TRUE
    /\ UNCHANGED <<disk, known, handle, noted, exposed, saves, faults, halted>>

Ended(op) ==
    /\ Doing(op) /\ todo' = <<>>
    /\ answer' = IF answer = "none" THEN op ELSE answer
    /\ handle' = (answer' = "published" \/ (handle /\ answer' # op))
    /\ UNCHANGED <<disk, known, owner, luck, call, noted, way>>

-----------------------------------------------------------------------------
(* Publishing.                                                             *)

Observe ==
    /\ Doing("observe")
    /\ IF AsBefore THEN seen' = dir[Target] /\ Proceed ELSE UNCHANGED seen /\ Fail
    /\ NoFault /\ UNCHANGED <<disk, before, made, owner>>

(* A sibling is created exclusively, then written.                         *)
Create ==
    LET s == Now IN
    /\ Doing("create") /\ UNCHANGED <<known, owner>>
    /\ \/ /\ dir[s.at] = NoFile /\ Unused # {} /\ NoFault /\ Proceed
          /\ Link(s.at, Fresh) /\ bytes' = [bytes EXCEPT ![Fresh] = "part"]
       \/ dir[s.at] # NoFile /\ NoFault /\ Fail /\ UNCHANGED disk
       \/ Fault /\ Fail /\ UNCHANGED disk

Named(steps, f) ==
    [i \in DOMAIN steps |-> IF steps[i].op \notin {"create", "write"} /\ steps[i].at = Back
                            THEN [steps[i] EXCEPT !.file = f] ELSE steps[i]]

Written(n, f) ==
    made' = [made EXCEPT !.new = IF n = Tmp THEN f ELSE @, !.backup = IF n = Backup THEN f ELSE @]

(* What a failed write leaves is moved to the claim and removed, which may *)
(* stop before or after its rename (removeFailedWriteViaQuarantine).       *)
LeftBehind(n, c) == {dir, [dir EXCEPT ![n] = NoFile, ![c] = dir[n]]}

WriteBytes ==
    LET s == Now
        f == dir[s.at] IN
    /\ Doing("write") /\ UNCHANGED <<before, seen, owner>>
    /\ \/ /\ NoFault /\ bytes' = [bytes EXCEPT ![f] = s.bytes] /\ UNCHANGED dir
          /\ Written(s.at, f)
          /\ todo' = Named(Tail(todo), f) /\ UNCHANGED <<answer, stage>>
       \/ Fault /\ Unlinked(s.at) /\ Fail /\ UNCHANGED <<bytes, made>>
       \/ /\ Fault /\ FailWith("incomplete") /\ UNCHANGED <<bytes, made>>
          /\ dir' \in LeftBehind(s.at, s.to)

(* The target must be the very file first observed, the backup as written. *)
Unchanged ==
    Check("unchanged",
          /\ AsBefore /\ dir[Target] = seen
          /\ before = "before" => Exact(Backup, made.backup, "before"), <<>>)

NoteArtifact ==
    /\ Doing("note")
    /\ \/ NoFault /\ noted' = TRUE /\ todo' = Tail(todo) /\ UNCHANGED <<answer, call, handle, way>>
       \/ Fault /\ Fail
    /\ UNCHANGED <<disk, known, owner>>

(* The rename overwrites whatever is at the target.                        *)
RenameOver ==
    /\ Doing("rename") /\ Proceed
    /\ \/ (NoFault \/ Fault) /\ dir' = [dir EXCEPT ![Target] = dir[Tmp], ![Tmp] = NoFile]
       \/ Fault /\ UNCHANGED dir
    /\ UNCHANGED <<bytes, known, owner>>

(* classifyIntegrationRename: both names are read.  Only the proof that    *)
(* nothing happened makes the failure a plain one.                         *)
Classify ==
    LET is  == dir[Tmp] = NoFile /\ Exact(Target, made.new, "after")
        not == Exact(Tmp, made.new, "after") /\ AsBefore IN
    /\ Doing("classify")
    /\ \/ is /\ NoFault /\ Proceed
       \/ /\ not /\ NoFault
          /\ call' = "withdraw" /\ todo' = Withdrawal /\ answer' = "failed"
          /\ UNCHANGED <<handle, noted, way>>
       \/ ~is /\ ~not /\ NoFault /\ Fail
       \/ Fault /\ Fail
    /\ UNCHANGED <<disk, known, owner>>

VerifyTarget == Check("verify", Exact(Target, made.new, "after"), <<>>)

-----------------------------------------------------------------------------
(* Moving and removing exactly.                                            *)

Ready ==
    Check("ready", Exact(Now.at, Now.file, Now.bytes) /\ dir[Now.to] = NoFile, <<>>)

(* A mutant: the old name is moved over whatever is at the new one.        *)
LinkOver ==
    /\ Doing("link") /\ Proceed
    /\ \/ NoFault /\ Link(Now.to, dir[Now.at])
       \/ Fault /\ UNCHANGED dir
    /\ UNCHANGED <<bytes, known, owner>>

(* link refuses an existing name, and links whatever is at the source.     *)
HardLink ==
    /\ Doing("link") /\ Proceed
    /\ \/ dir[Now.to] = NoFile /\ NoFault /\ Link(Now.to, dir[Now.at])
       \/ ((dir[Now.to] # NoFile /\ NoFault) \/ Fault) /\ UNCHANGED dir
    /\ UNCHANGED <<bytes, known, owner>>

Linked == Check("linked", dir[Now.at] = Now.file /\ dir[Now.to] = Now.file, <<>>)

(* unlink removes whatever is at the name.                                 *)
Unlink ==
    /\ Doing("unlink") /\ Proceed
    /\ \/ NoFault /\ Unlinked(Now.at)
       \/ Fault /\ UNCHANGED dir
    /\ UNCHANGED <<bytes, known, owner>>

(* When the old name is still there the new one is removed again, which    *)
(* ends the call in any case.                                              *)
Moved ==
    LET s    == Now
        both == dir[s.at] = s.file /\ dir[s.to] = s.file IN
    /\ \/ ~both /\ Check("moved", dir[s.at] = NoFile /\ Exact(s.to, s.file, s.bytes), <<>>)
       \/ /\ both /\ Doing("moved") /\ NoFault
          /\ Do(<<Step("unlink", s.to, s.at, s.file, s.bytes), Plain("refuse")>>)
          /\ UNCHANGED <<disk, known, owner>>

Refuse == Check("refuse", FALSE, <<>>)

(* A mutant: two names of one file are left as they are.                   *)
CollapseNothing == Check("collapse", TRUE, <<>>)

(* Two names of one exact file become one.                                 *)
Collapse ==
    LET s    == Now
        f    == dir[s.at]
        pair == /\ f # NoFile /\ dir[s.to] = f /\ Links(f) = 2
                /\ bytes[f] = s.bytes /\ s.file \in {NoFile, f} IN
    Check("collapse", TRUE,
          When(pair, <<Step("unlink", s.to, s.at, f, s.bytes), Step("single", s.to, s.at, f, s.bytes)>>))

Single == Check("single", dir[Now.at] = NoFile /\ dir[Now.to] = Now.file /\ Links(Now.file) = 1, <<>>)

RemoveExact ==
    LET s == Now IN
    Check("remove",
          /\ Readable(s.at) /\ Readable(s.to)
          /\ dir[s.at] = NoFile \/ dir[s.to] = NoFile
          /\ dir[s.at] # NoFile => Exact(s.at, s.file, s.bytes),
          When(dir[s.at] # NoFile, Move(s.at, s.to, s.file, s.bytes))
          \o When(dir[s.at] # NoFile \/ dir[s.to] # NoFile, Erase(s.to, s.file, s.bytes)))

ExactStep == Check("exact", Exact(Now.at, Now.file, Now.bytes), <<>>)
Gone      == Check("gone", dir[Now.at] = NoFile, <<>>)

-----------------------------------------------------------------------------
(* Taking back, and finishing.                                             *)

(* The three names and the backup must be in one of the states a           *)
(* restoration can be in.                                                  *)
Restorable ==
    /\ \A n \in {Target, Discard, Back, Backup, Claim(Backup, "restore")} : Readable(n)
    /\ \/ Exact(Target, made.new, "after") \/ AsBefore
       \/ (dir[Target] = NoFile /\ dir[Discard] # NoFile)
    /\ dir[Discard] # NoFile => Exact(Discard, made.new, "after")
    /\ dir[Back] # NoFile => Holds(Back, "before") /\ before = "before"
    /\ before = "before" =>
         LET b == IF dir[Backup] # NoFile THEN Backup ELSE Claim(Backup, "restore") IN
         dir[b] # NoFile => Exact(b, made.backup, "before")

Assess ==
    Check("assess",
          Restorable /\ (AsBefore \/ dir[Target] = NoFile \/ dir[Discard] = NoFile),
          IF AsBefore THEN CleanedUp ELSE PutBack)

Confirm == Check("confirm", Exact(Target, made.new, "after"), <<>>)

(* In another process the proof is made again, from the artifact and what  *)
(* is on disk (reconstructPublishedProof): only what was published and not *)
(* yet touched by a restoration qualifies.                                 *)
Reconstructed ==
    /\ Exact(Target, made.new, "after")
    /\ before = "before" => Exact(Backup, made.backup, "before")

Restart ==
    LET prepared == call = "restore" /\ AsBefore /\ Exact(Tmp, made.new, "after") IN
    Check("restart", prepared \/ Reconstructed,
          IF prepared THEN Undone ELSE IF call = "restore" THEN Restoration ELSE Finalization)

-----------------------------------------------------------------------------
(* Calls, deaths, and the owner of the file.                               *)

Publish == call = "none" /\ Begin("publish", Publication, way) /\ UNCHANGED wanted

(* The caller restores or finalizes with its handle, again if that fails;  *)
(* a recovery does it by the artifact.                                     *)
Undo ==
    /\ way # "finalize" /\ answer # "restored"
    /\ handle \/ (noted /\ answer \in {"uncertain", "incomplete", "dead"})
    /\ Begin("restore", IF handle THEN Restoration ELSE <<Plain("restart")>>, "restore")
    /\ UNCHANGED wanted

Finish ==
    /\ way = "finalize" \/ (answer = "published" /\ handle)
    /\ answer # "finalized"
    /\ Begin("finalize", IF handle THEN Finalization ELSE <<Plain("restart")>>, "finalize")
    /\ UNCHANGED wanted

AnswerCall == Ended("published") \/ Ended("failed") \/ Ended("restored") \/ Ended("finalized")

(* What follows is tried to its end, and fails at its end.                 *)
Resume ==
    /\ \/ Doing("resume") /\ todo' = Tail(todo)
       \/ Doing("tidy") /\ todo' = BothDropped
    /\ UNCHANGED <<disk, known, answer, stage, owner, luck>>

Die ==
    /\ ~Idle \/ handle
    /\ faults < FaultLimit /\ faults' = faults + 1 /\ smooth' = FALSE
    /\ halted' = (halted \/ call # "publish")
    /\ todo' = <<>> /\ handle' = FALSE
    /\ answer' = IF Idle THEN answer ELSE "dead"
    /\ UNCHANGED <<disk, known, call, noted, way, owner>>

(* A new file in the place of the old one, a change within it, or none.    *)
Unwatched == Now.op \in {"note", "rename"}
InWindow  == Unwatched \/ (Now.op = "unlink" /\ Now.at = Target)

Save ==
    /\ saves < SaveLimit /\ saves' = saves + 1
    /\ \/ /\ Unused # {} /\ Link(Target, Fresh) /\ wanted' \in {"own", before} \ {"none"}
          /\ bytes' = [bytes EXCEPT ![Fresh] = wanted'] /\ exposed' = InWindow
       \/ /\ dir[Target] # NoFile
          /\ bytes' = [bytes EXCEPT ![dir[Target]] = "own"] /\ UNCHANGED dir
          /\ wanted' = "own" /\ exposed' = (Unwatched \/ (InWindow /\ Links(dir[Target]) = 1))
       \/ /\ dir[Target] # NoFile /\ Unlinked(Target) /\ wanted' = "none"
          /\ exposed' = FALSE /\ UNCHANGED bytes
    /\ UNCHANGED <<known, todo, answer, stage, luck>>

FilesInit ==
    /\ before \in {"none", "before"}
    /\ \E f \in File :
        /\ f = CHOOSE g \in File : TRUE
        /\ dir = [n \in Name |-> IF n = Target /\ before = "before" THEN f ELSE NoFile]
        /\ bytes = [g \in File |-> IF g = f THEN before ELSE "none"]
    /\ seen = NoFile /\ made = [new |-> NoFile, backup |-> NoFile]
    /\ todo = <<>> /\ call = "none" /\ answer = "none" /\ handle = FALSE /\ noted = FALSE
    /\ way = "open" /\ wanted = before /\ exposed = FALSE
    /\ saves = 0 /\ faults = 0 /\ smooth = TRUE /\ halted = FALSE

FileStep ==
    \/ Observe \/ Create \/ WriteBytes \/ Unchanged \/ NoteArtifact \/ RenameOver \/ Classify \/ VerifyTarget
    \/ Ready \/ HardLink \/ Linked \/ Unlink \/ Moved \/ Refuse \/ Collapse \/ Single
    \/ RemoveExact \/ ExactStep \/ Gone \/ Assess \/ Confirm \/ Restart \/ Resume \/ AnswerCall

FilesNext == FileStep \/ Publish \/ Undo \/ Finish \/ Die \/ Save

FilesSpec == FilesInit /\ [][FilesNext]_fileVars

-----------------------------------------------------------------------------
(* Properties.                                                             *)

(* Files of the program beside the target; what a write that failed and   *)
(* could not be undone has left (Scraps) is not looked for by anything.    *)
Beside   == {n \in Name \ {Target} : dir[n] # NoFile}
Scraps   == {n \in Beside : bytes[dir[n]] = "part"}
Siblings == Beside \ Scraps

(* Every variable has its type; no file has more than two names.           *)
FilesTypeOK ==
    /\ dir \in [Name -> File \cup {NoFile}] /\ bytes \in [File -> Bytes]
    /\ before \in {"none", "before"} /\ seen \in File \cup {NoFile}
    /\ made \in [new : File \cup {NoFile}, backup : File \cup {NoFile}]
    /\ \A i \in DOMAIN todo : {todo[i].at, todo[i].to} \subseteq Name
    /\ call \in {"none", "publish", "withdraw", "restore", "finalize"}
    /\ answer \in {"none", "published", "failed", "restored", "finalized", "uncertain",
                   "incomplete", "dead"}
    /\ way \in {"open", "restore", "finalize"} /\ wanted \in Bytes
    /\ saves \in 0..SaveLimit /\ faults \in 0..FaultLimit
    /\ {handle, noted, exposed, smooth, halted} \subseteq BOOLEAN
    /\ \A f \in File : Links(f) <= 2

(* What the owner of the file last put there is somewhere on disk (unless  *)
(* its replacement was accepted), at the                                   *)
(* target, in the backup, or under the name of a claim, whatever fails,    *)
(* dies or races; unless it was written in one of the two windows in which *)
(* the code looks away: before the publishing rename, and before the       *)
(* unlink of a target that has just been proved exact.                     *)
WantedKept ==
    \/ wanted = "none" \/ exposed \/ (way = "finalize" /\ wanted = before)
    \/ \E n \in Name : dir[n] # NoFile /\ bytes[dir[n]] = wanted

(* Answers are true: a plain failure or a restoration has left no file of  *)
(* its own and the target as before, a publication its file and backup, a  *)
(* finalization its file alone (nobody else having written the target).    *)
(* One name is left behind when the owner puts the old bytes back himself  *)
(* and the removal of the restoration's own copy is interrupted: the next  *)
(* restoration looks for the copy, not for its claim.                      *)
FileAnswersHold ==
    Idle =>
        /\ answer \in {"failed", "restored", "finalized"} =>
              Siblings \subseteq IF saves = 0 THEN {} ELSE {Claim(Back, "restore")}
        /\ answer \in {"failed", "restored"} /\ saves = 0 => AsBefore
        /\ answer = "published" => Siblings = IF before = "none" THEN {} ELSE {Backup}
        /\ answer \in {"published", "finalized"} /\ saves = 0 =>
              Exact(Target, made.new, "after")

(* A call that meets no failure itself succeeds, whatever earlier ones ran *)
(* into: a restoration that stopped anywhere is finished by the next one.  *)
(* Not so when the process that was undoing or finishing died, or had no   *)
(* proof but the artifact: it cannot be made again from the state this     *)
(* left; nor when a write was cut off and its remains could not be removed.*)
NextCallSucceeds ==
    Idle /\ smooth /\ saves = 0 /\ ~halted /\ Scraps = {} =>
        answer \in {"none", "published", "restored", "finalized"}
=============================================================================

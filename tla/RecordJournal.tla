---------------------------- MODULE RecordJournal ----------------------------
(***************************************************************************)
(* The lifecycle journal on disk (packages/store/src/integration-store.ts):*)
(* one file per record in a directory, ordered by the time of its rename,  *)
(* beside the record file of older releases.  Appends of several processes *)
(* publish first and check afterwards; every one ends with a receipt, with *)
(* a plain failure, or with the answer that its outcome is uncertain.      *)
(*                                                                         *)
(* A record is what the journal's rules see of it: an id, the version of   *)
(* its schema, and when it was published.  A listing of the directory is   *)
(* one step, its repetition until two listings agree included; giving up   *)
(* is one of the faults.                                                   *)
(***************************************************************************)
EXTENDS Naturals, FiniteSets

CONSTANTS
    Writer,        \* appends, each of one record
    RecId,         \* record ids
    KeptRecords,   \* how many records cleanup keeps (MAX_RECORDS)
    MishapLimit    \* bound: failing operations, deaths and power failures

ASSUME JournalConstants ==
    IsFiniteSet(Writer) /\ KeptRecords \in Nat \ {0} /\ MishapLimit \in Nat

VARIABLES
    fragments,     \* appends whose record is in the directory
    stamp,         \* the time each was published, 0 before
    onDisk,        \* the directories a power failure may leave
    temporaries,   \* appends whose temporary file exists
    older,         \* ids in the file of older releases, all of version 1
    at,            \* where each append is
    entry,         \* the record of each append
    doomed,        \* the fragments a cleanup is about to remove
    verdict,       \* the answer of each append
    mishaps

journalVars == <<fragments, stamp, onDisk, temporaries, older, at, entry, doomed, verdict,
                 mishaps>>

At == {"idle", "stage", "rename", "verify", "sync", "list", "drop", "resync",
       "recheck", "compensate", "over"}
Verdict == {"none", "receipt", "failed", "uncertain"}
NoEntry == [id |-> "none", version |-> 0]

(* validateCrossVersionRecordIds: one id, one version.                     *)
Clash(r, s) == r.id = s.id /\ r.version # s.version

Agreeing(records) == \A r, s \in records : ~Clash(r, s)

OnFile(dir) == {entry[w] : w \in dir} \cup {[id |-> i, version |-> 1] : i \in older}

(* A listing: the records of the files there now, read and listed again    *)
(* until nothing changed in between, the newest first.  These follow all   *)
(* that are kept.                                                          *)
Newer(dir, w) == {x \in dir : stamp[x] > stamp[w]}
Superfluous   == {w \in fragments : Cardinality(Newer(fragments, w)) >= KeptRecords}

JournalInit ==
    /\ fragments = {} /\ onDisk = {{}} /\ temporaries = {}
    /\ older \in SUBSET RecId
    /\ at = [w \in Writer |-> "idle"]
    /\ entry = [w \in Writer |-> NoEntry]
    /\ doomed = [w \in Writer |-> {}]
    /\ verdict = [w \in Writer |-> "none"]
    /\ stamp = [w \in Writer |-> 0]
    /\ mishaps = 0

-----------------------------------------------------------------------------
GoOn(w, where) == at' = [at EXCEPT ![w] = where]

Answered(w, what) ==
    /\ GoOn(w, "over")
    /\ verdict' = [verdict EXCEPT ![w] = what]

Mishap == mishaps < MishapLimit /\ mishaps' = mishaps + 1
NoMishap == UNCHANGED mishaps

SetDirectory(dir) == fragments' = dir /\ onDisk' = onDisk \cup {dir}
SameDirectory == UNCHANGED <<fragments, onDisk>>

(* The published name leads to the very file that was written.             *)
Intact(w) == w \in fragments

(* fsync of the directory.                                                 *)
Flushed == UNCHANGED fragments /\ onDisk' = {fragments}

(* The temporary file goes at the end of an append, unless that fails too. *)
TidyTemporary(w) == temporaries' \in {temporaries \ {w}, temporaries}

(* Before anything is written, the journal with the new record is checked. *)
BeginAppend(w) ==
    /\ at[w] = "idle"
    /\ \E i \in RecId, v \in {1, 2} :
         /\ entry' = [entry EXCEPT ![w] = [id |-> i, version |-> v]]
         /\ IF Agreeing(OnFile(fragments) \cup {entry'[w]})
            THEN GoOn(w, "stage") /\ UNCHANGED verdict
            ELSE Answered(w, "failed")
    /\ NoMishap /\ SameDirectory /\ UNCHANGED <<temporaries, older, doomed, stamp>>

StageTemporary(w) ==
    /\ at[w] = "stage"
    /\ \/ /\ temporaries' = temporaries \cup {w}
          /\ GoOn(w, "rename") /\ UNCHANGED verdict /\ NoMishap
       \/ /\ Mishap /\ temporaries' \in {temporaries, temporaries \cup {w}}
          /\ Answered(w, "failed")
    /\ SameDirectory /\ UNCHANGED <<older, entry, doomed, stamp>>

(* It is newer than all that were ever published.                          *)
Dated(w) == stamp' = [stamp EXCEPT ![w] = 1 + Cardinality({x \in Writer : stamp[x] > 0})]

\* A mutant: the record gets its name by a link, the temporary file stays.
AppearBeside(w) == SetDirectory(fragments \cup {w}) /\ Dated(w) /\ UNCHANGED temporaries

Appear(w) ==
    /\ SetDirectory(fragments \cup {w})
    /\ temporaries' = temporaries \ {w}
    /\ Dated(w)

(* A mutant: a failure of the rename is taken at its word.                 *)
TrustRename(w) ==
    /\ at[w] = "rename"
    /\ \/ NoMishap /\ Appear(w) /\ GoOn(w, "verify") /\ UNCHANGED verdict
       \/ Mishap /\ Appear(w) /\ Answered(w, "failed")
       \/ Mishap /\ SameDirectory /\ UNCHANGED stamp /\ TidyTemporary(w) /\ Answered(w, "failed")
    /\ UNCHANGED <<older, entry, doomed>>

(* The rename publishes.  When it reports an error, the two names are      *)
(* looked at: no destination and the own temporary still there is a plain  *)
(* failure; all else is uncertain, also when the record that did appear    *)
(* has been proved to be the own one and removed again.                    *)
Rename(w) ==
    /\ at[w] = "rename"
    /\ UNCHANGED <<older, entry, doomed>>
    /\ \/ NoMishap /\ Appear(w) /\ GoOn(w, "verify") /\ UNCHANGED verdict
       \/ Mishap /\ SameDirectory /\ UNCHANGED stamp /\ TidyTemporary(w) /\ Answered(w, "failed")
       \/ /\ Mishap /\ Answered(w, "uncertain")
          /\ \/ SameDirectory /\ UNCHANGED <<temporaries, stamp>>
             \/ Appear(w)
             \/ /\ UNCHANGED fragments /\ onDisk' = onDisk \cup {fragments \cup {w}, fragments}
                /\ temporaries' = temporaries \ {w} /\ Dated(w)

(* The file must be the one that was written, at the published name.       *)
Verify(w) ==
    /\ at[w] = "verify"
    /\ \/ Intact(w) /\ NoMishap /\ GoOn(w, "sync") /\ UNCHANGED verdict
       \/ ~Intact(w) /\ NoMishap /\ Answered(w, "uncertain")
       \/ Mishap /\ Answered(w, "uncertain")
    /\ SameDirectory /\ UNCHANGED <<temporaries, older, entry, doomed, stamp>>

(* A mutant: the directory is not written through.                         *)
SyncNothing(w) ==
    /\ at[w] \in {"sync", "resync"} /\ NoMishap
    /\ GoOn(w, IF at[w] = "sync" THEN "list" ELSE "recheck")
    /\ SameDirectory /\ UNCHANGED <<temporaries, older, entry, doomed, verdict, stamp>>

(* Once after the rename and once after cleanup.  A failure of the first   *)
(* leaves the record where it is.                                          *)
Sync(w) ==
    /\ at[w] \in {"sync", "resync"}
    /\ UNCHANGED <<temporaries, older, entry, doomed, stamp>>
    /\ \/ /\ NoMishap /\ Flushed /\ UNCHANGED verdict
          /\ GoOn(w, IF at[w] = "sync" THEN "list" ELSE "recheck")
       \/ /\ Mishap /\ SameDirectory
          /\ IF at[w] = "sync" THEN Answered(w, "uncertain")
             ELSE GoOn(w, "compensate") /\ UNCHANGED verdict

(* cleanupOldFragments: all but the newest are removed, those the listing  *)
(* showed, some of them perhaps when one of the removals fails.            *)
ListOld(w) ==
    /\ at[w] = "list"
    /\ \/ /\ NoMishap /\ GoOn(w, "drop")
          /\ doomed' = [doomed EXCEPT ![w] = Superfluous]
       \/ Mishap /\ GoOn(w, "compensate") /\ UNCHANGED doomed
    /\ SameDirectory /\ UNCHANGED <<temporaries, older, entry, verdict, stamp>>

DropOld(w) ==
    /\ at[w] = "drop"
    /\ \/ /\ NoMishap /\ GoOn(w, "resync")
          /\ SetDirectory(fragments \ doomed[w])
       \/ /\ Mishap /\ GoOn(w, "compensate")
          /\ \E some \in SUBSET doomed[w] : SetDirectory(fragments \ some)
    /\ doomed' = [doomed EXCEPT ![w] = {}]
    /\ UNCHANGED <<temporaries, older, entry, verdict, stamp>>

(* A mutant: what is published is not read again.                          *)
RecheckOwn(w) ==
    /\ at[w] = "recheck" /\ NoMishap
    /\ IF Intact(w) THEN Answered(w, "receipt")
       ELSE GoOn(w, "compensate") /\ UNCHANGED verdict
    /\ SameDirectory /\ UNCHANGED <<temporaries, older, entry, doomed, stamp>>

(* The whole journal is read again: records published meanwhile count, and *)
(* two appends that clash both see it.                                     *)
Recheck(w) ==
    /\ at[w] = "recheck"
    /\ \/ /\ NoMishap
          /\ IF Agreeing(OnFile(fragments)) /\ Intact(w)
             THEN Answered(w, "receipt")
             ELSE GoOn(w, "compensate") /\ UNCHANGED verdict
       \/ Mishap /\ GoOn(w, "compensate") /\ UNCHANGED verdict
    /\ SameDirectory /\ UNCHANGED <<temporaries, older, entry, doomed, stamp>>

TakenBack(w) == fragments \ {w}

(* After the first fsync the own record is taken back and the directory    *)
(* synchronized; the answer is uncertain whether that works or not.        *)
Compensate(w) ==
    /\ at[w] = "compensate"
    /\ Answered(w, "uncertain")
    /\ \/ NoMishap /\ fragments' = TakenBack(w) /\ onDisk' = {TakenBack(w)}
       \/ Mishap /\ SetDirectory(TakenBack(w))
       \/ Mishap /\ SameDirectory
    /\ UNCHANGED <<temporaries, older, entry, doomed, stamp>>

-----------------------------------------------------------------------------
(* The process of one append dies; or the machine stops, and directory     *)
(* operations since the last fsync are lost from some point on.            *)
Running(w) == at[w] \notin {"idle", "over"}

DieAppending(w) ==
    /\ Running(w) /\ Mishap
    /\ GoOn(w, "over")
    /\ SameDirectory
    /\ UNCHANGED <<temporaries, older, entry, doomed, verdict, stamp>>

PowerFailure ==
    /\ Mishap
    /\ fragments' \in onDisk /\ onDisk' = {fragments'}
    /\ at' = [w \in Writer |-> IF Running(w) THEN "over" ELSE at[w]]
    /\ UNCHANGED <<temporaries, older, entry, doomed, verdict, stamp>>

AppendStep(w) ==
    \/ BeginAppend(w) \/ StageTemporary(w) \/ Rename(w) \/ Verify(w) \/ Sync(w)
    \/ ListOld(w) \/ DropOld(w) \/ Recheck(w) \/ Compensate(w)

JournalNext ==
    \/ \E w \in Writer : AppendStep(w) \/ DieAppending(w)
    \/ PowerFailure

JournalSpec == JournalInit /\ [][JournalNext]_journalVars

-----------------------------------------------------------------------------
(* Properties.                                                             *)

(* Every variable has its type; no file is under its temporary name beside *)
(* its published one, and no two were published at one time.               *)
JournalTypeOK ==
    /\ fragments \subseteq Writer /\ fragments \in onDisk /\ onDisk \subseteq SUBSET Writer
    /\ temporaries \subseteq Writer \ fragments /\ older \subseteq RecId
    /\ at \in [Writer -> At] /\ verdict \in [Writer -> Verdict]
    /\ entry \in [Writer -> [id : RecId, version : {1, 2}] \cup {NoEntry}]
    /\ doomed \in [Writer -> SUBSET Writer]
    /\ stamp \in [Writer -> Nat] /\ mishaps \in 0..MishapLimit
    /\ \A w, x \in Writer : stamp[w] = stamp[x] => w = x \/ stamp[w] = 0

(* The record may be cut: enough newer ones have been published.           *)
Outlived(w) == Cardinality(Newer(Writer, w)) >= KeptRecords

(* The answer of an append is what the journal holds, through the cleanups *)
(* and compensations of other appends, deaths and power failures: a record *)
(* with a receipt stays until KeptRecords newer ones were published, and   *)
(* after a plain failure the record is not there and does not come back    *)
(* (appendIntegrationRecord; the coordinator decides between compensation  *)
(* and recovery by it).                                                    *)
AppendAnswersHold ==
    \A w \in Writer :
        /\ verdict[w] = "receipt" => w \in fragments \/ Outlived(w)
        /\ verdict[w] = "failed"  => w \notin fragments /\ \A d \in onDisk : w \notin d

(* Two appends that use one id for records of different versions never     *)
(* both get a receipt, nor one beside an older record, although each       *)
(* checked before the other had published.  Records that cleanup may cut   *)
(* are left out: a power failure can bring one back after the append that  *)
(* did not see it any more was answered.                                   *)
Committed == {w \in fragments : verdict[w] = "receipt" /\ ~Outlived(w)}

ReceiptsAgree ==
    Agreeing({entry[w] : w \in Committed} \cup {[id |-> i, version |-> 1] : i \in older})
=============================================================================

------------------------------ MODULE MCStorage ------------------------------
(***************************************************************************)
(* Small instances of the parts that keep something on disk.  They share   *)
(* no state and each is checked on its own: a behaviour is one of the part *)
(* chosen first, while the others rest.                                    *)
(***************************************************************************)
EXTENDS RecordJournal, FilePublication, LocalStores, TLC

VARIABLE part

parts == <<journalVars, fileVars, storeVars, part>>

MCInit ==
    /\ part \in {"journal", "file", "stores"}
    /\ JournalInit /\ (part # "journal" => older = {})
    /\ FilesInit /\ (part # "file" => before = "none")
    /\ StoreInit /\ (part # "stores" => topic = "policy")

MCNext ==
    \/ part = "journal" /\ JournalNext /\ UNCHANGED <<fileVars, storeVars, part>>
    \/ part = "file" /\ FilesNext /\ UNCHANGED <<journalVars, storeVars, part>>
    \/ part = "stores" /\ StoreNext /\ UNCHANGED <<journalVars, fileVars, part>>

MCSpec == MCInit /\ [][MCNext]_parts

(* Of every set two members are interchangeable.  Since one part alone is  *)
(* at work they may be exchanged in all sets together.                      *)
Still(p) == \A x \in DOMAIN p : p[x] = x
third == CHOOSE w \in Writer : TRUE
Exchanges == {s \in Permutations(Writer) \X Permutations(Caller) \X Permutations(Report) :
                 s[1][third] = third /\ Still(s[1]) = Still(s[2]) /\ Still(s[2]) = Still(s[3])}
Interchangeable == {s[1] @@ s[2] @@ s[3] : s \in Exchanges}

(* The type invariant of the part at work; the resting ones keep their     *)
(* initial state.                                                           *)
PartsTypeOK ==
    /\ part = "journal" => JournalTypeOK
    /\ part = "file" => FilesTypeOK
    /\ part = "stores" => StoreTypeOK

(* What a call answers is so on disk: the record it says it has kept, or    *)
(* has not, no two records that disagree; the file it says it has           *)
(* published, put back or left.                                             *)
PartsAnswersHold == AppendAnswersHold /\ ReceiptsAgree /\ FileAnswersHold

(* Nobody's work is lost to somebody else's: neither what the owner of a    *)
(* configuration wrote while it was being published, nor what a caller of   *)
(* the stores changed while no other was changing the same file.            *)
OthersWorkKept == WantedKept /\ WorkSurvives
=============================================================================

--------------------------- MODULE PublicationProofs ---------------------------
(***************************************************************************)
(* Proofs about the three parts that publish one file at a time:           *)
(* RecordJournal, for every finite set of appends, every number of kept    *)
(* records and any number of failures, deaths and power failures;          *)
(* FilePublication, for every set of files and any number of failing       *)
(* operations, deaths and changes by the owner of the file; and            *)
(* ReviewedPlans, for every number of calls, versions and process deaths   *)
(* and for plans of any lifetime.                                          *)
(***************************************************************************)
EXTENDS RecordJournal, FilePublication, ReviewedPlans, FiniteSetTheorems,
        WellFoundedInduction, TLAPS

(* The appends to the lifecycle journal (RecordJournal).                   *)

Unpublished == {"idle", "stage", "rename"}
Appeared    == {"verify", "sync"}
Durable     == {"list", "drop", "resync", "recheck"}

(* What is known of one append: a record is published once, after all that *)
(* was published before; once it is, it is in the directory until it is    *)
(* outlived, and after the first fsync in every directory a power failure  *)
(* may leave.                                                              *)
AppendInv(w) ==
    /\ at[w] # "over" => verdict[w] = "none"
    /\ at[w] \in Unpublished \/ verdict[w] = "failed" => stamp[w] = 0
    /\ at[w] \in Appeared \cup Durable \/ verdict[w] = "receipt" => stamp[w] > 0
    /\ at[w] \in Appeared => w \in fragments \/ Outlived(w)
    /\ at[w] \in Durable \/ verdict[w] = "receipt" => Outlived(w) \/ \A d \in onDisk : w \in d
    /\ \A x \in doomed[w] : stamp[x] > 0 /\ Outlived(x)

Stamped == {x \in Writer : stamp[x] > 0}

JournalInv ==
    /\ JournalTypeOK
    /\ \A d \in onDisk : \A w \in d : stamp[w] > 0
    /\ \A w \in temporaries : stamp[w] = 0
    /\ \A w \in Writer : stamp[w] <= Cardinality(Stamped)
    /\ \A w \in Writer : AppendInv(w)
    /\ ReceiptsAgree

-----------------------------------------------------------------------------
(* Who is newer.                                                           *)

LEMMA Finite ==
  \A S \in SUBSET Writer : /\ IsFiniteSet(S) /\ Cardinality(S) \in Nat
                           /\ \A T \in SUBSET S : Cardinality(T) <= Cardinality(S)
  BY JournalConstants, FS_Subset, FS_CardinalityType

(* What follows more than is kept in the directory is outlived.            *)
LEMMA SuperfluousOutlived ==
  ASSUME JournalTypeOK, NEW w \in Superfluous
  PROVE  Outlived(w)
<1>1. Newer(fragments, w) \subseteq Newer(Writer, w) /\ Newer(Writer, w) \in SUBSET Writer
  BY DEF JournalTypeOK, Newer
<1>2. /\ Cardinality(Newer(fragments, w)) <= Cardinality(Newer(Writer, w))
      /\ Cardinality(Newer(fragments, w)) \in Nat /\ Cardinality(Newer(Writer, w)) \in Nat
  BY <1>1, Finite
<1> QED
  BY <1>2, JournalConstants DEF Superfluous, Outlived

(* Without a publication nobody becomes older.                             *)
LEMMA SameStamp ==
  ASSUME UNCHANGED stamp
  PROVE  /\ \A w : Outlived(w)' <=> Outlived(w)
         /\ Stamped' = Stamped
  BY DEF Outlived, Newer, Stamped

(* A publication makes the others only older, and comes after them all.    *)
LEMMA NewStamp ==
  ASSUME JournalInv, NEW w \in Writer, stamp[w] = 0, Dated(w)
  PROVE  /\ stamp' \in [Writer -> Nat] /\ stamp'[w] > 0
         /\ \A x \in Writer : x # w => stamp'[x] = stamp[x]
         /\ \A x, y \in Writer : stamp'[x] = stamp'[y] => x = y \/ stamp'[x] = 0
         /\ \A x \in Writer : stamp'[x] <= Cardinality(Stamped')
         /\ \A x \in Writer : x # w /\ Outlived(x) => Outlived(x)'
<1> DEFINE n == 1 + Cardinality(Stamped)
<1>0. stamp \in [Writer -> Nat] /\ stamp' = [stamp EXCEPT ![w] = n]
  BY DEF JournalInv, JournalTypeOK, Dated, Stamped
<1>1. IsFiniteSet(Stamped) /\ Cardinality(Stamped) \in Nat
  BY Finite DEF Stamped
<1>2. n \in Nat /\ n > 0 /\ \A x \in Writer : stamp[x] < n
  BY <1>0, <1>1 DEF JournalInv
<1> HIDE DEF n
<1>3. stamp' \in [Writer -> Nat] /\ stamp'[w] = n /\ \A x \in Writer : x # w => stamp'[x] = stamp[x]
  BY <1>0, <1>2
<1>4. \A x, y \in Writer : stamp'[x] = stamp'[y] => x = y \/ stamp'[x] = 0
  BY <1>0, <1>2, <1>3 DEF JournalInv, JournalTypeOK
<1>5. Stamped' = Stamped \cup {w} /\ w \notin Stamped
  BY <1>0, <1>2, <1>3 DEF Stamped
<1>6. Cardinality(Stamped') = n
  BY <1>1, <1>5, FS_AddElement DEF n
<1>7. \A x \in Writer : stamp'[x] <= n
  BY <1>0, <1>2, <1>3
<1>8. ASSUME NEW x \in Writer, x # w, Outlived(x) PROVE Outlived(x)'
  <2>1. Newer(Writer, x) \subseteq Newer(Writer, x)' /\ Newer(Writer, x)' \in SUBSET Writer
    BY <1>0, <1>2, <1>3, <1>8 DEF Newer
  <2>2. /\ Cardinality(Newer(Writer, x)) <= Cardinality(Newer(Writer, x)')
        /\ Cardinality(Newer(Writer, x)) \in Nat /\ Cardinality(Newer(Writer, x)') \in Nat
    BY <2>1, Finite
  <2> QED
    BY <1>8, <2>2, JournalConstants DEF Outlived
<1> QED
  BY <1>2, <1>3, <1>4, <1>6, <1>7, <1>8

-----------------------------------------------------------------------------
(* What a step of the append w does to the others: they do not move, and    *)
(* lose their place in a directory only when they are outlived.             *)
StepOf(w) ==
    /\ \A x \in Writer : x # w => at'[x] = at[x] /\ verdict'[x] = verdict[x] /\ doomed'[x] = doomed[x]
                                 /\ entry'[x] = entry[x]
    /\ \A x \in Writer : (x = w /\ stamp[w] = 0)
                         \/ (stamp'[x] = stamp[x] /\ (Outlived(x) => Outlived(x)'))
    /\ \A x \in fragments : x = w \/ x \in fragments' \/ Outlived(x)
    /\ \A d \in onDisk' : \E e \in onDisk :
          \A x \in e : x = w \/ x \in d \/ Outlived(x)

LEMMA OthersKept ==
  ASSUME JournalInv, NEW w \in Writer, StepOf(w), NEW x \in Writer, x # w
  PROVE  AppendInv(x)'
<1>1. /\ at'[x] = at[x] /\ verdict'[x] = verdict[x] /\ doomed'[x] = doomed[x]
      /\ stamp'[x] = stamp[x] /\ (Outlived(x) => Outlived(x)')
      /\ AppendInv(x) /\ doomed[x] \subseteq Writer
  BY DEF StepOf, JournalInv, JournalTypeOK
<1>2. at[x] \in Appeared => x \in fragments' \/ Outlived(x)'
  BY <1>1 DEF StepOf, AppendInv
<1>3. at[x] \in Durable \/ verdict[x] = "receipt" => Outlived(x)' \/ \A d \in onDisk' : x \in d
  BY <1>1 DEF StepOf, AppendInv
<1>4. \A y \in doomed[x] : stamp'[y] > 0 /\ Outlived(y)'
  BY <1>1 DEF StepOf, AppendInv
<1> QED
  BY <1>1, <1>2, <1>3, <1>4 DEF AppendInv

(* The receipts go on agreeing when none is added.                          *)
LEMMA AgreeKept ==
  ASSUME JournalInv, NEW w \in Writer, StepOf(w), UNCHANGED older,
         fragments' \subseteq fragments \cup {w},
         w \notin Committed', w \in Committed => entry'[w] = entry[w]
  PROVE  ReceiptsAgree'
<1>1. \A x \in Committed' : x \in Committed /\ entry'[x] = entry[x]
  BY DEF StepOf, Committed, JournalInv, JournalTypeOK
<1> QED
  BY <1>1 DEF JournalInv, ReceiptsAgree, Agreeing

(* All of the invariant, from what a step does to its own append.           *)
LEMMA AppendStepKept ==
  ASSUME JournalInv, NEW w \in Writer, StepOf(w), UNCHANGED older,
         JournalTypeOK', AppendInv(w)', ReceiptsAgree',
         \A d \in onDisk' : \A x \in d : stamp'[x] > 0,
         \A x \in temporaries' : stamp'[x] = 0,
         \A x \in Writer : stamp'[x] <= Cardinality(Stamped')
  PROVE  JournalInv'
<1>1. \A x \in Writer : AppendInv(x)'
  BY OthersKept
<1> QED
  BY <1>1 DEF JournalInv

(* A step that leaves the directory alone.                                  *)
LEMMA InPlaceKept ==
  ASSUME JournalInv, NEW w \in Writer, SameDirectory, UNCHANGED <<stamp, older>>,
         NEW a \in At, at' = [at EXCEPT ![w] = a],
         NEW v \in Verdict, verdict' = [verdict EXCEPT ![w] = v],
         NEW e \in [id : RecId, version : {1, 2}] \cup {NoEntry}, entry' = [entry EXCEPT ![w] = e],
         NEW D \in SUBSET Writer, doomed' = [doomed EXCEPT ![w] = D],
         temporaries' \subseteq temporaries \cup {x \in {w} : stamp[w] = 0},
         mishaps' \in 0..MishapLimit,
         AppendInv(w)', e = entry[w] \/ stamp[w] = 0, v # "receipt" \/ ReceiptsAgree'
  PROVE  JournalInv'
<1>0. \A x \in Writer : Outlived(x)' <=> Outlived(x)
  BY SameStamp
<1>1. StepOf(w)
  BY <1>0 DEF StepOf, SameDirectory, JournalInv, JournalTypeOK
<1>2. \A x \in temporaries' : stamp'[x] = 0
  BY DEF JournalInv
<1>3. \A d \in onDisk : \A x \in d : stamp[x] > 0
  BY DEF JournalInv
<1>4. temporaries' \subseteq Writer \ fragments'
  <2>1. \A x \in fragments : stamp[x] > 0
    BY DEF JournalInv, JournalTypeOK
  <2> QED
    BY <1>2, <2>1 DEF SameDirectory, JournalInv, JournalTypeOK
<1>5. JournalTypeOK'
  BY <1>4 DEF JournalInv, JournalTypeOK, SameDirectory
<1>6. Stamped' = Stamped
  BY SameStamp
<1>7. ReceiptsAgree'
  <2>1. CASE v # "receipt"
    <3>1. w \notin Committed'
      BY <2>1 DEF Committed, JournalInv, JournalTypeOK
    <3>2. w \in Committed => entry'[w] = entry[w]
      BY <1>3 DEF Committed, JournalInv, JournalTypeOK
    <3> QED
      BY <1>1, <3>1, <3>2, AgreeKept DEF SameDirectory
  <2> QED
    BY <2>1
<1> QED
  BY <1>1, <1>2, <1>3, <1>5, <1>6, <1>7, AppendStepKept DEF SameDirectory, JournalInv

(* What the invariant says of one append, type and all.                     *)
LEMMA OneAppend ==
  ASSUME JournalInv, NEW w \in Writer
  PROVE  /\ at \in [Writer -> At] /\ verdict \in [Writer -> Verdict] /\ doomed \in [Writer -> SUBSET Writer]
         /\ entry \in [Writer -> [id : RecId, version : {1, 2}] \cup {NoEntry}]
         /\ at = [at EXCEPT ![w] = at[w]] /\ verdict = [verdict EXCEPT ![w] = verdict[w]]
         /\ doomed = [doomed EXCEPT ![w] = doomed[w]] /\ entry = [entry EXCEPT ![w] = entry[w]]
         /\ at[w] \in At /\ verdict[w] \in Verdict /\ doomed[w] \in SUBSET Writer
         /\ entry[w] \in [id : RecId, version : {1, 2}] \cup {NoEntry}
         /\ AppendInv(w) /\ mishaps \in 0..MishapLimit
  BY DEF JournalInv, JournalTypeOK

LEMMA Counting ==
  ASSUME JournalInv, NoMishap \/ Mishap
  PROVE  mishaps' \in 0..MishapLimit
  BY JournalConstants DEF JournalInv, JournalTypeOK, NoMishap, Mishap

LEMMA AppendBeginKept == ASSUME JournalInv, NEW w \in Writer, BeginAppend(w) PROVE JournalInv'
<1>0. /\ at[w] = "idle" /\ SameDirectory /\ UNCHANGED <<temporaries, older, doomed, stamp>>
      /\ mishaps' \in 0..MishapLimit
  BY Counting DEF BeginAppend
<1>1. PICK e \in [id : RecId, version : {1, 2}] :
        /\ entry' = [entry EXCEPT ![w] = e]
        /\ \/ at' = [at EXCEPT ![w] = "stage"] /\ UNCHANGED verdict
           \/ at' = [at EXCEPT ![w] = "over"] /\ verdict' = [verdict EXCEPT ![w] = "failed"]
  BY DEF BeginAppend, GoOn, Answered
<1>2. stamp[w] = 0 /\ verdict[w] # "receipt"
  BY <1>0, OneAppend DEF AppendInv, Unpublished
<1>3. \A x : Outlived(x)' <=> Outlived(x)
  BY <1>0, SameStamp
<1>4. CASE at' = [at EXCEPT ![w] = "stage"] /\ UNCHANGED verdict
  <2>1. AppendInv(w)'
    BY <1>0, <1>2, <1>3, <1>4, OneAppend DEF AppendInv, Unpublished, Appeared, Durable, SameDirectory
  <2>2. /\ verdict' = [verdict EXCEPT ![w] = verdict[w]] /\ verdict[w] \in Verdict
        /\ doomed' = [doomed EXCEPT ![w] = doomed[w]] /\ doomed[w] \in SUBSET Writer
        /\ temporaries' \subseteq temporaries \cup {x \in {w} : stamp[w] = 0}
    BY <1>0, <1>4, OneAppend
  <2>3. "stage" \in At /\ at' = [at EXCEPT ![w] = "stage"]
    BY <1>4 DEF At
  <2> QED
    BY ZenonT(60), <1>0, <1>1, <1>2, <2>1, <2>2, <2>3, InPlaceKept
<1>5. CASE at' = [at EXCEPT ![w] = "over"] /\ verdict' = [verdict EXCEPT ![w] = "failed"]
  <2>1. AppendInv(w)'
    BY <1>0, <1>2, <1>3, <1>5, OneAppend DEF AppendInv, Unpublished, Appeared, Durable, SameDirectory
  <2> QED
    BY ZenonT(60), <1>0, <1>1, <1>2, <1>5, <2>1, OneAppend, InPlaceKept DEF At, Verdict
<1> QED
  BY <1>1, <1>4, <1>5

LEMMA StageKept == ASSUME JournalInv, NEW w \in Writer, StageTemporary(w) PROVE JournalInv'
<1>0. /\ at[w] = "stage" /\ SameDirectory /\ UNCHANGED <<older, entry, doomed, stamp>>
      /\ mishaps' \in 0..MishapLimit /\ temporaries' \subseteq temporaries \cup {w}
  BY Counting DEF StageTemporary
<1>1. stamp[w] = 0 /\ verdict[w] # "receipt"
  BY <1>0, OneAppend DEF AppendInv, Unpublished
<1>2. \A x : Outlived(x)' <=> Outlived(x)
  BY <1>0, SameStamp
<1>3. CASE at' = [at EXCEPT ![w] = "rename"] /\ UNCHANGED verdict
  <2>1. AppendInv(w)'
    BY <1>0, <1>1, <1>2, <1>3, OneAppend DEF AppendInv, Unpublished, Appeared, Durable, SameDirectory
  <2> QED
    BY ZenonT(60), <1>0, <1>1, <1>3, <2>1, OneAppend, InPlaceKept DEF At
<1>4. CASE at' = [at EXCEPT ![w] = "over"] /\ verdict' = [verdict EXCEPT ![w] = "failed"]
  <2>1. AppendInv(w)'
    BY <1>0, <1>1, <1>2, <1>4, OneAppend DEF AppendInv, Unpublished, Appeared, Durable, SameDirectory
  <2> QED
    BY <1>0, <1>1, <1>4, <2>1, OneAppend, InPlaceKept DEF At, Verdict
<1> QED
  BY <1>3, <1>4 DEF StageTemporary, GoOn, Answered

-----------------------------------------------------------------------------
(* The rename.                                                              *)

(* The record appears, in the directory or only in one a power failure may  *)
(* leave.                                                                   *)
LEMMA AppearKept ==
  ASSUME JournalInv, NEW w \in Writer, at[w] = "rename", Dated(w),
         \/ fragments' = fragments \cup {w} /\ onDisk' = onDisk \cup {fragments'}
         \/ UNCHANGED fragments /\ onDisk' = onDisk \cup {fragments \cup {w}, fragments},
         temporaries' = temporaries \ {w}, UNCHANGED <<older, entry, doomed>>, NoMishap \/ Mishap,
         \/ at' = [at EXCEPT ![w] = "verify"] /\ UNCHANGED verdict /\ w \in fragments'
         \/ at' = [at EXCEPT ![w] = "over"] /\ verdict' = [verdict EXCEPT ![w] = "uncertain"]
  PROVE  JournalInv'
<1>0. stamp[w] = 0 /\ verdict[w] = "none" /\ stamp \in [Writer -> Nat]
  BY OneAppend DEF AppendInv, Unpublished, JournalInv, JournalTypeOK
<1>1. /\ stamp' \in [Writer -> Nat] /\ stamp'[w] > 0
      /\ \A x \in Writer : x # w => stamp'[x] = stamp[x]
      /\ \A x, y \in Writer : stamp'[x] = stamp'[y] => x = y \/ stamp'[x] = 0
      /\ \A x \in Writer : stamp'[x] <= Cardinality(Stamped')
      /\ \A x \in Writer : x # w /\ Outlived(x) => Outlived(x)'
  BY <1>0, NewStamp
<1>2. /\ fragments \subseteq Writer /\ fragments \in onDisk /\ onDisk \subseteq SUBSET Writer
      /\ temporaries \subseteq Writer \ fragments
  BY DEF JournalInv, JournalTypeOK
<1>3. /\ fragments' \subseteq fragments \cup {w} /\ fragments \subseteq fragments' /\ fragments' \in onDisk'
      /\ onDisk' \subseteq onDisk \cup {fragments, fragments \cup {w}}
  BY <1>2
<1>4. StepOf(w)
  <2>1. \A x \in Writer : x # w => at'[x] = at[x] /\ verdict'[x] = verdict[x]
                                  /\ doomed'[x] = doomed[x] /\ entry'[x] = entry[x]
    BY OneAppend
  <2>2. \A d \in onDisk' : \E e \in onDisk : e \subseteq d
    BY <1>2, <1>3
  <2> QED
    BY <1>0, <1>1, <1>2, <1>3, <2>1, <2>2 DEF StepOf
<1>5. mishaps' \in 0..MishapLimit
  BY Counting
<1>6. JournalTypeOK'
  <2>1. onDisk' \subseteq SUBSET Writer /\ fragments' \subseteq Writer /\ temporaries' \subseteq Writer \ fragments'
    BY <1>2, <1>3
  <2>2. at' \in [Writer -> At] /\ verdict' \in [Writer -> Verdict]
    BY OneAppend DEF At, Verdict
  <2> QED
    BY <1>1, <1>3, <1>5, <2>1, <2>2 DEF JournalInv, JournalTypeOK
<1>7. AppendInv(w)'
  <2>1. \A y \in doomed[w] : stamp'[y] > 0 /\ Outlived(y)'
    BY <1>0, <1>1, OneAppend DEF AppendInv
  <2> QED
    BY <1>0, <1>1, <2>1, OneAppend DEF AppendInv, Unpublished, Appeared, Durable
<1>8. ReceiptsAgree'
  <2>1. w \notin Committed' /\ w \notin Committed
    BY <1>0, OneAppend DEF Committed
  <2> QED
    BY <1>3, <1>4, <2>1, AgreeKept
<1>9. (\A d \in onDisk' : \A x \in d : stamp'[x] > 0) /\ (\A x \in temporaries' : stamp'[x] = 0)
  BY <1>1, <1>2, <1>3 DEF JournalInv
<1> QED
  BY <1>1, <1>4, <1>6, <1>7, <1>8, <1>9, AppendStepKept

LEMMA AppendRenameKept == ASSUME JournalInv, NEW w \in Writer, Rename(w) PROVE JournalInv'
<1>0. at[w] = "rename" /\ UNCHANGED <<older, entry, doomed>> /\ mishaps' \in 0..MishapLimit
  BY Counting DEF Rename
<1>1. CASE NoMishap /\ Appear(w) /\ GoOn(w, "verify") /\ UNCHANGED verdict
  BY <1>0, <1>1, AppearKept DEF Appear, SetDirectory, GoOn
<1>2. CASE Mishap /\ Appear(w) /\ Answered(w, "uncertain")
  BY <1>0, <1>2, AppearKept DEF Appear, SetDirectory, Answered, GoOn
<1>3. CASE /\ Mishap /\ Answered(w, "uncertain") /\ Dated(w) /\ temporaries' = temporaries \ {w}
           /\ UNCHANGED fragments /\ onDisk' = onDisk \cup {fragments \cup {w}, fragments}
  BY <1>0, <1>3, AppearKept DEF Answered, GoOn
<1>4. CASE /\ SameDirectory /\ UNCHANGED stamp /\ temporaries' \subseteq temporaries
           /\ Answered(w, "failed") \/ Answered(w, "uncertain")
  <2>0. PICK v \in {"failed", "uncertain"} : Answered(w, v)
    BY <1>4
  <2>1. AppendInv(w)'
    <3>1. \A x : Outlived(x)' <=> Outlived(x)
      BY <1>4, SameStamp
    <3> QED
      BY <1>0, <1>4, <2>0, <3>1, OneAppend
      DEF AppendInv, Unpublished, Appeared, Durable, SameDirectory, Answered, GoOn
  <2> QED
    BY ZenonT(60), <1>0, <1>4, <2>0, <2>1, OneAppend, InPlaceKept DEF At, Verdict, Answered, GoOn
<1> QED
  BY <1>1, <1>2, <1>3, <1>4 DEF Rename, TidyTemporary

-----------------------------------------------------------------------------
(* The steps after it.                                                      *)

(* A step that goes on, or answers, and leaves the directory alone.         *)
LEMMA MoveKept ==
  ASSUME JournalInv, NEW w \in Writer, at[w] \notin Unpublished, SameDirectory,
         UNCHANGED <<stamp, older, entry, temporaries>>, NoMishap \/ Mishap,
         NEW a \in At, at' = [at EXCEPT ![w] = a], a \notin Unpublished,
         NEW v \in Verdict, verdict' = [verdict EXCEPT ![w] = v],
         NEW D \in SUBSET Writer, doomed' = [doomed EXCEPT ![w] = D],
         \A x \in D : stamp[x] > 0 /\ Outlived(x),
         a # "over" => v = "none", v # "failed",
         a \in Appeared => at[w] \in Appeared,
         a \in Durable \/ v = "receipt" => at[w] \in Durable,
         v # "receipt" \/ ReceiptsAgree'
  PROVE  JournalInv'
<1>1. \A x : Outlived(x)' <=> Outlived(x)
  BY SameStamp
<1>2. AppendInv(w)'
  BY <1>1, OneAppend DEF AppendInv, SameDirectory
<1>3. mishaps' \in 0..MishapLimit
  BY Counting
<1> QED
  BY <1>2, <1>3, OneAppend, InPlaceKept

(* A step that changes the directory: it takes nothing out but what is      *)
(* outlived, and its own record.                                            *)
LEMMA DirectoryKept ==
  ASSUME JournalInv, NEW w \in Writer, NoMishap \/ Mishap,
         UNCHANGED <<stamp, older, entry, temporaries>>,
         NEW a \in At, at' = [at EXCEPT ![w] = a],
         NEW v \in Verdict, verdict' = [verdict EXCEPT ![w] = v], v # "receipt",
         NEW D \in SUBSET Writer, doomed' = [doomed EXCEPT ![w] = D],
         fragments' \subseteq fragments, fragments' \in onDisk',
         \A x \in fragments : x = w \/ x \in fragments' \/ Outlived(x),
         \A d \in onDisk' : d \in onDisk \/ d = fragments',
         AppendInv(w)'
  PROVE  JournalInv'
<1>1. \A x : Outlived(x)' <=> Outlived(x)
  BY SameStamp
<1>2. fragments \in onDisk /\ onDisk \subseteq SUBSET Writer /\ fragments \subseteq Writer
      /\ stamp \in [Writer -> Nat] /\ older \subseteq RecId
  BY DEF JournalInv, JournalTypeOK
<1>3. StepOf(w)
  <2>1. \A d \in onDisk' : \E e \in onDisk : \A x \in e : x = w \/ x \in d \/ Outlived(x)
    BY <1>2
  <2>2. \A x \in Writer : x # w => at'[x] = at[x] /\ verdict'[x] = verdict[x]
                                  /\ doomed'[x] = doomed[x] /\ entry'[x] = entry[x]
    BY OneAppend
  <2> QED
    BY <1>1, <2>1, <2>2 DEF StepOf
<1>4. mishaps' \in 0..MishapLimit
  BY Counting
<1>5. JournalTypeOK'
  <2>1. onDisk' \subseteq SUBSET Writer /\ fragments' \subseteq Writer /\ temporaries' \subseteq Writer \ fragments'
    BY <1>2 DEF JournalInv, JournalTypeOK
  <2>2. at' \in [Writer -> At] /\ verdict' \in [Writer -> Verdict] /\ doomed' \in [Writer -> SUBSET Writer]
    BY OneAppend
  <2> QED
    BY <1>4, <2>1, <2>2 DEF JournalInv, JournalTypeOK
<1>6. w \notin Committed'
  BY OneAppend DEF Committed
<1>7. ReceiptsAgree'
  BY <1>3, <1>6, AgreeKept
<1>8. \A d \in onDisk' : \A x \in d : stamp'[x] > 0
  BY <1>2 DEF JournalInv
<1>9. (\A x \in temporaries' : stamp'[x] = 0) /\ \A x \in Writer : stamp'[x] <= Cardinality(Stamped')
  BY SameStamp DEF JournalInv
<1> QED
  BY <1>3, <1>5, <1>7, <1>8, <1>9, AppendStepKept

LEMMA VerifyKept == ASSUME JournalInv, NEW w \in Writer, Verify(w) PROVE JournalInv'
<1>0. at[w] = "verify" /\ verdict[w] = "none" /\ \A x \in doomed[w] : stamp[x] > 0 /\ Outlived(x)
  BY OneAppend DEF Verify, AppendInv
<1>1. CASE GoOn(w, "sync") /\ UNCHANGED verdict
  BY <1>0, <1>1, OneAppend, MoveKept DEF Verify, GoOn, At, Unpublished, Appeared, Durable
<1>2. CASE Answered(w, "uncertain")
  BY <1>0, <1>2, OneAppend, MoveKept DEF Verify, Answered, GoOn, At, Verdict, Unpublished, Appeared, Durable
<1> QED
  BY <1>1, <1>2 DEF Verify

LEMMA SyncKept == ASSUME JournalInv, NEW w \in Writer, Sync(w) PROVE JournalInv'
<1>0. /\ at[w] \in {"sync", "resync"} /\ verdict[w] = "none"
      /\ \A x \in doomed[w] : stamp[x] > 0 /\ Outlived(x)
  BY OneAppend DEF Sync, AppendInv
<1> DEFINE next == IF at[w] = "sync" THEN "list" ELSE "recheck"
<1>1. CASE NoMishap /\ Flushed /\ UNCHANGED verdict /\ GoOn(w, next)
  <2>1. \A x : Outlived(x)' <=> Outlived(x)
    BY SameStamp DEF Sync
  <2>2. w \in fragments \/ Outlived(w)
    BY <1>0, OneAppend DEF AppendInv, Appeared, Durable, JournalInv, JournalTypeOK
  <2>3. stamp[w] > 0
    BY <1>0, OneAppend DEF AppendInv, Appeared, Durable
  <2>4. AppendInv(w)'
    BY <1>0, <1>1, <2>1, <2>2, <2>3, OneAppend DEF AppendInv, Sync, Flushed, GoOn, Unpublished, Appeared, Durable
  <2> QED
    BY <1>0, <1>1, <2>4, OneAppend, DirectoryKept DEF Sync, Flushed, GoOn, At
<1>2. CASE Mishap /\ SameDirectory /\ Answered(w, "uncertain")
  BY <1>0, <1>2, OneAppend, MoveKept DEF Sync, Answered, GoOn, At, Verdict, Unpublished, Appeared, Durable
<1>3. CASE Mishap /\ SameDirectory /\ GoOn(w, "compensate") /\ UNCHANGED verdict
  BY <1>0, <1>3, OneAppend, MoveKept DEF Sync, GoOn, At, Unpublished, Appeared, Durable
<1> QED
  BY <1>1, <1>2, <1>3 DEF Sync

LEMMA ListKept == ASSUME JournalInv, NEW w \in Writer, ListOld(w) PROVE JournalInv'
<1>0. /\ at[w] = "list" /\ verdict[w] = "none"
      /\ \A x \in doomed[w] : stamp[x] > 0 /\ Outlived(x)
  BY OneAppend DEF ListOld, AppendInv
<1>1. CASE NoMishap /\ GoOn(w, "drop") /\ doomed' = [doomed EXCEPT ![w] = Superfluous]
  <2>1. \A x \in Superfluous : stamp[x] > 0 /\ Outlived(x) /\ x \in Writer
    BY SuperfluousOutlived DEF JournalInv, JournalTypeOK, Superfluous
  <2> QED
    BY <1>0, <1>1, <2>1, OneAppend, MoveKept DEF ListOld, GoOn, At, Unpublished, Appeared, Durable
<1>2. CASE Mishap /\ GoOn(w, "compensate") /\ UNCHANGED doomed
  BY <1>0, <1>2, OneAppend, MoveKept DEF ListOld, GoOn, At, Unpublished, Appeared, Durable
<1> QED
  BY <1>1, <1>2 DEF ListOld

LEMMA DropKept == ASSUME JournalInv, NEW w \in Writer, DropOld(w) PROVE JournalInv'
<1>0. /\ at[w] = "drop" /\ verdict[w] = "none" /\ stamp[w] > 0
      /\ \A x \in doomed[w] : Outlived(x)
      /\ Outlived(w) \/ \A d \in onDisk : w \in d
  BY OneAppend DEF DropOld, AppendInv, Durable
<1>1. \A x : Outlived(x)' <=> Outlived(x)
  BY SameStamp DEF DropOld
<1>2. PICK some \in SUBSET doomed[w], a \in {"resync", "compensate"} :
         /\ GoOn(w, a) /\ (NoMishap \/ Mishap)
         /\ fragments' = fragments \ some /\ onDisk' = onDisk \cup {fragments \ some}
  BY DEF DropOld, SetDirectory
<1>3. AppendInv(w)'
  <2>1. Outlived(w) \/ \A d \in onDisk' : w \in d
    BY <1>0, <1>2 DEF JournalInv, JournalTypeOK
  <2>2. doomed'[w] = {}
    BY OneAppend DEF DropOld
  <2> QED
    BY <1>0, <1>1, <1>2, <2>1, <2>2, OneAppend DEF AppendInv, DropOld, GoOn, Unpublished, Appeared, Durable
<1>4. /\ fragments' \subseteq fragments /\ fragments' \in onDisk'
      /\ \A x \in fragments : x = w \/ x \in fragments' \/ Outlived(x)
      /\ \A d \in onDisk' : d \in onDisk \/ d = fragments'
  BY <1>0, <1>2
<1>5. /\ at' = [at EXCEPT ![w] = a] /\ a \in At
      /\ verdict' = [verdict EXCEPT ![w] = "none"] /\ "none" \in Verdict /\ "none" # "receipt"
      /\ doomed' = [doomed EXCEPT ![w] = {}] /\ {} \in SUBSET Writer
      /\ UNCHANGED <<stamp, older, entry, temporaries>>
  BY <1>0, <1>2, OneAppend DEF DropOld, GoOn, At, Verdict
<1> QED
  BY <1>2, <1>3, <1>4, <1>5, DirectoryKept

LEMMA RecheckKept == ASSUME JournalInv, NEW w \in Writer, Recheck(w) PROVE JournalInv'
<1>0. /\ at[w] = "recheck" /\ verdict[w] = "none"
      /\ \A x \in doomed[w] : stamp[x] > 0 /\ Outlived(x)
  BY OneAppend DEF Recheck, AppendInv
<1>1. CASE Agreeing(OnFile(fragments)) /\ NoMishap /\ Answered(w, "receipt")
  <2>1. Committed' \subseteq fragments
    BY DEF Committed, Recheck, SameDirectory
  <2>2. ReceiptsAgree'
    BY <1>1, <2>1 DEF ReceiptsAgree, Agreeing, OnFile, Recheck
  <2> QED
    BY <1>0, <1>1, <2>2, OneAppend, MoveKept
    DEF Recheck, Answered, GoOn, At, Verdict, Unpublished, Appeared, Durable
<1>2. CASE GoOn(w, "compensate") /\ UNCHANGED verdict
  BY <1>0, <1>2, OneAppend, MoveKept DEF Recheck, GoOn, At, Unpublished, Appeared, Durable
<1> QED
  BY <1>1, <1>2 DEF Recheck

LEMMA CompensateKept == ASSUME JournalInv, NEW w \in Writer, Compensate(w) PROVE JournalInv'
<1>0. at[w] = "compensate" /\ verdict[w] = "none" /\ \A x \in doomed[w] : stamp[x] > 0 /\ Outlived(x)
  BY OneAppend DEF Compensate, AppendInv
<1>1. CASE SameDirectory
  BY <1>0, <1>1, OneAppend, MoveKept
  DEF Compensate, Answered, GoOn, At, Verdict, Unpublished, Appeared, Durable
<1>2. CASE fragments' = fragments \ {w} /\ (onDisk' = {fragments'} \/ onDisk' = onDisk \cup {fragments'})
  <2>1. \A x : Outlived(x)' <=> Outlived(x)
    BY SameStamp DEF Compensate
  <2>2. AppendInv(w)'
    BY <1>0, <2>1, OneAppend DEF Compensate, Answered, GoOn, AppendInv, Unpublished, Appeared, Durable
  <2> QED
    BY <1>0, <1>2, <2>2, OneAppend, DirectoryKept DEF Compensate, Answered, GoOn, At, Verdict
<1> QED
  BY <1>1, <1>2 DEF Compensate, TakenBack, SetDirectory

-----------------------------------------------------------------------------
(* Deaths.                                                                  *)

LEMMA AppendDieKept == ASSUME JournalInv, NEW w \in Writer, DieAppending(w) PROVE JournalInv'
<1>0. at[w] \notin {"idle", "over"} /\ verdict[w] = "none"
  BY OneAppend DEF DieAppending, Running, AppendInv
<1>1. \A x : Outlived(x)' <=> Outlived(x)
  BY SameStamp DEF DieAppending
<1>2. AppendInv(w)'
  BY <1>0, <1>1, OneAppend DEF DieAppending, GoOn, AppendInv, Unpublished, Appeared, Durable, SameDirectory
<1>3. mishaps' \in 0..MishapLimit
  BY Counting DEF DieAppending
<1> QED
  BY <1>0, <1>2, <1>3, OneAppend, InPlaceKept DEF DieAppending, GoOn, At

LEMMA PowerFailureKept == ASSUME JournalInv, PowerFailure PROVE JournalInv'
<1>0. /\ fragments \in onDisk /\ onDisk \subseteq SUBSET Writer /\ fragments' \in onDisk /\ onDisk' = {fragments'}
      /\ UNCHANGED <<temporaries, older, entry, doomed, verdict, stamp>>
  BY DEF JournalInv, JournalTypeOK, PowerFailure
<1>1. \A x : Outlived(x)' <=> Outlived(x)
  BY <1>0, SameStamp
<1>2. \A w \in Writer : /\ at'[w] \in {"idle", "over"} /\ (at'[w] = "idle" => at[w] = "idle")
                        /\ at'[w] = "over" \/ at'[w] = at[w]
  BY DEF PowerFailure, Running
<1>3. \A w \in Writer : AppendInv(w)'
  BY <1>0, <1>1, <1>2, OneAppend DEF AppendInv, Unpublished, Appeared, Durable
<1>4. Committed' \subseteq Committed
  BY <1>0, <1>1, OneAppend DEF Committed, AppendInv
<1>5. ReceiptsAgree'
  BY <1>0, <1>4 DEF JournalInv, ReceiptsAgree, Agreeing
<1>6. mishaps' \in 0..MishapLimit
  BY Counting DEF PowerFailure
<1>7. JournalTypeOK'
  <2>1. at' \in [Writer -> At]
    BY DEF PowerFailure, JournalInv, JournalTypeOK, At
  <2>2. temporaries' \subseteq Writer \ fragments'
    BY <1>0 DEF JournalInv, JournalTypeOK
  <2> QED
    BY <1>0, <1>6, <2>1, <2>2 DEF JournalInv, JournalTypeOK
<1>8. Stamped' = Stamped
  BY <1>0, SameStamp
<1> QED
  BY <1>0, <1>3, <1>5, <1>7, <1>8 DEF JournalInv

-----------------------------------------------------------------------------
LEMMA InitKept == ASSUME JournalInit PROVE JournalInv
<1>1. JournalTypeOK
  BY JournalConstants DEF JournalInit, JournalTypeOK, At, Verdict
<1>2. Cardinality(Stamped) \in Nat
  BY Finite DEF Stamped
<1>3. ReceiptsAgree
  BY DEF JournalInit, ReceiptsAgree, Agreeing, Clash, Committed
<1> QED
  BY <1>1, <1>2, <1>3 DEF JournalInit, JournalInv, AppendInv, Unpublished, Appeared, Durable

LEMMA NextKept == ASSUME JournalInv, [JournalNext]_journalVars PROVE JournalInv'
<1>1. ASSUME NEW w \in Writer, AppendStep(w) PROVE JournalInv'
  BY <1>1, AppendBeginKept, StageKept, AppendRenameKept, VerifyKept, SyncKept, ListKept, DropKept,
     RecheckKept, CompensateKept DEF AppendStep
<1>2. ASSUME NEW w \in Writer, DieAppending(w) PROVE JournalInv'
  BY <1>2, AppendDieKept
<1>3. CASE PowerFailure
  BY <1>3, PowerFailureKept
<1>4. CASE UNCHANGED journalVars
  <2>1. JournalTypeOK' /\ Stamped' = Stamped
    BY <1>4 DEF journalVars, JournalInv, JournalTypeOK, Stamped
  <2>2. \A w \in Writer : AppendInv(w)'
    BY <1>4 DEF journalVars, JournalInv, AppendInv, Outlived, Newer
  <2>3. ReceiptsAgree'
    BY SMTT(30), <1>4 DEF journalVars, JournalInv, ReceiptsAgree, Agreeing, Clash, Committed, Outlived, Newer
  <2> QED
    BY <1>4, <2>1, <2>2, <2>3 DEF journalVars, JournalInv
<1> QED
  BY <1>1, <1>2, <1>3, <1>4 DEF JournalNext

(* The inductive invariant of the journal holds in every reachable state.   *)
THEOREM JournalInvHolds == JournalSpec => []JournalInv
BY InitKept, NextKept, PTL DEF JournalSpec

(* Every variable has its type, and no two records are published at one     *)
(* time.                                                                    *)
THEOREM JournalTypeOKHolds == JournalSpec => []JournalTypeOK
<1>1. JournalInv => JournalTypeOK
  BY DEF JournalInv
<1> QED
  BY <1>1, JournalInvHolds, PTL

(* A record with a receipt stays until enough newer ones were published;    *)
(* after a plain failure it is in no directory, and does not come back      *)
(* (appendIntegrationRecord).                                               *)
THEOREM AppendAnswersHolds == JournalSpec => []AppendAnswersHold
<1>1. JournalInv => AppendAnswersHold
  <2> SUFFICES ASSUME JournalInv, NEW w \in Writer
               PROVE  /\ verdict[w] = "receipt" => w \in fragments \/ Outlived(w)
                      /\ verdict[w] = "failed"  => w \notin fragments /\ \A d \in onDisk : w \notin d
    BY DEF AppendAnswersHold
  <2>1. verdict[w] = "receipt" => w \in fragments \/ Outlived(w)
    BY OneAppend DEF AppendInv, JournalInv, JournalTypeOK
  <2>2. verdict[w] = "failed" => \A d \in onDisk : w \notin d
    BY OneAppend DEF AppendInv, JournalInv
  <2> QED
    BY <2>1, <2>2 DEF JournalInv, JournalTypeOK
<1> QED
  BY <1>1, JournalInvHolds, PTL

(* No two appends get a receipt for records of one id and different         *)
(* versions, nor one beside an older record that it clashes with.           *)
THEOREM ReceiptsAgreeHolds == JournalSpec => []ReceiptsAgree
<1>1. JournalInv => ReceiptsAgree
  BY DEF JournalInv
<1> QED
  BY <1>1, JournalInvHolds, PTL

-----------------------------------------------------------------------------
(* The publication of a file (FilePublication).                            *)

(* The operations of the steps, and the names that only a step shares with *)
(* the owner: the target, what is on its way out and what is to come back.  *)
Early   == {"observe", "create", "write", "unchanged", "note", "rename"}
PubOps  == Early \cup {"classify", "verify", "published"}
Plains  == {"observe", "unchanged", "note", "rename", "classify", "verify", "published", "failed", "resume",
            "restored", "assess", "refuse", "tidy", "confirm", "finalized", "restart"}
Paired  == {"ready", "link", "linked", "moved", "remove", "collapse", "single"}
FileOps == Plains \cup Paired \cup {"create", "write", "unlink", "exact", "gone"}
Shared  == {Target, Discard, Back}
AnyStep == [op : FileOps, at : Name, to : Name, file : File \cup {NoFile},
            bytes : {"none", "before", "after"}]

(* The names a step may change; a step that gives up the saved bytes; one   *)
(* that makes another copy of them.                                         *)
Reach(s)  == IF s.op = "rename" THEN {Tmp, Target} ELSE IF s.op \in Plains THEN {} ELSE {s.at, s.to}
Drops(s)  == s.bytes = "before" /\ (s.op = "remove" \/ (s.op \in {"exact", "unlink"} /\ s.at = s.to))
Copies(s) == s.op \in {"create", "write"} /\ s.at = Back

(* What a step of a call c may be.                                          *)
StepFits(c, s) ==
    /\ s.op \notin Plains => s.bytes \in {"before", "after"}
    /\ s.op \in {"create", "write"} => (s.at \notin {Target, Discard} /\ s.to \notin Shared \cup {s.at, Backup})
    /\ s.op \in Paired => s.at # s.to
    /\ s.op \in Paired \ {"collapse", "single"} =>
           ((s.at = Target => s.to = Discard) /\ (s.to = Target => s.at = Back))
    /\ (s.op \in {"exact", "gone"} \/ (s.op = "unlink" /\ s.at = s.to)) => (s.at = s.to /\ s.at # Target)
    /\ s.op = "remove" => s.at # Target /\ s.to # Target
    /\ c = "publish" => s.op \in PubOps /\ ~Copies(s)
    /\ (c # "publish" /\ s.op \in PubOps) => Copies(s)
    /\ s.op = "restart" => c \in {"restore", "finalize"}
    /\ s.op \in {"assess", "tidy"} => c = "restore"

(* What only a step just before may have made ready. *)
Bound == {"write", "note", "rename", "classify", "verify", "published", "link", "linked",
          "unlink", "moved", "tidy"}

(* t may come next after s.                                                 *)
Alike(s, t) == s.at = t.at /\ s.to = t.to /\ s.bytes = t.bytes
Same(s, t)  == Alike(s, t) /\ s.file = t.file

Follows(s, t) ==
    /\ s.op \notin {"assess", "restart"}
    /\ (t.op \in Early /\ s.op \in PubOps) => s.op \in Early
    /\ t.op = "write" => (s.op = "create" /\ Same(s, t))
    /\ t.op = "note" => s.op = "unchanged"
    /\ t.op = "rename" => s.op = "note"
    /\ t.op = "classify" => s.op = "rename"
    /\ t.op = "verify" => s.op = "classify"
    /\ t.op = "published" => s.op = "verify"
    /\ s.op = "rename" => t.op = "classify"
    /\ s.op = "classify" => t.op = "verify"
    /\ t.op = "link" => (s.op = "ready" /\ Same(s, t))
    /\ t.op = "linked" => (s.op = "link" /\ Same(s, t))
    /\ t.op = "unlink" => ((s.op = "linked" \/ (s.op = "exact" /\ t.at = t.to)) /\ Same(s, t))
    /\ t.op = "moved" => (s.op = "unlink" /\ Same(s, t))
    /\ t.op = "tidy" => (s.op = "refuse" \/ (s.op = "moved" /\ s.to = Target /\ s.bytes = "before"))

(* The same of all that is still to be done.                                *)
Fitting(c, q) == \A i \in 1..Len(q) : StepFits(c, q[i])
Chained(q)    == \A i \in 1..Len(q) : i > 1 => Follows(q[i - 1], q[i])
Apart(q, n)   == \A i \in 1..Len(q) : n \notin Reach(q[i])
CopyFree(q)   == \A i \in 1..Len(q) : ~Copies(q[i])
DropFree(q)   == \A i \in 1..Len(q) : ~Drops(q[i])

(* Where the work of the owner is: at the target, or whatever becomes of n. *)
Bears(n)  == dir[n] # NoFile /\ bytes[dir[n]] = wanted
Lost     == wanted = "none" \/ exposed
OnTarget == Lost \/ Bears(Target)
Accepted == way = "finalize" /\ wanted = before
Safe(n)  == Lost \/ Accepted \/ \E m \in Name \ {n} : Bears(m)
Alone(f) == \A m, n \in Name : dir[m] = f /\ dir[n] = f => m = n
InPlace  == Accepted \/ wanted # "before" \/ OnTarget

(* The names the owner does not write to have files of the program.  Until   *)
(* the rename the work of the owner is at the target; a call that copies    *)
(* the saved bytes back leaves the backup alone, one that gives up the      *)
(* backup leaves the target alone; and the step before has seen to it that  *)
(* what comes now removes no name the work is under alone.                  *)
Owned == \A n \in Name \ Shared : dir[n] # NoFile => (bytes[dir[n]] # "own" /\ dir[n] # dir[Target])
Course == /\ wanted \in {"none", "own", before}
          /\ call = "finalize" => way = "finalize"
          /\ call = "none" => todo = <<>>
          /\ call \in {"none", "publish"} => \A f \in File : Alone(f)
Untouched == /\ call = "none" => OnTarget
             /\ (call = "publish" /\ Now.op \in Early) => OnTarget
             /\ (call = "withdraw" /\ todo # <<>>) => (OnTarget /\ Apart(todo, Target))
Copying  == CopyFree(todo) \/ (Apart(todo, Backup) /\ dir[Backup] # NoFile /\ bytes[dir[Backup]] = "before")
Dropping == DropFree(todo) \/ (Apart(todo, Target) /\ InPlace)
HeadOK ==
    /\ Now.op = "write" => (dir[Now.at] # NoFile /\ bytes[dir[Now.at]] = "part" /\ Alone(dir[Now.at]) /\ Safe(Now.to))
    /\ Now.op \in {"note", "rename"} => Safe(Target)
    /\ Now.op = "classify" => (dir[Tmp] = NoFile \/ OnTarget)
    /\ Now.op = "link" => IF Now.at = Target THEN dir[Target] = NoFile \/ Alone(dir[Target])
                        ELSE (dir[Now.at] # NoFile /\ bytes[dir[Now.at]] = Now.bytes /\ Alone(dir[Now.at]))
    /\ Now.op = "unlink" => Safe(Now.at)
    /\ Now.op = "tidy" => InPlace

-----------------------------------------------------------------------------
(* Names.                                                                  *)

ClaimTmp     == {Claim(Tmp, "publish"), Claim(Tmp, "restart")}
ClaimBackup  == {Claim(Backup, use) : use \in {"publish", "restore", "restart", "finalize"}}
ClaimOther   == {Claim(Back, "restore"), Claim(Discard, "restore")}
Claims == ClaimTmp \cup ClaimBackup \cup ClaimOther

LEMMA NameFacts ==
  /\ {Target, Tmp, Backup, Back, Discard} \subseteq Name
  /\ Claims \subseteq Name
  /\ Target # Tmp /\ Target # Backup /\ Target # Back /\ Target # Discard /\ Tmp # Backup /\ Tmp # Back
  /\ Tmp # Discard /\ Backup # Back /\ Backup # Discard /\ Back # Discard
  /\ \A c \in Claims : c \notin {Target, Tmp, Backup, Back, Discard}
BY DEF Name, Target, Tmp, Backup, Back, Discard, Claim, Claims, ClaimTmp, ClaimBackup, ClaimOther

LEMMA NamesFinite == IsFiniteSet(Name)
<1> DEFINE A == {Target, Tmp, Backup, Back, Discard}
           B == {Claim(Tmp, "publish"), Claim(Tmp, "restart"), Claim(Back, "restore"), Claim(Discard, "restore")}
           C == {Claim(Backup, "publish"), Claim(Backup, "restore"), Claim(Backup, "restart"), Claim(Backup, "finalize")}
<1>0. IsFiniteSet({})
  BY FS_EmptySet
<1>1. \A S : IsFiniteSet(S) => \A x : IsFiniteSet(S \cup {x})
  BY FS_AddElement
<1>2. ASSUME NEW a, NEW b, NEW c, NEW d PROVE IsFiniteSet({a, b, c, d})
  <2>1. {a, b, c, d} = ((({} \cup {a}) \cup {b}) \cup {c}) \cup {d}
    OBVIOUS
  <2>2. IsFiniteSet({} \cup {a})
    BY <1>0, <1>1
  <2>3. IsFiniteSet(({} \cup {a}) \cup {b})
    BY <1>1, <2>2
  <2>4. IsFiniteSet((({} \cup {a}) \cup {b}) \cup {c})
    BY <1>1, <2>3
  <2>5. IsFiniteSet(((({} \cup {a}) \cup {b}) \cup {c}) \cup {d})
    BY <1>1, <2>4
  <2> QED BY <2>1, <2>5
<1>3. IsFiniteSet(A)
  <2>1. A = {Target, Tmp, Backup, Back} \cup {Discard}
    OBVIOUS
  <2>2. IsFiniteSet({Target, Tmp, Backup, Back})
    BY <1>2
  <2>3. IsFiniteSet({Target, Tmp, Backup, Back} \cup {Discard})
    BY <1>1, <2>2
  <2> QED BY <2>1, <2>3
<1>4. IsFiniteSet(B) /\ IsFiniteSet(C)
  BY <1>2
<1>5. Name = A \cup B \cup C
  BY DEF Name
<1>6. IsFiniteSet(A \cup B)
  BY <1>3, <1>4, FS_Union
<1> HIDE DEF A, B, C
<1> QED BY <1>4, <1>5, <1>6, FS_Union

NamesOf(d, f) == {n \in Name : d[n] = f}

LEMMA NamesOfFinite ==
  ASSUME NEW d, NEW f PROVE IsFiniteSet(NamesOf(d, f)) /\ Cardinality(NamesOf(d, f)) \in Nat
<1>1. NamesOf(d, f) \subseteq Name
  BY DEF NamesOf
<1>2. IsFiniteSet(NamesOf(d, f))
  BY <1>1, NamesFinite, FS_Subset
<1> QED BY <1>2, FS_CardinalityType

LEMMA NoLinks ==
  ASSUME NEW f, Links(f) = 0 PROVE \A n \in Name : dir[n] # f
<1>1. NamesOf(dir, f) = {}
  BY NamesOfFinite, FS_EmptySet DEF Links, NamesOf
<1> QED BY <1>1 DEF NamesOf

LEMMA OneLink ==
  ASSUME NEW f, Links(f) = 1 PROVE Alone(f)
<1>1. Cardinality(NamesOf(dir, f)) = 1 /\ IsFiniteSet(NamesOf(dir, f))
  BY NamesOfFinite DEF Links, NamesOf
<1>2. PICK n : NamesOf(dir, f) = {n}
  BY <1>1, FS_Singleton
<1> QED BY <1>2 DEF NamesOf, Alone

LEMMA Another ==
  ASSUME NEW n \in Name, Links(dir[n]) # 1
  PROVE \E m \in Name \ {n} : dir[m] = dir[n]
<1> SUFFICES ASSUME \A m \in Name \ {n} : dir[m] # dir[n] PROVE FALSE
  OBVIOUS
<1>1. NamesOf(dir, dir[n]) = {n}
  BY DEF NamesOf
<1>2. Cardinality({n}) = 1
  BY FS_Singleton
<1> QED BY <1>1, <1>2 DEF Links, NamesOf

LEMMA TwoAtMost ==
  ASSUME NEW d, NEW f, NEW a, NEW b, NamesOf(d, f) \subseteq {a, b}
  PROVE  Cardinality(NamesOf(d, f)) <= 2
<1>1. IsFiniteSet({a}) /\ Cardinality({a}) = 1
  BY FS_Singleton
<1>2. {a, b} = {a} \cup {b}
  OBVIOUS
<1>3. IsFiniteSet({a} \cup {b}) /\ Cardinality({a} \cup {b}) = IF b \in {a} THEN Cardinality({a}) ELSE Cardinality({a}) + 1
  BY <1>1, FS_AddElement
<1>4. IsFiniteSet({a, b}) /\ Cardinality({a, b}) <= 2
  BY <1>1, <1>2, <1>3
<1>5. Cardinality(NamesOf(d, f)) <= Cardinality({a, b})
  BY <1>4, FS_Subset
<1>6. Cardinality(NamesOf(d, f)) \in Nat /\ Cardinality({a, b}) \in Nat
  BY <1>4, NamesOfFinite, FS_CardinalityType
<1> QED BY <1>4, <1>5, <1>6

LEMMA FewerLinks ==
  ASSUME NEW d, NEW e, NEW f, NamesOf(e, f) \subseteq NamesOf(d, f), Cardinality(NamesOf(d, f)) <= 2
  PROVE  Cardinality(NamesOf(e, f)) <= 2
<1>1. Cardinality(NamesOf(e, f)) <= Cardinality(NamesOf(d, f))
  BY NamesOfFinite, FS_Subset
<1>2. Cardinality(NamesOf(d, f)) \in Nat /\ Cardinality(NamesOf(e, f)) \in Nat
  BY NamesOfFinite
<1> QED BY <1>1, <1>2

LEMMA LonelyFew ==
  ASSUME NEW d, NEW f, \A m, n \in Name : d[m] = f /\ d[n] = f => m = n
  PROVE  Cardinality(NamesOf(d, f)) <= 2
<1>1. PICK n : NamesOf(d, f) \subseteq {n, n}
  BY DEF NamesOf
<1> QED BY <1>1, TwoAtMost

-----------------------------------------------------------------------------
(* Steps in sequence.                                                      *)

Opens(q) == q # <<>> => q[1].op \notin Bound
Shuts(q) == q # <<>> => q[Len(q)].op \notin {"rename", "classify", "verify", "published", "assess", "restart"}
Piece(c, q) == q \in Seq(AnyStep) /\ Fitting(c, q) /\ Chained(q)

LEMMA PieceJoin ==
  ASSUME NEW c, NEW p, NEW q, Piece(c, p), Piece(c, q),
         (p # <<>> /\ q # <<>>) => Follows(p[Len(p)], q[1])
  PROVE  Piece(c, p \o q)
<1>1. p \in Seq(AnyStep) /\ q \in Seq(AnyStep) /\ p \o q \in Seq(AnyStep) /\ Len(p) \in Nat /\ Len(q) \in Nat
  BY DEF Piece
<1>2. Len(p \o q) = Len(p) + Len(q)
  BY <1>1
<1>3. \A i \in 1..Len(p) : (p \o q)[i] = p[i]
  BY <1>1
<1>4. \A i \in 1..Len(p \o q) : i \notin 1..Len(p) => i - Len(p) \in 1..Len(q) /\ (p \o q)[i] = q[i - Len(p)]
  BY <1>1
<1>5. Fitting(c, p \o q)
  BY <1>1, <1>2, <1>3, <1>4 DEF Fitting, Piece
<1>6. Chained(p \o q)
  <2> SUFFICES ASSUME NEW i \in 1..Len(p \o q), i > 1 PROVE Follows((p \o q)[i - 1], (p \o q)[i])
    BY DEF Chained
  <2>1. CASE i \in 1..Len(p)
    <3>1. i - 1 \in 1..Len(p)
      BY <1>1, <2>1
    <3> QED BY <1>3, <2>1, <3>1 DEF Piece, Chained
  <2>2. CASE i = Len(p) + 1
    <3>1. i - 1 \in 1..Len(p) /\ i - Len(p) = 1 /\ i \notin 1..Len(p) /\ i - 1 = Len(p)
      BY <1>1, <1>2, <2>2
    <3>2. (p \o q)[i] = q[1] /\ (p \o q)[i - 1] = p[Len(p)] /\ 1 \in 1..Len(q)
      BY <1>3, <1>4, <3>1
    <3>3. p # <<>> /\ q # <<>>
      BY <1>1, <3>1, <3>2
    <3> QED BY <3>2, <3>3
  <2>3. CASE i > Len(p) + 1
    <3>1. i - 1 \in 1..Len(p \o q) /\ i - 1 \notin 1..Len(p) /\ i \notin 1..Len(p)
      BY <1>1, <1>2, <2>3
    <3>2. i - Len(p) > 1 /\ (i - 1) - Len(p) = (i - Len(p)) - 1
      BY <1>1, <1>2, <2>3
    <3> QED BY <1>4, <3>1, <3>2 DEF Piece, Chained
  <2> QED BY <1>1, <2>1, <2>2, <2>3
<1> QED BY <1>1, <1>5, <1>6 DEF Piece

LEMMA Meet ==
  ASSUME NEW p, NEW q, Shuts(p), Opens(q), p # <<>>, q # <<>>
  PROVE  Follows(p[Len(p)], q[1])
BY DEF Opens, Shuts, Bound, Follows, Early, PubOps

LEMMA PieceTail ==
  ASSUME NEW c, NEW q, Piece(c, q), q # <<>> PROVE Piece(c, Tail(q))
<1>1. q \in Seq(AnyStep) /\ Len(q) \in Nat /\ Len(q) > 0
  BY DEF Piece
<1>2. Tail(q) \in Seq(AnyStep) /\ Len(Tail(q)) = Len(q) - 1
  BY <1>1
<1>3. \A i \in 1..Len(Tail(q)) : i + 1 \in 1..Len(q) /\ Tail(q)[i] = q[i + 1]
  BY <1>1
<1>4. Fitting(c, Tail(q))
  BY <1>3 DEF Fitting, Piece
<1>5. Chained(Tail(q))
  <2> SUFFICES ASSUME NEW i \in 1..Len(Tail(q)), i > 1 PROVE Follows(Tail(q)[i - 1], Tail(q)[i])
    BY DEF Chained
  <2>1. i - 1 \in 1..Len(Tail(q)) /\ i + 1 \in 1..Len(q) /\ i + 1 > 1 /\ (i - 1) + 1 = i /\ (i + 1) - 1 = i
    BY <1>1, <1>2
  <2>2. Tail(q)[i - 1] = q[i] /\ Tail(q)[i] = q[i + 1]
    BY <1>3, <2>1
  <2>3. Follows(q[(i + 1) - 1], q[i + 1])
    BY <2>1 DEF Chained, Piece
  <2> QED BY <2>1, <2>2, <2>3
<1> QED BY <1>2, <1>4, <1>5 DEF Piece

LEMMA PieceRest ==
  ASSUME NEW c, NEW q, Piece(c, q), NEW k \in 1..Len(q)
  PROVE  LET r == SubSeq(q, 1 + k, Len(q)) IN
         /\ Piece(c, r)
         /\ \A i \in 1..Len(r) : \E j \in 1..Len(q) : r[i] = q[j]
         /\ r # <<>> => Follows(q[k], r[1])
<1> DEFINE r == SubSeq(q, 1 + k, Len(q))
<1>1. q \in Seq(AnyStep) /\ Len(q) \in Nat /\ k \in Nat
  BY DEF Piece
<1>2. r \in Seq(AnyStep) /\ Len(r) = Len(q) - k
  BY <1>1
<1>3. \A i \in 1..Len(r) : i + k \in 1..Len(q) /\ r[i] = q[i + k]
  BY <1>1
<1> HIDE DEF r
<1>4. Fitting(c, r)
  BY <1>3 DEF Fitting, Piece
<1>5. Chained(r)
  <2> SUFFICES ASSUME NEW i \in 1..Len(r), i > 1 PROVE Follows(r[i - 1], r[i])
    BY DEF Chained
  <2>1. i - 1 \in 1..Len(r) /\ i + k \in 1..Len(q) /\ i + k > 1 /\ (i - 1) + k = (i + k) - 1
    BY <1>1, <1>2
  <2>2. r[i - 1] = q[(i + k) - 1] /\ r[i] = q[i + k]
    BY <1>3, <2>1
  <2>3. Follows(q[(i + k) - 1], q[i + k])
    BY <2>1 DEF Chained, Piece
  <2> QED BY <2>2, <2>3
<1>6. r # <<>> => Follows(q[k], r[1])
  <2> SUFFICES ASSUME r # <<>> PROVE Follows(q[k], r[1])
    OBVIOUS
  <2>1. 1 \in 1..Len(r)
    BY <1>2
  <2>2. r[1] = q[1 + k] /\ 1 + k \in 1..Len(q) /\ 1 + k > 1 /\ (1 + k) - 1 = k
    BY <1>1, <1>3, <2>1
  <2>3. Follows(q[(1 + k) - 1], q[1 + k])
    BY <2>2 DEF Chained, Piece
  <2> QED BY <2>2, <2>3
<1>7. \A i \in 1..Len(r) : \E j \in 1..Len(q) : r[i] = q[j]
  BY <1>3
<1>8. Piece(c, r)
  BY <1>2, <1>4, <1>5 DEF Piece
<1> QED BY <1>6, <1>7, <1>8 DEF r

(* A step as Step makes it is one of those above. *)
LEMMA StepAny ==
  ASSUME NEW op \in FileOps, NEW n \in Name, NEW m \in Name, NEW f \in File \cup {NoFile},
         NEW b \in {"none", "before", "after"}
  PROVE  LET s == Step(op, n, m, f, b) IN
         /\ s \in AnyStep /\ s.op = op /\ s.at = n /\ s.to = m /\ s.file = f /\ s.bytes = b
BY DEF Step, AnyStep

LEMMA PlainAny ==
  ASSUME NEW op \in FileOps
  PROVE  Plain(op) \in AnyStep /\ Plain(op).op = op /\ Plain(op).bytes = "none"
BY NameFacts DEF Plain, Step, AnyStep

LEMMA OnePiece ==
  ASSUME NEW c, NEW s \in AnyStep, StepFits(c, s)
  PROVE  Piece(c, <<s>>)
BY DEF Piece, Fitting, Chained

LEMMA NoPiece == ASSUME NEW c PROVE Piece(c, <<>>) /\ Opens(<<>>) /\ Shuts(<<>>)
<1>1. <<>> \in Seq(AnyStep)
  OBVIOUS
<1> QED BY <1>1 DEF Piece, Fitting, Chained, Opens, Shuts

(* A piece others may come before, which reaches the names R alone, and of *)
(* the two special kinds has the steps K alone; and one that others may    *)
(* come after as well.                                                     *)
Whole(c, q, R, K) ==
    /\ Piece(c, q) /\ Opens(q)
    /\ \A i \in 1..Len(q) : Reach(q[i]) \subseteq R
    /\ "drops" \in K \/ DropFree(q)
    /\ "copies" \in K \/ CopyFree(q)

Part(c, q, R, K) == Whole(c, q, R, K) /\ Shuts(q)

LEMMA WholeJoin ==
  ASSUME NEW c, NEW p, NEW q, NEW R, NEW K, Whole(c, p, R, K), Piece(c, q), Opens(q) \/ p # <<>>,
         (p # <<>> /\ q # <<>>) => Follows(p[Len(p)], q[1]),
         \A i \in 1..Len(q) : Reach(q[i]) \subseteq R,
         "drops" \in K \/ DropFree(q), "copies" \in K \/ CopyFree(q)
  PROVE  Whole(c, p \o q, R, K) /\ (Shuts(q) => Shuts(p \o q) \/ q = <<>>)
<1>1. Piece(c, p \o q)
  BY PieceJoin DEF Whole
<1>2. p \in Seq(AnyStep) /\ q \in Seq(AnyStep) /\ Len(p) \in Nat /\ Len(q) \in Nat
  BY DEF Whole, Piece
<1>3. Len(p \o q) = Len(p) + Len(q)
  BY <1>2
<1>4. \A i \in 1..Len(p) : (p \o q)[i] = p[i]
  BY <1>2
<1>5. \A i \in 1..Len(p \o q) : i \notin 1..Len(p) => i - Len(p) \in 1..Len(q) /\ (p \o q)[i] = q[i - Len(p)]
  BY <1>2
<1>6. \A i \in 1..Len(p \o q) : (\E j \in 1..Len(p) : (p \o q)[i] = p[j]) \/ (\E j \in 1..Len(q) : (p \o q)[i] = q[j])
  BY <1>4, <1>5
<1>7. Opens(p \o q)
  <2>1. CASE p = <<>>
    BY <1>2, <2>1
  <2>2. CASE p # <<>>
    <3>1. 1 \in 1..Len(p)
      BY <1>2, <2>2
    <3> QED BY <1>4, <2>2, <3>1 DEF Whole, Opens
  <2> QED BY <2>1, <2>2
<1>8. Shuts(q) => Shuts(p \o q) \/ q = <<>>
  <2> SUFFICES ASSUME Shuts(q), q # <<>> PROVE Shuts(p \o q)
    OBVIOUS
  <2>1. Len(p \o q) \in 1..Len(p \o q) /\ Len(p \o q) \notin 1..Len(p) /\ Len(p \o q) - Len(p) = Len(q)
    BY <1>2, <1>3
  <2> QED BY <1>5, <2>1 DEF Shuts
<1>9. /\ \A i \in 1..Len(p \o q) : Reach((p \o q)[i]) \subseteq R
      /\ "drops" \in K \/ DropFree(p \o q)
      /\ "copies" \in K \/ CopyFree(p \o q)
  <2> HIDE DEF Reach
  <2> QED BY <1>6 DEF Whole, DropFree, CopyFree
<1> QED BY <1>1, <1>7, <1>8, <1>9 DEF Whole

LEMMA PartJoin ==
  ASSUME NEW c, NEW p, NEW q, NEW R, NEW K, Part(c, p, R, K), Whole(c, q, R, K)
  PROVE  Whole(c, p \o q, R, K) /\ (Part(c, q, R, K) => Part(c, p \o q, R, K))
<1>1. p \in Seq(AnyStep) /\ q \in Seq(AnyStep)
  BY DEF Part, Whole, Piece
<1>2. (p # <<>> /\ q # <<>>) => Follows(p[Len(p)], q[1])
  BY Meet DEF Part, Whole
<1>3. Whole(c, p \o q, R, K) /\ (Shuts(q) => Shuts(p \o q) \/ q = <<>>)
  <2>1. Whole(c, p, R, K)
    BY DEF Part
  <2>2. /\ Piece(c, q) /\ Opens(q)
        /\ \A i \in 1..Len(q) : Reach(q[i]) \subseteq R
        /\ "drops" \in K \/ DropFree(q)
        /\ "copies" \in K \/ CopyFree(q)
    BY DEF Whole
  <2>3. Piece(c, q) /\ (Opens(q) \/ p # <<>>)
    BY <2>2
  <2> QED BY ONLY <1>2, <2>1, <2>2, <2>3, WholeJoin
<1>4. q = <<>> => p \o q = p
  BY <1>1
<1> QED BY <1>3, <1>4 DEF Part

LEMMA PartMore ==
  ASSUME NEW c, NEW q, NEW R, NEW K, NEW S, NEW L, Part(c, q, R, K), R \subseteq S, K \subseteq L
  PROVE  Part(c, q, S, L)
BY DEF Part, Whole

LEMMA NoPart == ASSUME NEW c, NEW R, NEW K PROVE Part(c, <<>>, R, K)
BY NoPiece DEF Part, Whole, DropFree, CopyFree

LEMMA WhenPart ==
  ASSUME NEW c, NEW q, NEW R, NEW K, NEW p, p => Part(c, q, R, K)
  PROVE  Part(c, When(p, q), R, K)
BY NoPart DEF When

LEMMA PlainPart ==
  ASSUME NEW c, NEW op \in Plains \ {"note", "rename", "classify", "verify", "published", "tidy", "assess", "restart"},
         (op \in PubOps) <=> (c = "publish"), NEW R, NEW K
  PROVE  Part(c, <<Plain(op)>>, R, K)
<1>1. op \in FileOps
  BY DEF FileOps
<1>2. /\ Plain(op) \in AnyStep /\ Plain(op).op = op /\ Plain(op).bytes = "none"
  BY <1>1, PlainAny
<1>3. StepFits(c, Plain(op))
  BY <1>2 DEF StepFits, Plains, Paired, Copies
<1>4. Piece(c, <<Plain(op)>>)
  BY <1>2, <1>3, OnePiece
<1> QED BY <1>2, <1>4 DEF Part, Whole, Opens, Shuts, Bound, Plains, Reach, DropFree, CopyFree, Drops, Copies

Undoing == {"withdraw", "restore", "finalize"}

LEMMA MovePart ==
  ASSUME NEW c \in Undoing, NEW n \in Name, NEW m \in Name, n # m, NEW f \in File \cup {NoFile},
         NEW b \in {"before", "after"}, n = Target => m = Discard, m = Target => n = Back, NEW K
  PROVE  Part(c, Move(n, m, f, b), {n, m}, K)
<1> DEFINE q == Move(n, m, f, b)
<1>1. /\ q \in Seq(AnyStep) /\ Len(q) = 5
      /\ q[1] = Step("ready", n, m, f, b) /\ q[2] = Step("link", n, m, f, b) /\ q[3] = Step("linked", n, m, f, b)
      /\ q[4] = Step("unlink", n, m, f, b) /\ q[5] = Step("moved", n, m, f, b)
  <2>1. {"ready", "link", "linked", "unlink", "moved"} \subseteq FileOps
    BY DEF FileOps, Paired
  <2>2. \A op \in {"ready", "link", "linked", "unlink", "moved"} : Step(op, n, m, f, b) \in AnyStep
    BY <2>1, StepAny
  <2> QED BY <2>2 DEF Move
<1>2. \A i \in 1..5 : /\ q[i].at = n /\ q[i].to = m /\ q[i].file = f /\ q[i].bytes = b
                      /\ q[i].op \in {"ready", "link", "linked", "unlink", "moved"}
  BY <1>1 DEF Step
<1>3. q[1].op = "ready" /\ q[2].op = "link" /\ q[3].op = "linked" /\ q[4].op = "unlink" /\ q[5].op = "moved"
  BY <1>1 DEF Step
<1> HIDE DEF q
<1>4. Fitting(c, q)
  BY <1>1, <1>2 DEF Fitting, StepFits, Plains, Paired, Copies, Undoing, PubOps, Early
<1>5. Chained(q)
  <2> SUFFICES ASSUME NEW i \in 1..5, i > 1 PROVE Follows(q[i - 1], q[i])
    BY <1>1 DEF Chained
  <2>1. i - 1 \in 1..5
    OBVIOUS
  <2>2. Same(q[i - 1], q[i])
    BY <1>2, <2>1 DEF Same, Alike
  <2>3. i = 2 \/ i = 3 \/ i = 4 \/ i = 5
    OBVIOUS
  <2> QED BY <1>3, <2>2, <2>3 DEF Follows, Early, PubOps
<1>6. Reach(q[1]) = {n, m} /\ Reach(q[2]) = {n, m} /\ Reach(q[3]) = {n, m} /\ Reach(q[4]) = {n, m} /\ Reach(q[5]) = {n, m}
  BY <1>2, <1>3 DEF Reach, Plains
<1>7. \A i \in 1..5 : ~Drops(q[i]) /\ ~Copies(q[i])
  BY <1>2 DEF Drops, Copies
<1>8. \A i \in 1..5 : i = 1 \/ i = 2 \/ i = 3 \/ i = 4 \/ i = 5
  OBVIOUS
<1> QED BY <1>1, <1>3, <1>4, <1>5, <1>6, <1>7, <1>8 DEF q, Part, Whole, Piece, Opens, Shuts, Bound, DropFree, CopyFree

(* The name by which a sibling is removed.                                 *)
Removable(n, use) == /\ n \in Name \ {Target} /\ Claim(n, use) \in Name \ {Target, n}

LEMMA RemovePart ==
  ASSUME NEW c \in Undoing, NEW n, NEW use, Removable(n, use), NEW f \in File \cup {NoFile},
         NEW b \in {"before", "after"}, NEW K, b = "before" => "drops" \in K
  PROVE  Part(c, RemoveBy(n, use, f, b), {n, Claim(n, use)}, K)
<1> DEFINE m == Claim(n, use)
           q == RemoveBy(n, use, f, b)
<1>1. n \in Name /\ m \in Name /\ n # m /\ n # Target /\ m # Target
  BY DEF Removable
<1>2. q = <<Step("collapse", m, n, f, b), Step("remove", n, m, f, b)>>
  BY DEF RemoveBy
<1> HIDE DEF m
<1>3. /\ q \in Seq(AnyStep) /\ Len(q) = 2
      /\ q[1] = Step("collapse", m, n, f, b) /\ q[2] = Step("remove", n, m, f, b)
  <2>1. {"collapse", "remove"} \subseteq FileOps
    BY DEF FileOps, Paired
  <2>2. Step("collapse", m, n, f, b) \in AnyStep /\ Step("remove", n, m, f, b) \in AnyStep
    BY <1>1, <2>1, StepAny
  <2> QED BY <1>2, <2>2
<1>4. /\ q[1].op = "collapse" /\ q[1].at = m /\ q[1].to = n /\ q[1].bytes = b
      /\ q[2].op = "remove" /\ q[2].at = n /\ q[2].to = m /\ q[2].bytes = b
  BY <1>3 DEF Step
<1> HIDE DEF q
<1>5. \A i \in 1..2 : i = 1 \/ i = 2
  OBVIOUS
<1>6. StepFits(c, q[1]) /\ StepFits(c, q[2])
  BY <1>1, <1>4 DEF StepFits, Plains, Paired, Copies, Undoing, PubOps, Early
<1>7. Follows(q[1], q[2])
  BY <1>4 DEF Follows, Early, PubOps
<1>8. Piece(c, q)
  BY <1>3, <1>5, <1>6, <1>7 DEF Piece, Fitting, Chained
<1>9. Reach(q[1]) = {n, m} /\ Reach(q[2]) = {n, m}
  BY <1>4 DEF Reach, Plains
<1>10. ~Copies(q[1]) /\ ~Copies(q[2]) /\ (b = "after" => ~Drops(q[1]) /\ ~Drops(q[2]))
  BY <1>4 DEF Drops, Copies
<1> QED BY <1>3, <1>4, <1>5, <1>8, <1>9, <1>10 DEF q, m, Part, Whole, Opens, Shuts, Bound, DropFree, CopyFree

LEMMA ErasePart ==
  ASSUME NEW c \in Undoing, NEW n \in Name \ {Target}, NEW f \in File \cup {NoFile},
         NEW b \in {"before", "after"}, NEW K, b = "before" => "drops" \in K
  PROVE  Part(c, Erase(n, f, b), {n}, K)
<1> DEFINE q == Erase(n, f, b)
<1>3. /\ q \in Seq(AnyStep) /\ Len(q) = 3
      /\ q[1] = Step("exact", n, n, f, b) /\ q[2] = Step("unlink", n, n, f, b) /\ q[3] = Step("gone", n, n, f, b)
  <2>1. {"exact", "unlink", "gone"} \subseteq FileOps
    BY DEF FileOps
  <2>2. \A op \in {"exact", "unlink", "gone"} : Step(op, n, n, f, b) \in AnyStep
    BY <2>1, StepAny
  <2> QED BY <2>2 DEF Erase
<1>4. /\ \A i \in 1..3 : q[i].at = n /\ q[i].to = n /\ q[i].bytes = b /\ q[i].file = f
      /\ q[1].op = "exact" /\ q[2].op = "unlink" /\ q[3].op = "gone"
  BY <1>3 DEF Step
<1> HIDE DEF q
<1>5. \A i \in 1..3 : i = 1 \/ i = 2 \/ i = 3
  OBVIOUS
<1>6. StepFits(c, q[1]) /\ StepFits(c, q[2]) /\ StepFits(c, q[3])
  BY <1>4 DEF StepFits, Plains, Paired, Copies, Undoing, PubOps, Early
<1>7. Follows(q[1], q[2]) /\ Follows(q[2], q[3])
  BY <1>4 DEF Follows, Early, PubOps, Same, Alike
<1>8. Piece(c, q)
  <2>1. Fitting(c, q)
    BY <1>3, <1>5, <1>6 DEF Fitting
  <2>2. Chained(q)
    <3> SUFFICES ASSUME NEW i \in 1..3, i > 1 PROVE Follows(q[i - 1], q[i])
      BY <1>3 DEF Chained
    <3>1. i = 2 \/ i = 3
      OBVIOUS
    <3> QED BY <1>7, <3>1
  <2> QED BY <1>3, <2>1, <2>2 DEF Piece
<1>9. Reach(q[1]) = {n} /\ Reach(q[2]) = {n} /\ Reach(q[3]) = {n}
  BY <1>4 DEF Reach, Plains
<1>10. \A i \in 1..3 : ~Copies(q[i]) /\ (b = "after" => ~Drops(q[i]))
  BY <1>4, <1>5 DEF Drops, Copies
<1> QED BY <1>3, <1>4, <1>5, <1>8, <1>9, <1>10 DEF q, Part, Whole, Opens, Shuts, Bound, DropFree, CopyFree

LEMMA WritePart ==
  ASSUME NEW c \in Undoing \cup {"publish"}, NEW n \in Name \ {Target, Discard}, NEW m \in Name \ (Shared \cup {n, Backup}),
         NEW b \in {"before", "after"}, (c = "publish") <=> (n # Back), NEW K, n = Back => "copies" \in K
  PROVE  Part(c, Write(n, m, b), {n, m}, K)
<1> DEFINE q == Write(n, m, b)
<1>3. /\ q \in Seq(AnyStep) /\ Len(q) = 2
      /\ q[1] = Step("create", n, m, NoFile, b) /\ q[2] = Step("write", n, m, NoFile, b)
  <2>1. {"create", "write"} \subseteq FileOps
    BY DEF FileOps
  <2>2. \A op \in {"create", "write"} : Step(op, n, m, NoFile, b) \in AnyStep
    BY <2>1, StepAny
  <2> QED BY <2>2 DEF Write
<1>4. /\ \A i \in 1..2 : q[i].at = n /\ q[i].to = m /\ q[i].bytes = b /\ q[i].file = NoFile
      /\ q[1].op = "create" /\ q[2].op = "write"
  BY <1>3 DEF Step
<1> HIDE DEF q
<1>5. \A i \in 1..2 : i = 1 \/ i = 2
  OBVIOUS
<1>6. StepFits(c, q[1]) /\ StepFits(c, q[2])
  BY <1>4 DEF StepFits, Plains, Paired, Copies, Undoing, PubOps, Early
<1>7. Follows(q[1], q[2])
  BY <1>4 DEF Follows, Early, PubOps, Same, Alike
<1>8. Piece(c, q)
  BY <1>3, <1>5, <1>6, <1>7 DEF Piece, Fitting, Chained
<1>9. Reach(q[1]) = {n, m} /\ Reach(q[2]) = {n, m}
  BY <1>4 DEF Reach, Plains
<1>10. \A i \in 1..2 : ~Drops(q[i]) /\ (n # Back => ~Copies(q[i]))
  BY <1>4, <1>5 DEF Drops, Copies
<1> QED BY <1>3, <1>4, <1>5, <1>8, <1>9, <1>10 DEF q, Part, Whole, Opens, Shuts, Bound, DropFree, CopyFree

LEMMA CollapsePart ==
  ASSUME NEW c \in Undoing, NEW n \in Name, NEW m \in Name, n # m, NEW f \in File \cup {NoFile},
         NEW b \in {"before", "after"}, NEW K
  PROVE  Part(c, <<Step("collapse", n, m, f, b)>>, {n, m}, K)
<1> DEFINE s == Step("collapse", n, m, f, b)
<1>1. "collapse" \in FileOps
  BY DEF FileOps, Paired
<1>2. s \in AnyStep /\ s.op = "collapse" /\ s.at = n /\ s.to = m /\ s.bytes = b
  BY <1>1, StepAny
<1> HIDE DEF s
<1>3. StepFits(c, s)
  BY <1>2 DEF StepFits, Plains, Paired, Copies, Undoing, PubOps, Early
<1>4. Piece(c, <<s>>)
  BY <1>2, <1>3, OnePiece
<1>5. Reach(s) = {n, m} /\ ~Drops(s) /\ ~Copies(s)
  BY <1>2 DEF Reach, Plains, Drops, Copies
<1>6. Part(c, <<s>>, {n, m}, K)
  BY <1>2, <1>4, <1>5 DEF Part, Whole, Opens, Shuts, Bound, DropFree, CopyFree
<1> QED BY <1>6 DEF s

LEMMA ExactPart ==
  ASSUME NEW c \in Undoing, NEW n \in Name \ {Target}, NEW f \in File \cup {NoFile},
         NEW b \in {"before", "after"}, NEW K, b = "before" => "drops" \in K
  PROVE  Part(c, <<Step("exact", n, n, f, b)>>, {n}, K)
<1> DEFINE s == Step("exact", n, n, f, b)
<1>1. "exact" \in FileOps
  BY DEF FileOps
<1>2. s \in AnyStep /\ s.op = "exact" /\ s.at = n /\ s.to = n /\ s.bytes = b
  BY <1>1, StepAny
<1> HIDE DEF s
<1>3. StepFits(c, s)
  BY <1>2 DEF StepFits, Plains, Paired, Copies, Undoing, PubOps, Early
<1>4. Piece(c, <<s>>)
  BY <1>2, <1>3, OnePiece
<1>5. Reach(s) = {n} /\ (b = "after" => ~Drops(s)) /\ ~Copies(s)
  BY <1>2 DEF Reach, Plains, Drops, Copies
<1>6. Part(c, <<s>>, {n}, K)
  BY <1>2, <1>4, <1>5 DEF Part, Whole, Opens, Shuts, Bound, DropFree, CopyFree
<1> QED BY <1>6 DEF s

-----------------------------------------------------------------------------
(* The functions of the code, as pieces.                                   *)

NotTarget == Name \ {Target}
FilesTyped == /\ call \in {"none", "publish", "withdraw", "restore", "finalize"}
              /\ dir \in [Name -> File \cup {NoFile}] /\ bytes \in [File -> Bytes] /\ before \in {"none", "before"}
              /\ made.new \in File \cup {NoFile} /\ made.backup \in File \cup {NoFile}

LEMMA RemovableFacts ==
  /\ Removable(Tmp, "publish") /\ Removable(Tmp, "restart")
  /\ \A use \in {"publish", "restore", "restart", "finalize"} : Removable(Backup, use)
  /\ Removable(Back, "restore") /\ Removable(Discard, "restore")
  /\ {Claim(Tmp, "publish"), Claim(Tmp, "restart"), Claim(Back, "restore"), Claim(Discard, "restore")} \subseteq Claims
  /\ \A use \in {"publish", "restore", "restart", "finalize"} : Claim(Backup, use) \in Claims
<1>1. /\ {Claim(Tmp, "publish"), Claim(Tmp, "restart"), Claim(Back, "restore"), Claim(Discard, "restore")} \subseteq Claims
      /\ \A use \in {"publish", "restore", "restart", "finalize"} : Claim(Backup, use) \in Claims
  BY DEF Claims, ClaimTmp, ClaimBackup, ClaimOther
<1> QED BY <1>1, NameFacts DEF Removable

LEMMA RemoveAll ==
  ASSUME NEW c \in Undoing, NEW n, NEW use, Removable(n, use), NEW f \in File \cup {NoFile},
         NEW b \in {"before", "after"}
  PROVE  Part(c, RemoveBy(n, use, f, b), NotTarget, {"drops"})
<1>1. Part(c, RemoveBy(n, use, f, b), {n, Claim(n, use)}, {"drops"})
  BY RemovePart
<1>2. {n, Claim(n, use)} \subseteq NotTarget
  BY DEF Removable, NotTarget
<1> QED BY <1>1, <1>2, PartMore

LEMMA WithdrawalPart ==
  ASSUME FilesTyped PROVE Part("withdraw", Withdrawal, NotTarget, {"drops"})
<1> DEFINE P(q) == Part("withdraw", q, NotTarget, {"drops"})
           a == When(made.new # NoFile, RemoveBy(Tmp, "publish", made.new, "after"))
           b == When(made.backup # NoFile, RemoveBy(Backup, "publish", made.backup, "before"))
<1>1. "withdraw" \in Undoing
  BY DEF Undoing
<1>2. P(RemoveBy(Tmp, "publish", made.new, "after")) /\ P(RemoveBy(Backup, "publish", made.backup, "before"))
  BY <1>1, RemoveAll, RemovableFacts DEF FilesTyped
<1>3. P(a) /\ P(b)
  BY <1>2, WhenPart
<1>4. P(<<Plain("resume")>>) /\ P(<<Plain("failed")>>)
  BY PlainPart DEF Plains, PubOps, Early
<1>5. <<Plain("resume"), Plain("failed")>> = <<Plain("resume")>> \o <<Plain("failed")>>
  OBVIOUS
<1>6. Withdrawal = ((a \o <<Plain("resume")>>) \o b) \o <<Plain("resume"), Plain("failed")>>
  BY DEF Withdrawal
<1> HIDE DEF a, b
<1>7. P(a \o <<Plain("resume")>>)
  BY <1>3, <1>4, PartJoin DEF Part
<1>8. P((a \o <<Plain("resume")>>) \o b)
  BY <1>3, <1>7, PartJoin DEF Part
<1>9. P(<<Plain("resume"), Plain("failed")>>)
  BY <1>4, <1>5, PartJoin DEF Part
<1>10. P(((a \o <<Plain("resume")>>) \o b) \o <<Plain("resume"), Plain("failed")>>)
  BY <1>8, <1>9, PartJoin DEF Part
<1> QED BY <1>6, <1>10

LEMMA SinglePlain ==
  ASSUME NEW c \in Undoing, NEW op \in Plains \ {"restart"}, op \notin PubOps,
         op \in {"assess", "tidy"} => c = "restore"
  PROVE  /\ Piece(c, <<Plain(op)>>) /\ Reach(Plain(op)) = {} /\ DropFree(<<Plain(op)>>) /\ CopyFree(<<Plain(op)>>)
         /\ Plain(op).op = op
<1>1. op \in FileOps
  BY DEF FileOps
<1>2. /\ Plain(op) \in AnyStep /\ Plain(op).op = op /\ Plain(op).bytes = "none"
  BY <1>1, PlainAny
<1>3. StepFits(c, Plain(op))
  BY <1>2 DEF StepFits, Plains, Paired, Copies, Undoing
<1>4. Piece(c, <<Plain(op)>>)
  BY <1>2, <1>3, OnePiece
<1> QED BY <1>2, <1>4 DEF Plains, Reach, DropFree, CopyFree, Drops, Copies, PubOps, Early

LEMMA LastAt ==
  ASSUME NEW S, NEW p \in Seq(S), NEW q \in Seq(S), q # <<>>
  PROVE  p \o q # <<>> /\ (p \o q)[Len(p \o q)] = q[Len(q)]
<1>1. Len(p) \in Nat /\ Len(q) \in Nat /\ Len(q) > 0
  OBVIOUS
<1>2. Len(p \o q) = Len(p) + Len(q) /\ p \o q \in Seq(S)
  OBVIOUS
<1>3. Len(p) + Len(q) \in 1..Len(p) + Len(q) /\ Len(p) + Len(q) > Len(p)
  BY <1>1
<1>4. (p \o q)[Len(p) + Len(q)] = q[Len(q)]
  BY <1>1
<1> QED BY <1>1, <1>2, <1>4

LEMMA Tuples ==
  ASSUME NEW x, NEW y, NEW z PROVE <<x, y>> = <<x>> \o <<y>> /\ <<x, y, z>> = <<x, y>> \o <<z>>
<1>1. <<x, y>> = <<x>> \o <<y>>
  <2> DEFINE p == <<x, y>>
             q == <<x>> \o <<y>>
  <2>1. p \in Seq({x, y}) /\ q \in Seq({x, y})
    OBVIOUS
  <2>2. Len(p) = 2 /\ Len(q) = 2
    OBVIOUS
  <2>3. p[1] = x /\ p[2] = y /\ q[1] = x /\ q[2] = y
    OBVIOUS
  <2>4. \A i \in 1..2 : i = 1 \/ i = 2
    OBVIOUS
  <2> HIDE DEF p, q
  <2>5. p = q
    BY <2>1, <2>2, <2>3, <2>4
  <2> QED BY <2>5 DEF p, q
<1>2. <<x, y, z>> = <<x, y>> \o <<z>>
  <2> DEFINE p == <<x, y, z>>
             q == <<x, y>> \o <<z>>
  <2>1. p \in Seq({x, y, z}) /\ q \in Seq({x, y, z})
    OBVIOUS
  <2>2. Len(p) = 3 /\ Len(q) = 3
    OBVIOUS
  <2>3. p[1] = x /\ p[2] = y /\ p[3] = z /\ q[1] = x /\ q[2] = y /\ q[3] = z
    OBVIOUS
  <2>4. \A i \in 1..3 : i = 1 \/ i = 2 \/ i = 3
    OBVIOUS
  <2> HIDE DEF p, q
  <2>5. p = q
    BY <2>1, <2>2, <2>3, <2>4
  <2> QED BY <2>5 DEF p, q
<1> QED BY <1>1, <1>2

LEMMA RestorationWhole ==
  ASSUME FilesTyped PROVE Whole("restore", Restoration, Name, {})
<1> DEFINE P(q) == Part("restore", q, Name, {})
           a == Step("collapse", Discard, Target, made.new, "after")
           b == Step("collapse", Discard, Claim(Discard, "restore"), made.new, "after")
           d == Step("collapse", Target, Back, NoFile, "before")
           e == Step("collapse", Back, Claim(Back, "restore"), NoFile, "before")
           g == Step("collapse", Backup, Claim(Backup, "restore"), made.backup, "before")
           z == <<Plain("assess")>>
<1>0. "restore" \in Undoing
  BY DEF Undoing
<1>1. /\ {made.new, made.backup, NoFile} \subseteq File \cup {NoFile}
      /\ {Claim(Discard, "restore"), Claim(Back, "restore"), Claim(Backup, "restore")} \subseteq Claims
  BY RemovableFacts DEF FilesTyped
<1>2. ASSUME NEW n \in Name, NEW m \in Name, n # m, NEW f \in File \cup {NoFile}, NEW v \in {"before", "after"}
      PROVE  P(<<Step("collapse", n, m, f, v)>>)
  <2>1. Part("restore", <<Step("collapse", n, m, f, v)>>, {n, m}, {})
    BY <1>0, <1>2, CollapsePart
  <2> QED BY <2>1, PartMore
<1>3. P(<<a>>) /\ P(<<b>>) /\ P(<<d>>) /\ P(<<e>>) /\ P(<<g>>)
  BY <1>1, <1>2, NameFacts
<1>4. Whole("restore", z, Name, {})
  <2>1. Piece("restore", z) /\ Reach(Plain("assess")) = {} /\ DropFree(z) /\ CopyFree(z) /\ Plain("assess").op = "assess"
    BY <1>0, SinglePlain DEF Plains, PubOps, Early
  <2> QED BY <2>1 DEF Whole, Opens, Bound
<1>5. Restoration = (<<a, b>> \o When(before = "before", <<d, e, g>>)) \o z
  BY DEF Restoration
<1> HIDE DEF a, b, d, e, g, z
<1>6a. <<a, b>> = <<a>> \o <<b>>
  BY Tuples
<1>6b. <<d, e, g>> = <<d, e>> \o <<g>>
  BY Tuples
<1>6c. <<d, e>> = <<d>> \o <<e>>
  BY Tuples
<1>7. ASSUME NEW p, NEW q, P(p), P(q) PROVE P(p \o q)
  BY <1>7, PartJoin DEF Part
<1>8. P(<<a, b>>) /\ P(<<d, e, g>>)
  BY <1>3, <1>6a, <1>6b, <1>6c, <1>7
<1>9. P(When(before = "before", <<d, e, g>>))
  BY <1>8, WhenPart
<1>10. P(<<a, b>> \o When(before = "before", <<d, e, g>>))
  BY <1>7, <1>8, <1>9
<1> QED BY <1>4, <1>5, <1>10, PartJoin

LEMMA DropsPart ==
  ASSUME FilesTyped
  PROVE  /\ Part("restore", DropDiscard, NotTarget, {"drops"}) /\ Part("restore", DropBackup, NotTarget, {"drops"})
         /\ Part("restore", DropDiscard, {Discard, Claim(Discard, "restore")}, {})
<1>0. "restore" \in Undoing
  BY DEF Undoing
<1>1. Part("restore", DropDiscard, NotTarget, {"drops"})
  BY <1>0, RemoveAll, RemovableFacts DEF FilesTyped, DropDiscard
<1>2. Part("restore", RemoveBy(Backup, "restore", made.backup, "before"), NotTarget, {"drops"})
  BY <1>0, RemoveAll, RemovableFacts DEF FilesTyped
<1>3. Part("restore", DropBackup, NotTarget, {"drops"})
  BY <1>2, WhenPart DEF DropBackup
<1>4. Part("restore", DropDiscard, {Discard, Claim(Discard, "restore")}, {})
  BY <1>0, RemovePart, RemovableFacts DEF FilesTyped, DropDiscard
<1> QED BY <1>1, <1>3, <1>4

LEMMA CleanedUpPart ==
  ASSUME FilesTyped PROVE Part("restore", CleanedUp, NotTarget, {"drops"})
<1> DEFINE P(q) == Part("restore", q, NotTarget, {"drops"})
           a == When(dir[Back] # NoFile, RemoveBy(Back, "restore", dir[Back], "before"))
<1>0. "restore" \in Undoing
  BY DEF Undoing
<1>1. dir[Back] \in File \cup {NoFile}
  BY NameFacts DEF FilesTyped
<1>2. P(RemoveBy(Back, "restore", dir[Back], "before"))
  BY <1>0, <1>1, RemoveAll, RemovableFacts
<1>3. P(a)
  BY <1>2, WhenPart
<1>4. P(<<Plain("restored")>>)
  BY PlainPart DEF Plains, PubOps, Early
<1>5. P(DropDiscard) /\ P(DropBackup)
  BY DropsPart
<1>6. CleanedUp = ((a \o DropDiscard) \o DropBackup) \o <<Plain("restored")>>
  BY DEF CleanedUp
<1> HIDE DEF a
<1>7. ASSUME NEW p, NEW q, P(p), P(q) PROVE P(p \o q)
  BY <1>7, PartJoin DEF Part
<1>8. P((a \o DropDiscard) \o DropBackup)
  BY <1>3, <1>5, <1>7
<1> QED BY <1>4, <1>6, <1>7, <1>8

LEMMA BothDroppedPart ==
  ASSUME FilesTyped PROVE Part("restore", BothDropped, NotTarget, {"drops"})
<1> DEFINE P(q) == Part("restore", q, NotTarget, {"drops"})
<1>4. P(<<Plain("restored")>>) /\ P(<<Plain("resume")>>)
  BY PlainPart DEF Plains, PubOps, Early
<1>5. P(DropDiscard) /\ P(DropBackup)
  BY DropsPart
<1>6. BothDropped = ((DropDiscard \o <<Plain("resume")>>) \o DropBackup) \o (<<Plain("resume")>> \o <<Plain("restored")>>)
  BY DEF BothDropped
<1>7. ASSUME NEW p, NEW q, P(p), P(q) PROVE P(p \o q)
  BY <1>7, PartJoin DEF Part
<1>8. P((DropDiscard \o <<Plain("resume")>>) \o DropBackup)
  BY <1>4, <1>5, <1>7
<1>9. P(<<Plain("resume")>> \o <<Plain("restored")>>)
  BY <1>4, <1>7
<1> QED BY <1>6, <1>7, <1>8, <1>9

LEMMA FinalizationPart ==
  ASSUME FilesTyped PROVE Part("finalize", Finalization, NotTarget, {"drops"})
<1> DEFINE P(q) == Part("finalize", q, NotTarget, {"drops"})
           a == When(before = "before", RemoveBy(Backup, "finalize", made.backup, "before"))
<1>0. "finalize" \in Undoing
  BY DEF Undoing
<1>1. P(RemoveBy(Backup, "finalize", made.backup, "before"))
  BY <1>0, RemoveAll, RemovableFacts DEF FilesTyped
<1>2. P(a)
  BY <1>1, WhenPart
<1>3. P(<<Plain("confirm")>>) /\ P(<<Plain("finalized")>>)
  BY PlainPart DEF Plains, PubOps, Early
<1>4. Finalization = (<<Plain("confirm")>> \o a) \o <<Plain("finalized")>>
  BY DEF Finalization
<1> HIDE DEF a
<1>5. ASSUME NEW p, NEW q, P(p), P(q) PROVE P(p \o q)
  BY <1>5, PartJoin DEF Part
<1> QED BY <1>2, <1>3, <1>4, <1>5

LEMMA UndonePart ==
  ASSUME FilesTyped PROVE Part("restore", Undone, NotTarget, {"drops"})
<1> DEFINE P(q) == Part("restore", q, NotTarget, {"drops"})
           a == RemoveBy(Tmp, "restart", made.new, "after")
           b == <<Step("exact", Backup, Backup, made.backup, "before")>>
           d == RemoveBy(Backup, "restart", made.backup, "before")
<1>0. "restore" \in Undoing
  BY DEF Undoing
<1>1. P(a) /\ P(d)
  BY <1>0, RemoveAll, RemovableFacts DEF FilesTyped
<1>2. P(b)
  <2>1. Part("restore", b, {Backup}, {"drops"})
    BY <1>0, ExactPart, NameFacts DEF FilesTyped
  <2>2. {Backup} \subseteq NotTarget
    BY NameFacts DEF NotTarget
  <2> QED BY <2>1, <2>2, PartMore
<1>3. P(<<Plain("restored")>>)
  BY PlainPart DEF Plains, PubOps, Early
<1>4. Undone = (a \o When(before = "before", b \o d)) \o <<Plain("restored")>>
  BY DEF Undone
<1> HIDE DEF a, b, d
<1>5. ASSUME NEW p, NEW q, P(p), P(q) PROVE P(p \o q)
  BY <1>5, PartJoin DEF Part
<1>6. P(b \o d)
  BY <1>1, <1>2, <1>5
<1>7. P(When(before = "before", b \o d))
  BY <1>6, WhenPart
<1> QED BY <1>1, <1>3, <1>4, <1>5, <1>7

LEMMA PutBackWhole ==
  ASSUME FilesTyped
  PROVE  \/ Whole("restore", PutBack, Name, {})
         \/ before = "before" /\ dir[Backup] # NoFile /\ Whole("restore", PutBack, Name \ {Backup}, {"copies"})
<1> DEFINE a == When(dir[Target] # NoFile, Move(Target, Discard, made.new, "after"))
           R == Name \ {Backup}
           w == When(dir[Back] = NoFile, Write(Back, Claim(Back, "restore"), "before"))
           m == Move(Back, Target, dir[Back], "before")
           z == <<Plain("tidy")>>
<1>0. "restore" \in Undoing
  BY DEF Undoing
<1>1. dir[Back] \in File \cup {NoFile} /\ made.new \in File \cup {NoFile}
  BY NameFacts DEF FilesTyped
<1>2. Part("restore", a, R, {})
  <2>1. Part("restore", Move(Target, Discard, made.new, "after"), {Target, Discard}, {})
    BY <1>0, <1>1, MovePart, NameFacts
  <2>2. {Target, Discard} \subseteq R
    BY NameFacts
  <2>3. Part("restore", Move(Target, Discard, made.new, "after"), R, {})
    BY <2>1, <2>2, PartMore
  <2> QED BY <2>3, WhenPart
<1>3. PutBack = a \o (IF before = "none" THEN DropDiscard \o <<Plain("restored")>>
                      ELSE IF dir[Backup] = NoFile THEN <<Plain("refuse")>>
                      ELSE (w \o m) \o z)
  BY DEF PutBack
<1>4. CASE before = "none"
  <2>1. Part("restore", DropDiscard, Name, {})
    <3>1. Part("restore", DropDiscard, {Discard, Claim(Discard, "restore")}, {})
      BY DropsPart
    <3>2. {Discard, Claim(Discard, "restore")} \subseteq Name
      BY NameFacts, RemovableFacts
    <3> QED BY <3>1, <3>2, PartMore
  <2>2. Part("restore", <<Plain("restored")>>, Name, {})
    BY PlainPart DEF Plains, PubOps, Early
  <2>3. Part("restore", DropDiscard \o <<Plain("restored")>>, Name, {})
    BY <2>1, <2>2, PartJoin DEF Part
  <2>4. Part("restore", a, Name, {})
    BY <1>2, PartMore
  <2>5. Whole("restore", a \o (DropDiscard \o <<Plain("restored")>>), Name, {})
    BY <2>3, <2>4, PartJoin DEF Part
  <2> QED BY <1>3, <1>4, <2>5
<1>5. CASE before # "none" /\ dir[Backup] = NoFile
  <2>1. Part("restore", <<Plain("refuse")>>, Name, {})
    BY PlainPart DEF Plains, PubOps, Early
  <2>2. Part("restore", a, Name, {})
    BY <1>2, PartMore
  <2>3. Whole("restore", a \o <<Plain("refuse")>>, Name, {})
    BY <2>1, <2>2, PartJoin DEF Part
  <2> QED BY <1>3, <1>5, <2>3
<1>6. CASE before # "none" /\ dir[Backup] # NoFile
  <2> DEFINE P(q) == Part("restore", q, R, {"copies"})
  <2>1. P(a)
    BY <1>2, PartMore
  <2>2. P(w)
    <3>1. Claim(Back, "restore") \in Name \ (Shared \cup {Back, Backup})
      BY NameFacts, RemovableFacts DEF Shared
    <3>2. Part("restore", Write(Back, Claim(Back, "restore"), "before"), {Back, Claim(Back, "restore")}, {"copies"})
      BY <1>0, <3>1, WritePart, NameFacts
    <3>3. {Back, Claim(Back, "restore")} \subseteq R
      BY NameFacts, RemovableFacts
    <3>4. P(Write(Back, Claim(Back, "restore"), "before"))
      BY <3>2, <3>3, PartMore
    <3> QED BY <3>4, WhenPart
  <2>3. P(m)
    <3>1. Part("restore", m, {Back, Target}, {"copies"})
      BY <1>0, <1>1, MovePart, NameFacts
    <3>2. {Back, Target} \subseteq R
      BY NameFacts
    <3> QED BY <3>1, <3>2, PartMore
  <2>4. /\ m # <<>> /\ m[Len(m)].op = "moved" /\ m[Len(m)].to = Target /\ m[Len(m)].bytes = "before"
        /\ Len(m) = 5 /\ m \in Seq(AnyStep)
    <3>1. Len(m) = 5 /\ m[5] = Step("moved", Back, Target, dir[Back], "before")
      BY DEF Move
    <3> QED BY <2>3, <3>1 DEF Step, Part, Whole, Piece
  <2>5. /\ Piece("restore", z) /\ z[1].op = "tidy" /\ (\A i \in 1..Len(z) : Reach(z[i]) = {})
        /\ DropFree(z) /\ CopyFree(z) /\ z # <<>>
    <3>1. Piece("restore", z) /\ Reach(Plain("tidy")) = {} /\ DropFree(z) /\ CopyFree(z) /\ Plain("tidy").op = "tidy"
      BY <1>0, SinglePlain DEF Plains, PubOps, Early
    <3> QED BY <3>1
  <2> HIDE DEF a, w, m, z, R
  <2>6. P(w \o m)
    BY <2>2, <2>3, PartJoin DEF Part
  <2>7. w \o m # <<>> /\ (w \o m)[Len(w \o m)] = m[Len(m)]
    <3>1. w \in Seq(AnyStep) /\ m \in Seq(AnyStep)
      BY <2>2, <2>3 DEF Part, Whole, Piece
    <3> QED BY <2>4, <3>1, LastAt
  <2>8. Follows((w \o m)[Len(w \o m)], z[1])
    BY <2>4, <2>5, <2>7 DEF Follows, Early, PubOps
  <2>9. Whole("restore", (w \o m) \o z, R, {"copies"})
    <3>1. Whole("restore", w \o m, R, {"copies"})
      BY <2>6 DEF Part
    <3>2. \A i \in 1..Len(z) : Reach(z[i]) \subseteq R
      BY <2>5
    <3> QED BY <2>5, <2>7, <2>8, <3>1, <3>2, WholeJoin
  <2>10. Whole("restore", a \o ((w \o m) \o z), R, {"copies"})
    BY <2>1, <2>9, PartJoin
  <2> QED BY <1>3, <1>6, <2>10 DEF R, FilesTyped
<1> QED BY <1>4, <1>5, <1>6

LEMMA PublicationPiece ==
  /\ Piece("publish", Publication) /\ Publication # <<>> /\ Publication[1].op = "observe"
  /\ Publication[1].bytes = "none"
<1> DEFINE P(q) == Part("publish", q, Name, {})
           a == When(before = "before", Write(Backup, Claim(Backup, "publish"), "before"))
           w == Write(Tmp, Claim(Tmp, "publish"), "after")
           o == <<Plain("observe")>>
           z == <<Plain("unchanged"), Plain("note"), Plain("rename"), Plain("classify"), Plain("verify"), Plain("published")>>
<1>1. P(o)
  BY PlainPart DEF Plains, PubOps, Early
<1>2. P(a)
  <2>1. Claim(Backup, "publish") \in Name \ (Shared \cup {Backup})
    BY NameFacts, RemovableFacts DEF Shared
  <2>2. P(Write(Backup, Claim(Backup, "publish"), "before"))
    <3>1. Part("publish", Write(Backup, Claim(Backup, "publish"), "before"), {Backup, Claim(Backup, "publish")}, {})
      BY <2>1, WritePart, NameFacts
    <3> QED BY <2>1, <3>1, PartMore, NameFacts
  <2> QED BY <2>2, WhenPart
<1>3. P(w)
  <2>1. Claim(Tmp, "publish") \in Name \ (Shared \cup {Tmp, Backup})
    BY NameFacts, RemovableFacts DEF Shared
  <2>2. Part("publish", w, {Tmp, Claim(Tmp, "publish")}, {})
    BY <2>1, WritePart, NameFacts
  <2> QED BY <2>1, <2>2, PartMore, NameFacts
<1>4. Piece("publish", z) /\ Opens(z)
  <2>1. /\ Len(z) = 6 /\ z[1] = Plain("unchanged") /\ z[2] = Plain("note") /\ z[3] = Plain("rename")
        /\ z[4] = Plain("classify") /\ z[5] = Plain("verify") /\ z[6] = Plain("published")
    OBVIOUS
  <2>2. \A op \in PubOps \cap Plains : Plain(op) \in AnyStep /\ Plain(op).op = op
    <3>1. PubOps \cap Plains \subseteq FileOps
      BY DEF FileOps
    <3> QED BY <3>1, PlainAny
  <2>3. /\ z[1].op = "unchanged" /\ z[2].op = "note" /\ z[3].op = "rename" /\ z[4].op = "classify"
        /\ z[5].op = "verify" /\ z[6].op = "published"
        /\ {z[1], z[2], z[3], z[4], z[5], z[6]} \subseteq AnyStep
    BY <2>1, <2>2 DEF PubOps, Early, Plains
  <2>4. z \in Seq(AnyStep)
    BY <2>1, <2>3
  <2> HIDE DEF z
  <2>5. \A i \in 1..6 : i = 1 \/ i = 2 \/ i = 3 \/ i = 4 \/ i = 5 \/ i = 6
    OBVIOUS
  <2>6. \A s : s.op \in PubOps \cap Plains => StepFits("publish", s)
    BY DEF StepFits, Plains, Paired, Copies, Undoing, PubOps, Early
  <2>7. Fitting("publish", z)
    BY <2>1, <2>3, <2>5, <2>6 DEF Fitting, PubOps, Early, Plains
  <2>8. /\ Follows(z[1], z[2]) /\ Follows(z[2], z[3]) /\ Follows(z[3], z[4]) /\ Follows(z[4], z[5])
        /\ Follows(z[5], z[6])
    BY <2>3 DEF Follows, Early, PubOps
  <2>9. Chained(z)
    <3> SUFFICES ASSUME NEW i \in 1..6, i > 1 PROVE Follows(z[i - 1], z[i])
      BY <2>1 DEF Chained
    <3>1. i = 2 \/ i = 3 \/ i = 4 \/ i = 5 \/ i = 6
      OBVIOUS
    <3> QED BY <2>8, <3>1
  <2> QED BY <2>3, <2>4, <2>7, <2>9 DEF Piece, Opens, Bound
<1>5. Publication = ((o \o a) \o w) \o z
  BY DEF Publication
<1>6. o # <<>> /\ o[1] = Plain("observe") /\ Len(o) = 1
  OBVIOUS
<1>7. Plain("observe").op = "observe" /\ Plain("observe").bytes = "none"
  BY DEF Plain, Step
<1> HIDE DEF o, a, w, z
<1>8. P(o \o a)
  BY <1>1, <1>2, PartJoin DEF Part
<1>9. P((o \o a) \o w)
  BY <1>3, <1>8, PartJoin DEF Part
<1>10. Piece("publish", ((o \o a) \o w) \o z)
  BY <1>4, <1>9, Meet, PieceJoin DEF Part, Whole
<1>11. /\ o \in Seq(AnyStep) /\ a \in Seq(AnyStep) /\ w \in Seq(AnyStep) /\ z \in Seq(AnyStep)
  BY <1>1, <1>2, <1>3, <1>4 DEF Part, Whole, Piece
<1>12. ((o \o a) \o w) \o z # <<>> /\ (((o \o a) \o w) \o z)[1] = o[1]
  <2>1. (o \o a) \in Seq(AnyStep) /\ Len(o \o a) >= 1 /\ (o \o a)[1] = o[1]
    BY <1>6, <1>11
  <2>2. ((o \o a) \o w) \in Seq(AnyStep) /\ Len((o \o a) \o w) >= 1 /\ ((o \o a) \o w)[1] = o[1]
    BY <1>11, <2>1
  <2> QED BY <1>11, <2>2
<1> QED BY <1>5, <1>6, <1>7, <1>10, <1>12

-----------------------------------------------------------------------------
(* What is inductive about a call and the files it is at work on.          *)

Program == Piece(call, todo)
Core == Program /\ Owned /\ Course /\ Untouched /\ Copying /\ Dropping /\ HeadOK /\ WantedKept

Undisturbed(n) == dir'[n] = dir[n] /\ (dir[n] # NoFile => bytes'[dir[n]] = bytes[dir[n]])
SameOwner      == wanted' = wanted /\ exposed' = exposed /\ before' = before /\ way' = way
Quietly        == dir' = dir /\ bytes' = bytes /\ SameOwner

LEMMA Busy == ASSUME Now.op # "idle" PROVE todo # <<>>
BY DEF Now, Plain, Step, Idle

LEMMA IdleOp == ASSUME todo = <<>> PROVE Now.op = "idle"
BY DEF Now, Plain, Step, Idle

LEMMA NowFacts ==
  ASSUME Program, todo # <<>>
  PROVE  /\ Now = todo[1] /\ Now \in AnyStep /\ StepFits(call, Now) /\ todo \in Seq(AnyStep)
         /\ Len(todo) \in Nat /\ Len(todo) >= 1 /\ 1 \in 1..Len(todo)
<1>1. todo \in Seq(AnyStep)
  BY DEF Program, Piece
<1>2. Len(todo) \in Nat /\ Len(todo) >= 1 /\ Head(todo) = todo[1]
  BY <1>1
<1>3. 1 \in 1..Len(todo)
  BY <1>2
<1>4. todo[1] \in AnyStep
  BY <1>1, <1>3
<1>5. StepFits(call, todo[1])
  BY <1>3 DEF Program, Piece, Fitting
<1> QED BY <1>1, <1>2, <1>3, <1>4, <1>5 DEF Now, Idle

LEMMA HeadFree ==
  ASSUME todo' \in Seq(AnyStep), todo' # <<>> => todo'[1].op \notin Bound
  PROVE  HeadOK'
<1>1. Now'.op \notin Bound
  <2>1. CASE todo' = <<>>
    BY <2>1 DEF Now, Idle, Plain, Step, Bound
  <2>2. CASE todo' # <<>>
    BY <2>2 DEF Now, Idle
  <2> QED BY <2>1, <2>2
<1> QED BY <1>1 DEF HeadOK, Bound

LEMMA NextNow ==
  ASSUME todo' \in Seq(AnyStep), todo' # <<>>
  PROVE  Now' = todo'[1]
BY DEF Now, Idle

AllLike(p, q) == \A i \in 1..Len(p) : \E j \in 1..Len(q) : p[i].op = q[j].op /\ Alike(p[i], q[j])

(* Fewer steps, of which the present one disturbed no name it does not     *)
(* reach, leave the regimes in force.                                      *)
LEMMA Regimes ==
  ASSUME Core, todo # <<>>, SameOwner, call' = call, Piece(call, todo'), AllLike(todo', todo),
         \A n \in Name : n \notin Reach(Now) => Undisturbed(n),
         (call = "publish" /\ todo' # <<>> /\ todo'[1].op \in Early) => Now.op \in Early \ {"rename"}
  PROVE  Untouched' /\ Copying' /\ Dropping'
<1>1. /\ Now = todo[1] /\ StepFits(call, Now) /\ 1 \in 1..Len(todo)
  BY NowFacts DEF Core
<1>2. todo' \in Seq(AnyStep)
  BY DEF Piece
<1>3. \A n : Apart(todo, n) => n \notin Reach(Now) /\ Apart(todo', n)
  <2> SUFFICES ASSUME NEW n, Apart(todo, n) PROVE n \notin Reach(Now) /\ Apart(todo', n)
    OBVIOUS
  <2>1. n \notin Reach(Now)
    BY <1>1 DEF Apart
  <2>2. ASSUME NEW i \in 1..Len(todo') PROVE n \notin Reach(todo'[i])
    <3>1. PICK j \in 1..Len(todo) : todo'[i].op = todo[j].op /\ Alike(todo'[i], todo[j])
      BY <2>2 DEF AllLike
    <3>2. Reach(todo'[i]) = Reach(todo[j])
      BY <3>1 DEF Reach, Alike
    <3> QED BY <3>2 DEF Apart
  <2> QED BY <2>1, <2>2 DEF Apart
<1>4. (CopyFree(todo) => CopyFree(todo')) /\ (DropFree(todo) => DropFree(todo'))
  <2>1. ASSUME NEW i \in 1..Len(todo')
        PROVE  \E j \in 1..Len(todo) : (Copies(todo'[i]) => Copies(todo[j])) /\ (Drops(todo'[i]) => Drops(todo[j]))
    <3>1. PICK j \in 1..Len(todo) : todo'[i].op = todo[j].op /\ Alike(todo'[i], todo[j])
      BY <2>1 DEF AllLike
    <3> QED BY <3>1 DEF Copies, Drops, Alike
  <2> HIDE DEF Copies, Drops
  <2> QED BY <2>1 DEF CopyFree, DropFree
<1>5. ASSUME Target \notin Reach(Now) PROVE (OnTarget => OnTarget') /\ (InPlace => InPlace')
  <2>1. Undisturbed(Target)
    BY <1>5, NameFacts
  <2> QED BY <2>1 DEF Undisturbed, OnTarget, InPlace, Lost, Bears, Accepted, SameOwner
<1>6. Copying'
  <2>1. CASE CopyFree(todo)
    BY <1>4, <2>1 DEF Copying
  <2>2. CASE ~CopyFree(todo)
    <3>1. Apart(todo, Backup) /\ dir[Backup] # NoFile /\ bytes[dir[Backup]] = "before"
      BY <2>2 DEF Core, Copying
    <3>2. Undisturbed(Backup) /\ Apart(todo', Backup)
      BY <1>3, <3>1, NameFacts
    <3>3. dir'[Backup] # NoFile /\ bytes'[dir'[Backup]] = "before"
      BY <3>1, <3>2 DEF Undisturbed
    <3> QED BY <3>2, <3>3 DEF Copying, Apart
  <2> QED BY <2>1, <2>2
<1>7. Dropping'
  <2>1. CASE DropFree(todo)
    BY <1>4, <2>1 DEF Dropping
  <2>2. CASE ~DropFree(todo)
    <3>1. Apart(todo, Target) /\ InPlace
      BY <2>2 DEF Core, Dropping
    <3>2. InPlace' /\ Apart(todo', Target)
      BY <1>3, <1>5, <3>1
    <3> QED BY <3>2 DEF Dropping, Apart
  <2> QED BY <2>1, <2>2
<1>8. Untouched'
  <2>1. call # "none"
    BY DEF Core, Course
  <2>2. ASSUME call = "publish", Now'.op \in Early PROVE OnTarget'
    <3>1. todo' # <<>>
      BY <2>2 DEF Now, Idle, Plain, Step, Early
    <3>2. Now.op \in Early \ {"rename"}
      BY <1>2, <2>2, <3>1, NextNow
    <3>3. Target \notin Reach(Now)
      BY <1>1, <3>2, NameFacts DEF Reach, StepFits, Early, Plains, Shared
    <3> QED BY <1>5, <2>2, <3>2, <3>3 DEF Core, Untouched
  <2>3. ASSUME call = "withdraw", todo' # <<>> PROVE OnTarget' /\ Apart(todo', Target)
    <3>1. OnTarget /\ Apart(todo, Target)
      BY <2>3 DEF Core, Untouched
    <3> QED BY <1>3, <1>5, <3>1
  <2> QED BY <2>1, <2>2, <2>3 DEF Untouched, Apart
<1> QED BY <1>6, <1>7, <1>8

LEMMA TailKeeps ==
  ASSUME Core, todo # <<>>, SameOwner, call' = call, todo' = Tail(todo),
         \A n \in Name : n \notin Reach(Now) => Undisturbed(n)
  PROVE  /\ Program' /\ Untouched' /\ Copying' /\ Dropping'
         /\ todo' # <<>> => (Now' = todo'[1] /\ Follows(Now, Now') /\ StepFits(call, Now'))
<1>1. /\ Now = todo[1] /\ StepFits(call, Now) /\ todo \in Seq(AnyStep) /\ Len(todo) \in Nat /\ Len(todo) >= 1
  BY NowFacts DEF Core
<1>2. Piece(call, todo')
  BY PieceTail DEF Core, Program
<1>3. \A i \in 1..Len(todo') : i + 1 \in 1..Len(todo) /\ todo'[i] = todo[i + 1]
  BY <1>1
<1>4. AllLike(todo', todo)
  BY <1>3 DEF AllLike, Alike
<1>5. todo' # <<>> => (Now' = todo'[1] /\ Follows(Now, Now') /\ StepFits(call, Now'))
  <2> SUFFICES ASSUME todo' # <<>> PROVE Now' = todo'[1] /\ Follows(Now, Now') /\ StepFits(call, Now')
    OBVIOUS
  <2>1. todo' \in Seq(AnyStep) /\ 1 \in 1..Len(todo')
    BY <1>2 DEF Piece
  <2>2. Now' = todo'[1]
    BY <2>1, NextNow
  <2>3. todo'[1] = todo[2] /\ 2 \in 1..Len(todo)
    BY <1>3, <2>1
  <2>4. Follows(todo[2 - 1], todo[2])
    BY <2>3 DEF Core, Program, Piece, Chained
  <2>5. 2 - 1 = 1
    OBVIOUS
  <2>6. StepFits(call, todo'[1])
    BY <1>2, <2>1 DEF Piece, Fitting
  <2> QED BY <1>1, <2>2, <2>3, <2>4, <2>5, <2>6
<1>6. (call = "publish" /\ todo' # <<>> /\ todo'[1].op \in Early) => Now.op \in Early \ {"rename"}
  BY <1>1, <1>5 DEF Follows, StepFits, Early, PubOps
<1>7. Untouched' /\ Copying' /\ Dropping'
  BY <1>2, <1>4, <1>6, Regimes
<1> QED BY <1>2, <1>5, <1>7 DEF Program

LEMMA LeastOf ==
  ASSUME NEW T, T \subseteq Nat, T # {}
  PROVE  \E x \in T : \A y \in T : x <= y
<1> DEFINE R == OpToRel(<, Nat)
<1>1. \A x, y \in Nat : (<<y, x>> \in R) <=> y < x
  BY DEF OpToRel
<1>2. IsWellFoundedOn(R, Nat)
  BY NatLessThanWellFounded
<1> HIDE DEF R
<1>3. PICK x \in T : \A y \in T : ~(<<y, x>> \in R)
  BY <1>2, WFMin
<1>4. ASSUME NEW y \in T PROVE x <= y
  <2>1. x \in Nat /\ y \in Nat
    BY <1>3
  <2>2. ~(<<y, x>> \in R)
    BY <1>3
  <2>3. ~(y < x)
    BY <1>1, <2>1, <2>2
  <2> QED BY <2>1, <2>3
<1> QED BY <1>4

(* How a failure goes on.                                                  *)
Withdraws == call = "publish" /\ call' = "withdraw" /\ todo' = Withdrawal
GivesUp   == /\ call' = call /\ Piece(call, todo') /\ AllLike(todo', todo)
             /\ todo' # <<>> => (todo'[1].op \notin Bound /\ call # "publish")

LEMMA FailEffect ==
  ASSUME Core, todo # <<>>, NEW a, FailWith(a)
  PROVE  /\ way' = way /\ handle' = handle /\ noted' = noted /\ answer' \in {a, "uncertain", "incomplete"}
         /\ IF call = "publish" /\ Now.op \notin {"classify", "verify"} THEN Withdraws ELSE GivesUp
<1> DEFINE marks == {i \in DOMAIN todo : todo[i].op = "resume"}
           k == CHOOSE i \in marks : \A j \in marks : i <= j
<1>1. /\ todo \in Seq(AnyStep) /\ Len(todo) \in Nat /\ DOMAIN todo = 1..Len(todo)
  BY NowFacts DEF Core
<1>2. way' = way /\ handle' = handle /\ noted' = noted /\ answer' \in {a, "uncertain", "incomplete"}
  BY DEF FailWith, Doing
<1>3. CASE call = "publish" /\ Now.op \notin {"classify", "verify"}
  BY <1>2, <1>3 DEF FailWith, Doing, Withdraws
<1>4. CASE ~(call = "publish" /\ Now.op \notin {"classify", "verify"})
  <2>1. call' = call /\ IF marks = {} THEN todo' = <<>> ELSE todo' = SubSeq(todo, 1 + k, Len(todo))
    BY <1>4 DEF FailWith, Doing
  <2>2. CASE marks = {}
    <3>1. Piece(call, <<>>)
      BY NoPiece
    <3> QED BY <1>2, <1>4, <2>1, <2>2, <3>1 DEF GivesUp, AllLike
  <2>3. CASE marks # {}
    <3>1. k \in marks
      <4>1. marks \subseteq Nat /\ marks # {}
        BY <1>1, <2>3
      <4>2. \E i \in marks : \A j \in marks : i <= j
        <5> HIDE DEF marks
        <5> QED BY <4>1, LeastOf
      <4> QED BY <4>2
    <3> HIDE DEF k
    <3>2. k \in 1..Len(todo) /\ todo[k].op = "resume"
      BY <1>1, <3>1
    <3>3. todo' = SubSeq(todo, 1 + k, Len(todo))
      BY <2>1, <2>3
    <3>4. /\ Piece(call, todo')
          /\ \A i \in 1..Len(todo') : \E j \in 1..Len(todo) : todo'[i] = todo[j]
          /\ todo' # <<>> => Follows(todo[k], todo'[1])
      <4>1. Piece(call, todo)
        BY DEF Core, Program
      <4> DEFINE q == todo
                 c == call
                 r == SubSeq(q, 1 + k, Len(q))
      <4>2. Piece(c, q) /\ k \in 1..Len(q)
        BY <3>2, <4>1
      <4>3. todo' = r
        BY <3>3
      <4> HIDE DEF q, c
      <4>4. /\ Piece(c, r)
            /\ \A i \in 1..Len(r) : \E j \in 1..Len(q) : r[i] = q[j]
            /\ r # <<>> => Follows(q[k], r[1])
        BY ONLY <4>2, PieceRest
      <4> HIDE DEF r
      <4> QED BY ONLY <4>3, <4>4 DEF q, c
    <3>5. call # "publish"
      <4>1. StepFits(call, todo[k])
        BY <3>2 DEF Core, Program, Piece, Fitting
      <4> QED BY <3>2, <4>1 DEF StepFits, PubOps, Early
    <3>6. todo' # <<>> => todo'[1].op \notin Bound
      BY <3>2, <3>4 DEF Follows, Bound
    <3>7. AllLike(todo', todo)
      BY <3>4 DEF AllLike, Alike
    <3> QED BY <1>2, <2>1, <3>4, <3>5, <3>6, <3>7 DEF GivesUp
  <2> QED BY <2>2, <2>3
<1> QED BY <1>3, <1>4

LEMMA FailKeeps ==
  ASSUME Core, FilesTyped, todo # <<>>, NEW a, FailWith(a), SameOwner,
         Now.op \notin {"published", "rename"},
         \A n \in Name : n \notin Reach(Now) => Undisturbed(n)
  PROVE  /\ Program' /\ Untouched' /\ Copying' /\ Dropping' /\ HeadOK'
         /\ call' # "none" /\ (call' = "finalize" => way' = "finalize")
         /\ call' = "publish" => Now.op \in {"classify", "verify"}
<1>1. Now = todo[1] /\ StepFits(call, Now) /\ call # "none"
  BY NowFacts DEF Core, Course
<1>2. CASE Withdraws
  <2>1. Part("withdraw", todo', NotTarget, {"drops"})
    BY <1>2, WithdrawalPart DEF Withdraws
  <2>2. /\ call' = "withdraw" /\ Piece(call', todo') /\ todo' \in Seq(AnyStep) /\ CopyFree(todo')
        /\ Apart(todo', Target) /\ (todo' # <<>> => todo'[1].op \notin Bound)
    <3>1. Whole("withdraw", todo', NotTarget, {"drops"}) /\ call' = "withdraw"
      BY <1>2, <2>1 DEF Part, Withdraws
    <3>2. Piece(call', todo') /\ CopyFree(todo') /\ Opens(todo')
      BY <3>1 DEF Whole
    <3>3. Apart(todo', Target)
      BY <3>1 DEF Whole, Apart, NotTarget
    <3> QED BY <3>1, <3>2, <3>3 DEF Opens, Piece
  <2>3. call = "publish" /\ Now.op \notin {"classify", "verify"}
    <3>1. call = "publish"
      BY <1>2 DEF Withdraws
    <3>2. call' # call
      BY <3>1, <2>2
    <3> QED BY <3>1, <3>2, FailEffect DEF GivesUp
  <2>4. Now.op \in Early \ {"rename"}
    BY <1>1, <2>3 DEF StepFits, PubOps
  <2>5. Target \notin Reach(Now)
    BY <1>1, <2>4, NameFacts DEF Reach, StepFits, Early, Plains, Shared
  <2>6. OnTarget
    BY <2>3, <2>4 DEF Core, Untouched
  <2>7. OnTarget'
    <3>1. Undisturbed(Target)
      BY <2>5, NameFacts
    <3> QED BY <2>6, <3>1 DEF Undisturbed, OnTarget, Lost, Bears, SameOwner
  <2>8. Untouched'
    BY <2>2, <2>7 DEF Untouched, Apart
  <2>9. Copying' /\ Dropping'
    BY <2>2, <2>7 DEF Copying, Dropping, InPlace, CopyFree, Apart
  <2>10. HeadOK'
    BY <2>2, HeadFree
  <2> QED BY <2>2, <2>8, <2>9, <2>10 DEF Program
<1>3. CASE GivesUp /\ (call = "publish" => Now.op \in {"classify", "verify"})
  <2>1. call' = call /\ Piece(call, todo') /\ AllLike(todo', todo)
    BY <1>3 DEF GivesUp
  <2>2. todo' # <<>> => (todo'[1].op \notin Bound /\ call # "publish")
    BY <1>3 DEF GivesUp
  <2>3. Untouched' /\ Copying' /\ Dropping'
    BY <2>1, <2>2, Regimes
  <2>4. HeadOK'
    BY <2>1, <2>2, HeadFree DEF Piece
  <2>5. call' = "finalize" => way' = "finalize"
    BY <2>1 DEF Core, Course, SameOwner
  <2> QED BY <1>1, <1>3, <2>1, <2>3, <2>4, <2>5 DEF Program
<1> QED BY <1>2, <1>3, FailEffect

LEMMA QuietDisk ==
  ASSUME Core, Quietly
  PROVE  /\ Owned' /\ WantedKept' /\ wanted' \in {"none", "own", before'}
         /\ \A n \in Name : Undisturbed(n)
         /\ \A f \in File : Alone(f) => Alone(f)'
         /\ \A n \in Name : (Safe(n) => Safe(n)') /\ (Bears(n) => Bears(n)')
         /\ (OnTarget => OnTarget') /\ (InPlace => InPlace')
<1>1. Owned' /\ WantedKept' /\ wanted' \in {"none", "own", before'}
  BY DEF Core, Quietly, SameOwner, Owned, WantedKept, Course
<1>2. \A n \in Name : Undisturbed(n)
  BY DEF Quietly, Undisturbed
<1>3. \A f \in File : Alone(f) => Alone(f)'
  BY DEF Quietly, Alone
<1>4. \A n \in Name : (Safe(n) => Safe(n)') /\ (Bears(n) => Bears(n)')
  BY DEF Quietly, SameOwner, Safe, Bears, Lost, Accepted
<1>5. (OnTarget => OnTarget') /\ (InPlace => InPlace')
  BY DEF Quietly, SameOwner, OnTarget, InPlace, Bears, Lost, Accepted
<1> QED BY <1>1, <1>2, <1>3, <1>4, <1>5

LEMMA QuietFail ==
  ASSUME Core, FilesTyped, Quietly, todo # <<>>, NEW a, FailWith(a), Now.op \notin {"published", "rename"}
  PROVE  Core'
<1>1. \A n \in Name : n \notin Reach(Now) => Undisturbed(n)
  BY QuietDisk
<1>2. SameOwner
  BY DEF Quietly
<1>3. /\ Program' /\ Untouched' /\ Copying' /\ Dropping' /\ HeadOK'
      /\ call' # "none" /\ (call' = "finalize" => way' = "finalize")
      /\ call' = "publish" => Now.op \in {"classify", "verify"}
  BY <1>1, <1>2, FailKeeps
<1>4. call' = "publish" => \A f \in File : Alone(f)'
  <2> SUFFICES ASSUME call' = "publish" PROVE \A f \in File : Alone(f)'
    OBVIOUS
  <2>1. Now.op \in {"classify", "verify"} /\ StepFits(call, Now)
    BY <1>3, NowFacts DEF Core
  <2>2. call = "publish"
    BY <2>1 DEF StepFits, PubOps, Copies
  <2> QED BY <2>2, QuietDisk DEF Core, Course
<1>5. Owned' /\ WantedKept' /\ wanted' \in {"none", "own", before'}
  BY QuietDisk
<1>6. Course'
  BY <1>3, <1>4, <1>5 DEF Course
<1> QED BY <1>3, <1>5, <1>6 DEF Core

LEMMA QuietTail ==
  ASSUME Core, Quietly, todo # <<>>, todo' = Tail(todo), call' = call, HeadOK'
  PROVE  Core'
<1>1. SameOwner
  BY DEF Quietly
<1>2. /\ Program' /\ Untouched' /\ Copying' /\ Dropping'
  BY <1>1, QuietDisk, TailKeeps
<1>3. Owned' /\ WantedKept' /\ wanted' \in {"none", "own", before'}
  BY QuietDisk
<1>4. Course'
  BY <1>1, <1>3, QuietDisk DEF Core, Course, SameOwner
<1> QED BY <1>2, <1>3, <1>4 DEF Core

Readying == {"create", "unchanged", "note", "rename", "ready", "linked", "exact", "refuse", "moved"}

LEMMA TailFree ==
  ASSUME Core, todo # <<>>, todo' = Tail(todo), Now.op \notin Readying
  PROVE  HeadOK'
<1>1. CASE todo' = <<>>
  <2>1. todo' \in Seq(AnyStep)
    BY <1>1, NoPiece DEF Piece
  <2> QED BY <1>1, <2>1, HeadFree
<1>2. CASE todo' # <<>>
  <2>1. Piece(call, todo) /\ Now = todo[1] /\ todo \in Seq(AnyStep) /\ Len(todo) \in Nat
    BY NowFacts DEF Core, Program
  <2>2. todo' \in Seq(AnyStep) /\ todo'[1] = todo[2] /\ 2 \in 1..Len(todo)
    BY <1>2, <2>1
  <2>3. 2 - 1 = 1
    OBVIOUS
  <2>4. Follows(todo[1], todo[2])
    BY <2>1, <2>2, <2>3 DEF Piece, Chained
  <2>5. Now' = todo'[1]
    BY <1>2, <2>2, NextNow
  <2>6. Now'.op \notin {"write", "note", "rename", "classify", "link", "unlink", "tidy"}
    BY <2>1, <2>2, <2>4, <2>5 DEF Follows, Readying
  <2> QED BY <2>6 DEF HeadOK
<1> QED BY <1>1, <1>2

LEMMA QuietOn ==
  ASSUME Core, Quietly, todo # <<>>, todo' = Tail(todo), call' = call, Now.op \notin Readying
  PROVE  Core'
BY TailFree, QuietTail

LEMMA QuietDo ==
  ASSUME Core, Quietly, todo # <<>>, call' = call, call \in Undoing, NEW q, todo' = q \o Tail(todo),
         Piece(call, q), (q # <<>> /\ Tail(todo) # <<>>) => Follows(q[Len(q)], Tail(todo)[1]),
         \A i \in 1..Len(q) : Reach(q[i]) \subseteq Reach(Now), CopyFree(q), DropFree(q) \/ Drops(Now), HeadOK'
  PROVE  Core'
<1>1. /\ Now = todo[1] /\ todo \in Seq(AnyStep) /\ Len(todo) \in Nat /\ 1 \in 1..Len(todo)
  BY NowFacts DEF Core
<1>2. Piece(call, Tail(todo))
  BY PieceTail DEF Core, Program
<1>3. Piece(call, todo')
  <2> DEFINE t == Tail(todo)
  <2>1. Piece(call, t) /\ ((q # <<>> /\ t # <<>>) => Follows(q[Len(q)], t[1]))
    BY <1>2
  <2>2. todo' = q \o t
    OBVIOUS
  <2> HIDE DEF t
  <2> QED BY <2>1, <2>2, PieceJoin
<1>4. \A i \in 1..Len(todo') : (\E j \in 1..Len(q) : todo'[i] = q[j]) \/ (\E j \in 1..Len(todo) : todo'[i] = todo[j])
  <2> DEFINE t == Tail(todo)
  <2>1. q \in Seq(AnyStep) /\ Len(q) \in Nat
    BY DEF Piece
  <2>2. t \in Seq(AnyStep) /\ Len(t) \in Nat /\ Len(t) = Len(todo) - 1
    BY <1>1
  <2>3. \A i \in 1..Len(t) : i + 1 \in 1..Len(todo) /\ t[i] = todo[i + 1]
    BY <1>1
  <2> SUFFICES ASSUME NEW i \in 1..Len(todo')
               PROVE  (\E j \in 1..Len(q) : todo'[i] = q[j]) \/ (\E j \in 1..Len(todo) : todo'[i] = todo[j])
    OBVIOUS
  <2>4. todo' = q \o t
    OBVIOUS
  <2> HIDE DEF t
  <2>5. Len(todo') = Len(q) + Len(t)
    BY <2>1, <2>2, <2>4
  <2>6. CASE i \in 1..Len(q)
    <3>1. todo'[i] = q[i]
      BY <2>1, <2>2, <2>4, <2>6
    <3> QED BY <2>6, <3>1
  <2>7. CASE i \notin 1..Len(q)
    <3>1. \A k \in 1..Len(q \o t) : k \notin 1..Len(q) => k - Len(q) \in 1..Len(t) /\ (q \o t)[k] = t[k - Len(q)]
      BY <2>1, <2>2
    <3>2. i - Len(q) \in 1..Len(t) /\ todo'[i] = t[i - Len(q)]
      BY <2>4, <2>7, <3>1
    <3> QED BY <2>3, <3>2
  <2> QED BY <2>6, <2>7
<1>5. ASSUME NEW n, Apart(todo, n) PROVE Apart(todo', n)
  <2>1. n \notin Reach(Now)
    BY <1>1, <1>5 DEF Apart
  <2> HIDE DEF Reach
  <2> QED BY <1>4, <1>5, <2>1 DEF Apart
<1>6. CopyFree(todo) => CopyFree(todo')
  BY <1>4 DEF CopyFree
<1>7. DropFree(todo) => DropFree(todo')
  <2> SUFFICES ASSUME DropFree(todo) PROVE DropFree(todo')
    OBVIOUS
  <2>1. ~Drops(Now)
    BY <1>1 DEF DropFree
  <2> HIDE DEF Drops
  <2> QED BY <1>4, <2>1 DEF DropFree
<1>8. SameOwner /\ dir' = dir /\ bytes' = bytes
  BY DEF Quietly
<1>9. Copying'
  <2>1. CASE CopyFree(todo)
    BY <1>6, <2>1 DEF Copying
  <2>2. CASE ~CopyFree(todo)
    <3>1. Apart(todo, Backup) /\ dir[Backup] # NoFile /\ bytes[dir[Backup]] = "before"
      BY <2>2 DEF Core, Copying
    <3> QED BY <1>5, <1>8, <3>1 DEF Copying, Apart
  <2> QED BY <2>1, <2>2
<1>10. Dropping'
  <2>1. CASE DropFree(todo)
    BY <1>7, <2>1 DEF Dropping
  <2>2. CASE ~DropFree(todo)
    <3>1. Apart(todo, Target) /\ InPlace
      BY <2>2 DEF Core, Dropping
    <3> QED BY <1>5, <3>1, QuietDisk DEF Dropping, Apart
  <2> QED BY <2>1, <2>2
<1>11. Untouched'
  <2>1. call' \notin {"none", "publish"}
    BY DEF Undoing
  <2>2. ASSUME call = "withdraw" PROVE OnTarget' /\ Apart(todo', Target)
    <3>1. OnTarget /\ Apart(todo, Target)
      BY <2>2 DEF Core, Untouched
    <3> QED BY <1>5, <3>1, QuietDisk
  <2> QED BY <2>1, <2>2 DEF Untouched, Apart
<1>12. Owned' /\ WantedKept' /\ wanted' \in {"none", "own", before'}
  BY QuietDisk
<1>13. Course'
  BY <1>8, <1>12 DEF Core, Course, SameOwner, Undoing
<1> QED BY <1>3, <1>9, <1>10, <1>11, <1>12, <1>13 DEF Core, Program

LEMMA OneLong ==
  ASSUME NEW S, NEW q \in Seq(S), Len(q) = 1 PROVE Tail(q) = <<>>
<1>1. Tail(q) \in Seq(S) /\ Len(Tail(q)) = Len(q) - 1
  OBVIOUS
<1>2. Len(Tail(q)) = 0
  BY <1>1
<1>3. \A r \in Seq(S) : Len(r) = 0 => r = <<>>
  OBVIOUS
<1> QED BY <1>1, <1>2, <1>3

LEMMA Second ==
  ASSUME NEW S, NEW q \in Seq(S), q # <<>>, Len(q) # 1 PROVE 2 \in 1..Len(q)
<1>1. ASSUME NEW n \in Nat, n >= 1, n # 1 PROVE 2 \in 1..n
  BY <1>1
<1>2. Len(q) \in Nat /\ Len(q) >= 1
  OBVIOUS
<1> QED BY <1>1, <1>2

LEMMA LastStep ==
  ASSUME Core, Now.op \in {"assess", "restart"} PROVE todo # <<>> /\ Tail(todo) = <<>>
<1>1. todo # <<>>
  BY Busy
<1>2. Piece(call, todo) /\ Now = todo[1] /\ todo \in Seq(AnyStep)
  BY <1>1, NowFacts DEF Core, Program
<1>3. Len(todo) = 1
  <2> SUFFICES ASSUME Len(todo) # 1 PROVE FALSE
    OBVIOUS
  <2>1. 2 \in 1..Len(todo)
    BY <1>1, <1>2, Second
  <2>2. 2 > 1 /\ 2 - 1 = 1
    OBVIOUS
  <2>3. Follows(todo[1], todo[2])
    BY <1>2, <2>1, <2>2 DEF Piece, Chained
  <2> QED BY <1>2, <2>3 DEF Follows
<1>4. Tail(todo) = <<>>
  BY <1>2, <1>3, OneLong
<1> QED BY <1>1, <1>4

-----------------------------------------------------------------------------
(* The steps that only look.                                               *)

LEMMA EmptyJoin ==
  ASSUME NEW S, NEW q \in Seq(S), q # <<>> PROVE <<>> \o Tail(q) = Tail(q)
<1>1. Tail(q) \in Seq(S)
  OBVIOUS
<1>2. \A r \in Seq(S) : <<>> \o r = r
  OBVIOUS
<1> QED BY <1>1, <1>2

LEMMA NextHead ==
  ASSUME Core, Quietly, todo # <<>>, todo' = Tail(todo), call' = call,
         todo' # <<>> => (Follows(Now, Now') /\ StepFits(call, Now') => HeadOK')
  PROVE  Core'
<1>1. todo' # <<>> => Follows(Now, Now') /\ StepFits(call, Now')
  BY QuietDisk, TailKeeps DEF Quietly
<1>2. CASE todo' = <<>>
  <2>1. todo' \in Seq(AnyStep)
    BY <1>2, NoPiece DEF Piece
  <2>2. HeadOK'
    BY <1>2, <2>1, HeadFree
  <2> QED BY <2>2, QuietTail
<1>3. CASE todo' # <<>>
  <2>1. HeadOK'
    BY <1>1, <1>3
  <2> QED BY <2>1, QuietTail
<1> QED BY <1>2, <1>3

LEMMA CheckCases ==
  ASSUME Core, FilesTyped, NEW STATE op, NEW STATE good, NEW STATE more, Check(op, good, more),
         op \notin {"idle", "published", "rename"}
  PROVE  /\ todo # <<>> /\ Now.op = op
         /\ Core' \/ (good /\ Quietly /\ call' = call /\ todo' = more \o Tail(todo))
<1>1. Now.op = op /\ dir' = dir /\ bytes' = bytes /\ before' = before /\ wanted' = wanted /\ exposed' = exposed
  BY DEF Check, Doing, disk, known, owner
<1>2. todo # <<>>
  BY <1>1, Busy
<1>3. CASE Fail
  <2>1. FailWith("failed") /\ way' = way
    BY <1>3 DEF Fail, FailWith
  <2>2. Quietly
    BY <1>1, <2>1 DEF Quietly, SameOwner
  <2>3. Now.op \notin {"published", "rename"}
    BY <1>1
  <2>4. Core'
    BY <1>2, <2>1, <2>2, <2>3, QuietFail
  <2> QED BY <1>1, <1>2, <2>4
<1>4. CASE good /\ Do(more)
  <2>1. todo' = more \o Tail(todo) /\ call' = call /\ way' = way
    BY <1>4 DEF Do, stage
  <2>2. Quietly
    BY <1>1, <2>1 DEF Quietly, SameOwner
  <2> QED BY <1>1, <1>2, <1>4, <2>1, <2>2
<1> QED BY <1>3, <1>4 DEF Check

LEMMA CheckOn ==
  ASSUME Core, FilesTyped, NEW STATE op, NEW STATE good, Check(op, good, <<>>),
         op \notin {"idle", "published", "rename"}
  PROVE  /\ todo # <<>> /\ Now.op = op
         /\ Core' \/ (good /\ Quietly /\ call' = call /\ todo' = Tail(todo))
<1>1. /\ todo # <<>> /\ Now.op = op
      /\ Core' \/ (good /\ Quietly /\ call' = call /\ todo' = <<>> \o Tail(todo))
  BY CheckCases
<1>2. <<>> \o Tail(todo) = Tail(todo)
  BY <1>1, NowFacts, EmptyJoin DEF Core
<1> QED BY <1>1, <1>2

LEMMA ObserveKept == ASSUME Core, FilesTyped, Observe PROVE Core'
<1>1. Now.op = "observe" /\ dir' = dir /\ bytes' = bytes /\ before' = before /\ wanted' = wanted /\ exposed' = exposed
  BY DEF Observe, Doing, disk, owner
<1>2. todo # <<>>
  BY <1>1, Busy
<1>3. CASE Proceed
  <2>1. Quietly /\ todo' = Tail(todo) /\ call' = call
    BY <1>1, <1>3 DEF Proceed, stage, Quietly, SameOwner
  <2> QED BY <1>1, <1>2, <2>1, QuietOn DEF Readying
<1>4. CASE Fail
  <2>1. FailWith("failed") /\ way' = way
    BY <1>4 DEF Fail, FailWith
  <2>2. Quietly
    BY <1>1, <2>1 DEF Quietly, SameOwner
  <2>3. Now.op \notin {"published", "rename"}
    BY <1>1
  <2> QED BY <1>2, <2>1, <2>2, <2>3, QuietFail
<1> QED BY <1>3, <1>4 DEF Observe

LEMMA SafeTarget ==
  ASSUME Core, FilesTyped, AsBefore, before = "before" => (dir[Backup] # NoFile /\ bytes[dir[Backup]] = "before")
  PROVE  Safe(Target)
<1>1. CASE Bears(Target)
  <2>1. dir[Target] # NoFile
    BY <1>1 DEF Bears
  <2>2. before # "none" /\ bytes[dir[Target]] = before
    BY <2>1 DEF AsBefore, Holds
  <2>3. wanted = before
    BY <1>1, <2>2 DEF Bears
  <2>4. CASE before = "before"
    <3>1. Bears(Backup)
      BY <2>3, <2>4 DEF Bears
    <3> QED BY <3>1, NameFacts DEF Safe
  <2> QED BY <2>2, <2>4 DEF FilesTyped
<1>2. CASE ~Bears(Target)
  BY <1>2 DEF Core, WantedKept, Safe, Lost, Accepted, Bears
<1> QED BY <1>1, <1>2

LEMMA UnchangedKept == ASSUME Core, FilesTyped, Unchanged PROVE Core'
<1> DEFINE good == /\ AsBefore /\ dir[Target] = seen
                   /\ before = "before" => Exact(Backup, made.backup, "before")
<1>1. Check("unchanged", good, <<>>)
  BY DEF Unchanged
<1>2. /\ todo # <<>> /\ Now.op = "unchanged"
      /\ Core' \/ (good /\ Quietly /\ call' = call /\ todo' = Tail(todo))
  <2> HIDE DEF good
  <2> QED BY <1>1, CheckOn
<1>3. CASE good /\ Quietly /\ call' = call /\ todo' = Tail(todo)
  <2>1. Safe(Target)
    BY <1>3, SafeTarget DEF Exact, Holds
  <2>2. Safe(Target)'
    BY <1>3, <2>1, NameFacts, QuietDisk
  <2>3. (Follows(Now, Now') /\ StepFits(call, Now')) => HeadOK'
    BY <1>2, <2>2 DEF Follows, HeadOK
  <2> QED BY <1>2, <1>3, <2>3, NextHead
<1> QED BY <1>2, <1>3

LEMMA NoteKept == ASSUME Core, FilesTyped, NoteArtifact PROVE Core'
<1>1. Now.op = "note" /\ dir' = dir /\ bytes' = bytes /\ before' = before /\ wanted' = wanted /\ exposed' = exposed
  BY DEF NoteArtifact, Doing, disk, known, owner
<1>2. todo # <<>>
  BY <1>1, Busy
<1>3. CASE Fail
  <2>1. FailWith("failed") /\ way' = way
    BY <1>3 DEF Fail, FailWith
  <2>2. Quietly
    BY <1>1, <2>1 DEF Quietly, SameOwner
  <2>3. Now.op \notin {"published", "rename"}
    BY <1>1
  <2> QED BY <1>2, <2>1, <2>2, <2>3, QuietFail
<1>4. CASE todo' = Tail(todo) /\ UNCHANGED <<answer, call, handle, way>>
  <2>1. Quietly
    BY <1>1, <1>4 DEF Quietly, SameOwner
  <2>2. Safe(Target)'
    BY <1>1, <2>1, NameFacts, QuietDisk DEF Core, HeadOK
  <2>3. (Follows(Now, Now') /\ StepFits(call, Now')) => HeadOK'
    BY <1>1, <2>2 DEF Follows, HeadOK
  <2> QED BY <1>2, <1>4, <2>1, <2>3, NextHead
<1> QED BY <1>3, <1>4 DEF NoteArtifact

LEMMA PlainChecks ==
  ASSUME Core, FilesTyped, VerifyTarget \/ Gone \/ Single \/ Confirm PROVE Core'
<1>1. ASSUME NEW STATE op, NEW STATE good, Check(op, good, <<>>), op \in {"verify", "gone", "single", "confirm"}
      PROVE  Core'
  <2>1. /\ todo # <<>> /\ Now.op = op
        /\ Core' \/ (good /\ Quietly /\ call' = call /\ todo' = Tail(todo))
    BY <1>1, CheckOn
  <2> QED BY <1>1, <2>1, QuietOn DEF Readying
<1> QED BY <1>1 DEF VerifyTarget, Gone, Single, Confirm

LEMMA RefuseKept == ASSUME Core, FilesTyped, Refuse PROVE Core'
<1>1. Check("refuse", FALSE, <<>>)
  BY DEF Refuse
<1> DEFINE good == FALSE
<1>2. Check("refuse", good, <<>>)
  BY <1>1
<1> HIDE DEF good
<1>3. Core' \/ (good /\ Quietly /\ call' = call /\ todo' = Tail(todo))
  BY <1>2, CheckOn
<1> QED BY <1>3 DEF good

LEMMA HoldsAlone ==
  ASSUME NEW n \in Name, NEW b, Holds(n, b)
  PROVE  dir[n] # NoFile /\ bytes[dir[n]] = b /\ Alone(dir[n])
<1>1. dir[n] # NoFile /\ bytes[dir[n]] = b /\ Links(dir[n]) = 1
  BY DEF Holds, Readable
<1> QED BY <1>1, OneLink

LEMMA NowNames == ASSUME Core, todo # <<>> PROVE Now.at \in Name /\ Now.to \in Name /\ Now.file \in File \cup {NoFile}
BY NowFacts DEF Core, AnyStep

LEMMA ReadyKept == ASSUME Core, FilesTyped, Ready PROVE Core'
<1> DEFINE good == Exact(Now.at, Now.file, Now.bytes) /\ dir[Now.to] = NoFile
<1>1. Check("ready", good, <<>>)
  BY DEF Ready
<1>2. /\ todo # <<>> /\ Now.op = "ready"
      /\ Core' \/ (good /\ Quietly /\ call' = call /\ todo' = Tail(todo))
  <2> HIDE DEF good
  <2> QED BY <1>1, CheckOn
<1>3. CASE good /\ Quietly /\ call' = call /\ todo' = Tail(todo)
  <2>1. Now.at \in Name
    BY <1>2, NowNames
  <2>2. dir[Now.at] # NoFile /\ bytes[dir[Now.at]] = Now.bytes /\ Alone(dir[Now.at])
    BY <1>3, <2>1, HoldsAlone DEF Exact
  <2>3. dir'[Now.at] # NoFile /\ bytes'[dir'[Now.at]] = Now.bytes /\ \A m, n \in Name : dir'[m] = dir'[Now.at] /\ dir'[n] = dir'[Now.at] => m = n
    BY <1>3, <2>2 DEF Quietly, Alone
  <2>4. ASSUME Follows(Now, Now') PROVE HeadOK'
    <3>1. CASE Now'.op = "link"
      <4>1. Now'.at = Now.at /\ Now'.bytes = Now.bytes
        BY <2>4, <3>1 DEF Follows, Same, Alike
      <4> QED BY <2>3, <3>1, <4>1 DEF HeadOK, Alone
    <3>2. CASE Now'.op # "link"
      BY <1>2, <2>4, <3>2 DEF Follows, HeadOK
    <3> QED BY <3>1, <3>2
  <2> QED BY <1>2, <1>3, <2>4, NextHead
<1> QED BY <1>2, <1>3

(* The name a removal leaves, or an exact file nobody counts on.           *)
LEMMA SafeLinked ==
  ASSUME Core, NEW n \in Name, NEW m \in Name, n # m, dir[n] = dir[m]
  PROVE  Safe(n)
BY DEF Core, WantedKept, Safe, Bears, Lost, Accepted

LEMMA LinkedKept == ASSUME Core, FilesTyped, Linked PROVE Core'
<1> DEFINE good == dir[Now.at] = Now.file /\ dir[Now.to] = Now.file
<1>1. Check("linked", good, <<>>)
  BY DEF Linked
<1>2. /\ todo # <<>> /\ Now.op = "linked"
      /\ Core' \/ (good /\ Quietly /\ call' = call /\ todo' = Tail(todo))
  <2> HIDE DEF good
  <2> QED BY <1>1, CheckOn
<1>3. CASE good /\ Quietly /\ call' = call /\ todo' = Tail(todo)
  <2>1. Now.at \in Name /\ Now.to \in Name /\ Now.at # Now.to
    BY <1>2, NowNames, NowFacts DEF Core, StepFits, Paired
  <2>2. Safe(Now.at)
    BY <1>3, <2>1, SafeLinked
  <2>3. PICK n \in Name : n = Now.at
    BY <2>1
  <2>4. Safe(n)'
    BY <1>3, <2>2, <2>3, QuietDisk
  <2>5. ASSUME Follows(Now, Now') PROVE HeadOK'
    <3>1. CASE Now'.op = "unlink"
      <4>1. Now'.at = n
        BY <2>3, <2>5, <3>1 DEF Follows, Same, Alike
      <4> QED BY <2>4, <3>1, <4>1 DEF HeadOK, Safe
    <3>2. CASE Now'.op # "unlink"
      BY <1>2, <2>5, <3>2 DEF Follows, HeadOK
    <3> QED BY <3>1, <3>2
  <2> QED BY <1>2, <1>3, <2>5, NextHead
<1> QED BY <1>2, <1>3

LEMMA ExactKept == ASSUME Core, FilesTyped, ExactStep PROVE Core'
<1> DEFINE good == Exact(Now.at, Now.file, Now.bytes)
<1>1. Check("exact", good, <<>>)
  BY DEF ExactStep
<1>2. /\ todo # <<>> /\ Now.op = "exact"
      /\ Core' \/ (good /\ Quietly /\ call' = call /\ todo' = Tail(todo))
  <2> HIDE DEF good
  <2> QED BY <1>1, CheckOn
<1>3. CASE good /\ Quietly /\ call' = call /\ todo' = Tail(todo)
  <2>1. Now = todo[1] /\ 1 \in 1..Len(todo) /\ StepFits(call, Now) /\ Now.at \in Name
    BY <1>2, NowFacts, NowNames DEF Core
  <2>2. Now.at = Now.to /\ Now.at # Target /\ Now.bytes \in {"before", "after"}
    BY <1>2, <2>1 DEF StepFits, Plains
  <2>3. dir[Now.at] # NoFile /\ bytes[dir[Now.at]] = Now.bytes
    BY <1>3, <2>1, HoldsAlone DEF Exact
  <2>4. PICK n \in Name : n = Now.at
    BY <2>1
  <2>5. Safe(n)
    <3>1. CASE ~Bears(n)
      BY <3>1 DEF Core, WantedKept, Safe, Bears, Lost, Accepted
    <3>2. CASE Bears(n) /\ ~Lost
      <4>1. wanted = Now.bytes /\ wanted = "before"
        <5>1. wanted = Now.bytes
          BY <2>3, <2>4, <3>2 DEF Bears
        <5>2. wanted \in {"none", "own", before}
          BY DEF Core, Course
        <5> QED BY <2>2, <5>1, <5>2 DEF FilesTyped
      <4>2. Drops(Now)
        BY <1>2, <2>2, <4>1 DEF Drops
      <4>3. InPlace
        BY <2>1, <4>2 DEF Core, Dropping, DropFree
      <4>4. Accepted \/ Bears(Target)
        BY <3>2, <4>1, <4>3 DEF InPlace, OnTarget
      <4> QED BY <2>2, <2>4, <4>4, NameFacts DEF Safe
    <3>3. CASE Lost
      BY <3>3 DEF Safe
    <3> QED BY <3>1, <3>2, <3>3
  <2>6. Safe(n)'
    BY <1>3, <2>5, QuietDisk
  <2>7. ASSUME Follows(Now, Now') PROVE HeadOK'
    <3>1. CASE Now'.op = "unlink"
      <4>1. Now'.at = n
        BY <2>4, <2>7, <3>1 DEF Follows, Same, Alike
      <4> QED BY <2>6, <3>1, <4>1 DEF HeadOK, Safe
    <3>2. CASE Now'.op # "unlink"
      BY <1>2, <2>7, <3>2 DEF Follows, HeadOK
    <3> QED BY <3>1, <3>2
  <2> QED BY <1>2, <1>3, <2>7, NextHead
<1> QED BY <1>2, <1>3


LEMMA AtUndoing ==
  ASSUME Core, FilesTyped, todo # <<>>, Now.op \notin PubOps PROVE call \in Undoing
BY NowFacts DEF Core, Course, FilesTyped, StepFits, Undoing

(* A second name goes; then what is to be checked.                         *)
LEMMA SecondName ==
  ASSUME NEW c \in Undoing, NEW n \in Name, NEW m \in Name, n # m, NEW f \in File \cup {NoFile},
         NEW b \in {"before", "after"}, NEW z, z \in {Step("single", n, m, f, b), Plain("refuse")}
  PROVE  LET q == <<Step("unlink", n, m, f, b), z>> IN
         /\ Piece(c, q) /\ CopyFree(q) /\ DropFree(q) /\ \A i \in 1..Len(q) : Reach(q[i]) \subseteq {n, m}
         /\ q # <<>> /\ q[1].op = "unlink" /\ q[1].at = n /\ q[Len(q)].op \in {"single", "refuse"}
<1> DEFINE u == Step("unlink", n, m, f, b)
           q == <<u, z>>
<1>1. /\ u \in AnyStep /\ u.op = "unlink" /\ u.at = n /\ u.to = m /\ u.bytes = b
  <2>1. "unlink" \in FileOps
    BY DEF FileOps
  <2> QED BY <2>1, StepAny
<1>2. /\ z \in AnyStep /\ ((z.op = "single" /\ z.at = n /\ z.to = m /\ z.bytes = b) \/ z.op = "refuse")
  <2>1. "single" \in FileOps /\ "refuse" \in FileOps
    BY DEF FileOps, Paired, Plains
  <2> QED BY <2>1, StepAny, PlainAny
<1>3. StepFits(c, u) /\ StepFits(c, z)
  BY <1>1, <1>2 DEF StepFits, Plains, Paired, Copies, Undoing, PubOps, Early
<1>4. Reach(u) \subseteq {n, m} /\ Reach(z) \subseteq {n, m} /\ ~Drops(u) /\ ~Drops(z) /\ ~Copies(u) /\ ~Copies(z)
  BY <1>1, <1>2 DEF Reach, Plains, Drops, Copies
<1>5. Follows(u, z)
  BY <1>1, <1>2 DEF Follows, Early, PubOps
<1>6. q \in Seq(AnyStep) /\ Len(q) = 2 /\ q[1] = u /\ q[2] = z
  <2> HIDE DEF u
  <2> QED BY <1>1, <1>2
<1> HIDE DEF u, q
<1>7. \A i \in 1..2 : i = 1 \/ i = 2
  OBVIOUS
<1>8. Piece(c, q)
  BY <1>3, <1>5, <1>6, <1>7 DEF Piece, Fitting, Chained
<1>9. /\ CopyFree(q) /\ DropFree(q) /\ \A i \in 1..Len(q) : Reach(q[i]) \subseteq {n, m}
  BY <1>4, <1>6, <1>7 DEF CopyFree, DropFree
<1>10. q # <<>>
  <2>1. Len(q) # 0
    BY <1>6
  <2> QED BY <2>1
<1> QED BY <1>1, <1>2, <1>6, <1>8, <1>9, <1>10 DEF q, u

LEMMA AfterNow ==
  ASSUME Core, todo # <<>>, Tail(todo) # <<>>
  PROVE  Follows(Now, Tail(todo)[1])
<1>1. Piece(call, todo) /\ Now = todo[1] /\ todo \in Seq(AnyStep)
  BY NowFacts DEF Core, Program
<1>2. Len(todo) # 1
  BY <1>1, OneLong
<1>3. 2 \in 1..Len(todo)
  BY <1>1, <1>2, Second
<1>4. Tail(todo)[1] = todo[2]
  BY <1>1, <1>3
<1>5. 2 > 1 /\ 2 - 1 = 1
  OBVIOUS
<1>6. Follows(todo[1], todo[2])
  BY <1>1, <1>3, <1>5 DEF Piece, Chained
<1> QED BY <1>1, <1>4, <1>6

LEMMA SecondGoes ==
  ASSUME Core, FilesTyped, todo # <<>>, Quietly, call' = call, Now.op \in {"moved", "collapse"},
         NEW n \in Name, NEW m \in Name, n # m, {n, m} = {Now.at, Now.to}, dir[n] = dir[m],
         NEW f \in File \cup {NoFile}, NEW z,
         z = Plain("refuse") \/ (Now.op = "collapse" /\ z = Step("single", n, m, f, Now.bytes)),
         todo' = <<Step("unlink", n, m, f, Now.bytes), z>> \o Tail(todo)
  PROVE  Core'
<1> DEFINE b == Now.bytes
           q == <<Step("unlink", n, m, f, b), z>>
<1>1. call \in Undoing
  BY AtUndoing DEF PubOps, Early
<1>2. Now.bytes \in {"before", "after"} /\ Reach(Now) = {n, m}
  BY NowFacts DEF Core, StepFits, Plains, Reach
<1>3. /\ Piece(call, q) /\ CopyFree(q) /\ DropFree(q) /\ \A i \in 1..Len(q) : Reach(q[i]) \subseteq {n, m}
      /\ q # <<>> /\ q[1].op = "unlink" /\ q[1].at = n /\ q[Len(q)].op \in {"single", "refuse"}
  <2>1. z \in {Step("single", n, m, f, b), Plain("refuse")}
    OBVIOUS
  <2>2. n \in Name /\ m \in Name /\ n # m /\ f \in File \cup {NoFile} /\ b \in {"before", "after"}
    BY <1>2
  <2> HIDE DEF b
  <2>3. /\ Piece(call, q) /\ CopyFree(q) /\ DropFree(q) /\ \A i \in 1..Len(q) : Reach(q[i]) \subseteq {n, m}
        /\ q # <<>> /\ q[1].op = "unlink" /\ q[1].at = n /\ q[Len(q)].op \in {"single", "refuse"}
    BY ONLY <1>1, <2>1, <2>2, SecondName
  <2> QED BY <1>2, <2>3
<1>4. todo' = q \o Tail(todo)
  OBVIOUS
<1>5. Tail(todo) # <<>> => Follows(Now, Tail(todo)[1])
  BY AfterNow
<1>6. z.op = "refuse" \/ (Now.op = "collapse" /\ z.op = "single")
  BY DEF Step, Plain
<1>7. q[Len(q)] = z
  OBVIOUS
<1> HIDE DEF q
<1>8. Tail(todo) # <<>> => Follows(q[Len(q)], Tail(todo)[1])
  BY <1>5, <1>6, <1>7 DEF Follows, PubOps, Early
<1>9. HeadOK'
  <2>1. Piece(call, Tail(todo)) /\ q \in Seq(AnyStep) /\ Len(q) \in Nat
    BY <1>3, PieceTail DEF Core, Program, Piece
  <2>2. Tail(todo) \in Seq(AnyStep)
    BY <2>1 DEF Piece
  <2>3. todo' \in Seq(AnyStep) /\ todo' # <<>> /\ todo'[1] = q[1]
    BY <1>3, <1>4, <2>1, <2>2
  <2>4. Now' = q[1]
    BY <2>3, NextNow
  <2>5. Safe(n)
    BY SafeLinked
  <2>6. Safe(n)'
    BY <2>5, QuietDisk
  <2> QED BY <1>3, <2>4, <2>6 DEF HeadOK, Safe
<1> QED BY <1>1, <1>2, <1>3, <1>4, <1>8, <1>9, QuietDo

LEMMA MovedKept == ASSUME Core, FilesTyped, Moved PROVE Core'
<1> DEFINE both == dir[Now.at] = Now.file /\ dir[Now.to] = Now.file
           good == dir[Now.at] = NoFile /\ Exact(Now.to, Now.file, Now.bytes)
<1>1. CASE Check("moved", good, <<>>)
  <2>1. /\ todo # <<>> /\ Now.op = "moved"
        /\ Core' \/ (good /\ Quietly /\ call' = call /\ todo' = Tail(todo))
    <3> HIDE DEF good
    <3> QED BY <1>1, CheckOn
  <2>2. CASE good /\ Quietly /\ call' = call /\ todo' = Tail(todo)
    <3>1. ASSUME Follows(Now, Now') PROVE HeadOK'
      <4>1. CASE Now'.op = "tidy"
        <5>1. Now.to = Target /\ Now.bytes = "before"
          BY <2>1, <3>1, <4>1 DEF Follows
        <5>2. dir[Target] # NoFile /\ bytes[dir[Target]] = "before"
          BY <2>2, <5>1 DEF Exact, Holds
        <5>3. InPlace
          BY <5>2 DEF InPlace, OnTarget, Bears
        <5>4. InPlace'
          BY <2>2, <5>3, QuietDisk
        <5> QED BY <4>1, <5>4 DEF HeadOK
      <4>2. CASE Now'.op # "tidy"
        BY <2>1, <3>1, <4>2 DEF Follows, HeadOK
      <4> QED BY <4>1, <4>2
    <3> QED BY <2>1, <2>2, <3>1, NextHead
  <2> QED BY <2>1, <2>2
<1>2. CASE both /\ Doing("moved") /\ NoFault
           /\ Do(<<Step("unlink", Now.to, Now.at, Now.file, Now.bytes), Plain("refuse")>>)
           /\ UNCHANGED <<disk, known, owner>>
  <2>1. Now.op = "moved" /\ todo # <<>>
    BY <1>2, Busy DEF Doing
  <2>2. Now.at \in Name /\ Now.to \in Name /\ Now.at # Now.to /\ Now.file \in File \cup {NoFile}
    BY <2>1, NowNames, NowFacts DEF Core, StepFits, Paired
  <2>3. Quietly /\ call' = call /\ todo' = <<Step("unlink", Now.to, Now.at, Now.file, Now.bytes), Plain("refuse")>> \o Tail(todo)
    BY <1>2 DEF Do, disk, owner, known, stage, Quietly, SameOwner
  <2>4. dir[Now.to] = dir[Now.at] /\ {Now.to, Now.at} = {Now.at, Now.to}
    BY <1>2
  <2> DEFINE n == Now.to
             m == Now.at
             f == Now.file
             z == Plain("refuse")
  <2>5. todo' = <<Step("unlink", n, m, f, Now.bytes), z>> \o Tail(todo) /\ Quietly /\ call' = call
    BY <2>3
  <2>6. /\ n \in Name /\ m \in Name /\ n # m /\ {n, m} = {Now.at, Now.to} /\ dir[n] = dir[m]
        /\ f \in File \cup {NoFile} /\ z = Plain("refuse") /\ Now.op \in {"moved", "collapse"}
    BY <2>1, <2>2, <2>4
  <2> HIDE DEF n, m, f, z
  <2> QED BY <2>1, <2>5, <2>6, SecondGoes
<1> QED BY <1>1, <1>2 DEF Moved

LEMMA CollapseKept == ASSUME Core, FilesTyped, Collapse PROVE Core'
<1> DEFINE g == dir[Now.at]
           pair == /\ g # NoFile /\ dir[Now.to] = g /\ Links(g) = 2
                   /\ bytes[g] = Now.bytes /\ Now.file \in {NoFile, g}
           steps == <<Step("unlink", Now.to, Now.at, g, Now.bytes), Step("single", Now.to, Now.at, g, Now.bytes)>>
           good == TRUE
           more == When(pair, steps)
<1>1. Check("collapse", good, more)
  BY DEF Collapse
<1>2. /\ todo # <<>> /\ Now.op = "collapse"
      /\ Core' \/ (good /\ Quietly /\ call' = call /\ todo' = more \o Tail(todo))
  <2> HIDE DEF good, more
  <2> QED BY <1>1, CheckCases
<1>3. CASE Quietly /\ call' = call /\ todo' = more \o Tail(todo)
  <2>1. CASE ~pair
    <3>1. more = <<>>
      BY <2>1 DEF When
    <3>2. <<>> \o Tail(todo) = Tail(todo)
      BY <1>2, NowFacts, EmptyJoin DEF Core
    <3>3. todo' = Tail(todo)
      BY <1>3, <3>1, <3>2
    <3> QED BY <1>2, <1>3, <3>3, QuietOn DEF Readying
  <2>2. CASE pair
    <3>1. Now.at \in Name /\ Now.to \in Name /\ Now.at # Now.to
      BY <1>2, NowNames, NowFacts DEF Core, StepFits, Paired
    <3>2. g \in File \cup {NoFile}
      BY <3>1 DEF FilesTyped
    <3>3. more = steps
      BY <2>2 DEF When
    <3> DEFINE n == Now.to
               m == Now.at
               f == g
               z == Step("single", n, m, f, Now.bytes)
    <3>4. todo' = <<Step("unlink", n, m, f, Now.bytes), z>> \o Tail(todo) /\ Quietly /\ call' = call
      BY <1>3, <3>3
    <3>5. /\ n \in Name /\ m \in Name /\ n # m /\ {n, m} = {Now.at, Now.to} /\ dir[n] = dir[m]
          /\ f \in File \cup {NoFile} /\ Now.op \in {"moved", "collapse"}
          /\ Now.op = "collapse" /\ z = Step("single", n, m, f, Now.bytes)
      BY <1>2, <2>2, <3>1, <3>2
    <3> HIDE DEF n, m, f, z
    <3> QED BY <1>2, <3>4, <3>5, SecondGoes
  <2> QED BY <2>1, <2>2
<1> QED BY <1>2, <1>3

LEMMA RemoveKept == ASSUME Core, FilesTyped, RemoveExact PROVE Core'
<1> DEFINE n == Now.at
           m == Now.to
           f == Now.file
           b == Now.bytes
           good == /\ Readable(n) /\ Readable(m)
                   /\ dir[n] = NoFile \/ dir[m] = NoFile
                   /\ dir[n] # NoFile => Exact(n, f, b)
           p == When(dir[n] # NoFile, Move(n, m, f, b))
           r == When(dir[n] # NoFile \/ dir[m] # NoFile, Erase(m, f, b))
           more == p \o r
           K == IF b = "before" THEN {"drops"} ELSE {}
<1>1. Check("remove", good, more)
  BY DEF RemoveExact
<1>2. /\ todo # <<>> /\ Now.op = "remove"
      /\ Core' \/ (good /\ Quietly /\ call' = call /\ todo' = more \o Tail(todo))
  <2> HIDE DEF good, more
  <2> QED BY <1>1, CheckCases
<1>3. CASE Quietly /\ call' = call /\ todo' = more \o Tail(todo)
  <2>1. /\ n \in Name /\ m \in Name /\ n # m /\ f \in File \cup {NoFile} /\ b \in {"before", "after"}
        /\ n # Target /\ m # Target
    BY <1>2, NowNames, NowFacts DEF Core, StepFits, Paired, Plains
  <2>2. call \in Undoing
    BY <1>2, AtUndoing DEF PubOps, Early
  <2>3. Reach(Now) = {n, m} /\ (b = "before" => Drops(Now))
    BY <1>2 DEF Reach, Plains, Drops
  <2>4. \/ b = "before" /\ K = {"drops"}
        \/ b = "after" /\ K = {}
    BY <2>1
  <2> HIDE DEF n, m, f, b, K
  <2>5. Part(call, p, {n, m}, K)
    <3>1. Part(call, Move(n, m, f, b), {n, m}, K)
      BY <2>1, <2>2, MovePart
    <3> QED BY <3>1, WhenPart
  <2>6. Part(call, r, {n, m}, K)
    <3>1. Part(call, Erase(m, f, b), {m}, K)
      BY <2>1, <2>2, <2>4, ErasePart
    <3>2. {m} \subseteq {n, m}
      OBVIOUS
    <3>3. Part(call, Erase(m, f, b), {n, m}, K)
      BY <3>1, <3>2, PartMore
    <3> QED BY <3>3, WhenPart
  <2> HIDE DEF p, r
  <2>7. Part(call, more, {n, m}, K)
    BY <2>5, <2>6, PartJoin DEF Part
  <2> HIDE DEF more
  <2>8. /\ Piece(call, more) /\ Opens(more) /\ Shuts(more) /\ CopyFree(more) /\ (DropFree(more) \/ Drops(Now))
        /\ \A i \in 1..Len(more) : Reach(more[i]) \subseteq Reach(Now)
    BY <2>3, <2>4, <2>7 DEF Part, Whole
  <2>9. ASSUME Tail(todo) # <<>> PROVE Tail(todo)[1].op \notin Bound
    <3>1. Follows(Now, Tail(todo)[1])
      BY <1>2, <2>9, AfterNow
    <3> QED BY <1>2, <3>1 DEF Follows, Bound
  <2>10. (more # <<>> /\ Tail(todo) # <<>>) => Follows(more[Len(more)], Tail(todo)[1])
    BY <2>8, <2>9, Meet DEF Opens
  <2>11. HeadOK'
    <3> DEFINE t == Tail(todo)
    <3>1. Piece(call, t)
      BY <1>2, PieceTail DEF Core, Program
    <3>2. t # <<>> => t[1].op \notin Bound
      BY <2>9
    <3>3. todo' = more \o t
      BY <1>3
    <3> HIDE DEF t
    <3>4. more \in Seq(AnyStep) /\ t \in Seq(AnyStep)
      BY <2>8, <3>1 DEF Piece
    <3>5. todo' \in Seq(AnyStep)
      BY <3>3, <3>4
    <3>6. CASE more = <<>>
      <4>1. todo' = t
        BY <3>3, <3>4, <3>6
      <4> QED BY <3>2, <3>5, <4>1, HeadFree
    <3>7. CASE more # <<>>
      <4>1. todo'[1] = more[1]
        BY <3>3, <3>4, <3>7
      <4> QED BY <2>8, <3>5, <3>7, <4>1, HeadFree DEF Opens
    <3> QED BY <3>6, <3>7
  <2> QED BY <1>2, <1>3, <2>2, <2>8, <2>10, <2>11, QuietDo
<1> QED BY <1>2, <1>3

LEMMA FreshRun ==
  ASSUME Core, Quietly, todo # <<>>, call' = call, call \in Undoing, Piece(call, todo'), Opens(todo'),
         CopyFree(todo') \/ (Apart(todo', Backup) /\ dir[Backup] # NoFile /\ bytes[dir[Backup]] = "before"),
         DropFree(todo') \/ (Apart(todo', Target) /\ InPlace), call # "withdraw"
  PROVE  Core'
<1>1. Program' /\ todo' \in Seq(AnyStep)
  BY DEF Program, Piece
<1>2. HeadOK'
  BY <1>1, HeadFree DEF Opens
<1>3. Copying'
  <2>1. dir' = dir /\ bytes' = bytes
    BY DEF Quietly
  <2> QED BY <2>1 DEF Copying, CopyFree, Apart
<1>4. Dropping'
  BY QuietDisk DEF Dropping, DropFree, Apart
<1>5. Untouched'
  BY DEF Untouched, Undoing
<1>6. Owned' /\ WantedKept' /\ wanted' \in {"none", "own", before'}
  BY QuietDisk
<1>7. Course'
  BY <1>6 DEF Core, Course, Quietly, SameOwner, Undoing
<1> QED BY <1>1, <1>2, <1>3, <1>4, <1>5, <1>6, <1>7 DEF Core

LEMMA EmptyKept == ASSUME Core, Quietly, todo' = <<>>, call' = call PROVE Core'
<1>1. Piece(call', todo') /\ todo' \in Seq(AnyStep)
  BY NoPiece DEF Piece
<1>2. Now'.op = "idle"
  BY DEF Now, Idle, Plain, Step
<1>3. Copying' /\ Dropping'
  BY DEF Copying, Dropping, CopyFree, DropFree
<1>4. Untouched'
  BY <1>2, QuietDisk DEF Core, Untouched, Early
<1>5. HeadOK'
  BY <1>1, HeadFree
<1>6. Owned' /\ WantedKept' /\ wanted' \in {"none", "own", before'}
  BY QuietDisk
<1>7. Course'
  BY <1>6, QuietDisk DEF Core, Course, Quietly, SameOwner
<1> QED BY <1>1, <1>3, <1>4, <1>5, <1>6, <1>7 DEF Core, Program

LEMMA WithdrawKept ==
  ASSUME Core, FilesTyped, Quietly, call' = "withdraw", todo' = Withdrawal, OnTarget PROVE Core'
<1>1. Part("withdraw", todo', NotTarget, {"drops"})
  BY WithdrawalPart
<1>2. /\ Piece(call', todo') /\ CopyFree(todo') /\ Opens(todo') /\ todo' \in Seq(AnyStep)
      /\ \A i \in 1..Len(todo') : Reach(todo'[i]) \subseteq NotTarget
  <2>1. Whole("withdraw", todo', NotTarget, {"drops"})
    BY <1>1 DEF Part
  <2> QED BY <2>1 DEF Whole, Piece
<1>3. Apart(todo', Target)
  BY <1>2 DEF Apart, NotTarget
<1>4. OnTarget' /\ InPlace'
  BY QuietDisk DEF InPlace
<1>5. Copying' /\ Dropping' /\ Untouched'
  BY <1>2, <1>3, <1>4 DEF Copying, Dropping, Untouched, CopyFree, Apart
<1>6. HeadOK'
  BY <1>2, HeadFree DEF Opens
<1>7. Owned' /\ WantedKept' /\ wanted' \in {"none", "own", before'}
  BY QuietDisk
<1>8. Course'
  BY <1>7 DEF Course
<1> QED BY <1>2, <1>5, <1>6, <1>7, <1>8 DEF Core, Program

LEMMA BeforeInPlace == ASSUME Core, FilesTyped, AsBefore PROVE InPlace
<1> SUFFICES ASSUME wanted = "before" PROVE Bears(Target)
  BY DEF InPlace, OnTarget
<1>1. before = "before"
  BY DEF Core, Course, FilesTyped
<1>2. Holds(Target, "before")
  BY <1>1 DEF AsBefore
<1> QED BY <1>2 DEF Holds, Bears

LEMMA PartFacts ==
  ASSUME NEW c, NEW q, NEW R, NEW K, Whole(c, q, R, K)
  PROVE  /\ Piece(c, q) /\ Opens(q) /\ (\A n : n \notin R => Apart(q, n))
         /\ ("drops" \in K \/ DropFree(q)) /\ ("copies" \in K \/ CopyFree(q))
BY DEF Whole, Apart

LEMMA JoinEmpty == ASSUME NEW S, NEW q \in Seq(S) PROVE q \o <<>> = q
OBVIOUS

LEMMA AssessKept == ASSUME Core, FilesTyped, Assess PROVE Core'
<1> DEFINE good == Restorable /\ (AsBefore \/ dir[Target] = NoFile \/ dir[Discard] = NoFile)
           more == IF AsBefore THEN CleanedUp ELSE PutBack
<1>1. Check("assess", good, more)
  BY DEF Assess
<1>2. /\ todo # <<>> /\ Now.op = "assess"
      /\ Core' \/ (good /\ Quietly /\ call' = call /\ todo' = more \o Tail(todo))
  <2> HIDE DEF good, more
  <2> QED BY <1>1, CheckCases
<1>3. CASE good /\ Quietly /\ call' = call /\ todo' = more \o Tail(todo)
  <2>1. call = "restore" /\ call \in Undoing
    BY <1>2, NowFacts DEF Core, StepFits, Undoing
  <2>2. Tail(todo) = <<>>
    BY <1>2, LastStep
  <2>3. more \in Seq(AnyStep) => todo' = more
    <3>1. todo' = more \o <<>>
      BY <1>3, <2>2
    <3> HIDE DEF more
    <3> QED BY <3>1, JoinEmpty
  <2>4. CASE AsBefore
    <3>1. more = CleanedUp /\ Whole("restore", CleanedUp, NotTarget, {"drops"})
      BY <2>4, CleanedUpPart DEF Part
    <3>2. Piece(call, CleanedUp) /\ Opens(CleanedUp) /\ Apart(CleanedUp, Target) /\ CopyFree(CleanedUp)
      BY <2>1, <3>1, PartFacts DEF NotTarget
    <3>3. todo' = CleanedUp
      BY <2>3, <3>1, <3>2 DEF Piece
    <3>4. InPlace
      BY <2>4, BeforeInPlace
    <3> HIDE DEF more, good
    <3> QED BY <1>2, <1>3, <2>1, <3>2, <3>3, <3>4, FreshRun
  <2>5. CASE ~AsBefore
    <3>1. more = PutBack
      BY <2>5
    <3>2. CASE Whole("restore", PutBack, Name, {})
      <4>1. Piece(call, PutBack) /\ Opens(PutBack) /\ DropFree(PutBack) /\ CopyFree(PutBack)
        BY <2>1, <3>2, PartFacts
      <4>2. todo' = PutBack
        BY <2>3, <3>1, <4>1 DEF Piece
      <4> HIDE DEF more, good
      <4> QED BY <1>2, <1>3, <2>1, <4>1, <4>2, FreshRun
    <3>3. CASE before = "before" /\ dir[Backup] # NoFile /\ Whole("restore", PutBack, Name \ {Backup}, {"copies"})
      <4>1. Piece(call, PutBack) /\ Opens(PutBack) /\ DropFree(PutBack) /\ Apart(PutBack, Backup)
        BY <2>1, <3>3, PartFacts
      <4>2. todo' = PutBack
        BY <2>3, <3>1, <4>1 DEF Piece
      <4>3. Exact(Backup, made.backup, "before")
        BY <1>3, <3>3 DEF Restorable
      <4>4. dir[Backup] # NoFile /\ bytes[dir[Backup]] = "before"
        BY <4>3 DEF Exact, Holds
      <4> HIDE DEF more, good
      <4> QED BY <1>2, <1>3, <2>1, <4>1, <4>2, <4>4, FreshRun
    <3> QED BY <3>2, <3>3, PutBackWhole
  <2> QED BY <2>4, <2>5
<1> QED BY <1>2, <1>3

LEMMA RestartKept == ASSUME Core, FilesTyped, Restart PROVE Core'
<1> DEFINE prepared == call = "restore" /\ AsBefore /\ Exact(Tmp, made.new, "after")
           good == prepared \/ Reconstructed
           more == IF prepared THEN Undone ELSE IF call = "restore" THEN Restoration ELSE Finalization
<1>1. Check("restart", good, more)
  BY DEF Restart
<1>2. /\ todo # <<>> /\ Now.op = "restart"
      /\ Core' \/ (good /\ Quietly /\ call' = call /\ todo' = more \o Tail(todo))
  <2> HIDE DEF good, more
  <2> QED BY <1>1, CheckCases
<1>3. CASE good /\ Quietly /\ call' = call /\ todo' = more \o Tail(todo)
  <2>1. call \in {"restore", "finalize"} /\ call \in Undoing
    BY <1>2, NowFacts DEF Core, StepFits, Undoing
  <2>2. Tail(todo) = <<>>
    BY <1>2, LastStep
  <2>3. more \in Seq(AnyStep) => todo' = more
    <3>1. todo' = more \o <<>>
      BY <1>3, <2>2
    <3> HIDE DEF more
    <3> QED BY <3>1, JoinEmpty
  <2>4. CASE prepared
    <3>1. more = Undone /\ Whole("restore", Undone, NotTarget, {"drops"}) /\ call = "restore"
      BY <2>4, UndonePart DEF Part
    <3>2. Piece(call, Undone) /\ Opens(Undone) /\ Apart(Undone, Target) /\ CopyFree(Undone)
      BY <3>1, PartFacts DEF NotTarget
    <3>3. todo' = Undone
      BY <2>3, <3>1, <3>2 DEF Piece
    <3>4. InPlace
      BY <2>4, BeforeInPlace
    <3> HIDE DEF more, good, prepared
    <3> QED BY <1>2, <1>3, <2>1, <3>1, <3>2, <3>3, <3>4, FreshRun
  <2>5. CASE ~prepared /\ call = "restore"
    <3>1. more = Restoration /\ Whole("restore", Restoration, Name, {})
      BY <2>5, RestorationWhole
    <3>2. Piece(call, Restoration) /\ Opens(Restoration) /\ DropFree(Restoration) /\ CopyFree(Restoration)
      BY <2>5, <3>1, PartFacts
    <3>3. todo' = Restoration
      BY <2>3, <3>1, <3>2 DEF Piece
    <3> HIDE DEF more, good, prepared
    <3> QED BY <1>2, <1>3, <2>1, <2>5, <3>2, <3>3, FreshRun
  <2>6. CASE ~prepared /\ call # "restore"
    <3>1. more = Finalization /\ Whole("finalize", Finalization, NotTarget, {"drops"}) /\ call = "finalize"
      BY <2>1, <2>6, FinalizationPart DEF Part
    <3>2. Piece(call, Finalization) /\ Opens(Finalization) /\ Apart(Finalization, Target) /\ CopyFree(Finalization)
      BY <3>1, PartFacts DEF NotTarget
    <3>3. todo' = Finalization
      BY <2>3, <3>1, <3>2 DEF Piece
    <3>4. InPlace
      <4>1. way = "finalize" /\ wanted \in {"none", "own", before}
        BY <3>1 DEF Core, Course
      <4> QED BY <4>1 DEF InPlace, Accepted
    <3> HIDE DEF more, good, prepared
    <3> QED BY <1>2, <1>3, <2>1, <3>1, <3>2, <3>3, <3>4, FreshRun
  <2> QED BY <2>4, <2>5, <2>6
<1> QED BY <1>2, <1>3

LEMMA ResumeKept == ASSUME Core, FilesTyped, Resume PROVE Core'
<1>1. Quietly /\ call' = call
  BY DEF Resume, Quietly, SameOwner, disk, known, stage, owner
<1>2. CASE Doing("resume") /\ todo' = Tail(todo)
  <2>1. Now.op = "resume"
    BY <1>2 DEF Doing
  <2>2. todo # <<>>
    BY <2>1, Busy
  <2> QED BY <1>1, <1>2, <2>1, <2>2, QuietOn DEF Readying
<1>3. CASE Doing("tidy") /\ todo' = BothDropped
  <2>1. Now.op = "tidy"
    BY <1>3 DEF Doing
  <2>2. todo # <<>>
    BY <2>1, Busy
  <2>3. InPlace
    BY <2>1 DEF Core, HeadOK
  <2>4. call = "restore" /\ call \in Undoing
    BY <2>1, <2>2, NowFacts DEF Core, StepFits, Undoing
  <2>5. Piece(call, todo') /\ Opens(todo') /\ Apart(todo', Target) /\ CopyFree(todo')
    BY <1>3, <2>4, BothDroppedPart, PartFacts DEF NotTarget, Part
  <2> QED BY <1>1, <2>2, <2>3, <2>4, <2>5, FreshRun
<1> QED BY <1>2, <1>3 DEF Resume

LEMMA AnswerKept == ASSUME Core, AnswerCall PROVE Core'
<1>1. PICK op : Ended(op)
  BY DEF AnswerCall
<1>2. Quietly /\ call' = call /\ todo' = <<>>
  BY <1>1 DEF Ended, Quietly, SameOwner, disk, known, owner
<1> QED BY <1>2, EmptyKept

LEMMA ClassifyKept == ASSUME Core, FilesTyped, Classify PROVE Core'
<1>1. Now.op = "classify" /\ dir' = dir /\ bytes' = bytes /\ before' = before /\ wanted' = wanted /\ exposed' = exposed
  BY DEF Classify, Doing, disk, known, owner
<1>2. todo # <<>>
  BY <1>1, Busy
<1>3. CASE Proceed
  <2>1. Quietly /\ todo' = Tail(todo) /\ call' = call
    BY <1>1, <1>3 DEF Proceed, stage, Quietly, SameOwner
  <2> QED BY <1>1, <1>2, <2>1, QuietOn DEF Readying
<1>4. CASE Fail
  <2>1. FailWith("failed") /\ way' = way
    BY <1>4 DEF Fail, FailWith
  <2>2. Quietly
    BY <1>1, <2>1 DEF Quietly, SameOwner
  <2>3. Now.op \notin {"published", "rename"}
    BY <1>1
  <2> QED BY <1>2, <2>1, <2>2, <2>3, QuietFail
<1>5. CASE /\ Exact(Tmp, made.new, "after") /\ call' = "withdraw" /\ todo' = Withdrawal
           /\ UNCHANGED <<handle, noted, way>>
  <2>1. Quietly
    BY <1>1, <1>5 DEF Quietly, SameOwner
  <2>2. OnTarget
    BY <1>1, <1>5 DEF Core, HeadOK, Exact, Holds
  <2> QED BY <1>5, <2>1, <2>2, WithdrawKept
<1> QED BY <1>3, <1>4, <1>5 DEF Classify

-----------------------------------------------------------------------------
(* Calls, and the death of the process.                                    *)

LEMMA SameFiles ==
  ASSUME Core, dir' = dir, bytes' = bytes, wanted' = wanted, exposed' = exposed, before' = before,
         way' = way \/ wanted # before \/ way # "finalize" \/ way' = "finalize"
  PROVE  /\ Owned' /\ WantedKept' /\ wanted' \in {"none", "own", before'}
         /\ \A f \in File : Alone(f) => Alone(f)'
         /\ (OnTarget => OnTarget')
<1>1. Owned' /\ WantedKept' /\ wanted' \in {"none", "own", before'}
  BY DEF Core, Owned, WantedKept, Course
<1>2. \A f \in File : Alone(f) => Alone(f)'
  BY DEF Alone
<1>3. OnTarget => OnTarget'
  BY DEF OnTarget, Lost, Bears
<1> QED BY <1>1, <1>2, <1>3

LEMMA PublishKept == ASSUME Core, FilesTyped, Publish PROVE Core'
<1>1. /\ call = "none" /\ todo = <<>> /\ call' = "publish" /\ todo' = Publication /\ way' = way
      /\ dir' = dir /\ bytes' = bytes /\ wanted' = wanted /\ exposed' = exposed /\ before' = before
  BY DEF Publish, Begin, Idle, disk, known
<1>2. /\ Piece("publish", todo') /\ todo' # <<>> /\ todo'[1].op = "observe" /\ todo' \in Seq(AnyStep)
  BY <1>1, PublicationPiece DEF Piece
<1>3. /\ Owned' /\ WantedKept' /\ wanted' \in {"none", "own", before'}
      /\ (\A f \in File : Alone(f) => Alone(f)') /\ (OnTarget => OnTarget')
  BY <1>1, SameFiles
<1>4. OnTarget'
  BY <1>1, <1>3 DEF Core, Untouched
<1>5. CopyFree(todo') /\ DropFree(todo')
  <2>1. \A i \in 1..Len(todo') : StepFits("publish", todo'[i])
    BY <1>2 DEF Piece, Fitting
  <2>2. \A i \in 1..Len(todo') : ~Copies(todo'[i]) /\ ~Drops(todo'[i])
    <3> SUFFICES ASSUME NEW i \in 1..Len(todo') PROVE ~Copies(todo'[i]) /\ ~Drops(todo'[i])
      OBVIOUS
    <3>1. StepFits("publish", todo'[i])
      BY <2>1
    <3> QED BY <3>1 DEF StepFits, Drops, PubOps, Early
  <2> QED BY <2>2 DEF CopyFree, DropFree
<1>6. Copying' /\ Dropping'
  BY <1>5 DEF Copying, Dropping, CopyFree, DropFree
<1>7. HeadOK'
  BY <1>2, HeadFree DEF Bound
<1>8. Untouched'
  BY <1>1, <1>4 DEF Untouched
<1>9. Course'
  <2>1. \A f \in File : Alone(f)'
    BY <1>1, <1>3 DEF Core, Course
  <2> QED BY <1>1, <1>3, <2>1 DEF Course
<1>10. Program'
  BY <1>1, <1>2 DEF Program
<1> QED BY <1>3, <1>6, <1>7, <1>8, <1>9, <1>10 DEF Core

LEMMA RestartPiece ==
  ASSUME NEW c \in {"restore", "finalize"}
  PROVE  LET q == <<Plain("restart")>> IN Piece(c, q) /\ Opens(q) /\ CopyFree(q) /\ DropFree(q)
<1>1. "restart" \in FileOps
  BY DEF FileOps, Plains
<1>2. /\ Plain("restart") \in AnyStep /\ Plain("restart").op = "restart" /\ Plain("restart").bytes = "none"
  BY <1>1, PlainAny
<1>3. StepFits(c, Plain("restart"))
  BY <1>2 DEF StepFits, Plains, Paired, Copies, PubOps, Early
<1>4. Piece(c, <<Plain("restart")>>)
  BY <1>2, <1>3, OnePiece
<1> QED BY <1>2, <1>4 DEF Opens, Bound, CopyFree, DropFree, Copies, Drops

LEMMA BeginKept ==
  ASSUME Core, FilesTyped, todo = <<>>, call' \in {"restore", "finalize"}, Piece(call', todo'), Opens(todo'), CopyFree(todo'),
         DropFree(todo') \/ (Apart(todo', Target) /\ call' = "finalize"),
         way' = "restore" \/ way' = "finalize", call' = "finalize" => way' = "finalize",
         way # "finalize" \/ way' = "finalize",
         dir' = dir, bytes' = bytes, wanted' = wanted, exposed' = exposed, before' = before
  PROVE  Core'
<1>1. Owned' /\ WantedKept' /\ wanted' \in {"none", "own", before'}
  BY SameFiles
<1>2. HeadOK'
  BY HeadFree DEF Piece, Opens
<1>3. Copying' /\ Untouched'
  BY DEF Copying, Untouched, CopyFree
<1>4. Dropping'
  <2>1. CASE DropFree(todo')
    BY <2>1 DEF Dropping, DropFree
  <2>2. CASE Apart(todo', Target) /\ call' = "finalize"
    <3>1. InPlace'
      <4>1. way' = "finalize" /\ wanted' \in {"none", "own", before'}
        BY <1>1, <2>2
      <4> QED BY <4>1 DEF InPlace, Accepted
    <3> QED BY <2>2, <3>1 DEF Dropping, Apart
  <2> QED BY <2>1, <2>2
<1>5. Course'
  BY <1>1 DEF Course
<1> QED BY <1>1, <1>2, <1>3, <1>4, <1>5 DEF Core, Program

LEMMA UndoKept == ASSUME Core, FilesTyped, Undo PROVE Core'
<1>1. /\ todo = <<>> /\ call' = "restore" /\ way # "finalize" /\ way' = "restore"
      /\ todo' = (IF handle THEN Restoration ELSE <<Plain("restart")>>)
      /\ dir' = dir /\ bytes' = bytes /\ wanted' = wanted /\ exposed' = exposed /\ before' = before
  BY DEF Undo, Begin, Idle, disk, known
<1>2. Piece(call', todo') /\ Opens(todo') /\ CopyFree(todo') /\ DropFree(todo')
  <2>1. CASE handle
    BY <1>1, <2>1, RestorationWhole, PartFacts
  <2>2. CASE ~handle
    BY <1>1, <2>2, RestartPiece
  <2> QED BY <2>1, <2>2
<1> QED BY <1>1, <1>2, BeginKept

LEMMA FinishKept == ASSUME Core, FilesTyped, Finish PROVE Core'
<1>1. /\ todo = <<>> /\ call' = "finalize" /\ way' = "finalize"
      /\ todo' = (IF handle THEN Finalization ELSE <<Plain("restart")>>)
      /\ dir' = dir /\ bytes' = bytes /\ wanted' = wanted /\ exposed' = exposed /\ before' = before
  BY DEF Finish, Begin, Idle, disk, known
<1>2. Piece(call', todo') /\ Opens(todo') /\ CopyFree(todo') /\ (DropFree(todo') \/ Apart(todo', Target))
  <2>1. CASE handle
    BY <1>1, <2>1, FinalizationPart, PartFacts DEF NotTarget, Part
  <2>2. CASE ~handle
    BY <1>1, <2>2, RestartPiece
  <2> QED BY <2>1, <2>2
<1> QED BY <1>1, <1>2, BeginKept

LEMMA DieKept == ASSUME Core, Die PROVE Core'
<1>1. Quietly /\ call' = call /\ todo' = <<>>
  BY DEF Die, Quietly, SameOwner, disk, known, owner
<1> QED BY <1>1, EmptyKept

-----------------------------------------------------------------------------
(* The owner's saves.                                                      *)

LEMMA FreshFacts ==
  ASSUME Unused # {}
  PROVE  Fresh \in File /\ Fresh # NoFile /\ \A n \in Name : dir[n] # Fresh
<1>1. Fresh \in Unused
  BY DEF Fresh
<1>2. Fresh \in File /\ Links(Fresh) = 0
  BY <1>1 DEF Unused
<1>3. \A n \in Name : dir[n] # Fresh
  BY <1>2, NoLinks
<1> QED BY <1>2, <1>3, FileConstants

LEMMA SaveKept == ASSUME Core, FilesTyped, Save PROVE Core'
<1> DEFINE New == /\ Unused # {} /\ Link(Target, Fresh) /\ wanted' \in {"own", before} \ {"none"}
                  /\ bytes' = [bytes EXCEPT ![Fresh] = wanted'] /\ exposed' = InWindow
           Within == /\ dir[Target] # NoFile
                     /\ bytes' = [bytes EXCEPT ![dir[Target]] = "own"] /\ UNCHANGED dir
                     /\ wanted' = "own" /\ exposed' = (Unwatched \/ (InWindow /\ Links(dir[Target]) = 1))
           Gone0 == /\ dir[Target] # NoFile /\ Unlinked(Target) /\ wanted' = "none"
                    /\ exposed' = FALSE /\ UNCHANGED bytes
<1>1. New \/ Within \/ Gone0
  BY DEF Save
<1>2. todo' = todo /\ call' = call /\ way' = way /\ before' = before
  BY DEF Save, known, stage
<1>3. dir \in [Name -> File \cup {NoFile}] /\ bytes \in [File -> Bytes] /\ Target \in Name
  BY NameFacts DEF FilesTyped
<1>4. New => Fresh \in File /\ Fresh # NoFile /\ \A n \in Name : dir[n] # Fresh
  BY FreshFacts
<1>5. /\ New => /\ dir'[Target] = Fresh /\ bytes'[Fresh] = wanted'
                /\ \A n \in Name \ {Target} : Undisturbed(n)
  BY <1>3, <1>4 DEF Link, Undisturbed
<1>6. Within => /\ dir' = dir /\ bytes'[dir[Target]] = "own"
                /\ \A n \in Name : dir[n] # dir[Target] => Undisturbed(n)
  BY <1>3 DEF Undisturbed
<1>7. Gone0 => dir'[Target] = NoFile /\ \A n \in Name \ {Target} : Undisturbed(n)
  BY <1>3 DEF Unlinked, Undisturbed
<1>8. OnTarget'
  BY <1>1, <1>4, <1>5, <1>6 DEF OnTarget, Lost, Bears
<1>9. \A n \in Name : n # Target => dir'[n] = dir[n]
  BY <1>1, <1>5, <1>6, <1>7 DEF Undisturbed
<1>10. \A n \in Name : (n # Target /\ (dir[n] # NoFile => dir[n] # dir[Target])) => Undisturbed(n)
  BY <1>1, <1>5, <1>6, <1>7 DEF Undisturbed
<1>11. dir'[Target] = dir[Target] \/ dir'[Target] = NoFile \/ (dir'[Target] = Fresh /\ \A n \in Name : dir[n] # Fresh)
  BY <1>1, <1>4, <1>5, <1>6, <1>7
<1>12. \A f \in File : Alone(f) => Alone(f)'
  <2> SUFFICES ASSUME NEW f \in File, Alone(f), NEW m \in Name, NEW n \in Name, dir'[m] = f, dir'[n] = f PROVE m = n
    BY DEF Alone
  <2>1. f # NoFile
    BY FileConstants
  <2>2. CASE m # Target /\ n # Target
    BY <1>9, <2>2 DEF Alone
  <2>3. CASE m = Target /\ n # Target
    BY <1>9, <1>11, <2>1, <2>3 DEF Alone
  <2>4. CASE m # Target /\ n = Target
    BY <1>9, <1>11, <2>1, <2>4 DEF Alone
  <2> QED BY <2>2, <2>3, <2>4
<1>13. \A n \in Name \ Shared : Undisturbed(n) /\ n # Target
  <2> SUFFICES ASSUME NEW n \in Name \ Shared PROVE Undisturbed(n) /\ n # Target
    OBVIOUS
  <2>1. n # Target /\ (dir[n] # NoFile => dir[n] # dir[Target])
    BY DEF Core, Owned, Shared
  <2> QED BY <1>10, <2>1
<1> HIDE DEF New, Within, Gone0
<1>14. Owned'
  <2> SUFFICES ASSUME NEW n \in Name \ Shared, dir'[n] # NoFile
               PROVE  bytes'[dir'[n]] # "own" /\ dir'[n] # dir'[Target]
    BY DEF Owned
  <2>1. dir'[n] = dir[n] /\ bytes'[dir[n]] = bytes[dir[n]]
    BY <1>13 DEF Undisturbed
  <2>2. bytes[dir[n]] # "own" /\ dir[n] # dir[Target]
    BY <2>1 DEF Core, Owned
  <2> QED BY <1>11, <2>1, <2>2
<1>15. WantedKept'
  BY <1>3, <1>8 DEF OnTarget, Lost, Bears, WantedKept
<1>16. wanted' \in {"none", "own", before'}
  BY <1>1, <1>2 DEF New, Within, Gone0
<1>17. Course'
  BY <1>2, <1>12, <1>16 DEF Core, Course
<1>18. InPlace'
  BY <1>8 DEF InPlace
<1>19. Now' = Now
  BY <1>2 DEF Now, Idle
<1>20. Untouched'
  BY <1>2, <1>8, <1>19 DEF Core, Untouched, Apart
<1>21. Copying'
  <2>1. Undisturbed(Backup)
    BY <1>13, NameFacts DEF Shared
  <2> QED BY <1>2, <2>1 DEF Core, Copying, CopyFree, Apart, Undisturbed
<1>22. Dropping'
  BY <1>2, <1>18 DEF Core, Dropping, DropFree, Apart
<1>23. Program'
  BY <1>2 DEF Core, Program
<1>24. ASSUME NEW n \in Name, n # Target PROVE Safe(n)'
  BY <1>3, <1>8, <1>24 DEF OnTarget, Safe, Bears, Lost
<1>25. ASSUME NEW n \in Name, n # Target, Alone(dir[n]), dir[n] # NoFile
       PROVE Undisturbed(n) /\ \A l, m \in Name : dir'[m] = dir'[n] /\ dir'[l] = dir'[n] => l = m
  <2>1. dir[n] # dir[Target]
    BY <1>3, <1>25 DEF Alone
  <2>2. Undisturbed(n)
    BY <1>10, <1>25, <2>1
  <2>3. dir[n] \in File
    BY <1>3, <1>25
  <2>4. Alone(dir[n])' \/ \A f \in File : f = dir[n] => Alone(f)'
    BY <1>12, <1>25
  <2>5. \A l, m \in Name : dir'[m] = dir[n] /\ dir'[l] = dir[n] => l = m
    BY <1>12, <1>25, <2>3 DEF Alone
  <2> QED BY <2>2, <2>5 DEF Undisturbed
<1>26. HeadOK'
  <2>1. CASE todo = <<>>
    BY <1>2, <1>23, <2>1, HeadFree DEF Program, Piece
  <2>2. CASE todo # <<>>
    <3>1. Now.at \in Name /\ Now.to \in Name /\ StepFits(call, Now)
      BY <2>2, NowNames, NowFacts DEF Core
    <3>2. Now.op = "write" => Now'.op = "write" /\ (dir'[Now.at] # NoFile /\ bytes'[dir'[Now.at]] = "part") /\ Now.to # Target /\ Now.at # Target
                            /\ \A l, m \in Name : dir'[m] = dir'[Now.at] /\ dir'[l] = dir'[Now.at] => l = m
      <4> SUFFICES ASSUME Now.op = "write"
                   PROVE  /\ dir'[Now.at] # NoFile /\ bytes'[dir'[Now.at]] = "part" /\ Now.to # Target /\ Now.at # Target
                          /\ \A l, m \in Name : dir'[m] = dir'[Now.at] /\ dir'[l] = dir'[Now.at] => l = m
        BY <1>19
      <4>1. dir[Now.at] # NoFile /\ bytes[dir[Now.at]] = "part" /\ Alone(dir[Now.at])
        BY DEF Core, HeadOK
      <4>2. Now.at # Target /\ Now.to # Target
        BY <3>1 DEF StepFits, Shared
      <4>3. Undisturbed(Now.at) /\ \A l, m \in Name : dir'[m] = dir'[Now.at] /\ dir'[l] = dir'[Now.at] => l = m
        BY <1>25, <3>1, <4>1, <4>2
      <4> QED BY <4>1, <4>2, <4>3 DEF Undisturbed
    <3>3. (Now.op = "link" /\ Now.at # Target) => /\ dir'[Now.at] # NoFile /\ bytes'[dir'[Now.at]] = Now.bytes
                                                  /\ \A l, m \in Name : dir'[m] = dir'[Now.at] /\ dir'[l] = dir'[Now.at] => l = m
      <4> SUFFICES ASSUME Now.op = "link", Now.at # Target
                   PROVE  /\ dir'[Now.at] # NoFile /\ bytes'[dir'[Now.at]] = Now.bytes
                          /\ \A l, m \in Name : dir'[m] = dir'[Now.at] /\ dir'[l] = dir'[Now.at] => l = m
        OBVIOUS
      <4>1. dir[Now.at] # NoFile /\ bytes[dir[Now.at]] = Now.bytes /\ Alone(dir[Now.at])
        BY DEF Core, HeadOK
      <4>3. Undisturbed(Now.at) /\ \A l, m \in Name : dir'[m] = dir'[Now.at] /\ dir'[l] = dir'[Now.at] => l = m
        BY <1>25, <3>1, <4>1
      <4> QED BY <4>1, <4>3 DEF Undisturbed
    <3>4. (Now.op = "link" /\ Now.at = Target) =>
             (dir'[Target] = NoFile \/ \A l, m \in Name : dir'[m] = dir'[Target] /\ dir'[l] = dir'[Target] => l = m)
      <4> SUFFICES ASSUME Now.op = "link", Now.at = Target, dir'[Target] # NoFile
                   PROVE  \A l, m \in Name : dir'[m] = dir'[Target] /\ dir'[l] = dir'[Target] => l = m
        OBVIOUS
      <4>1. dir[Target] = NoFile \/ Alone(dir[Target])
        BY DEF Core, HeadOK
      <4>2. CASE dir'[Target] = dir[Target]
        <5>1. Alone(dir[Target]) /\ dir[Target] \in File
          BY <1>3, <4>1, <4>2
        <5>2. \A f \in File : Alone(f) => \A l, m \in Name : dir'[m] = f /\ dir'[l] = f => l = m
          BY <1>12 DEF Alone
        <5> QED BY <4>2, <5>1, <5>2
      <4>3. CASE dir'[Target] = Fresh /\ \A n \in Name : dir[n] # Fresh
        BY <1>9, <4>3
      <4> QED BY <1>11, <4>2, <4>3
    <3>5. Now.op \in {"note", "rename"} => Lost'
      BY <1>1 DEF New, Within, Gone0, InWindow, Unwatched, Lost
    <3>6. ASSUME Now.op = "unlink", NEW n \in Name, n = Now.at PROVE Safe(n)'
      <4>1. CASE n # Target
        BY <1>24, <4>1
      <4>2. CASE n = Target
        <5>1. CASE New
          BY <3>6, <4>2, <5>1 DEF New, InWindow, Safe, Lost
        <5>2. CASE Gone0
          BY <5>2 DEF Gone0, Safe, Lost
        <5>3. CASE Within /\ Links(dir[Target]) = 1
          BY <3>6, <4>2, <5>3 DEF Within, InWindow, Safe, Lost
        <5>4. CASE Within /\ Links(dir[Target]) # 1
          <6>1. PICK m \in Name \ {Target} : dir[m] = dir[Target]
            BY <1>3, <5>4, Another
          <6>2. dir'[m] # NoFile /\ bytes'[dir'[m]] = wanted'
            BY <1>6, <5>4, <6>1 DEF Within
          <6> QED BY <4>2, <6>1, <6>2 DEF Safe, Bears
        <5> QED BY <1>1, <5>1, <5>2, <5>3, <5>4
      <4> QED BY <4>1, <4>2
    <3>7. ASSUME Now.op = "write", NEW n \in Name, n = Now.to PROVE Safe(n)'
      BY <1>24, <3>2, <3>7
    <3>8. Now.op \in {"note", "rename"} => Safe(Target)'
      BY <3>5 DEF Safe, Lost
    <3>9. Now.op = "classify" => (dir'[Tmp] = NoFile \/ OnTarget')
      BY <1>8
    <3>10. Now.op = "tidy" => InPlace'
      BY <1>18
    <3>11. /\ Now'.op = "write" => (dir'[Now'.at] # NoFile /\ bytes'[dir'[Now'.at]] = "part" /\ Alone(dir[Now.at])' /\ Safe(Now.to)')
      <4> SUFFICES ASSUME Now.op = "write" PROVE (dir'[Now'.at] # NoFile /\ bytes'[dir'[Now'.at]] = "part" /\ Alone(dir[Now.at])' /\ Safe(Now.to)')
        BY <1>19
      <4>1. PICK n \in Name : n = Now.to
        BY <3>1
      <4>2. Safe(n)'
        BY <3>7, <4>1
      <4>3. Safe(Now.to)'
        BY <1>19, <4>1, <4>2 DEF Safe
      <4>4. Alone(dir[Now.at])'
        BY <1>19, <3>2 DEF Alone
      <4> QED BY <1>19, <3>2, <4>3, <4>4
    <3>12. Now'.op = "unlink" => Safe(Now.at)'
      <4> SUFFICES ASSUME Now.op = "unlink" PROVE Safe(Now.at)'
        BY <1>19
      <4>1. PICK n \in Name : n = Now.at
        BY <3>1
      <4>2. Safe(n)'
        BY <3>6, <4>1
      <4> QED BY <1>19, <4>1, <4>2 DEF Safe
    <3>13. Now'.op = "link" => IF Now'.at = Target THEN dir'[Target] = NoFile \/ Alone(dir[Target])'
                              ELSE (dir'[Now'.at] # NoFile /\ bytes'[dir'[Now'.at]] = Now'.bytes /\ Alone(dir[Now.at])')
      BY <1>19, <3>3, <3>4 DEF Alone
    <3> QED BY <1>19, <3>8, <3>9, <3>10, <3>11, <3>12, <3>13 DEF HeadOK
  <2> QED BY <2>1, <2>2
<1> QED BY <1>14, <1>15, <1>17, <1>20, <1>21, <1>22, <1>23, <1>26 DEF Core

-----------------------------------------------------------------------------
(* The steps that change the disk.                                         *)

LEMMA DiskTail ==
  ASSUME Core, todo # <<>>, SameOwner, call' = call, todo' = Tail(todo),
         \A n \in Name : n \notin Reach(Now) => Undisturbed(n),
         Owned', WantedKept', HeadOK', call = "publish" => \A f \in File : Alone(f)'
  PROVE  Core'
<1>1. Program' /\ Untouched' /\ Copying' /\ Dropping'
  BY TailKeeps
<1>2. Course'
  BY DEF Core, Course, SameOwner
<1> QED BY <1>1, <1>2 DEF Core

LEMMA DiskFail ==
  ASSUME Core, FilesTyped, todo # <<>>, NEW a, FailWith(a), SameOwner,
         Now.op \notin {"published", "rename", "classify", "verify"},
         \A n \in Name : n \notin Reach(Now) => Undisturbed(n), Owned', WantedKept'
  PROVE  Core'
<1>1. /\ Program' /\ Untouched' /\ Copying' /\ Dropping' /\ HeadOK'
      /\ call' # "none" /\ (call' = "finalize" => way' = "finalize")
      /\ call' = "publish" => Now.op \in {"classify", "verify"}
  BY FailKeeps
<1>2. Course'
  BY <1>1 DEF Core, Course, SameOwner
<1> QED BY <1>1, <1>2 DEF Core

LEMMA UnlinkKept == ASSUME Core, FilesTyped, Unlink PROVE Core'
<1>1. /\ Now.op = "unlink" /\ todo' = Tail(todo) /\ call' = call /\ SameOwner /\ bytes' = bytes
      /\ dir' = [dir EXCEPT ![Now.at] = NoFile] \/ dir' = dir
  BY DEF Unlink, Doing, Proceed, stage, known, owner, Unlinked, SameOwner
<1>2. todo # <<>>
  BY <1>1, Busy
<1>3. dir \in [Name -> File \cup {NoFile}] /\ Target \in Name
  BY NameFacts DEF FilesTyped
<1>4. PICK n \in Name : n = Now.at
  BY <1>2, NowNames
<1>5. \A k \in Name : dir'[k] = dir[k] \/ (k = n /\ dir'[k] = NoFile)
  BY <1>1, <1>3, <1>4
<1>6. \A k \in Name : k # n => Undisturbed(k)
  BY <1>1, <1>5 DEF Undisturbed
<1>7. n \in Reach(Now)
  BY <1>1, <1>4 DEF Reach, Plains
<1>8. Safe(n)
  BY <1>1, <1>4 DEF Core, HeadOK
<1>9. WantedKept'
  <2>1. CASE Lost \/ Accepted
    BY <1>1, <2>1 DEF WantedKept, Lost, Accepted, SameOwner
  <2>2. CASE \E m \in Name \ {n} : Bears(m)
    BY <1>1, <1>6, <2>2 DEF WantedKept, Bears, Undisturbed, SameOwner
  <2> QED BY <1>8, <2>1, <2>2 DEF Safe
<1>10. Owned'
  BY <1>1, <1>3, <1>5 DEF Core, Owned
<1>11. HeadOK'
  BY <1>1, <1>2, TailFree DEF Readying
<1>12. call # "publish"
  BY <1>1, <1>2, NowFacts DEF Core, StepFits, PubOps, Early
<1> QED BY <1>1, <1>2, <1>6, <1>7, <1>9, <1>10, <1>11, <1>12, DiskTail

LEMMA HardLinkKept == ASSUME Core, FilesTyped, HardLink PROVE Core'
<1>1. /\ Now.op = "link" /\ todo' = Tail(todo) /\ call' = call /\ SameOwner /\ bytes' = bytes
      /\ (dir[Now.to] = NoFile /\ dir' = [dir EXCEPT ![Now.to] = dir[Now.at]]) \/ dir' = dir
  BY DEF HardLink, Doing, Proceed, stage, known, owner, Link, SameOwner
<1>2. todo # <<>>
  BY <1>1, Busy
<1>3. dir \in [Name -> File \cup {NoFile}] /\ Target \in Name /\ Back \in Shared /\ Discard \in Shared /\ Back # Target
  BY NameFacts DEF FilesTyped, Shared
<1>4. PICK n \in Name, m \in Name : n = Now.at /\ m = Now.to
  BY <1>2, NowNames
<1>5. (n = Target => m = Discard) /\ (m = Target => n = Back) /\ n # m /\ Now.bytes \in {"before", "after"}
  BY <1>1, <1>2, <1>4, NowFacts DEF Core, StepFits, Paired, Plains
<1>6. n # Target => (dir[n] # NoFile /\ bytes[dir[n]] = Now.bytes /\ Alone(dir[n]))
  BY <1>1, <1>4 DEF Core, HeadOK
<1>7. \A k \in Name : dir'[k] = dir[k] \/ (k = m /\ dir[k] = NoFile /\ dir'[k] = dir[n])
  BY <1>1, <1>3, <1>4
<1>8. \A k \in Name : k # m => Undisturbed(k)
  BY <1>1, <1>7 DEF Undisturbed
<1>9. m \in Reach(Now)
  BY <1>1, <1>4 DEF Reach, Plains
<1>10. WantedKept'
  <2>1. CASE Lost \/ Accepted
    BY <1>1, <2>1 DEF WantedKept, Lost, Accepted, SameOwner
  <2>2. CASE \E k \in Name : Bears(k)
    BY <1>1, <1>7, <2>2 DEF WantedKept, Bears, SameOwner
  <2> QED BY <2>1, <2>2 DEF Core, WantedKept, Lost, Accepted, Bears
<1>11. Owned'
  <2> SUFFICES ASSUME NEW k \in Name \ Shared, dir'[k] # NoFile
               PROVE  bytes[dir'[k]] # "own" /\ dir'[k] # dir'[Target]
    BY <1>1 DEF Owned
  <2>1. CASE dir'[k] = dir[k]
    <3>1. bytes[dir[k]] # "own" /\ dir[k] # dir[Target]
      BY <2>1 DEF Core, Owned
    <3>2. CASE dir'[Target] = dir[Target]
      BY <2>1, <3>1, <3>2
    <3>3. CASE m = Target /\ dir'[Target] = dir[n]
      <4>1. n = Back /\ Alone(dir[n]) /\ k # n
        BY <1>3, <1>5, <1>6, <3>3
      <4> QED BY <1>4, <2>1, <3>1, <3>3, <4>1 DEF Alone
    <3> QED BY <1>3, <1>7, <3>2, <3>3
  <2>2. CASE k = m /\ dir'[k] = dir[n]
    <3>1. n # Target /\ m # Target
      BY <1>3, <1>5, <2>2 DEF Shared
    <3>2. bytes[dir[n]] # "own" /\ Alone(dir[n])
      BY <1>5, <1>6, <3>1
    <3>3. dir[n] # dir[Target] /\ dir'[Target] = dir[Target]
      BY <1>3, <1>7, <3>1, <3>2 DEF Alone
    <3> QED BY <2>2, <3>2, <3>3
  <2> QED BY <1>7, <2>1, <2>2
<1>12. HeadOK'
  BY <1>1, <1>2, TailFree DEF Readying
<1>13. call # "publish"
  BY <1>1, <1>2, NowFacts DEF Core, StepFits, PubOps, Early
<1> QED BY <1>1, <1>2, <1>8, <1>9, <1>10, <1>11, <1>12, <1>13, DiskTail

LEMMA RenameKept == ASSUME Core, FilesTyped, RenameOver PROVE Core'
<1>1. /\ Now.op = "rename" /\ todo' = Tail(todo) /\ call' = call /\ SameOwner /\ bytes' = bytes
      /\ dir' = [dir EXCEPT ![Target] = dir[Tmp], ![Tmp] = NoFile] \/ dir' = dir
  BY DEF RenameOver, Doing, Proceed, stage, known, owner, SameOwner
<1>2. todo # <<>>
  BY <1>1, Busy
<1>3. dir \in [Name -> File \cup {NoFile}] /\ Target \in Name /\ Tmp \in Name /\ Target # Tmp
  BY NameFacts DEF FilesTyped
<1>4. call = "publish"
  BY <1>1, <1>2, NowFacts DEF Core, StepFits, PubOps, Early, Copies
<1>5. \A f \in File : Alone(f)
  BY <1>4 DEF Core, Course
<1>6. Safe(Target) /\ OnTarget
  BY <1>1, <1>4 DEF Core, HeadOK, Untouched, Early
<1>7. CASE dir' = dir
  <2>1. Quietly
    BY <1>1, <1>7 DEF Quietly
  <2>2. (Follows(Now, Now') /\ StepFits(call, Now')) => HeadOK'
    <3>1. OnTarget'
      BY <1>6, <2>1, QuietDisk
    <3> QED BY <1>1, <3>1 DEF Follows, HeadOK
  <2> QED BY <1>1, <1>2, <2>1, <2>2, NextHead
<1>8. CASE dir' = [dir EXCEPT ![Target] = dir[Tmp], ![Tmp] = NoFile]
  <2>1. dir'[Target] = dir[Tmp] /\ dir'[Tmp] = NoFile /\ \A k \in Name \ {Target, Tmp} : dir'[k] = dir[k]
    BY <1>3, <1>8
  <2>2. \A k \in Name : k \notin Reach(Now) => Undisturbed(k)
    BY <1>1, <2>1 DEF Undisturbed, Reach
  <2>3. WantedKept'
    <3>1. CASE Lost \/ Accepted
      BY <1>1, <3>1 DEF WantedKept, Lost, Accepted, SameOwner
    <3>2. CASE \E k \in Name \ {Target} : Bears(k)
      <4>1. PICK k \in Name \ {Target} : Bears(k)
        BY <3>2
      <4>2. dir'[IF k = Tmp THEN Target ELSE k] = dir[k]
        BY <2>1, <4>1
      <4>3. (IF k = Tmp THEN Target ELSE k) \in Name
        BY <1>3, <4>1
      <4> QED BY <1>1, <4>1, <4>2, <4>3 DEF WantedKept, Bears, SameOwner
    <3> QED BY <1>6, <3>1, <3>2 DEF Safe
  <2>4. \A f \in File : Alone(f)'
    <3> SUFFICES ASSUME NEW f \in File, NEW k \in Name, NEW l \in Name, dir'[k] = f, dir'[l] = f PROVE k = l
      BY DEF Alone
    <3>1. f # NoFile /\ Alone(f)
      BY <1>5, FileConstants
    <3> QED BY <1>3, <2>1, <3>1 DEF Alone
  <2>5. Owned'
    <3> SUFFICES ASSUME NEW k \in Name \ Shared, dir'[k] # NoFile
                 PROVE  bytes[dir'[k]] # "own" /\ dir'[k] # dir'[Target]
      BY <1>1 DEF Owned
    <3>1. k # Target /\ k # Tmp /\ dir'[k] = dir[k] /\ dir[k] \in File
      BY <1>3, <2>1 DEF Shared
    <3>2. dir[k] # dir[Tmp]
      BY <1>3, <1>5, <3>1 DEF Alone
    <3>3. bytes[dir[k]] # "own"
      BY <3>1 DEF Core, Owned
    <3> QED BY <2>1, <3>1, <3>2, <3>3
  <2>6. HeadOK'
    <3>1. CASE todo' = <<>>
      <4>1. todo' \in Seq(AnyStep)
        BY <3>1, NoPiece DEF Piece
      <4> QED BY <3>1, <4>1, HeadFree
    <3>2. CASE todo' # <<>>
      <4>1. Follows(Now, Now')
        BY <1>1, <1>2, <2>2, <3>2, TailKeeps
      <4> QED BY <1>1, <2>1, <4>1 DEF Follows, HeadOK
    <3> QED BY <3>1, <3>2
  <2> QED BY <1>1, <1>2, <2>2, <2>3, <2>4, <2>5, <2>6, DiskTail
<1> QED BY <1>1, <1>7, <1>8

(* Where a copy is written, its claim may be overwritten.                  *)
LEMMA SafeClaim ==
  ASSUME Core, FilesTyped, todo # <<>>, Now.op = "create"
  PROVE  Safe(Now.to) /\ Now.at \notin {Target, Discard} /\ Now.to \notin Shared \cup {Now.at, Backup}
<1>1. Now = todo[1] /\ 1 \in 1..Len(todo) /\ StepFits(call, Now)
  BY NowFacts DEF Core
<1>2. Now.at \notin {Target, Discard} /\ Now.to \notin Shared \cup {Now.at, Backup}
  BY <1>1 DEF StepFits
<1>3. PICK m \in Name : m = Now.to
  BY NowNames
<1>4. Backup \in Name /\ Target \in Name /\ m # Target /\ m # Backup
  BY <1>2, <1>3, NameFacts DEF Shared
<1>5. CASE call = "publish"
  <2>1. OnTarget
    BY <1>5 DEF Core, Untouched, Early
  <2> QED BY <1>2, <1>3, <1>4, <2>1 DEF OnTarget, Safe
<1>6. CASE call # "publish"
  <2>1. Copies(Now)
    BY <1>1, <1>6 DEF StepFits, PubOps, Early
  <2>2. dir[Backup] # NoFile /\ bytes[dir[Backup]] = "before"
    BY <1>1, <2>1 DEF Core, Copying, CopyFree
  <2>3. CASE Lost \/ Accepted
    BY <1>2, <1>3, <2>3 DEF Safe
  <2>4. CASE wanted = "before"
    BY <1>2, <1>3, <1>4, <2>2, <2>4 DEF Safe, Bears
  <2>5. CASE wanted = "own"
    <3>1. dir[m] # NoFile => bytes[dir[m]] # "own"
      BY <1>2, <1>3 DEF Core, Owned
    <3> QED BY <1>2, <1>3, <2>5, <3>1 DEF Core, WantedKept, Safe, Bears, Lost, Accepted
  <2>6. wanted \in {"none", "own", "before"}
    BY DEF Core, Course, FilesTyped
  <2> QED BY <2>3, <2>4, <2>5, <2>6 DEF Lost
<1> QED BY <1>2, <1>5, <1>6

LEMMA CreateKept == ASSUME Core, FilesTyped, Create PROVE Core'
<1> DEFINE Made == /\ dir[Now.at] = NoFile /\ Unused # {} /\ Proceed
                   /\ Link(Now.at, Fresh) /\ bytes' = [bytes EXCEPT ![Fresh] = "part"]
<1>1. /\ Now.op = "create" /\ UNCHANGED <<known, owner>>
      /\ Made \/ (Fail /\ UNCHANGED disk)
  BY DEF Create, Doing
<1>2. todo # <<>>
  BY <1>1, Busy
<1>3. dir \in [Name -> File \cup {NoFile}] /\ bytes \in [File -> Bytes] /\ Target \in Name
  BY NameFacts DEF FilesTyped
<1>4. CASE Fail /\ UNCHANGED disk
  <2>1. FailWith("failed") /\ way' = way
    BY <1>4 DEF Fail, FailWith
  <2>2. Quietly
    BY <1>1, <1>4, <2>1 DEF Quietly, SameOwner, disk, known, owner
  <2>3. Now.op \notin {"published", "rename"}
    BY <1>1
  <2> QED BY <1>2, <2>1, <2>2, <2>3, QuietFail
<1>5. CASE Made
  <2>1. PICK n \in Name, m \in Name : n = Now.at /\ m = Now.to
    BY <1>2, NowNames
  <2>2. Safe(m) /\ n \notin {Target, Discard} /\ m \notin Shared \cup {n, Backup}
    BY <1>1, <1>2, <2>1, SafeClaim
  <2>3. /\ todo' = Tail(todo) /\ call' = call /\ SameOwner
        /\ dir[n] = NoFile /\ dir' = [dir EXCEPT ![n] = Fresh] /\ bytes' = [bytes EXCEPT ![Fresh] = "part"]
    BY <1>1, <1>5, <2>1 DEF Proceed, stage, known, owner, Link, SameOwner
  <2>4. Fresh \in File /\ Fresh # NoFile /\ \A k \in Name : dir[k] # Fresh
    BY <1>5, FreshFacts
  <2>5. dir'[n] = Fresh /\ bytes'[Fresh] = "part" /\ \A k \in Name : k # n => dir'[k] = dir[k] /\ Undisturbed(k)
    BY <1>3, <2>3, <2>4 DEF Undisturbed
  <2>6. n \in Reach(Now)
    BY <1>1, <2>1 DEF Reach, Plains
  <2>7. ASSUME NEW k \in Name, Bears(k) PROVE k # n /\ Bears(k)'
    <3>1. k # n
      BY <2>3, <2>7 DEF Bears
    <3> QED BY <2>3, <2>5, <2>7, <3>1 DEF Bears, Undisturbed, SameOwner
  <2>8. (Lost => Lost') /\ (Accepted => Accepted')
    BY <2>3 DEF SameOwner, Lost, Accepted
  <2>9. WantedKept'
    <3>1. Lost \/ Accepted \/ \E k \in Name : Bears(k)
      BY DEF Core, WantedKept, Lost, Accepted, Bears
    <3>2. Lost' \/ Accepted' \/ \E k \in Name : Bears(k)'
      BY <2>7, <2>8, <3>1
    <3> QED BY <3>2 DEF WantedKept, Lost, Accepted, Bears
  <2>10. Safe(m)'
    <3>1. Lost' \/ Accepted' \/ \E k \in Name \ {m} : Bears(k)'
      BY <2>2, <2>7, <2>8 DEF Safe
    <3> QED BY <3>1 DEF Safe
  <2>11. \A f \in File : Alone(f) \/ f = Fresh => \A k, l \in Name : dir'[k] = f /\ dir'[l] = f => k = l
    <3> SUFFICES ASSUME NEW f \in File, Alone(f) \/ f = Fresh, NEW k \in Name, NEW l \in Name, dir'[k] = f, dir'[l] = f
                 PROVE  k = l
      OBVIOUS
    <3>1. CASE f = Fresh
      BY <2>4, <2>5, <3>1
    <3>2. CASE f # Fresh
      BY <2>5, <3>2 DEF Alone
    <3> QED BY <3>1, <3>2
  <2>12. Owned'
    <3> SUFFICES ASSUME NEW k \in Name \ Shared, dir'[k] # NoFile
                 PROVE  bytes'[dir'[k]] # "own" /\ dir'[k] # dir'[Target]
      BY DEF Owned
    <3>1. dir'[Target] = dir[Target]
      BY <1>3, <2>2, <2>5
    <3>2. CASE k = n
      BY <1>3, <2>4, <2>5, <3>1, <3>2
    <3>3. CASE k # n
      <4>1. dir'[k] = dir[k] /\ bytes'[dir[k]] = bytes[dir[k]]
        BY <2>5, <3>3 DEF Undisturbed
      <4> QED BY <3>1, <4>1 DEF Core, Owned
    <3> QED BY <3>2, <3>3
  <2>13. \A k \in Name : k \notin Reach(Now) => Undisturbed(k)
    BY <2>5, <2>6
  <2>14. HeadOK'
    <3>1. CASE todo' = <<>>
      <4>1. todo' \in Seq(AnyStep)
        BY <3>1, NoPiece DEF Piece
      <4> QED BY <3>1, <4>1, HeadFree
    <3>2. CASE todo' # <<>>
      <4>1. Follows(Now, Now')
        BY <1>2, <2>3, <2>13, <3>2, TailKeeps
      <4>2. CASE Now'.op = "write"
        <5>1. Now'.at = n /\ Now'.to = m
          BY <2>1, <4>1, <4>2 DEF Follows, Same, Alike
        <5>2. Alone(dir[Now.at])'
          BY <2>4, <2>5, <2>11, <5>1 DEF Alone
        <5>3. Safe(Now.to)'
          BY <2>10, <5>1 DEF Safe
        <5> QED BY <2>4, <2>5, <4>2, <5>1, <5>2, <5>3 DEF HeadOK
      <4>3. CASE Now'.op # "write"
        BY <1>1, <4>1, <4>3 DEF Follows, HeadOK
      <4> QED BY <4>2, <4>3
    <3> QED BY <3>1, <3>2
  <2>15. call = "publish" => \A f \in File : Alone(f)'
    <3> SUFFICES ASSUME call = "publish", NEW f \in File PROVE Alone(f)'
      OBVIOUS
    <3>1. Alone(f)
      BY DEF Core, Course
    <3> QED BY <2>11, <3>1 DEF Alone
  <2> QED BY <1>2, <2>3, <2>9, <2>12, <2>13, <2>14, <2>15, DiskTail
<1> QED BY <1>1, <1>4, <1>5

(* A file that is written gives the steps at its name its identity.        *)
LEMMA NamedPiece ==
  ASSUME NEW c, NEW q, Piece(c, q), NEW f \in File \cup {NoFile}
  PROVE  /\ Piece(c, Named(q, f)) /\ AllLike(Named(q, f), q) /\ Len(Named(q, f)) = Len(q)
         /\ \A i \in 1..Len(q) : Named(q, f)[i].op = q[i].op
<1> DEFINE r == Named(q, f)
<1>1. q \in Seq(AnyStep) /\ Len(q) \in Nat /\ DOMAIN q = 1..Len(q)
  BY DEF Piece
<1>2. ASSUME NEW i \in 1..Len(q)
      PROVE  /\ r[i] \in AnyStep /\ r[i].op = q[i].op /\ Alike(r[i], q[i])
             /\ r[i].file = IF q[i].op \notin {"create", "write"} /\ q[i].at = Back THEN f ELSE q[i].file
  <2>1. q[i] \in AnyStep
    BY <1>1
  <2>2. r[i] = IF q[i].op \notin {"create", "write"} /\ q[i].at = Back THEN [q[i] EXCEPT !.file = f] ELSE q[i]
    BY <1>1 DEF Named
  <2> HIDE DEF r
  <2> QED BY <2>1, <2>2 DEF AnyStep, Alike
<1>3. r = [i \in 1..Len(q) |-> r[i]]
  BY <1>1 DEF Named
<1> HIDE DEF r
<1>4. r \in Seq(AnyStep) /\ Len(r) = Len(q)
  <2>1. r \in [1..Len(q) -> AnyStep]
    BY <1>2, <1>3
  <2> QED BY <1>1, <2>1
<1>5. Fitting(c, r)
  <2> SUFFICES ASSUME NEW i \in 1..Len(q) PROVE StepFits(c, r[i])
    BY <1>4 DEF Fitting
  <2>1. StepFits(c, q[i])
    BY DEF Piece, Fitting
  <2> QED BY <1>2, <2>1 DEF StepFits, Alike, Copies
<1>6. Chained(r)
  <2> SUFFICES ASSUME NEW i \in 1..Len(q), i > 1 PROVE Follows(r[i - 1], r[i])
    BY <1>4 DEF Chained
  <2>1. i - 1 \in 1..Len(q)
    BY <1>1
  <2>2. Follows(q[i - 1], q[i])
    BY DEF Piece, Chained
  <2> DEFINE s == q[i - 1]
             t == q[i]
             u == r[i - 1]
             v == r[i]
  <2>3. /\ u.op = s.op /\ Alike(u, s) /\ v.op = t.op /\ Alike(v, t)
        /\ u.file = IF s.op \notin {"create", "write"} /\ s.at = Back THEN f ELSE s.file
        /\ v.file = IF t.op \notin {"create", "write"} /\ t.at = Back THEN f ELSE t.file
    BY <1>2, <2>1
  <2>4. Follows(s, t)
    BY <2>2
  <2> HIDE DEF s, t, u, v
  <2>5. Follows(u, v)
    BY ONLY <2>3, <2>4 DEF Follows, Same, Alike, Early, PubOps
  <2> QED BY <2>5 DEF u, v
<1>7. AllLike(r, q)
  BY <1>2, <1>4 DEF AllLike
<1> QED BY <1>2, <1>4, <1>5, <1>6, <1>7 DEF r, Piece

LEMMA WriteKept == ASSUME Core, FilesTyped, WriteBytes PROVE Core'
<1> DEFINE f == dir[Now.at]
           Full == /\ bytes' = [bytes EXCEPT ![f] = Now.bytes] /\ UNCHANGED dir
                   /\ todo' = Named(Tail(todo), f) /\ UNCHANGED <<answer, stage>>
           CutOff  == Unlinked(Now.at) /\ Fail /\ UNCHANGED <<bytes, made>>
           Behind == FailWith("incomplete") /\ UNCHANGED <<bytes, made>> /\ dir' \in LeftBehind(Now.at, Now.to)
<1>1. /\ Now.op = "write" /\ before' = before /\ wanted' = wanted /\ exposed' = exposed
      /\ Full \/ CutOff \/ Behind
  BY DEF WriteBytes, Doing, owner
<1>2. todo # <<>>
  BY <1>1, Busy
<1>3. dir \in [Name -> File \cup {NoFile}] /\ bytes \in [File -> Bytes] /\ Target \in Name
  BY NameFacts DEF FilesTyped
<1>4. PICK n \in Name, m \in Name : n = Now.at /\ m = Now.to
  BY <1>2, NowNames
<1>5. f = dir[n] /\ f # NoFile /\ f \in File /\ bytes[f] = "part" /\ Alone(f) /\ Safe(m)
  BY <1>1, <1>3, <1>4 DEF Core, HeadOK
<1>6. n \notin {Target, Discard} /\ m \notin Shared \cup {n, Backup} /\ Now.bytes \in {"before", "after"}
  BY <1>1, <1>2, <1>4, NowFacts DEF Core, StepFits, Plains
<1>7. \A k \in Name : k # n => dir[k] # f
  BY <1>5 DEF Alone
<1>8. n \in Reach(Now) /\ m \in Reach(Now)
  BY <1>1, <1>4 DEF Reach, Plains
<1>9. Bears(n) => Lost
  BY <1>5 DEF Bears, Core, Course, FilesTyped, Lost
<1>10. Lost \/ Accepted \/ \E k \in Name \ {n, m} : Bears(k)
  BY <1>5, <1>9 DEF Safe
<1>11. ASSUME SameOwner, \A k \in Name \ {n, m} : Undisturbed(k) PROVE WantedKept'
  <2>1. CASE Lost \/ Accepted
    BY <1>11, <2>1 DEF WantedKept, Lost, Accepted, SameOwner
  <2>2. CASE \E k \in Name \ {n, m} : Bears(k)
    BY <1>11, <2>2 DEF WantedKept, Bears, Undisturbed, SameOwner
  <2> QED BY <1>10, <2>1, <2>2
<1> HIDE DEF f
<1>12. CASE Full
  <2>1. SameOwner /\ call' = call /\ dir' = dir /\ todo' = Named(Tail(todo), f) /\ bytes' = [bytes EXCEPT ![f] = Now.bytes]
    BY <1>1, <1>12 DEF SameOwner, stage
  <2>2. \A k \in Name : k # n => Undisturbed(k)
    BY <1>3, <1>5, <1>7, <2>1 DEF Undisturbed
  <2>3. Piece(call, Tail(todo))
    BY <1>2, PieceTail DEF Core, Program
  <2> DEFINE q == Tail(todo)
  <2>4. Piece(call, q) /\ f \in File \cup {NoFile}
    BY <1>5, <2>3
  <2> HIDE DEF q
  <2>5. /\ Piece(call, Named(q, f)) /\ AllLike(Named(q, f), q) /\ Len(Named(q, f)) = Len(q)
        /\ \A i \in 1..Len(q) : Named(q, f)[i].op = q[i].op
    BY <2>4, NamedPiece
  <2>6. todo' = Named(q, f)
    BY <2>1 DEF q
  <2>7. \A i \in 1..Len(q) : \E j \in 1..Len(todo) : q[i] = todo[j]
    <3>1. todo \in Seq(AnyStep) /\ Len(todo) \in Nat
      BY <1>2, NowFacts DEF Core
    <3>2. \A i \in 1..Len(q) : i + 1 \in 1..Len(todo) /\ q[i] = todo[i + 1]
      BY <1>2, <3>1 DEF q
    <3> QED BY <3>2
  <2>8. Piece(call, todo') /\ AllLike(todo', todo)
    <3>1. AllLike(todo', q)
      <4> DEFINE r == Named(q, f)
      <4>1. AllLike(r, q) /\ todo' = r
        BY <2>5, <2>6
      <4> HIDE DEF r
      <4> QED BY <4>1 DEF AllLike
    <3>2. ASSUME NEW i \in 1..Len(todo')
          PROVE  \E j \in 1..Len(todo) : todo'[i].op = todo[j].op /\ Alike(todo'[i], todo[j])
      <4>1. PICK k \in 1..Len(q) : todo'[i].op = q[k].op /\ Alike(todo'[i], q[k])
        BY <3>1, <3>2 DEF AllLike
      <4>2. PICK j \in 1..Len(todo) : q[k] = todo[j]
        BY <2>7, <4>1
      <4> QED BY <4>1, <4>2
    <3>3. AllLike(todo', todo)
      BY <3>2 DEF AllLike
    <3>4. Piece(call, todo')
      BY <2>5, <2>6
    <3> QED BY <3>3, <3>4
  <2>9. Untouched' /\ Copying' /\ Dropping'
    <3>1. \A k \in Name : k \notin Reach(Now) => Undisturbed(k)
      BY <1>8, <2>2
    <3>2. (call = "publish" /\ todo' # <<>> /\ todo'[1].op \in Early) => Now.op \in Early \ {"rename"}
      BY <1>1 DEF Early
    <3> QED BY <1>2, <2>1, <2>8, <3>1, <3>2, Regimes
  <2>10. HeadOK'
    <3>1. todo' \in Seq(AnyStep)
      BY <2>8 DEF Piece
    <3>2. ASSUME todo' # <<>> PROVE todo'[1].op \notin Bound
      <4>1. Len(todo') \in Nat /\ Len(todo') # 0
        BY <3>1, <3>2
      <4>2. Len(q) = Len(todo') /\ q \in Seq(AnyStep)
        BY <2>4, <2>5, <2>6 DEF Piece
      <4>3. q # <<>> /\ 1 \in 1..Len(q)
        BY <4>1, <4>2
      <4>4. Follows(Now, q[1])
        BY <1>2, <4>3, AfterNow DEF q
      <4>5. todo'[1].op = q[1].op
        BY <2>5, <2>6, <4>3
      <4> QED BY <1>1, <4>4, <4>5 DEF Follows, Bound
    <3> QED BY <3>1, <3>2, HeadFree
  <2>11. Owned'
    <3> SUFFICES ASSUME NEW k \in Name \ Shared, dir'[k] # NoFile
                 PROVE  bytes'[dir'[k]] # "own" /\ dir'[k] # dir'[Target]
      BY DEF Owned
    <3>1. CASE k = n
      BY <1>3, <1>5, <1>6, <1>7, <2>1, <3>1
    <3>2. CASE k # n
      <4>1. dir'[k] = dir[k] /\ bytes'[dir[k]] = bytes[dir[k]]
        BY <2>2, <3>2 DEF Undisturbed
      <4> QED BY <2>1, <4>1 DEF Core, Owned
    <3> QED BY <3>1, <3>2
  <2>12. WantedKept'
    BY <1>11, <2>1, <2>2
  <2>13. Course'
    <3>1. call' = call /\ dir' = dir /\ SameOwner
      BY <2>1
    <3>2. \A g \in File : Alone(g) => Alone(g)'
      BY <3>1 DEF Alone
    <3>3. wanted' \in {"none", "own", before'} /\ (call' = "finalize" => way' = "finalize")
      BY <3>1 DEF Core, Course, SameOwner
    <3>4. call' \in {"none", "publish"} => \A g \in File : Alone(g)'
      BY <3>1, <3>2 DEF Core, Course
    <3>5. call' # "none"
      BY <1>2, <3>1 DEF Core, Course
    <3> QED BY <3>3, <3>4, <3>5 DEF Course
  <2>14. Program'
    BY <2>1, <2>8 DEF Program
  <2> QED BY <2>9, <2>10, <2>11, <2>12, <2>13, <2>14 DEF Core
<1>13. CASE CutOff
  <2>1. FailWith("failed") /\ way' = way /\ bytes' = bytes /\ dir' = [dir EXCEPT ![n] = NoFile]
    BY <1>4, <1>13 DEF Fail, FailWith, Unlinked
  <2>2. SameOwner
    BY <1>1, <2>1 DEF SameOwner
  <2>3. \A k \in Name : dir'[k] = dir[k] \/ (k = n /\ dir'[k] = NoFile)
    BY <1>3, <2>1
  <2>4. \A k \in Name : k # n => Undisturbed(k)
    BY <2>1, <2>3 DEF Undisturbed
  <2>5. Owned'
    <3>1. dir'[Target] = dir[Target]
      BY <1>3, <1>6, <2>3
    <3> QED BY <2>1, <2>3, <3>1 DEF Core, Owned
  <2>6. WantedKept'
    BY <1>11, <2>2, <2>4
  <2>7. \A k \in Name : k \notin Reach(Now) => Undisturbed(k)
    BY <1>8, <2>4
  <2>8. Now.op \notin {"published", "rename", "classify", "verify"}
    BY <1>1
  <2> QED BY <1>2, <2>1, <2>2, <2>5, <2>6, <2>7, <2>8, DiskFail
<1>14. CASE Behind
  <2>1. FailWith("incomplete") /\ way' = way /\ bytes' = bytes
    BY <1>14 DEF FailWith
  <2>2. dir' = dir \/ dir' = [dir EXCEPT ![n] = NoFile, ![m] = dir[n]]
    BY <1>4, <1>14 DEF LeftBehind
  <2>3. SameOwner
    BY <1>1, <2>1 DEF SameOwner
  <2>4. \A k \in Name : dir'[k] = dir[k] \/ (k = n /\ dir'[k] = NoFile) \/ (k = m /\ dir'[k] = dir[n])
    BY <1>3, <1>6, <2>2
  <2>5. \A k \in Name \ {n, m} : Undisturbed(k)
    BY <2>1, <2>4 DEF Undisturbed
  <2>6. Owned'
    <3> SUFFICES ASSUME NEW k \in Name \ Shared, dir'[k] # NoFile
                 PROVE  bytes'[dir'[k]] # "own" /\ dir'[k] # dir'[Target]
      BY DEF Owned
    <3>1. dir'[Target] = dir[Target]
      BY <1>3, <1>6, <2>4 DEF Shared
    <3>2. CASE dir'[k] = dir[k]
      BY <2>1, <3>1, <3>2 DEF Core, Owned
    <3>3. CASE k = m /\ dir'[k] = dir[n]
      <4>1. dir[n] # dir[Target] /\ bytes[dir[n]] # "own"
        BY <1>3, <1>5, <1>6, <1>7
      <4> QED BY <2>1, <3>1, <3>3, <4>1
    <3> QED BY <2>4, <3>2, <3>3
  <2>7. WantedKept'
    BY <1>11, <2>3, <2>5
  <2>8. \A k \in Name : k \notin Reach(Now) => Undisturbed(k)
    BY <1>8, <2>5
  <2>9. Now.op \notin {"published", "rename", "classify", "verify"}
    BY <1>1
  <2> QED BY <1>2, <2>1, <2>3, <2>6, <2>7, <2>8, <2>9, DiskFail
<1> QED BY <1>1, <1>12, <1>13, <1>14

-----------------------------------------------------------------------------
LEMMA StepKept == ASSUME Core, FilesTyped, FileStep PROVE Core'
<1>1. CASE Observe \/ Create \/ WriteBytes \/ Unchanged \/ NoteArtifact \/ RenameOver \/ Classify
  BY <1>1, ObserveKept, CreateKept, WriteKept, UnchangedKept, NoteKept, RenameKept, ClassifyKept
<1>2. CASE VerifyTarget \/ Gone \/ Single \/ Confirm
  BY <1>2, PlainChecks
<1>3. CASE Ready \/ HardLink \/ Linked \/ Unlink \/ Moved \/ Refuse \/ Collapse
  BY <1>3, ReadyKept, HardLinkKept, LinkedKept, UnlinkKept, MovedKept, RefuseKept, CollapseKept
<1>4. CASE RemoveExact \/ ExactStep \/ Assess \/ Restart \/ Resume \/ AnswerCall
  BY <1>4, RemoveKept, ExactKept, AssessKept, RestartKept, ResumeKept, AnswerKept
<1> QED BY <1>1, <1>2, <1>3, <1>4 DEF FileStep

LEMMA CoreKept == ASSUME Core, FilesTyped, [FilesNext]_fileVars PROVE Core'
<1>1. CASE FileStep
  BY <1>1, StepKept
<1>2. CASE Publish \/ Undo \/ Finish \/ Die \/ Save
  BY <1>2, PublishKept, UndoKept, FinishKept, DieKept, SaveKept
<1>3. CASE UNCHANGED fileVars
  <2>1. UNCHANGED <<dir, bytes, before, seen, made, todo, call, way, wanted, exposed>>
    BY <1>3 DEF fileVars, disk, known, stage, owner
  <2> QED BY <2>1 DEF Core, Program, Owned, Course, Untouched, Copying, Dropping, HeadOK, WantedKept,
       OnTarget, Lost, Bears, Now, Idle, InPlace, Accepted, Safe, Alone, Apart, CopyFree, DropFree
<1> QED BY <1>1, <1>2, <1>3 DEF FilesNext

LEMMA CoreInit == ASSUME FilesInit PROVE Core
<1>1. PICK f \in File : /\ dir = [n \in Name |-> IF n = Target /\ before = "before" THEN f ELSE NoFile]
                        /\ bytes = [g \in File |-> IF g = f THEN before ELSE "none"]
  BY DEF FilesInit
<1>2. todo = <<>> /\ call = "none" /\ wanted = before /\ exposed = FALSE /\ before \in {"none", "before"}
  BY DEF FilesInit
<1>3. f # NoFile /\ Target \in Name
  BY NameFacts, FileConstants
<1>4. \A n \in Name : n # Target => dir[n] = NoFile
  BY <1>1
<1>5. before = "before" => dir[Target] = f /\ bytes[f] = "before"
  BY <1>1, <1>3
<1>6. Program
  BY <1>2, NoPiece DEF Program
<1>7. Owned
  BY <1>4 DEF Owned, Shared
<1>8. OnTarget
  BY <1>2, <1>3, <1>5 DEF OnTarget, Lost, Bears
<1>9. Course
  <2>1. \A g \in File : Alone(g)
    BY <1>4, FileConstants DEF Alone
  <2> QED BY <1>2, <2>1 DEF Course
<1>10. Now.op = "idle"
  BY <1>2, IdleOp
<1>11. Untouched /\ Copying /\ Dropping /\ HeadOK
  BY <1>2, <1>8, <1>10 DEF Untouched, Copying, Dropping, HeadOK, CopyFree, DropFree, Early
<1>12. WantedKept
  BY <1>3, <1>8 DEF OnTarget, Lost, Bears, WantedKept
<1> QED BY <1>6, <1>7, <1>9, <1>11, <1>12 DEF Core

-----------------------------------------------------------------------------
(* The types, in parts.                                                    *)

DiskTypes  == dir \in [Name -> File \cup {NoFile}] /\ bytes \in [File -> Bytes]
KnownTypes == /\ before \in {"none", "before"} /\ seen \in File \cup {NoFile}
              /\ made \in [new : File \cup {NoFile}, backup : File \cup {NoFile}]
StageTypes == /\ call \in {"none", "publish", "withdraw", "restore", "finalize"}
              /\ answer \in {"none", "published", "failed", "restored", "finalized", "uncertain",
                             "incomplete", "dead"}
              /\ way \in {"open", "restore", "finalize"} /\ handle \in BOOLEAN /\ noted \in BOOLEAN
OwnerTypes == saves \in 0..SaveLimit /\ exposed \in BOOLEAN
LuckTypes  == faults \in 0..FaultLimit /\ smooth \in BOOLEAN /\ halted \in BOOLEAN
FewNames   == \A f \in File : Cardinality(NamesOf(dir, f)) <= 2
Types      == DiskTypes /\ KnownTypes /\ StageTypes /\ OwnerTypes /\ LuckTypes /\ FewNames
FileInv    == Types /\ Core

LEMMA TypesFacts ==
  /\ FilesTypeOK => Types
  /\ Types => FilesTyped
  /\ FileInv => FilesTypeOK /\ WantedKept
<1>1. FilesTypeOK => Types
  BY DEF FilesTypeOK, Types, DiskTypes, KnownTypes, StageTypes, OwnerTypes, LuckTypes, FewNames, Links, NamesOf
<1>2. Types => FilesTyped
  BY DEF FilesTyped, Types, DiskTypes, KnownTypes, StageTypes
<1>3. ASSUME FileInv PROVE FilesTypeOK
  <2>1. \A i \in DOMAIN todo : {todo[i].at, todo[i].to} \subseteq Name
    <3>1. todo \in Seq(AnyStep)
      BY <1>3 DEF FileInv, Core, Program, Piece
    <3>2. \A i \in DOMAIN todo : todo[i] \in AnyStep
      BY <3>1
    <3> QED BY <3>2 DEF AnyStep
  <2>2. wanted \in Bytes
    BY <1>3 DEF FileInv, Core, Course, Types, KnownTypes, Bytes
  <2>3. \A f \in File : Links(f) <= 2
    BY <1>3 DEF FileInv, Types, FewNames, Links, NamesOf
  <2> QED BY <1>3, <2>1, <2>2, <2>3 DEF FileInv, FilesTypeOK, Types, DiskTypes, KnownTypes, StageTypes, OwnerTypes, LuckTypes
<1> QED BY <1>1, <1>2, <1>3 DEF FileInv, Core

LEMMA LuckKept == ASSUME LuckTypes, NoFault \/ Fault PROVE LuckTypes'
<1>1. CASE NoFault
  BY <1>1 DEF NoFault, luck, LuckTypes
<1>2. CASE Fault
  <2>1. FaultLimit \in Nat
    BY FileConstants
  <2>2. faults' \in 0..FaultLimit
    BY <1>2, <2>1 DEF Fault, LuckTypes
  <2>3. smooth' \in BOOLEAN /\ halted' \in BOOLEAN
    BY <1>2 DEF Fault, LuckTypes
  <2> QED BY <2>2, <2>3 DEF LuckTypes
<1> QED BY <1>1, <1>2

LEMMA FailTypes == ASSUME StageTypes, NEW a \in {"failed", "incomplete"}, FailWith(a) PROVE StageTypes'
<1>1. handle' = handle /\ noted' = noted /\ way' = way
  BY DEF FailWith
<1>2. call' = call \/ call' = "withdraw"
  BY DEF FailWith
<1>3. answer' \in {a, "uncertain", "incomplete"}
  BY DEF FailWith
<1> QED BY <1>1, <1>2, <1>3 DEF StageTypes

LEMMA GoOnTypes == ASSUME StageTypes, UNCHANGED <<answer, stage>> PROVE StageTypes'
BY DEF StageTypes, stage

LEMMA SameTypes ==
  /\ DiskTypes /\ FewNames /\ dir' = dir /\ bytes' = bytes => DiskTypes' /\ FewNames'
  /\ KnownTypes /\ UNCHANGED known => KnownTypes'
  /\ OwnerTypes /\ UNCHANGED owner => OwnerTypes'
BY DEF DiskTypes, FewNames, NamesOf, KnownTypes, OwnerTypes, known, owner

LEMMA CheckTypes ==
  ASSUME Types, NEW STATE op, NEW STATE good, NEW STATE more, Check(op, good, more)
  PROVE  Types'
<1>1. (Do(more) \/ Fail) /\ (NoFault \/ Fault) /\ UNCHANGED <<disk, known, owner>>
  BY DEF Check
<1>2. StageTypes'
  BY <1>1, GoOnTypes, FailTypes DEF Do, Fail, Types
<1>3. LuckTypes'
  BY <1>1, LuckKept DEF Types
<1>4. DiskTypes' /\ FewNames' /\ KnownTypes' /\ OwnerTypes'
  BY <1>1, SameTypes DEF Types, disk
<1> QED BY <1>2, <1>3, <1>4 DEF Types

LEMMA ChecksTypes ==
  ASSUME Types,
         \/ Unchanged \/ VerifyTarget \/ Ready \/ Linked \/ Refuse \/ Collapse \/ Single \/ RemoveExact
         \/ ExactStep \/ Gone \/ Assess \/ Confirm \/ Restart
  PROVE  Types'
<1>1. CASE Unchanged \/ VerifyTarget \/ Ready \/ Linked
  BY <1>1, CheckTypes DEF Unchanged, VerifyTarget, Ready, Linked
<1>2. CASE Refuse
  BY <1>2, CheckTypes DEF Refuse
<1>3. CASE Collapse
  BY <1>3, CheckTypes DEF Collapse
<1>4. CASE Single \/ RemoveExact \/ ExactStep \/ Gone
  BY <1>4, CheckTypes DEF Single, RemoveExact, ExactStep, Gone
<1>5. CASE Assess \/ Confirm \/ Restart
  BY <1>5, CheckTypes DEF Assess, Confirm, Restart
<1> QED BY <1>1, <1>2, <1>3, <1>4, <1>5

(* Steps that leave the disk as it is.                                     *)
LEMMA QuietTypes ==
  ASSUME Types, Observe \/ NoteArtifact \/ Classify \/ Resume \/ AnswerCall \/ Moved
  PROVE  Types'
<1> USE DEF Types
<1>1. CASE Observe
  <2>1. seen' \in File \cup {NoFile} /\ UNCHANGED <<before, made>>
    BY <1>1, NameFacts DEF Observe, DiskTypes, KnownTypes
  <2>2. StageTypes'
    BY <1>1, GoOnTypes, FailTypes DEF Observe, Proceed, Fail
  <2>3. DiskTypes' /\ FewNames' /\ OwnerTypes' /\ LuckTypes'
    BY <1>1, SameTypes, LuckKept DEF Observe, disk
  <2> QED BY <2>1, <2>2, <2>3 DEF KnownTypes
<1>2. CASE NoteArtifact
  <2>1. StageTypes'
    <3>1. CASE Fail
      BY <3>1, FailTypes DEF Fail
    <3>2. CASE noted' = TRUE /\ UNCHANGED <<answer, call, handle, way>>
      BY <3>2 DEF StageTypes
    <3> QED BY <1>2, <3>1, <3>2 DEF NoteArtifact
  <2>2. DiskTypes' /\ FewNames' /\ OwnerTypes' /\ LuckTypes' /\ KnownTypes'
    BY <1>2, SameTypes, LuckKept DEF NoteArtifact, disk
  <2> QED BY <2>1, <2>2
<1>3. CASE Classify
  <2>1. StageTypes'
    <3>1. CASE Fail
      BY <3>1, FailTypes DEF Fail
    <3>2. CASE Proceed
      BY <3>2, GoOnTypes DEF Proceed
    <3>3. CASE call' = "withdraw" /\ answer' = "failed" /\ UNCHANGED <<handle, noted, way>>
      BY <3>3 DEF StageTypes
    <3> QED BY <1>3, <3>1, <3>2, <3>3 DEF Classify
  <2>2. DiskTypes' /\ FewNames' /\ OwnerTypes' /\ LuckTypes' /\ KnownTypes'
    BY <1>3, SameTypes, LuckKept DEF Classify, disk
  <2> QED BY <2>1, <2>2
<1>4. CASE Resume
  <2>1. StageTypes' /\ LuckTypes'
    BY <1>4 DEF Resume, StageTypes, LuckTypes, stage, luck
  <2>2. DiskTypes' /\ FewNames' /\ OwnerTypes' /\ KnownTypes'
    BY <1>4, SameTypes DEF Resume, disk
  <2> QED BY <2>1, <2>2
<1>5. CASE AnswerCall
  <2>1. PICK op \in {"published", "failed", "restored", "finalized"} : Ended(op)
    BY <1>5 DEF AnswerCall
  <2>2. answer' \in {op, answer} /\ handle' \in BOOLEAN /\ UNCHANGED <<call, noted, way>>
    <3>1. answer' \in {op, answer} /\ UNCHANGED <<call, noted, way>>
      BY <2>1 DEF Ended
    <3>2. handle' = (answer' = "published" \/ (handle /\ answer' # op))
      BY <2>1 DEF Ended
    <3> QED BY <3>1, <3>2
  <2>3. StageTypes' /\ LuckTypes'
    BY <2>1, <2>2 DEF Ended, StageTypes, LuckTypes, luck
  <2>4. DiskTypes' /\ FewNames' /\ OwnerTypes' /\ KnownTypes'
    BY <2>1, SameTypes DEF Ended, disk
  <2> QED BY <2>3, <2>4
<1>6. CASE Moved
  <2>2. CASE /\ NoFault /\ UNCHANGED <<disk, known, owner>>
             /\ Do(<<Step("unlink", Now.to, Now.at, Now.file, Now.bytes), Plain("refuse")>>)
    <3>1. StageTypes' /\ LuckTypes'
      BY <2>2, GoOnTypes, LuckKept DEF Do
    <3>2. DiskTypes' /\ FewNames' /\ OwnerTypes' /\ KnownTypes'
      BY <2>2, SameTypes DEF disk
    <3> QED BY <3>1, <3>2
  <2>3. CASE Check("moved", dir[Now.at] = NoFile /\ Exact(Now.to, Now.file, Now.bytes), <<>>)
    BY <2>3, CheckTypes
  <2> QED BY <1>6, <2>2, <2>3 DEF Moved
<1> QED BY <1>1, <1>2, <1>3, <1>4, <1>5, <1>6

(* Few names: of a file that had few, and got none; of a file alone.       *)
LEMMA FewStill ==
  ASSUME FewNames, NEW g,
         \A f \in File \ {g}, n \in Name : dir'[n] = f => dir[n] = f,
         g \in File => \E a, b : \A n \in Name : dir'[n] = g => n \in {a, b}
  PROVE  FewNames'
<1> SUFFICES ASSUME NEW f \in File PROVE Cardinality(NamesOf(dir, f))' <= 2
  BY DEF FewNames
<1> DEFINE d == dir'
<1>1. CASE f # g
  <2>1. NamesOf(d, f) \subseteq NamesOf(dir, f) /\ Cardinality(NamesOf(dir, f)) <= 2
    BY <1>1 DEF NamesOf, FewNames
  <2> HIDE DEF d
  <2>2. Cardinality(NamesOf(d, f)) <= 2
    BY <2>1, FewerLinks
  <2> QED BY <2>2 DEF d, NamesOf
<1>2. CASE f = g
  <2>1. PICK a, b : \A n \in Name : dir'[n] = f => n \in {a, b}
    BY <1>2
  <2>2. NamesOf(d, f) \subseteq {a, b}
    BY <2>1 DEF NamesOf
  <2> HIDE DEF d
  <2>3. Cardinality(NamesOf(d, f)) <= 2
    BY <2>2, TwoAtMost
  <2> QED BY <2>3 DEF d, NamesOf
<1> QED BY <1>1, <1>2

LEMMA LinkTypes ==
  ASSUME DiskTypes, FewNames, NEW n \in Name, Unused # {}, Link(n, Fresh), NEW b \in Bytes,
         bytes' = [bytes EXCEPT ![Fresh] = b]
  PROVE  DiskTypes' /\ FewNames'
<1>1. Fresh \in File /\ \A k \in Name : dir[k] # Fresh
  BY FreshFacts
<1>2. DiskTypes'
  BY <1>1 DEF DiskTypes, Link
<1>3. \A k \in Name : dir'[k] = IF k = n THEN Fresh ELSE dir[k]
  BY DEF Link, DiskTypes
<1>4. FewNames'
  BY <1>1, <1>3, FewStill
<1> QED BY <1>2, <1>4

LEMMA UnlinkTypes ==
  ASSUME DiskTypes, FewNames, NEW n \in Name, Unlinked(n), bytes' = bytes
  PROVE  DiskTypes' /\ FewNames'
<1>1. DiskTypes'
  BY DEF DiskTypes, Unlinked
<1>2. \A k \in Name : dir'[k] = IF k = n THEN NoFile ELSE dir[k]
  BY DEF Unlinked, DiskTypes
<1>3. NoFile \notin File
  BY FileConstants
<1>4. FewNames'
  BY <1>2, <1>3, FewStill
<1> QED BY <1>1, <1>4

LEMMA StepBytes ==
  ASSUME Core, todo # <<>>, Now.op \notin Plains
  PROVE  Now.at \in Name /\ Now.to \in Name /\ Now.bytes \in Bytes
BY NowFacts DEF Core, AnyStep, Bytes

LEMMA DiskTypesKept ==
  ASSUME Types, Core, Core', Create \/ WriteBytes \/ RenameOver \/ HardLink \/ Unlink
  PROVE  Types'
<1> USE DEF Types
<1>1. CASE Create
  <2>1. Now.op = "create" /\ UNCHANGED <<known, owner>> /\ (NoFault \/ Fault) /\ (Proceed \/ Fail)
    BY <1>1 DEF Create, Doing
  <2>2. todo # <<>>
    BY <2>1, Busy
  <2>3. Now.at \in Name
    BY <2>1, <2>2, StepBytes DEF Plains
  <2>4. StageTypes' /\ LuckTypes' /\ KnownTypes' /\ OwnerTypes'
    BY <2>1, GoOnTypes, FailTypes, LuckKept, SameTypes DEF Proceed, Fail
  <2>5. DiskTypes' /\ FewNames'
    <3>1. CASE UNCHANGED disk
      BY <3>1, SameTypes DEF disk
    <3>2. CASE Unused # {} /\ Link(Now.at, Fresh) /\ bytes' = [bytes EXCEPT ![Fresh] = "part"]
      BY <2>3, <3>2, LinkTypes DEF Bytes
    <3> QED BY <1>1, <3>1, <3>2 DEF Create
  <2> QED BY <2>4, <2>5
<1>2. CASE WriteBytes
  <2>1. Now.op = "write" /\ UNCHANGED <<before, seen, owner>> /\ (NoFault \/ Fault)
    BY <1>2 DEF WriteBytes, Doing
  <2>2. todo # <<>>
    BY <2>1, Busy
  <2>3. PICK n \in Name, m \in Name : n = Now.at /\ m = Now.to /\ Now.bytes \in Bytes
    BY <2>1, <2>2, StepBytes DEF Plains
  <2>4. LuckTypes' /\ OwnerTypes'
    BY <2>1, LuckKept, SameTypes
  <2>5. StageTypes'
    BY <1>2, GoOnTypes, FailTypes DEF WriteBytes, Fail
  <2>6. dir[n] \in File /\ Alone(dir[n])
    BY <2>1, <2>3 DEF Core, HeadOK, DiskTypes
  <2>7. KnownTypes'
    <3>1. CASE UNCHANGED made
      BY <2>1, <3>1 DEF KnownTypes
    <3>2. CASE Written(Now.at, dir[Now.at])
      BY <2>1, <2>3, <2>6, <3>2 DEF Written, KnownTypes
    <3> QED BY <1>2, <3>1, <3>2 DEF WriteBytes
  <2>8. DiskTypes' /\ FewNames'
    <3>1. CASE bytes' = [bytes EXCEPT ![dir[Now.at]] = Now.bytes] /\ UNCHANGED dir
      BY <2>3, <3>1 DEF DiskTypes, FewNames, NamesOf
    <3>2. CASE Unlinked(Now.at) /\ bytes' = bytes
      BY <2>3, <3>2, UnlinkTypes
    <3>3. CASE bytes' = bytes /\ dir' \in LeftBehind(Now.at, Now.to)
      <4>1. CASE dir' = dir
        BY <3>3, <4>1, SameTypes
      <4>2. CASE dir' = [dir EXCEPT ![n] = NoFile, ![m] = dir[n]]
        <5>1. DiskTypes'
          BY <3>3, <4>2 DEF DiskTypes
        <5>2. \A k \in Name : dir'[k] = IF k = m THEN dir[n] ELSE IF k = n THEN NoFile ELSE dir[k]
          BY <4>2, <2>6 DEF DiskTypes
        <5>3. NoFile \notin File
          BY FileConstants
        <5>4. \A f \in File \ {dir[n]}, k \in Name : dir'[k] = f => dir[k] = f
          BY <5>2, <5>3
        <5>5. \A k \in Name : dir'[k] = dir[n] => k \in {n, m}
          BY <5>2, <2>6 DEF Alone
        <5>6. FewNames'
          BY <5>4, <5>5, FewStill
        <5> QED BY <5>1, <5>6
      <4> QED BY <2>3, <3>3, <4>1, <4>2 DEF LeftBehind
    <3> QED BY <1>2, <3>1, <3>2, <3>3 DEF WriteBytes
  <2> QED BY <2>4, <2>5, <2>7, <2>8
<1>3. CASE RenameOver
  <2>1. Now.op = "rename" /\ UNCHANGED <<bytes, known, owner>> /\ (NoFault \/ Fault) /\ Proceed /\ call' = call
    BY <1>3 DEF RenameOver, Doing, Proceed, stage
  <2>2. StageTypes' /\ LuckTypes' /\ KnownTypes' /\ OwnerTypes'
    BY <2>1, GoOnTypes, LuckKept, SameTypes DEF Proceed
  <2>3. DiskTypes'
    <3>1. dir' = dir \/ dir' = [dir EXCEPT ![Target] = dir[Tmp], ![Tmp] = NoFile]
      BY <1>3 DEF RenameOver
    <3> QED BY <2>1, <3>1, NameFacts DEF DiskTypes
  <2>4. todo # <<>>
    BY <2>1, Busy
  <2>5. call = "publish"
    BY <2>1, <2>4, NowFacts DEF Core, StepFits, PubOps, Early, Copies
  <2>6. \A f \in File : Alone(f)'
    BY <2>1, <2>5 DEF Core, Course
  <2>7. FewNames'
    <3> SUFFICES ASSUME NEW f \in File PROVE Cardinality(NamesOf(dir, f))' <= 2
      BY DEF FewNames
    <3> DEFINE d == dir'
    <3>1. \A k, l \in Name : d[k] = f /\ d[l] = f => k = l
      BY <2>6 DEF Alone
    <3> HIDE DEF d
    <3>2. Cardinality(NamesOf(d, f)) <= 2
      BY <3>1, LonelyFew
    <3> QED BY <3>2 DEF d, NamesOf
  <2> QED BY <2>2, <2>3, <2>7
<1>4. CASE HardLink
  <2>1. Now.op = "link" /\ UNCHANGED <<bytes, known, owner>> /\ (NoFault \/ Fault) /\ Proceed
    BY <1>4 DEF HardLink, Doing
  <2>2. StageTypes' /\ LuckTypes' /\ KnownTypes' /\ OwnerTypes'
    BY <2>1, GoOnTypes, LuckKept, SameTypes DEF Proceed
  <2>3. todo # <<>>
    BY <2>1, Busy
  <2>4. PICK n \in Name, m \in Name : n = Now.at /\ m = Now.to
    BY <2>1, <2>3, StepBytes DEF Plains
  <2>5. CASE dir' = dir
    BY <2>1, <2>2, <2>5, SameTypes
  <2>6. CASE dir' = [dir EXCEPT ![m] = dir[n]]
    <3>1. DiskTypes'
      BY <2>1, <2>6 DEF DiskTypes
    <3>2. \A k \in Name : dir'[k] = IF k = m THEN dir[n] ELSE dir[k]
      BY <2>6 DEF DiskTypes
    <3>3. dir[n] = NoFile \/ Alone(dir[n])
      BY <2>1, <2>4 DEF Core, HeadOK
    <3>4. \A f \in File \ {dir[n]}, k \in Name : dir'[k] = f => dir[k] = f
      BY <3>2
    <3>5. dir[n] \in File => \A k \in Name : dir'[k] = dir[n] => k \in {n, m}
      BY <3>2, <3>3, FileConstants DEF Alone
    <3>6. FewNames'
      BY <3>4, <3>5, FewStill
    <3> QED BY <2>2, <3>1, <3>6
  <2> QED BY <1>4, <2>4, <2>5, <2>6 DEF HardLink, Link
<1>5. CASE Unlink
  <2>1. Now.op = "unlink" /\ UNCHANGED <<bytes, known, owner>> /\ (NoFault \/ Fault) /\ Proceed
    BY <1>5 DEF Unlink, Doing
  <2>2. StageTypes' /\ LuckTypes' /\ KnownTypes' /\ OwnerTypes'
    BY <2>1, GoOnTypes, LuckKept, SameTypes DEF Proceed
  <2>3. todo # <<>>
    BY <2>1, Busy
  <2>4. Now.at \in Name
    BY <2>1, <2>3, StepBytes DEF Plains
  <2>5. DiskTypes' /\ FewNames'
    BY <1>5, <2>1, <2>4, UnlinkTypes, SameTypes DEF Unlink
  <2> QED BY <2>2, <2>5
<1> QED BY <1>1, <1>2, <1>3, <1>4, <1>5

LEMMA CallTypes ==
  ASSUME Types, Core, Publish \/ Undo \/ Finish \/ Die
  PROVE  Types'
<1> USE DEF Types
<1>1. CASE Die
  <2>1. faults' \in 0..FaultLimit
    BY <1>1, FileConstants DEF Die, LuckTypes
  <2>2. LuckTypes'
    BY <1>1, <2>1 DEF Die, LuckTypes
  <2>3. StageTypes'
    BY <1>1 DEF Die, StageTypes
  <2>4. DiskTypes' /\ FewNames' /\ OwnerTypes' /\ KnownTypes'
    BY <1>1, SameTypes DEF Die, disk
  <2> QED BY <2>2, <2>3, <2>4
<1>2. CASE Publish \/ Undo \/ Finish
  <2>1. /\ call' \in {"publish", "restore", "finalize"} /\ answer' = "none" /\ way' \in {way, "restore", "finalize"}
        /\ smooth' = TRUE /\ UNCHANGED <<disk, known, handle, noted, exposed, saves, faults, halted>>
    BY <1>2 DEF Publish, Undo, Finish, Begin
  <2>2. DiskTypes' /\ FewNames' /\ KnownTypes'
    BY <2>1, SameTypes DEF disk
  <2>3. StageTypes' /\ OwnerTypes' /\ LuckTypes'
    BY <2>1 DEF StageTypes, OwnerTypes, LuckTypes
  <2> QED BY <2>2, <2>3
<1> QED BY <1>1, <1>2

LEMMA SaveTypes == ASSUME Types, Core, Save PROVE Types'
<1> USE DEF Types
<1>1. saves' \in 0..SaveLimit
  BY FileConstants DEF Save, OwnerTypes
<1>2. exposed' \in BOOLEAN
  BY DEF Save, InWindow, Unwatched
<1>3. KnownTypes' /\ StageTypes' /\ LuckTypes'
  BY DEF Save, KnownTypes, StageTypes, LuckTypes, known, stage, luck
<1>4. DiskTypes' /\ FewNames'
  <2>1. CASE Unused # {} /\ Link(Target, Fresh) /\ wanted' \in {"own", before} \ {"none"} /\ bytes' = [bytes EXCEPT ![Fresh] = wanted']
    <3>1. PICK b \in Bytes : b = wanted'
      BY <2>1 DEF KnownTypes, Bytes
    <3> QED BY <2>1, <3>1, LinkTypes, NameFacts
  <2>2. CASE dir[Target] # NoFile /\ bytes' = [bytes EXCEPT ![dir[Target]] = "own"] /\ UNCHANGED dir
    BY <2>2 DEF DiskTypes, FewNames, NamesOf, Bytes
  <2>3. CASE Unlinked(Target) /\ UNCHANGED bytes
    BY <2>3, UnlinkTypes, NameFacts
  <2> QED BY <2>1, <2>2, <2>3 DEF Save
<1> QED BY <1>1, <1>2, <1>3, <1>4 DEF OwnerTypes

LEMMA FileInvKept == ASSUME FileInv, [FilesNext]_fileVars PROVE FileInv'
<1>1. FilesTyped /\ Core /\ Types
  BY TypesFacts DEF FileInv
<1>2. Core'
  BY <1>1, CoreKept
<1>3. CASE UNCHANGED fileVars
  <2>1. UNCHANGED <<dir, bytes, known, answer, stage, owner, luck>>
    BY <1>3 DEF fileVars, disk
  <2> QED BY <1>1, <1>2, <2>1, SameTypes, GoOnTypes DEF FileInv, Types, LuckTypes, luck
<1>4. CASE FileStep
  BY <1>1, <1>2, <1>4, ChecksTypes, QuietTypes, DiskTypesKept DEF FileStep, FileInv
<1>5. CASE Publish \/ Undo \/ Finish \/ Die \/ Save
  BY <1>1, <1>2, <1>5, CallTypes, SaveTypes DEF FileInv
<1> QED BY <1>3, <1>4, <1>5 DEF FilesNext

LEMMA FileInvInit == ASSUME FilesInit PROVE FileInv
<1>1. PICK f \in File : /\ dir = [n \in Name |-> IF n = Target /\ before = "before" THEN f ELSE NoFile]
                        /\ bytes = [g \in File |-> IF g = f THEN before ELSE "none"]
  BY DEF FilesInit
<1>2. before \in {"none", "before"}
  BY DEF FilesInit
<1>3. DiskTypes
  BY <1>1, <1>2 DEF DiskTypes, Bytes
<1>4. FewNames
  <2> SUFFICES ASSUME NEW g \in File PROVE Cardinality(NamesOf(dir, g)) <= 2
    BY DEF FewNames
  <2>1. NamesOf(dir, g) \subseteq {Target, Target}
    BY <1>1, FileConstants DEF NamesOf
  <2> QED BY <2>1, TwoAtMost
<1>5. KnownTypes /\ StageTypes
  BY <1>2 DEF FilesInit, KnownTypes, StageTypes
<1>6. OwnerTypes /\ LuckTypes
  <2>1. 0 \in 0..SaveLimit /\ 0 \in 0..FaultLimit
    BY FileConstants
  <2> QED BY <2>1 DEF FilesInit, OwnerTypes, LuckTypes
<1> QED BY <1>3, <1>4, <1>5, <1>6, CoreInit DEF FileInv, Types

(* In every reachable state of a publication and its restoration, whatever  *)
(* calls fail, processes die or the owner writes: every name and file has   *)
(* its type, no file has more than two names, what is left to do is one of  *)
(* the sequences of steps the code has, and what the owner last wrote is    *)
(* under a name that the step to come leaves alone.                         *)
THEOREM FilesSafe == FilesSpec => []FileInv
<1>1. FilesInit => FileInv
  BY FileInvInit
<1>2. FileInv /\ [FilesNext]_fileVars => FileInv'
  BY FileInvKept
<1> QED BY <1>1, <1>2, PTL DEF FilesSpec

(* Every variable has its type; no hard link or rename of the code gives a  *)
(* file a third name.                                                       *)
THEOREM FilesTypeCorrect == FilesSpec => []FilesTypeOK
BY FilesSafe, TypesFacts, PTL

(* What the owner of a configuration file wrote last is somewhere on disk,  *)
(* at whatever step of publishing, restoring or finalizing he wrote it and  *)
(* whatever failed or died since (publish-, restore- and                    *)
(* finalizeIntegrationFileTransactionClaimed, and restore- and              *)
(* finalizeIntegrationFileFromRecovery in another process), unless it was   *)
(* in one of the two windows in which the code does not look.               *)
THEOREM OwnersWorkStays == FilesSpec => []WantedKept
BY FilesSafe, TypesFacts, PTL


-----------------------------------------------------------------------------
(* The plan store (ReviewedPlans).                                         *)

LEMMA PlanTypeInit == Init => TypeOK
  BY PlanConstants DEF Init, TypeOK, PC, PrivateKinds

LEMMA LeaveKeepsType ==
  ASSUME NEW p \in Proc, TypeOK, Leave(p)
  PROVE  /\ pc' \in [Proc -> PC]
         /\ name' \in [Proc -> PrivateKinds \cup {"none"}]
         /\ file' \in [Proc -> Ver \cup {NoVer}]
         /\ residue' \subseteq [kind : PrivateKinds, ver : Ver]
         /\ has' \in [Proc -> Ver \cup {NoVer}]
         /\ expiredAt' \in [Proc -> SUBSET Ver]
         /\ ancientAt' \in [Proc -> SUBSET Ver]
         /\ \A q \in Proc : name'[q] = "none" => file'[q] = NoVer
         /\ \A q \in Proc : pc'[q] = "idle" => name'[q] = "none"
<1>1. residue' \subseteq [kind : PrivateKinds, ver : Ver]
  <2> SUFFICES ASSUME file[p] # NoVer PROVE Private(p) \in [kind : PrivateKinds, ver : Ver]
    BY DEF TypeOK, Leave, Private
  <2> QED
    BY DEF TypeOK, Private
<1> QED
  BY <1>1 DEF TypeOK, Leave, Forget, RemoveMine, Goto, PC

LEMMA RestoreKeepsType ==
  ASSUME NEW p \in Proc, NEW label \in PC \ {"idle"}, TypeOK,
         RestoreOwned(p, label), UNCHANGED <<clock, history, crashes>>
  PROVE  TypeOK'
<1>1. CASE Leave(p) /\ UNCHANGED pending
  BY <1>1, LeaveKeepsType DEF TypeOK, clock, history
<1>2. CASE file[p] # NoVer /\ pending = NoVer
  BY <1>2 DEF RestoreOwned, Goto, TypeOK, clock, history
<1> QED
  BY <1>1, <1>2 DEF RestoreOwned

LEMMA PlanTypeStep == TypeOK /\ [Next]_vars => TypeOK'
<1> SUFFICES ASSUME TypeOK, [Next]_vars PROVE TypeOK'
  OBVIOUS
<1> USE PlanConstants DEF clock, history
<1>1. CASE UNCHANGED vars
  BY <1>1 DEF TypeOK, vars
<1>2. CASE Expire \/ Age
  BY <1>2 DEF Expire, Age, TypeOK
<1>3. ASSUME NEW p \in Proc,
             Start(p) \/ WriteOn(p) \/ ClaimOn(p) \/ DiscardOn(p) \/ CleanOn(p) \/ Crash(p)
      PROVE  TypeOK'
  <2>1. CASE Start(p)
    BY <2>1 DEF Start, WriteStart, ClaimStart, DiscardStart, CleanStart, TypeOK, Goto, PC,
       WriteAt, ClaimAt, DiscardAt, CleanAt, PrivateKinds
  <2>2. CASE WriteOn(p)
    BY <2>2 DEF WriteOn, WriteLink, WriteDrop, RemoveMine, Forget, TypeOK, Goto, PC, WriteAt
  <2>3. CASE ClaimTake(p) \/ DiscardTake(p)
    <3>1. CASE Leave(p) /\ UNCHANGED <<pending, consumed>>
      BY <2>3, <3>1, LeaveKeepsType DEF ClaimTake, DiscardTake, TypeOK
    <3>2. CASE TakePending(p, "claimed") \/ TakePending(p, "cleanup")
      BY <2>3, <3>2 DEF ClaimTake, DiscardTake, TakePending, TypeOK, Goto, PC, ClaimAt,
         DiscardAt, PrivateKinds
    <3> QED
      BY <2>3, <3>1, <3>2 DEF ClaimTake, DiscardTake
  <2>4. CASE ClaimRead(p)
    BY <2>4 DEF ClaimRead, TypeOK, Goto, PC, ClaimAt
  <2>5. CASE ClaimValidate(p)
    BY <2>5 DEF ClaimValidate, TypeOK, Goto, PC, ClaimAt
  <2>6. CASE ClaimReturn(p)
    <3>1. uses' \in [Ver -> Nat]
      <4>1. \A v \in Ver : uses[v] + 1 \in Nat
        BY DEF TypeOK
      <4> QED
        BY <2>6, <4>1 DEF ClaimReturn, TypeOK
    <3> QED
      BY <2>6, <3>1 DEF ClaimReturn, RemoveMine, Forget, TypeOK, Goto, PC
  <2>7. CASE ClaimDrop(p) \/ ClaimUnlink(p) \/ DiscardDrop(p)
    BY <2>7 DEF ClaimDrop, ClaimUnlink, DiscardDrop, RemoveMine, Forget, TypeOK, Goto, PC
  <2>8. CASE ClaimRestore(p)
    <3> HIDE DEF clock, history
    <3>1. "X.unlink" \in PC \ {"idle"}
      BY DEF PC, ClaimAt
    <3> QED
      BY <2>8, <3>1, RestoreKeepsType DEF ClaimRestore
  <2>9. CASE CleanEnd(p) \/ CleanConflict(p) \/ Crash(p)
    BY <2>9, LeaveKeepsType DEF CleanEnd, CleanConflict, Crash, TypeOK
  <2>10. CASE CleanPending(p) \/ CleanAgain(p)
    BY <2>10 DEF CleanPending, CleanAgain, TypeOK, Goto, PC, CleanAt
  <2>11. CASE CleanTake(p)
    BY <2>11 DEF CleanTake, TakePending, TypeOK, Goto, PC, CleanAt, PrivateKinds
  <2>12. CASE CleanDrop(p) \/ CleanUnlink(p)
    BY <2>12 DEF CleanDrop, CleanUnlink, RemoveMine, TypeOK, Goto, PC, CleanAt
  <2>13. CASE CleanResidue(p)
    BY <2>13 DEF CleanResidue, TypeOK
  <2>14. CASE CleanRunning(p)
    BY <2>14 DEF CleanRunning, TypeOK
  <2>15. CASE CleanRestore(p)
    <3> HIDE DEF clock, history
    <3>1. "C.unlink" \in PC \ {"idle"}
      BY DEF PC, CleanAt
    <3> QED
      BY <2>15, <3>1, RestoreKeepsType DEF CleanRestore
  <2> QED
    BY <1>3, <2>1, <2>2, <2>3, <2>4, <2>5, <2>6, <2>7, <2>8, <2>9, <2>10, <2>11, <2>12,
       <2>13, <2>14, <2>15 DEF ClaimOn, DiscardOn, CleanOn
<1> QED
  BY <1>1, <1>2, <1>3 DEF Next

(* Every reachable state of the store is well typed: a call that is over    *)
(* owns no private file.                                                    *)
THEOREM PlansTypeCorrect == Spec => []TypeOK
  BY PlanTypeInit, PlanTypeStep, PTL DEF Spec

-----------------------------------------------------------------------------
(* One step of call p moves the right to return a version: from the pending *)
(* file or from a new file to the call, from the call to the pending file,  *)
(* or from either to "spent"; it never copies it.                           *)
TicketMoves(p) ==
    /\ \A q \in Proc \ {p} : /\ pc'[q] = pc[q] /\ has'[q] = has[q]
                             /\ file'[q] \in {file[q], NoVer}
    /\ \A v \in Ver : Ticket(p, v)' =>
         /\ v # pending' /\ v \in written'
         /\ Ticket(p, v) \/ pending = v \/ v \notin written
    /\ pending' \in Ver => pending' = pending \/ Ticket(p, pending')
    /\ \A v \in Ver : Spent(v)' =>
         \/ Spent(v)
         \/ Ticket(p, v) /\ ~Ticket(p, v)' /\ pending' # v
         \/ pending = v /\ ~Ticket(p, v)' /\ pending' # v
    /\ written \subseteq written'

(* The call keeps what it has read beside what it holds, and returns or     *)
(* refuses only a version nobody has returned or refused.                   *)
Careful(p) ==
    /\ pc'[p] \in {"X.validate", "X.return", "X.restore"} =>
         has'[p] \in Ver /\ file'[p] \in {has'[p], NoVer}
    /\ AtMostOnce'

LEMMA MovesKeepTickets ==
  ASSUME NEW p \in Proc, TypeOK, TypeOK', TicketInv, TicketMoves(p), Careful(p)
  PROVE  TicketInv'
<1>1. \A q \in Proc \ {p}, v \in Ver : Ticket(q, v)' => Ticket(q, v)
  BY PlanConstants DEF TicketMoves, Ticket
<1>2. \A v \in Ver, q, r \in Proc : Ticket(q, v)' /\ Ticket(r, v)' => q = r
  BY <1>1 DEF TicketMoves, TicketInv
<1>3. ASSUME NEW v \in Ver, NEW q \in Proc, Ticket(q, v)'
      PROVE  (pending # v)' /\ ~Spent(v)' /\ v \in written'
  <2>1. CASE q = p
    BY <1>3, <2>1 DEF TicketMoves, TicketInv
  <2>2. CASE q # p
    BY <1>1, <1>3, <2>2 DEF TicketMoves, TicketInv
  <2> QED
    BY <2>1, <2>2
<1>4. pending' \in Ver => ~Spent(pending)' /\ pending' \in written'
  BY DEF TicketMoves, TicketInv
<1>5. \A v \in Ver : Spent(v)' => v \in written'
  BY DEF TicketMoves, TicketInv
<1>6. \A q \in Proc : pc'[q] \in {"X.validate", "X.return", "X.restore"} =>
        has'[q] \in Ver /\ file'[q] \in {has'[q], NoVer}
  BY DEF TicketMoves, Careful, TicketInv
<1> QED
  BY <1>2, <1>3, <1>4, <1>5, <1>6 DEF TicketInv, Careful

LEMMA TicketInit == Init => TicketInv
  BY PlanConstants DEF Init, TicketInv, Ticket, Spent, AtMostOnce

LEMMA TicketStep == TypeOK /\ TicketInv /\ [Next]_vars => TicketInv'
<1> SUFFICES ASSUME TypeOK, TicketInv, [Next]_vars PROVE TicketInv'
  OBVIOUS
<1>0. TypeOK'
  BY PlanTypeStep
<1> USE PlanConstants DEF clock, history
<1>1. CASE UNCHANGED vars
  BY <1>1 DEF TicketInv, Ticket, Spent, AtMostOnce, vars
<1>2. CASE Expire \/ Age
  BY <1>2 DEF Expire, Age, TicketInv, Ticket, Spent, AtMostOnce
<1>3. ASSUME NEW p \in Proc,
             Start(p) \/ WriteOn(p) \/ ClaimOn(p) \/ DiscardOn(p) \/ CleanOn(p) \/ Crash(p)
      PROVE  TicketInv'
  <2> SUFFICES TicketMoves(p) /\ Careful(p)
    BY <1>0, MovesKeepTickets
  <2> USE DEF TicketMoves, Careful, Ticket, Spent, AtMostOnce, TicketInv, Goto
  <2>1. CASE WriteStart(p)
    BY <2>1 DEF WriteStart, TypeOK
  <2>2. CASE ClaimStart(p) \/ DiscardStart(p) \/ CleanStart(p)
    BY <2>2 DEF ClaimStart, DiscardStart, CleanStart, TypeOK
  <2>3. CASE WriteLink(p)
    BY <2>3 DEF WriteLink, TypeOK
  <2>4. CASE WriteDrop(p) \/ ClaimDrop(p) \/ ClaimUnlink(p) \/ DiscardDrop(p)
    BY <2>4 DEF WriteDrop, ClaimDrop, ClaimUnlink, DiscardDrop, RemoveMine, Forget, TypeOK
  <2>5. CASE ClaimTake(p)
    BY <2>5 DEF ClaimTake, TakePending, Leave, RemoveMine, Forget, TypeOK
  <2>6. CASE ClaimRead(p)
    BY <2>6 DEF ClaimRead, TypeOK
  <2>7. CASE ClaimValidate(p)
    BY <2>7 DEF ClaimValidate, TypeOK
  <2>8. CASE ClaimReturn(p)
    BY <2>8 DEF ClaimReturn, RemoveMine, Forget, TypeOK
  <2>9. CASE ClaimRestore(p)
    BY <2>9 DEF ClaimRestore, RestoreOwned, Leave, RemoveMine, Forget, TypeOK
  <2>10. CASE CleanRestore(p)
    BY <2>10 DEF CleanRestore, RestoreOwned, Leave, RemoveMine, Forget, TypeOK
  <2>11. CASE DiscardTake(p)
    BY <2>11 DEF DiscardTake, TakePending, Leave, RemoveMine, Forget, TypeOK
  <2>12. CASE CleanEnd(p) \/ CleanConflict(p) \/ Crash(p)
    BY <2>12 DEF CleanEnd, CleanConflict, Crash, Leave, RemoveMine, Forget, TypeOK
  <2>13. CASE CleanPending(p) \/ CleanAgain(p)
    BY <2>13 DEF CleanPending, CleanAgain, TypeOK
  <2>14. CASE CleanTake(p)
    BY <2>14 DEF CleanTake, TakePending, TypeOK
  <2>15. CASE CleanDrop(p) \/ CleanUnlink(p)
    BY <2>15 DEF CleanDrop, CleanUnlink, RemoveMine, TypeOK
  <2>16. CASE CleanResidue(p) \/ CleanRunning(p)
    BY <2>16 DEF CleanResidue, CleanRunning, TypeOK
  <2> QED
    BY <1>3, <2>1, <2>2, <2>3, <2>4, <2>5, <2>6, <2>7, <2>8, <2>9, <2>10, <2>11, <2>12,
       <2>13, <2>14, <2>15, <2>16 DEF Start, WriteOn, ClaimOn, DiscardOn, CleanOn
<1> QED
  BY <1>1, <1>2, <1>3 DEF Next

(* The right to return a version is held by one call, or by the pending     *)
(* file, or by nobody, in every reachable state.                            *)
THEOREM TicketHolds == Spec => []TicketInv
<1>1. TypeOK /\ TicketInv /\ [Next]_vars => TypeOK' /\ TicketInv'
  BY PlanTypeStep, TicketStep
<1> QED
  BY PlanTypeInit, TicketInit, <1>1, PTL DEF Spec

(* A reviewed plan is returned by at most one claim ("a successful claim is *)
(* the single-use boundary"), for every number of concurrent calls, crashes *)
(* and rewrites of the plan.                                                *)
THEOREM AtMostOnceHolds == Spec => []AtMostOnce
<1>1. TicketInv => AtMostOnce
  BY DEF TicketInv
<1> QED
  BY TicketHolds, <1>1, PTL
-----------------------------------------------------------------------------
(* A plan that is not pending is with a call that will still decide about   *)
(* it; calls at other places hold a second link of it, or one they may      *)
(* remove.                                                                  *)
Deciding == {"W.link", "X.read", "X.validate", "X.return", "X.restore", "C.again",
             "C.restore"}

PlanKept(v) ==
    \/ uses[v] = 1 \/ pending = v
    \/ \E p \in Proc : pc[p] \in Deciding /\ file[p] = v
    \/ \E f \in residue : f.ver = v

(* What a call removes without a further look may go.                       *)
MayGo ==
    /\ \A p \in Proc : expiredAt[p] \subseteq expired /\ ancientAt[p] \subseteq ancient
    /\ \A p \in Proc : pc[p] \in {"X.drop", "D.drop"} => file[p] \in consumed \cup {NoVer}
    /\ \A p \in Proc : pc[p] = "C.drop" => file[p] \in expired \cup {NoVer}

Live == written \ (expired \cup consumed \cup ancient)

KeepInv == MayGo /\ \A v \in Live : PlanKept(v)

LEMMA KeepInit == Init => KeepInv
  BY PlanConstants DEF Init, KeepInv, MayGo, Live

LEMMA MayGoStep == TypeOK /\ MayGo /\ [Next]_vars => MayGo'
<1> SUFFICES ASSUME TypeOK, MayGo, [Next]_vars PROVE MayGo'
  OBVIOUS
<1> USE PlanConstants DEF clock, history, MayGo
<1>1. CASE UNCHANGED vars
  BY <1>1 DEF vars
<1>2. CASE Expire \/ Age
  BY <1>2 DEF Expire, Age
<1>3. ASSUME NEW p \in Proc,
             Start(p) \/ WriteOn(p) \/ ClaimOn(p) \/ DiscardOn(p) \/ CleanOn(p) \/ Crash(p)
      PROVE  MayGo'
  <2> USE DEF TypeOK, Goto
  <2>1. CASE Start(p)
    BY <2>1 DEF Start, WriteStart, ClaimStart, DiscardStart, CleanStart
  <2>2. CASE WriteOn(p)
    BY <2>2 DEF WriteOn, WriteLink, WriteDrop, RemoveMine, Forget
  <2>3. CASE ClaimTake(p) \/ DiscardTake(p)
    BY <2>3 DEF ClaimTake, DiscardTake, TakePending, Leave, RemoveMine, Forget
  <2>4. CASE ClaimRead(p) \/ ClaimValidate(p)
    BY <2>4 DEF ClaimRead, ClaimValidate
  <2>5. CASE ClaimReturn(p) \/ ClaimDrop(p) \/ ClaimUnlink(p) \/ DiscardDrop(p)
    BY <2>5 DEF ClaimReturn, ClaimDrop, ClaimUnlink, DiscardDrop, RemoveMine, Forget
  <2>6. CASE ClaimRestore(p) \/ CleanRestore(p)
    BY <2>6 DEF ClaimRestore, CleanRestore, RestoreOwned, Leave, RemoveMine, Forget
  <2>7. CASE CleanEnd(p) \/ CleanConflict(p) \/ Crash(p)
    BY <2>7 DEF CleanEnd, CleanConflict, Crash, Leave, RemoveMine, Forget
  <2>8. CASE CleanPending(p) \/ CleanTake(p) \/ CleanAgain(p)
    BY <2>8 DEF CleanPending, CleanTake, CleanAgain, TakePending
  <2>9. CASE CleanDrop(p) \/ CleanUnlink(p) \/ CleanResidue(p) \/ CleanRunning(p)
    BY <2>9 DEF CleanDrop, CleanUnlink, CleanResidue, CleanRunning, RemoveMine
  <2> QED
    BY <1>3, <2>1, <2>2, <2>3, <2>4, <2>5, <2>6, <2>7, <2>8, <2>9 DEF ClaimOn, DiscardOn, CleanOn
<1> QED
  BY <1>1, <1>2, <1>3 DEF Next

(* A call that ends leaves its private file in the directory.               *)
LEMMA LeaveKeeps ==
  ASSUME NEW p \in Proc, NEW v \in Ver, TypeOK, PlanKept(v), Leave(p), UNCHANGED <<pending, uses>>
  PROVE  PlanKept(v)'
<1>1. CASE file[p] = v
  <2>1. Private(p) \in residue' /\ Private(p).ver = v
    BY <1>1, PlanConstants DEF Leave, Private
  <2> QED
    BY <2>1 DEF PlanKept
<1>2. CASE file[p] # v
  BY <1>2 DEF Leave, RemoveMine, Goto, PlanKept, TypeOK
<1> QED
  BY <1>1, <1>2

LEMMA KeptStep ==
  ASSUME TypeOK, TicketInv, KeepInv, [Next]_vars, NEW v \in Live'
  PROVE  PlanKept(v)'
<1> USE PlanConstants DEF clock, history, Live
<1>1. CASE UNCHANGED vars
  BY <1>1 DEF vars, KeepInv, PlanKept
<1>2. CASE Expire \/ Age
  BY <1>2 DEF Expire, Age, KeepInv, PlanKept
<1>3. ASSUME NEW p \in Proc,
             Start(p) \/ WriteOn(p) \/ ClaimOn(p) \/ DiscardOn(p) \/ CleanOn(p) \/ Crash(p)
      PROVE  PlanKept(v)'
  <2>1. CASE WriteStart(p)
    BY <2>1 DEF WriteStart, KeepInv, PlanKept, Deciding, Goto, TypeOK
  <2>2. (v \in Live /\ PlanKept(v)) \/ WriteStart(p)
    BY <1>3 DEF Start, WriteOn, ClaimOn, DiscardOn, CleanOn, ClaimStart, DiscardStart, CleanStart,
       WriteLink, WriteDrop, ClaimTake, ClaimRead, ClaimValidate, ClaimReturn, ClaimDrop,
       ClaimRestore, ClaimUnlink, DiscardTake, DiscardDrop, CleanPending, CleanTake,
       CleanAgain, CleanDrop, CleanRestore, CleanUnlink, CleanResidue, CleanRunning,
       CleanConflict, CleanEnd, Crash, KeepInv
  <2>3. CASE v \in Live /\ PlanKept(v)
    <3> USE <2>3 DEF Goto, Deciding
    <3>0. v \in Ver
      BY DEF TypeOK
    <3>1. CASE ClaimStart(p) \/ DiscardStart(p) \/ CleanStart(p)
      BY <3>1 DEF ClaimStart, DiscardStart, CleanStart, PlanKept, TypeOK
    <3>2. CASE WriteLink(p)
      BY <3>2 DEF WriteLink, PlanKept, TypeOK
    <3>3. CASE WriteDrop(p) \/ ClaimDrop(p) \/ ClaimUnlink(p) \/ DiscardDrop(p)
      BY <3>3 DEF WriteDrop, ClaimDrop, ClaimUnlink, DiscardDrop, RemoveMine, PlanKept, TypeOK
    <3>4. CASE TakePending(p, "claimed") /\ pc[p] = "X.take" /\ pc' = [pc EXCEPT ![p] = "X.read"]
               /\ UNCHANGED <<residue, uses>>
      BY <3>4 DEF TakePending, PlanKept, TypeOK
    <3>5. CASE TakePending(p, "cleanup") /\ DiscardTake(p)
      BY <3>5 DEF TakePending, DiscardTake, PlanKept, TypeOK
    <3>6. CASE CleanTake(p)
      BY <3>6 DEF TakePending, CleanTake, PlanKept, TypeOK
    <3>7. CASE Leave(p) /\ UNCHANGED <<pending, uses>>
      BY <3>0, <3>7, LeaveKeeps
    <3>8. CASE ClaimRead(p) \/ ClaimValidate(p)
      BY <3>8 DEF ClaimRead, ClaimValidate, PlanKept, TypeOK
    <3>9. CASE ClaimReturn(p)
      <4>1. has[p] \in Ver /\ uses[has[p]] = 0 /\ file[p] \in {has[p], NoVer}
        BY <3>9 DEF ClaimReturn, TicketInv, Ticket, Spent
      <4> QED
        BY <3>9, <4>1, <3>0 DEF ClaimReturn, RemoveMine, PlanKept, TypeOK
    <3>10. CASE (ClaimRestore(p) \/ CleanRestore(p)) /\ file[p] # NoVer /\ pending = NoVer
      BY <3>10 DEF ClaimRestore, CleanRestore, RestoreOwned, PlanKept, TypeOK
    <3>11. CASE CleanPending(p) \/ CleanAgain(p)
      BY <3>11 DEF CleanPending, CleanAgain, KeepInv, MayGo, PlanKept, TypeOK
    <3>12. CASE CleanDrop(p) \/ CleanUnlink(p)
      BY <3>12 DEF CleanDrop, CleanUnlink, RemoveMine, PlanKept, TypeOK
    <3>13. CASE CleanResidue(p) \/ CleanRunning(p)
      BY <3>13 DEF CleanResidue, CleanRunning, Disposable, Private, KeepInv, MayGo, PlanKept,
         TypeOK
    <3>14. CASE ClaimTake(p) \/ DiscardTake(p)
      BY <3>4, <3>5, <3>7, <3>14 DEF ClaimTake, DiscardTake
    <3>15. CASE ClaimRestore(p) \/ CleanRestore(p)
      BY <3>7, <3>10, <3>15 DEF ClaimRestore, CleanRestore, RestoreOwned
    <3>16. CASE CleanEnd(p) \/ CleanConflict(p) \/ Crash(p)
      BY <3>7, <3>16 DEF CleanEnd, CleanConflict, Crash
    <3> QED
      BY <1>3, <2>1, <3>1, <3>2, <3>3, <3>6, <3>8, <3>9, <3>11, <3>12, <3>13, <3>14, <3>15,
         <3>16 DEF Start, WriteOn, ClaimOn, DiscardOn, CleanOn
  <2> QED
    BY <2>1, <2>2, <2>3
<1> QED
  BY <1>1, <1>2, <1>3 DEF Next

(* Cleanup and restoration never delete the last file of a plan that has    *)
(* not expired, is younger than the residue grace and that nobody has       *)
(* claimed, refused or discarded, for every number of calls and deaths.     *)
THEOREM LiveNotLostHolds == Spec => []LiveNotLost
<1>1. TypeOK /\ TicketInv /\ KeepInv /\ [Next]_vars => KeepInv'
  BY MayGoStep, KeptStep DEF KeepInv
<1>2. KeepInv => LiveNotLost
  BY DEF KeepInv, Live, PlanKept, LiveNotLost
<1> QED
  BY PlansTypeCorrect, TicketHolds, KeepInit, <1>1, <1>2, PTL DEF Spec

=============================================================================

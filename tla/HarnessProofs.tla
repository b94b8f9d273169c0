---------------------------- MODULE HarnessProofs ----------------------------
(***************************************************************************)
(* Proofs about what is configured in the Harnesses and what is found      *)
(* there.  About HarnessLifecycle, for every number of Harnesses,          *)
(* releases, reviewed plans and edits by a person, and every length of the *)
(* journal that has room for the old records.                              *)
(*                                                                         *)
(* About the inventory: of the build of its plan, for every limit, every   *)
(* plan of the three planners and every set of paths, that the limits hold *)
(* for the three together, and no Skill of a plugin is within the Skill    *)
(* roots a governance action may change; of the reading of one file, for   *)
(* every bound on its size and however often it is replaced or written to  *)
(* meanwhile, that a settings file or a manifest that is handed out is     *)
(* whole and the one that was looked at.                                   *)
(***************************************************************************)
EXTENDS HarnessLifecycle, InventoryBuild, SecureRead, Integers, FiniteSetTheorems,
        WellFoundedInduction, TLAPS

-----------------------------------------------------------------------------
(* The journal.                                                             *)

(* i is the place of the newest record of h the journal still has.          *)
FirstOf(h, i) == /\ i \in DOMAIN journal /\ journal[i].harness = h
                 /\ \A j \in 1..(i - 1) : journal[j].harness # h

(* Newest finds that record.                                                *)
LEMMA NewestIsFirst ==
  ASSUME NEW S, journal \in Seq(S), NEW h, Newest(h) # Nothing
  PROVE  \E i \in DOMAIN journal : FirstOf(h, i) /\ Newest(h) = journal[i]
<1> DEFINE T == {i \in DOMAIN journal : journal[i].harness = h}
<1>1. T \subseteq Nat /\ T # {}
  BY DEF Newest
<1>2. PICK i \in T : \A j \in T : ~ (<<j, i>> \in OpToRel(<, Nat))
  <2> HIDE DEF T
  <2> QED BY <1>1, NatLessThanWellFounded, WFMin
<1>3. \A j \in T : ~ (j < i)
  BY <1>1, <1>2 DEF OpToRel
<1>4. FirstOf(h, i)
  BY <1>3 DEF FirstOf
<1>5. FirstOf(h, CHOOSE j \in DOMAIN journal : FirstOf(h, j))
  BY <1>4 DEF FirstOf
<1> QED
  BY <1>1, <1>5 DEF Newest, FirstOf

(* The journal has room for one record at least.                            *)
LEMMA Room1 == RecordLimit \in Nat \ {0}
<1>1. IsFiniteSet(Merged \cup {Copilot})
  BY LifecycleConstants, FS_AddElement
<1>2. Cardinality(Merged \cup {Copilot}) \in Nat \ {0}
  BY <1>1, FS_EmptySet, FS_CardinalityType
<1> QED
  BY <1>2, LifecycleConstants

(* What is appended comes first; the others move back, the last one perhaps *)
(* out of the journal.                                                      *)
LEMMA AppendedSeq ==
  ASSUME NEW S, NEW s \in Seq(S), NEW r \in S, NEW n \in 1..(Len(s) + 1)
  PROVE  LET t == SubSeq(<<r>> \o s, 1, n) IN
         /\ t \in Seq(S) /\ Len(t) = n /\ t[1] = r
         /\ \A i \in 2..n : i - 1 \in DOMAIN s /\ t[i] = s[i - 1]
<1> DEFINE u == <<r>> \o s
<1>1. u \in Seq(S) /\ Len(u) = Len(s) + 1 /\ u[1] = r /\ \A i \in 2..n : u[i] = s[i - 1]
  OBVIOUS
<1> HIDE DEF u
<1>2. SubSeq(u, 1, n) = [i \in 1..n |-> u[i]]
  BY <1>1
<1>3. \A i \in 1..n : u[i] \in S
  BY <1>1
<1>4. SubSeq(u, 1, n) \in Seq(S) /\ Len(SubSeq(u, 1, n)) = n
  BY <1>1, <1>2, <1>3
<1>5. \A i \in 2..n : i - 1 \in DOMAIN s
  OBVIOUS
<1> QED
  BY <1>1, <1>2, <1>4, <1>5 DEF u

(* What Append1 leaves, for the journal and the newest records.             *)
LEMMA Appended ==
  ASSUME TypeOK, NEW r \in Record, Append1(r)
  PROVE  /\ journal' \in Seq(Record) /\ Len(journal') <= RecordLimit
         /\ journal' # <<>> /\ Head(journal') = r /\ 1 \in DOMAIN journal' /\ journal'[1] = r
         /\ \A i \in DOMAIN journal' :
               i = 1 \/ (i > 1 /\ i - 1 \in DOMAIN journal /\ journal'[i] = journal[i - 1])
         /\ last' \in [Harness -> Record \cup {Nothing}] /\ last'[r.harness] = r
         /\ \A g \in Harness : g # r.harness => last'[g] = last[g]
<1> DEFINE n == IF Len(journal) < RecordLimit THEN Len(journal) + 1 ELSE RecordLimit
<1>1. journal \in Seq(Record) /\ Len(journal) <= RecordLimit /\ r.harness \in Harness
  BY DEF TypeOK, Record
<1>2. n \in 1..(Len(journal) + 1) /\ n <= RecordLimit
  BY <1>1, Room1
<1>3. journal' = SubSeq(<<r>> \o journal, 1, n)
  BY DEF Append1
<1> HIDE DEF n
<1>4. /\ journal' \in Seq(Record) /\ Len(journal') = n /\ journal'[1] = r
      /\ \A i \in 2..n : i - 1 \in DOMAIN journal /\ journal'[i] = journal[i - 1]
  BY <1>1, <1>2, <1>3, AppendedSeq
<1>5. DOMAIN journal' = 1..n /\ journal' # <<>> /\ Head(journal') = r
  BY <1>2, <1>4
<1>6. \A i \in 1..n : i = 1 \/ (i > 1 /\ i \in 2..n)
  BY <1>2
<1>7. last' \in [Harness -> Record \cup {Nothing}] /\ last'[r.harness] = r
      /\ \A g \in Harness : g # r.harness => last'[g] = last[g]
  BY <1>1 DEF Append1, TypeOK
<1> QED
  BY <1>2, <1>4, <1>5, <1>6, <1>7

-----------------------------------------------------------------------------
(* The inductive invariant.                                                 *)

(* The newest record of a Harness that the journal still has is the newest  *)
(* one it ever got.                                                         *)
NewestIsLast == \A h \in Harness : \A i \in DOMAIN journal : FirstOf(h, i) => journal[i] = last[h]

(* Records of version 1 are gone from the head once there is one of version *)
(* 2, and before that no Harness ever had one of version 2.                 *)
OldAlone ==
    ~HeadIs2 => ~Any2 /\ \A h \in Harness : last[h] # Nothing => last[h].v = 1

(* The companion a record of version 2 tells of is a packaged one.          *)
PackagedOnly == \A i \in DOMAIN journal : journal[i].v = 2 => journal[i].companion.installed \in Packaged

(* The Hook file of Copilot holds no settings of the person.                *)
HookFileOnly == config[Copilot] # Nothing => ~config[Copilot].own

(* The newest record ever of a Harness says it is connected.                *)
IsIn(h) == last[h] # Nothing /\ last[h].status = "installed"

(* As long as no person interferes, the configurations and the tree are     *)
(* what the newest records say.                                             *)
AsRecorded ==
    ~touched =>
        /\ \A h \in Harness :
             /\ last[h] # Nothing => config[h] = last[h].after
             /\ config[h] # Nothing => config[h].hook \in {"none", "whole"}
             /\ HasHook(h) <=> IsIn(h)
        /\ HeadIs2 => tree = Head(journal).companion.after
        /\ ~HeadIs2 => tree \in {Nothing, Legacy}

(* All of it.                                                               *)
LifeInv == /\ TypeOK /\ NewestIsLast /\ OldAlone /\ PackagedOnly /\ HookFileOnly
           /\ CompanionWhileUsed /\ AsRecorded

-----------------------------------------------------------------------------
(* What the invariant says of the head and of the newest records.           *)

(* The head of the journal is a valid record.                               *)
LEMMA HeadRecord ==
  ASSUME TypeOK, HeadIs2
  PROVE  /\ 1 \in DOMAIN journal /\ Head(journal) = journal[1] /\ journal[1] \in Record
         /\ journal[1].v = 2 /\ ValidRecord(journal[1])
<1>1. journal \in Seq(Record) /\ journal # <<>>
  BY DEF TypeOK, HeadIs2
<1>2. 1 \in DOMAIN journal /\ Head(journal) = journal[1] /\ journal[1] \in Record
  BY <1>1
<1> QED
  BY <1>2 DEF TypeOK, HeadIs2

(* The newest record the journal has of a Harness is its newest ever.       *)
LEMMA NewestLast ==
  ASSUME TypeOK, NewestIsLast, NEW h \in Harness, Newest(h) # Nothing
  PROVE  Newest(h) = last[h] /\ last[h] \in Record /\ last[h] # Nothing
<1>1. journal \in Seq(Record)
  BY DEF TypeOK
<1>2. PICK i \in DOMAIN journal : FirstOf(h, i) /\ Newest(h) = journal[i]
  BY <1>1, NewestIsFirst
<1>3. journal[i] \in Record
  BY <1>1
<1> QED
  BY <1>2, <1>3 DEF NewestIsLast

(* The head of the journal and the whole of it agree on the version.        *)
LEMMA OneVersion == OldAlone => (HeadIs2 <=> Any2)
<1>1. ASSUME OldAlone, HeadIs2 PROVE Any2
  <2>1. journal # <<>> /\ Head(journal) = journal[1] /\ Head(journal).v = 2
    BY <1>1 DEF HeadIs2
  <2> QED
    BY <2>1 DEF Any2
<1> QED
  BY <1>1 DEF OldAlone

(* Consumers that could be resolved are the Harness itself and candidates   *)
(* all of which are proven where the head names them.                       *)
LEMMA Resolved ==
  ASSUME TypeOK, NEW h \in Harness, ResolveConsumers(h) # Unproven
  PROVE  /\ ResolveConsumers(h) = {g \in Candidates(h) : Proven(g)} \cup {h}
         /\ ResolveConsumers(h) \in SUBSET Harness
         /\ HeadIs2 => ResolveConsumers(h) = Head(journal).companion.consumers \cup {h}
<1>1. ResolveConsumers(h) = {g \in Candidates(h) : Proven(g)} \cup {h}
      /\ ~(HeadIs2 /\ \E g \in Candidates(h) : ~Proven(g))
  BY DEF ResolveConsumers
<1>2. CASE HeadIs2
  <2>1. Head(journal).companion.consumers \in SUBSET Harness
    BY <1>2, HeadRecord DEF Record
  <2>2. Candidates(h) = Head(journal).companion.consumers \ {h}
    BY <1>2 DEF Candidates
  <2> QED
    BY <1>1, <1>2, <2>1, <2>2
<1>3. CASE ~HeadIs2
  BY <1>1, <1>3 DEF Candidates
<1> QED
  BY <1>2, <1>3

(* What a review says of the companion, when the schema takes it.           *)
LEMMA Inspected ==
  ASSUME LifeInv, NEW h \in Harness, ValidSubplan(InspectCompanion(h))
  PROVE  LET c == InspectCompanion(h) IN
         /\ c.before = tree /\ c.after = source
         /\ \/ c.action = "create" /\ tree = Nothing /\ c.proof = "new"
            \/ /\ c.action = "none" /\ tree # Nothing /\ tree = source
               /\ c.proof \in {"recorded", "legacy-alpha"}
            \/ /\ c.action = "upgrade" /\ tree \notin {Nothing, Foreign, source}
               /\ c.proof \in {"recorded", "legacy-alpha"}
<1> DEFINE c == InspectCompanion(h)
           m == ManagedProof(h)
<1>0. c.action # "conflict" /\ Conflict.action = "conflict"
  BY DEF ValidSubplan, Conflict, Subplan
<1>1. CASE tree = Nothing
  <2>1. c = MissingCompanion
    BY <1>1 DEF InspectCompanion
  <2>2. c = Subplan("create", "new", 0) \/ c = Subplan("create", "new", Head(journal).id)
    BY <2>1, <1>0 DEF MissingCompanion
  <2> QED
    BY <1>1, <2>2 DEF Subplan
<1>2. CASE tree # Nothing
  <2>1. /\ m.proof # "conflict" /\ m.installed = tree
        /\ \/ tree = source /\ c = Subplan("none", m.proof, m.id)
           \/ tree # source /\ c = Subplan("upgrade", m.proof, m.id)
    BY <1>2, <1>0 DEF InspectCompanion
  <2>2. \/ /\ m.proof = "recorded" /\ HeadIs2
           /\ m.installed = Head(journal).companion.installed
        \/ m.proof = "legacy-alpha" /\ tree = Legacy
    BY <2>1 DEF ManagedProof
  <2>3. tree # Foreign
    <3>1. CASE HeadIs2 /\ m.installed = Head(journal).companion.installed
      <4>1. journal[1].companion.installed \in Packaged
        BY <3>1, HeadRecord DEF LifeInv, PackagedOnly
      <4> QED
        BY <3>1, <4>1, <2>1, HeadRecord, LifecycleConstants DEF LifeInv
    <3>2. CASE tree = Legacy
      BY <3>2, LifecycleConstants
    <3> QED
      BY <2>2, <3>1, <3>2
  <2> QED
    BY <1>2, <2>1, <2>2, <2>3 DEF Subplan
<1> QED
  BY <1>1, <1>2

-----------------------------------------------------------------------------
(* What appending a record keeps, whichever operation appends it.           *)

LEMMA JournalKept ==
  ASSUME LifeInv, NEW r \in Record, ValidRecord(r), Append1(r),
         r.v = 1 => ~Any2, r.v = 2 => r.companion.installed \in Packaged
  PROVE  /\ NewestIsLast' /\ OldAlone' /\ PackagedOnly'
         /\ \A i \in DOMAIN journal' : ValidRecord(journal'[i])
         /\ HeadIs2' <=> r.v = 2
<1>0. TypeOK /\ r.harness \in Harness /\ r.v \in {1, 2}
  BY DEF LifeInv, Record
<1>1. /\ journal' \in Seq(Record) /\ journal' # <<>> /\ Head(journal') = r
      /\ 1 \in DOMAIN journal' /\ journal'[1] = r
  BY <1>0, Appended
<1>2. \A i \in DOMAIN journal' :
        i = 1 \/ (i > 1 /\ i - 1 \in DOMAIN journal /\ journal'[i] = journal[i - 1])
  BY <1>0, Appended
<1>3. last'[r.harness] = r /\ \A g \in Harness : g # r.harness => last'[g] = last[g]
  BY <1>0, Appended
<1>4. HeadIs2' <=> r.v = 2
  BY <1>1 DEF HeadIs2
<1>5. ASSUME NEW h \in Harness, NEW i \in DOMAIN journal', FirstOf(h, i)'
      PROVE  journal'[i] = last'[h]
  <2>1. journal'[i].harness = h /\ \A j \in 1..(i - 1) : journal'[j].harness # h
    BY <1>5 DEF FirstOf
  <2>2. CASE i = 1
    BY <2>1, <2>2, <1>1, <1>3
  <2>3. CASE i > 1 /\ i - 1 \in DOMAIN journal /\ journal'[i] = journal[i - 1]
    <3>0. i \in Nat /\ DOMAIN journal' = 1..Len(journal') /\ Len(journal') \in Nat
      BY <1>1
    <3>1. 1 \in 1..(i - 1)
      BY <2>3, <3>0
    <3>2. h # r.harness
      BY <3>1, <2>1, <1>1
    <3>3. ASSUME NEW j \in 1..((i - 1) - 1) PROVE journal[j].harness # h
      <4>1. j + 1 \in 1..(i - 1) /\ j + 1 \in DOMAIN journal' /\ j + 1 # 1 /\ (j + 1) - 1 = j
        BY <3>0
      <4> QED
        BY <4>1, <2>1, <1>2
    <3>4. FirstOf(h, i - 1)
      BY <2>1, <2>3, <3>3 DEF FirstOf
    <3> QED
      BY <2>3, <3>2, <3>4, <1>3 DEF LifeInv, NewestIsLast
  <2> QED
    BY <1>2, <2>2, <2>3
<1>6. NewestIsLast'
  BY <1>5 DEF NewestIsLast
<1>7. OldAlone'
  <2>1. CASE r.v = 2
    BY <1>4, <2>1 DEF OldAlone
  <2>2. CASE r.v = 1
    <3>1. ~Any2 /\ ~HeadIs2
      BY <2>2, OneVersion DEF LifeInv
    <3>2. ~Any2'
      BY <2>2, <3>1, <1>1, <1>2 DEF Any2
    <3>3. \A h \in Harness : last'[h] # Nothing => last'[h].v = 1
      BY <2>2, <3>1, <1>3 DEF LifeInv, OldAlone
    <3> QED
      BY <3>2, <3>3 DEF OldAlone
  <2> QED
    BY <1>0, <2>1, <2>2
<1>8. PackagedOnly'
  BY <1>1, <1>2 DEF LifeInv, PackagedOnly
<1>9. \A i \in DOMAIN journal' : ValidRecord(journal'[i])
  BY <1>0, <1>1, <1>2 DEF TypeOK
<1> QED
  BY <1>4, <1>6, <1>7, <1>8, <1>9

(* The record of an apply says what the apply left.                         *)
LEMMA RecordedKept ==
  ASSUME LifeInv, NEW r \in Record, Append1(r), touched' = touched,
         config' = [config EXCEPT ![r.harness] = r.after],
         r.after # Nothing => r.after.hook \in {"none", "whole"},
         (r.after # Nothing /\ r.after.hook = "whole") <=> r.status = "installed",
         r.v = 2 => tree' = r.companion.after,
         r.v = 1 => tree' = tree /\ ~HeadIs2
  PROVE  AsRecorded'
<1>0. TypeOK /\ r.harness \in Harness /\ r.v \in {1, 2} /\ r # Nothing
  BY NothingIsNeither DEF LifeInv, Record
<1>1. journal' # <<>> /\ Head(journal') = r
  BY <1>0, Appended
<1>2. last'[r.harness] = r /\ \A g \in Harness : g # r.harness => last'[g] = last[g]
  BY <1>0, Appended
<1>3. config'[r.harness] = r.after /\ \A g \in Harness : g # r.harness => config'[g] = config[g]
  BY <1>0 DEF TypeOK
<1>4. ASSUME ~touched, NEW h \in Harness
      PROVE  /\ last'[h] # Nothing => config'[h] = last'[h].after
             /\ config'[h] # Nothing => config'[h].hook \in {"none", "whole"}
             /\ HasHook(h)' <=> IsIn(h)'
  <2>1. CASE h = r.harness
    BY <2>1, <1>0, <1>2, <1>3 DEF HasHook, IsIn
  <2>2. CASE h # r.harness
    <3>1. config'[h] = config[h] /\ last'[h] = last[h]
      BY <2>2, <1>2, <1>3
    <3> QED
      BY <1>4, <3>1 DEF LifeInv, AsRecorded, HasHook, IsIn
  <2> QED
    BY <2>1, <2>2
<1>5. HeadIs2' => tree' = Head(journal').companion.after
  BY <1>1 DEF HeadIs2
<1>6. ~touched /\ ~HeadIs2' => tree' \in {Nothing, Legacy}
  <2>1. ~HeadIs2' => r.v = 1
    BY <1>0, <1>1 DEF HeadIs2
  <2> QED
    BY <2>1 DEF LifeInv, AsRecorded
<1> QED
  BY <1>4, <1>5, <1>6 DEF AsRecorded

(* The type of the state after an apply.                                    *)
LEMMA ApplyType ==
  ASSUME LifeInv, NEW r \in Record, ValidRecord(r), Append1(r),
         r.v = 1 => ~Any2, r.v = 2 => r.companion.installed \in Packaged,
         config' = [config EXCEPT ![r.harness] = r.after],
         tree' \in Tree \cup {Nothing}, calls < CallLimit, calls' = calls + 1,
         plans' = plans \/ \E h \in Harness : plans' = [plans EXCEPT ![h] = NoPlan],
         UNCHANGED <<source, edits, touched>>,
         r.harness = Copilot /\ r.after # Nothing => ~r.after.own
  PROVE  TypeOK' /\ HookFileOnly'
<1>0. TypeOK /\ r.harness \in Harness /\ r.after \in Config \cup {Nothing}
  BY DEF LifeInv, Record
<1>1. config' \in [Harness -> Config \cup {Nothing}]
  BY <1>0 DEF TypeOK
<1>2. journal' \in Seq(Record) /\ Len(journal') <= RecordLimit /\ last' \in [Harness -> Record \cup {Nothing}]
  BY <1>0, Appended
<1>3. \A i \in DOMAIN journal' : ValidRecord(journal'[i])
  BY JournalKept
<1>4. DOMAIN plans' = Harness /\ \A h \in Harness : plans'[h].kind \in {"none", "connect", "disconnect"}
  BY <1>0 DEF TypeOK, NoPlan
<1>5. calls' \in 0..CallLimit
  BY <1>0, LifecycleConstants DEF TypeOK
<1>6. TypeOK'
  BY <1>0, <1>1, <1>2, <1>3, <1>4, <1>5 DEF TypeOK
<1>7. HookFileOnly'
  BY <1>0 DEF HookFileOnly, LifeInv, TypeOK, Harness
<1> QED
  BY <1>6, <1>7

-----------------------------------------------------------------------------
(* A connection that takes effect.                                          *)

(* The conditions under which ApplyConnect writes.                          *)
Connects(h) == /\ MayConnect(h) /\ plans[h] = ConnectPlan(h)
               /\ ResolveConsumers(h) # Unproven /\ ValidRecord(ConnectRecord(h, plans[h]))

(* The configuration a connection leaves.                                   *)
LEMMA ConnectedConfig ==
  ASSUME LifeInv, NEW h \in Harness, MayConnect(h)
  PROVE  LET a == ConnectPlan(h).after IN
         /\ a \in Config /\ a.hook = "whole"
         /\ config[h] # Nothing => a.own = config[h].own
                                  /\ config[h].hook \in {"none", "part", "whole"}
         /\ h = Copilot => ~a.own
<1>0. config[h] \in Config \cup {Nothing}
  BY DEF LifeInv, TypeOK
<1>1. CASE config[h] = Nothing
  BY <1>1 DEF ConnectPlan, Ours, Config, Hook
<1>2. CASE config[h] # Nothing
  <2>1. config[h] \in Config /\ ConnectPlan(h).after = [config[h] EXCEPT !.hook = "whole"]
    BY <1>0, <1>2 DEF ConnectPlan
  <2>2. ConnectPlan(h).after \in Config /\ ConnectPlan(h).after.hook = "whole"
        /\ ConnectPlan(h).after.own = config[h].own
    BY <2>1 DEF Config, Hook
  <2>3. config[h].hook \in {"none", "part", "whole"}
    BY <1>2 DEF MayConnect, TombstoneProven, TombstoneRecorded, Tombstone, Ours
  <2>4. h = Copilot => ~config[h].own
    BY <1>2 DEF LifeInv, HookFileOnly
  <2> QED
    BY <2>2, <2>3, <2>4
<1> QED
  BY <1>1, <1>2

(* The record such an apply appends, and what it leaves.                    *)
LEMMA ConnectOutcome ==
  ASSUME LifeInv, NEW h \in Harness, ApplyConnect(h), Connects(h)
  PROVE  LET r == ConnectRecord(h, plans[h]) IN
         /\ r \in Record /\ ValidRecord(r) /\ Append1(r)
         /\ r.v = 2 /\ r.harness = h /\ r.status = "installed"
         /\ r.after = ConnectPlan(h).after /\ r.companion.installed = source
         /\ r.companion.after = source /\ r.companion.consumers = ResolveConsumers(h)
         /\ config' = [config EXCEPT ![h] = r.after] /\ tree' = source
<1> DEFINE p == plans[h]
           c == InspectCompanion(h)
           r == ConnectRecord(h, p)
<1>1. p = ConnectPlan(h) /\ p.companion = c /\ p.after = ConnectPlan(h).after
  BY DEF Connects, ConnectPlan
<1>2. config' = [config EXCEPT ![h] = p.after] /\ tree' = p.companion.after /\ Append1(r)
  BY DEF ApplyConnect, Connects
<1>3. /\ c.before = tree /\ c.after = source
      /\ c.action \in {"create", "none", "upgrade"} /\ c.proof \in {"new", "recorded", "legacy-alpha"}
  BY Inspected DEF Connects, MayConnect
<1>4. p.after \in Config
  BY <1>1, ConnectedConfig DEF Connects
<1>5. ResolveConsumers(h) \in SUBSET Harness
  BY Resolved DEF Connects, LifeInv
<1>6. calls + 1 \in 0..CallLimit
  BY LifecycleConstants DEF ApplyConnect, LifeInv, TypeOK
<1>7. tree \in Tree \cup {Nothing} /\ source \in Tree
  BY DEF LifeInv, TypeOK, Tree
<1>8. /\ r.companion \in [action : {"unknown", "create", "upgrade", "none", "retain", "remove"},
                        before : Tree \cup {Nothing}, after : Tree \cup {Nothing},
                        installed : Tree \cup {Nothing}, source : Tree \cup {Nothing},
                        proof : {"none", "new", "recorded", "legacy-alpha"},
                        consumers : SUBSET Harness]
      /\ r.companion.installed = source /\ r.companion.after = source
      /\ r.companion.consumers = ResolveConsumers(h)
  BY <1>1, <1>3, <1>5, <1>7 DEF ConnectRecord
<1>9. /\ r.v = 2 /\ r.id = calls + 1 /\ r.harness = h /\ r.status = "installed" /\ r.after = p.after
      /\ r = [v |-> 2, id |-> calls + 1, harness |-> h, status |-> "installed",
              after |-> p.after, companion |-> r.companion]
  BY DEF ConnectRecord
<1>10. r \in Record
  <2> DEFINE d == r.companion
  <2> HIDE DEF r
  <2>1. d = r.companion
    OBVIOUS
  <2> HIDE DEF d
  <2> QED
    BY <1>4, <1>6, <1>8, <1>9, <2>1 DEF Record
<1> QED
  BY <1>1, <1>2, <1>3, <1>8, <1>9, <1>10 DEF Connects

(* It keeps the invariant.                                                  *)
LEMMA ConnectKept ==
  ASSUME LifeInv, NEW h \in Harness, ApplyConnect(h), Connects(h)
  PROVE  LifeInv'
<1> DEFINE r == ConnectRecord(h, plans[h])
           used == Head(journal).companion.consumers
<1>0. TypeOK /\ NewestIsLast
  BY DEF LifeInv
<1>1. /\ r \in Record /\ ValidRecord(r) /\ Append1(r)
      /\ r.v = 2 /\ r.harness = h /\ r.status = "installed"
      /\ r.after = ConnectPlan(h).after /\ r.companion.installed = source
      /\ r.companion.after = source /\ r.companion.consumers = ResolveConsumers(h)
      /\ config' = [config EXCEPT ![h] = r.after] /\ tree' = source
  BY ConnectOutcome
<1> HIDE DEF r
<1>2. /\ r.after \in Config /\ r.after.hook = "whole" /\ r.after # Nothing
      /\ h = Copilot => ~r.after.own
  BY <1>1, ConnectedConfig, NothingIsNeither DEF Connects
<1>3. source \in Packaged /\ source \in Tree /\ touched' = touched /\ source' = source
  BY DEF LifeInv, TypeOK, ApplyConnect, Tree
<1>4. NewestIsLast' /\ OldAlone' /\ PackagedOnly' /\ HeadIs2'
  BY <1>1, <1>3, JournalKept
<1>a. /\ config' = [config EXCEPT ![r.harness] = r.after] /\ r.v # 1
      /\ tree' = r.companion.after /\ tree' \in Tree \cup {Nothing}
      /\ r.companion.installed \in Packaged
  BY <1>1, <1>3
<1>5. AsRecorded'
  BY <1>1, <1>2, <1>3, <1>a, RecordedKept
<1>6. /\ calls < CallLimit /\ calls' = calls + 1 /\ plans' = [plans EXCEPT ![h] = NoPlan]
      /\ UNCHANGED <<source, edits, touched>>
  BY DEF ApplyConnect
<1>7. TypeOK' /\ HookFileOnly'
  BY <1>1, <1>2, <1>6, <1>a, ApplyType
<1>8. Head(journal') = r /\ last'[h] = r /\ \A g \in Harness : g # h => last'[g] = last[g]
  BY <1>0, <1>1, Appended
<1>9. ResolveConsumers(h) = {g \in Candidates(h) : Proven(g)} \cup {h}
      /\ (HeadIs2 => ResolveConsumers(h) = used \cup {h})
  BY <1>0, Resolved DEF Connects
<1>10. ASSUME NEW g \in ResolveConsumers(h)
       PROVE  last'[g] # Nothing /\ last'[g].status = "installed"
  <2>1. CASE g = h
    BY <2>1, <1>1, <1>8, NothingIsNeither
  <2>2. CASE g # h /\ HeadIs2
    <3>1. g \in used /\ g \in Harness
      BY <2>2, <1>9, <1>0, HeadRecord DEF Record
    <3> QED
      BY <3>1, <2>2, <1>8 DEF LifeInv, CompanionWhileUsed
  <2>3. CASE g # h /\ ~HeadIs2
    <3>1. g \in Harness /\ Installed(g)
      BY <2>3, <1>9 DEF Candidates
    <3> QED
      BY <3>1, <2>3, <1>0, <1>8, NewestLast DEF Installed
  <2> QED
    BY <2>1, <2>2, <2>3
<1>11. ASSUME NEW g \in Harness, Connected(g)'
       PROVE  g \in ResolveConsumers(h)
  <2>1. CASE g = h
    BY <2>1, <1>9
  <2>2. CASE g # h
    <3>1. Connected(g)
      BY <2>2, <1>8, <1>11 DEF Connected
    <3>2. HeadIs2
      BY <3>1 DEF Connected, LifeInv, OldAlone
    <3> QED
      BY <3>1, <3>2, <1>9 DEF LifeInv, CompanionWhileUsed
  <2> QED
    BY <2>1, <2>2
<1>12. CompanionWhileUsed'
  BY <1>1, <1>8, <1>10, <1>11 DEF CompanionWhileUsed
<1> QED
  BY <1>4, <1>5, <1>7, <1>12 DEF LifeInv

-----------------------------------------------------------------------------
(* A disconnection that takes effect.                                       *)

(* The conditions under which ApplyDisconnect writes.                       *)
Disconnects(h) == /\ MayDisconnect(h) /\ plans[h] = DisconnectPlan(h)
                  /\ ValidRecord(DisconnectRecord(h, plans[h]))

(* The record such an apply appends, and what it leaves.                    *)
LEMMA DisconnectOutcome ==
  ASSUME LifeInv, NEW h \in Harness, ApplyDisconnect(h), Disconnects(h)
  PROVE  LET r == DisconnectRecord(h, plans[h])
             c == Head(journal).companion IN
         /\ r \in Record /\ ValidRecord(r) /\ Append1(r)
         /\ r.v = 2 /\ r.harness = h /\ r.status = "removed"
         /\ config[h] \in Config /\ config[h].hook = "whole"
         /\ r.after = [config[h] EXCEPT !.hook = "none"]
         /\ config' = [config EXCEPT ![h] = r.after] /\ tree' = r.companion.after
         /\ r.companion.installed = tree /\ tree \in Packaged
         /\ r.companion.after \in {Nothing, tree}
         /\ r.companion.after = Nothing => r.companion.consumers = {}
         /\ HeadIs2 /\ r.companion.consumers = c.consumers \ {h}
<1> DEFINE p == plans[h]
           c == Head(journal).companion
           r == DisconnectRecord(h, p)
<1>0. TypeOK /\ HeadIs2 /\ ResolveConsumers(h) # Unproven
  BY DEF LifeInv, Disconnects, MayDisconnect
<1>1. p = DisconnectPlan(h)
  BY DEF Disconnects
<1>2. p.head = Head(journal) /\ p.after = [config[h] EXCEPT !.hook = "none"]
      /\ p.remaining = ResolveConsumers(h) \ {h}
  BY <1>1 DEF DisconnectPlan
<1>3. config' = [config EXCEPT ![h] = p.after] /\ tree' = r.companion.after /\ Append1(r)
  BY DEF ApplyDisconnect, Disconnects
<1>4. config[h] \in Config /\ config[h].hook = "whole"
  BY <1>0 DEF Disconnects, MayDisconnect, HasHook, TypeOK
<1>5. p.after \in Config
  BY <1>2, <1>4 DEF Config, Hook
<1>6. Head(journal) = journal[1] /\ 1 \in DOMAIN journal /\ journal[1] \in Record /\ journal[1].v = 2
  BY <1>0, HeadRecord
<1>7. /\ c.installed \in Tree \cup {Nothing} /\ c.source \in Tree \cup {Nothing}
      /\ c.consumers \in SUBSET Harness
  BY <1>6 DEF Record
<1>8. tree = c.installed /\ c.installed \in Packaged
  BY <1>6 DEF Disconnects, MayDisconnect, LifeInv, PackagedOnly
<1>9. p.remaining = c.consumers \ {h}
  BY <1>0, <1>2, Resolved
<1>10. calls + 1 \in 0..CallLimit
  BY <1>0, LifecycleConstants DEF ApplyDisconnect, TypeOK
<1>11. /\ r.companion \in [action : {"unknown", "create", "upgrade", "none", "retain", "remove"},
                        before : Tree \cup {Nothing}, after : Tree \cup {Nothing},
                        installed : Tree \cup {Nothing}, source : Tree \cup {Nothing},
                        proof : {"none", "new", "recorded", "legacy-alpha"},
                        consumers : SUBSET Harness]
       /\ r.companion.installed = c.installed /\ r.companion.consumers = p.remaining
       /\ r.companion.after = IF p.remaining = {} THEN Nothing ELSE c.installed
  BY <1>2, <1>7, <1>9 DEF DisconnectRecord
<1>12. /\ r.v = 2 /\ r.id = calls + 1 /\ r.harness = h /\ r.status = "removed" /\ r.after = p.after
       /\ r = [v |-> 2, id |-> calls + 1, harness |-> h, status |-> "removed",
               after |-> p.after, companion |-> r.companion]
  BY DEF DisconnectRecord
<1>13. r \in Record
  <2> DEFINE d == r.companion
  <2> HIDE DEF r
  <2>1. d = r.companion
    OBVIOUS
  <2> HIDE DEF d
  <2> QED
    BY <1>5, <1>10, <1>11, <1>12, <2>1 DEF Record
<1>14. ValidRecord(r)
  BY DEF Disconnects
<1>15. r.companion.after = Nothing => r.companion.consumers = {}
  BY <1>8, <1>11, LifecycleConstants
<1>16. r.companion.after \in {Nothing, tree}
  BY <1>8, <1>11
<1>17. r.companion.consumers = c.consumers \ {h} /\ r.after = [config[h] EXCEPT !.hook = "none"]
       /\ r.companion.installed = tree /\ config' = [config EXCEPT ![h] = r.after]
  BY <1>2, <1>3, <1>8, <1>9, <1>11, <1>12
<1> QED
  BY <1>0, <1>3, <1>4, <1>8, <1>12, <1>13, <1>14, <1>15, <1>16, <1>17

(* It keeps the invariant.                                                  *)
LEMMA DisconnectKept ==
  ASSUME LifeInv, NEW h \in Harness, ApplyDisconnect(h), Disconnects(h)
  PROVE  LifeInv'
<1> DEFINE r == DisconnectRecord(h, plans[h])
           used == Head(journal).companion.consumers
<1>0. TypeOK /\ HeadIs2 /\ HookFileOnly
  BY DEF LifeInv, Disconnects, MayDisconnect
<1>1. /\ r \in Record /\ ValidRecord(r) /\ Append1(r)
      /\ r.v = 2 /\ r.harness = h /\ r.status = "removed"
      /\ config[h] \in Config /\ config[h].hook = "whole"
      /\ r.after = [config[h] EXCEPT !.hook = "none"]
      /\ config' = [config EXCEPT ![h] = r.after] /\ tree' = r.companion.after
      /\ r.companion.installed = tree /\ tree \in Packaged
      /\ r.companion.after \in {Nothing, tree}
      /\ r.companion.after = Nothing => r.companion.consumers = {}
      /\ r.companion.consumers = used \ {h}
  BY DisconnectOutcome
<1> HIDE DEF r
<1>2. r.after \in Config /\ r.after.hook = "none" /\ r.after # Nothing
      /\ r.after.own = config[h].own
  BY <1>1, NothingIsNeither DEF Config, Hook
<1>3. h = Copilot => ~r.after.own
  BY <1>0, <1>1, <1>2, NothingIsNeither DEF HookFileOnly
<1>4. /\ config' = [config EXCEPT ![r.harness] = r.after] /\ r.v # 1 /\ r.status # "installed"
      /\ tree' \in Tree \cup {Nothing} /\ r.companion.installed \in Packaged
  BY <1>1 DEF Tree
<1>5. NewestIsLast' /\ OldAlone' /\ PackagedOnly' /\ HeadIs2'
  BY <1>1, <1>4, JournalKept
<1>6. /\ calls < CallLimit /\ calls' = calls + 1 /\ plans' = [plans EXCEPT ![h] = NoPlan]
      /\ UNCHANGED <<source, edits, touched>>
  BY DEF ApplyDisconnect
<1>7. AsRecorded'
  BY <1>1, <1>2, <1>4, <1>6, RecordedKept
<1>8. TypeOK' /\ HookFileOnly'
  BY <1>1, <1>3, <1>4, <1>6, ApplyType
<1>9. Head(journal') = r /\ last'[h] = r /\ \A g \in Harness : g # h => last'[g] = last[g]
  BY <1>0, <1>1, Appended
<1>10. used \subseteq Harness
  BY <1>0, HeadRecord DEF Record
<1>11. \A g \in used \ {h} : last'[g] # Nothing /\ last'[g].status = "installed"
  BY <1>0, <1>9, <1>10 DEF LifeInv, CompanionWhileUsed
<1>12. \A g \in Harness : Connected(g)' => g \in used \ {h}
  BY <1>0, <1>1, <1>9 DEF LifeInv, CompanionWhileUsed, Connected
<1>13. CompanionWhileUsed'
  BY <1>1, <1>9, <1>11, <1>12 DEF CompanionWhileUsed
<1> QED
  BY <1>5, <1>7, <1>8, <1>13 DEF LifeInv

-----------------------------------------------------------------------------
(* The removal of an alpha connection.                                      *)

LEMMA RemoveKept ==
  ASSUME LifeInv, NEW h \in Harness, RemoveLegacy(h)
  PROVE  LifeInv'
<1> DEFINE left == IF h = Copilot THEN Nothing ELSE [config[h] EXCEPT !.hook = "none"]
           r == [v |-> 1, id |-> calls + 1, harness |-> h, status |-> "removed",
                 after |-> left, companion |-> NoCompanion]
<1>0. TypeOK /\ ~Any2 /\ ~HeadIs2
  BY OneVersion DEF LifeInv, RemoveLegacy
<1>1. config[h] \in Config
  BY <1>0 DEF RemoveLegacy, Proven, HasHook, TypeOK
<1>2. left \in Config \cup {Nothing} /\ (left # Nothing => left.hook = "none" /\ h # Copilot)
  BY <1>1 DEF Config, Hook
<1>3. calls + 1 \in 0..CallLimit
  BY <1>0, LifecycleConstants DEF RemoveLegacy, TypeOK
<1>4. config' = [config EXCEPT ![h] = left] /\ Append1(r)
  BY DEF RemoveLegacy
<1> HIDE DEF left
<1>5. r \in Record /\ r.v = 1 /\ r.harness = h /\ r.status = "removed" /\ r.after = left
  BY <1>2, <1>3 DEF Record, NoCompanion
<1> HIDE DEF r
<1>6. ValidRecord(r)
  BY <1>5 DEF ValidRecord
<1>7. /\ NewestIsLast' /\ OldAlone' /\ PackagedOnly' /\ ~HeadIs2'
  BY <1>0, <1>4, <1>5, <1>6, JournalKept
<1>8. UNCHANGED <<tree, source, plans, edits, touched>> /\ calls' = calls + 1 /\ calls < CallLimit
      /\ tree' \in Tree \cup {Nothing} /\ config' = [config EXCEPT ![r.harness] = r.after]
  BY <1>0, <1>4, <1>5 DEF RemoveLegacy, TypeOK
<1>a. /\ r.after # Nothing => r.after.hook \in {"none", "whole"}
      /\ (r.after # Nothing /\ r.after.hook = "whole") <=> r.status = "installed"
      /\ r.harness = Copilot /\ r.after # Nothing => ~r.after.own
      /\ r.v # 2 /\ touched' = touched
  BY <1>2, <1>5, <1>8
<1>9. AsRecorded'
  BY <1>0, <1>4, <1>5, <1>8, <1>a, RecordedKept
<1>10. TypeOK' /\ HookFileOnly'
  BY <1>0, <1>4, <1>5, <1>6, <1>8, <1>a, ApplyType
<1>11. CompanionWhileUsed'
  BY <1>7 DEF OldAlone, CompanionWhileUsed, Connected
<1> QED
  BY <1>7, <1>9, <1>10, <1>11 DEF LifeInv

-----------------------------------------------------------------------------
(* Steps that append nothing: a review, an apply that is refused, a new     *)
(* release, and what a person does.                                         *)

LEMMA Unrecorded ==
  ASSUME LifeInv, UNCHANGED <<journal, last>>, TypeOK', HookFileOnly',
         touched' \/ UNCHANGED <<config, tree, touched>>
  PROVE  LifeInv'
<1>1. NewestIsLast' /\ OldAlone' /\ PackagedOnly'
  BY DEF LifeInv, NewestIsLast, FirstOf, OldAlone, HeadIs2, Any2, PackagedOnly
<1>2. CompanionWhileUsed'
  BY DEF LifeInv, CompanionWhileUsed, HeadIs2, Connected
<1>3. AsRecorded'
  BY DEF LifeInv, AsRecorded, HasHook, IsIn, HeadIs2
<1> QED
  BY <1>1, <1>2, <1>3 DEF LifeInv

(* Reviews, refusals and releases leave all that was recorded.              *)
LEMMA QuietKept ==
  ASSUME LifeInv, UNCHANGED <<config, tree, journal, last, touched>>,
         source' \in Packaged, calls' \in 0..CallLimit, edits' \in 0..PersonLimit,
         plans' = plans \/ \E h \in Harness : \E p \in {NoPlan, ConnectPlan(h), DisconnectPlan(h)} :
                            plans' = [plans EXCEPT ![h] = p]
  PROVE  LifeInv'
<1>1. DOMAIN plans' = Harness /\ \A h \in Harness : plans'[h].kind \in {"none", "connect", "disconnect"}
  <2>1. \A h \in Harness : \A p \in {NoPlan, ConnectPlan(h), DisconnectPlan(h)} :
          p.kind \in {"none", "connect", "disconnect"}
    BY DEF NoPlan, ConnectPlan, DisconnectPlan
  <2>2. CASE plans' = plans
    BY <2>2 DEF LifeInv, TypeOK
  <2>3. ASSUME NEW g \in Harness, NEW p \in {NoPlan, ConnectPlan(g), DisconnectPlan(g)},
               plans' = [plans EXCEPT ![g] = p]
        PROVE  <1>1!1 /\ <1>1!2
    <3>1. p.kind \in {"none", "connect", "disconnect"}
      BY <2>1, <2>3
    <3> QED
      BY <3>1, <2>3 DEF LifeInv, TypeOK
  <2> QED
    BY <2>2, <2>3
<1>2. TypeOK' /\ HookFileOnly'
  BY <1>1 DEF LifeInv, TypeOK, HookFileOnly
<1> QED
  BY <1>2, Unrecorded

(* A person edits one configuration.                                        *)
LEMMA EditKept ==
  ASSUME LifeInv, NEW h \in Harness, EditOwn(h) \/ EditHook(h) \/ DeleteConfig(h)
  PROVE  LifeInv'
<1>0. TypeOK /\ HookFileOnly
  BY DEF LifeInv
<1>1. /\ touched' = TRUE /\ edits' = edits + 1 /\ edits < PersonLimit
      /\ UNCHANGED <<tree, source, journal, plans, calls, last>>
  BY DEF EditOwn, EditHook, DeleteConfig
<1>2. PICK c : /\ config' = [config EXCEPT ![h] = c] /\ c \in Config \cup {Nothing}
               /\ h = Copilot /\ c # Nothing => ~c.own
  <2>0. config[h] \in Config \cup {Nothing}
    BY <1>0 DEF TypeOK
  <2>1. CASE EditOwn(h)
    <3>1. CASE config[h] = Nothing
      <4>1. config' = [config EXCEPT ![h] = [hook |-> "none", own |-> TRUE]] /\ h # Copilot
        BY <2>1, <3>1 DEF EditOwn
      <4>2. [hook |-> "none", own |-> TRUE] \in Config
        BY DEF Config, Hook
      <4> QED
        BY <4>1, <4>2
    <3>2. CASE config[h] # Nothing
      <4> DEFINE d == [config[h] EXCEPT !.own = ~config[h].own]
      <4>1. config' = [config EXCEPT ![h] = d] /\ h # Copilot
        BY <2>1, <3>2 DEF EditOwn
      <4>2. d \in Config
        BY <2>0, <3>2 DEF Config
      <4> QED
        BY <4>1, <4>2
    <3> QED
      BY <3>1, <3>2
  <2>2. CASE EditHook(h)
    <3>1. PICK hook \in Hook :
            config' = [config EXCEPT ![h] = IF config[h] = Nothing THEN [hook |-> hook, own |-> FALSE]
                                            ELSE [config[h] EXCEPT !.hook = hook]]
      BY <2>2 DEF EditHook
    <3> DEFINE d == IF config[h] = Nothing THEN [hook |-> hook, own |-> FALSE]
                    ELSE [config[h] EXCEPT !.hook = hook]
    <3>2. d \in Config /\ (config[h] # Nothing => d.own = config[h].own) /\ (config[h] = Nothing => ~d.own)
      BY <2>0, <3>1 DEF Config
    <3>3. h = Copilot => ~d.own
      BY <3>2, <1>0 DEF HookFileOnly
    <3> QED
      BY <3>1, <3>2, <3>3
  <2>3. CASE DeleteConfig(h)
    BY <2>3 DEF DeleteConfig
  <2> QED
    BY <2>1, <2>2, <2>3
<1>3. config' \in [Harness -> Config \cup {Nothing}]
  BY <1>0, <1>2 DEF TypeOK
<1>4. TypeOK'
  BY <1>0, <1>1, <1>3, LifecycleConstants DEF TypeOK
<1>5. HookFileOnly'
  BY <1>0, <1>2 DEF HookFileOnly, TypeOK, Harness
<1> QED
  BY <1>1, <1>4, <1>5, Unrecorded

(* A person replaces the tree.                                              *)
LEMMA TreeEditKept == LifeInv /\ EditTree => LifeInv'
<1> SUFFICES ASSUME LifeInv, EditTree PROVE LifeInv'
  OBVIOUS
<1>1. TypeOK'
  BY LifecycleConstants DEF LifeInv, TypeOK, EditTree, Tree
<1>2. HookFileOnly'
  BY DEF LifeInv, HookFileOnly, EditTree
<1> QED
  BY <1>1, <1>2, Unrecorded DEF EditTree

-----------------------------------------------------------------------------
(* Every step.                                                              *)

LEMMA NextKept == LifeInv /\ [Next]_vars => LifeInv'
<1> SUFFICES ASSUME LifeInv, [Next]_vars PROVE LifeInv'
  OBVIOUS
<1>0. TypeOK
  BY DEF LifeInv
<1>1. ASSUME NEW h \in Harness, PlanConnect(h) PROVE LifeInv'
  BY <1>0, <1>1, QuietKept DEF PlanConnect, TypeOK
<1>2. ASSUME NEW h \in Harness, PlanDisconnect(h) PROVE LifeInv'
  BY <1>0, <1>2, QuietKept DEF PlanDisconnect, TypeOK
<1>3. ASSUME NEW h \in Harness, ApplyConnect(h) PROVE LifeInv'
  <2>1. CASE Connects(h)
    BY <1>3, <2>1, ConnectKept
  <2>2. CASE ~Connects(h)
    <3>1. /\ UNCHANGED <<config, tree, journal, last, source, edits, touched>>
          /\ plans' = [plans EXCEPT ![h] = NoPlan] /\ calls < CallLimit /\ calls' = calls + 1
      BY <1>3, <2>2 DEF ApplyConnect, Connects
    <3>2. calls' \in 0..CallLimit
      BY <1>0, <3>1, LifecycleConstants DEF TypeOK
    <3> QED
      BY <1>0, <3>1, <3>2, QuietKept DEF TypeOK
  <2> QED
    BY <2>1, <2>2
<1>4. ASSUME NEW h \in Harness, ApplyDisconnect(h) PROVE LifeInv'
  <2>1. CASE Disconnects(h)
    BY <1>4, <2>1, DisconnectKept
  <2>2. CASE ~Disconnects(h)
    <3>1. /\ UNCHANGED <<config, tree, journal, last, source, edits, touched>>
          /\ plans' = [plans EXCEPT ![h] = NoPlan] /\ calls < CallLimit /\ calls' = calls + 1
      BY <1>4, <2>2 DEF ApplyDisconnect, Disconnects
    <3>2. calls' \in 0..CallLimit
      BY <1>0, <3>1, LifecycleConstants DEF TypeOK
    <3> QED
      BY <1>0, <3>1, <3>2, QuietKept DEF TypeOK
  <2> QED
    BY <2>1, <2>2
<1>5. ASSUME NEW h \in Harness, RemoveLegacy(h) PROVE LifeInv'
  BY <1>5, RemoveKept
<1>6. ASSUME NEW h \in Harness, EditOwn(h) \/ EditHook(h) \/ DeleteConfig(h) PROVE LifeInv'
  BY <1>6, EditKept
<1>7. CASE EditTree
  BY <1>7, TreeEditKept
<1>8. CASE Upgrade
  <2>1. edits' \in 0..PersonLimit
    BY <1>0, <1>8, LifecycleConstants DEF Upgrade, TypeOK
  <2> QED
    BY <1>0, <1>8, <2>1, QuietKept DEF Upgrade, TypeOK
<1>9. CASE UNCHANGED vars
  BY <1>0, <1>9, QuietKept DEF vars, TypeOK
<1> QED
  BY <1>1, <1>2, <1>3, <1>4, <1>5, <1>6, <1>7, <1>8, <1>9 DEF Next

-----------------------------------------------------------------------------
(* The beginning.                                                           *)

(* A journal of the records of old connections, each once.                  *)
LEMMA OldJournal ==
  ASSUME NEW old \in SUBSET Harness, NEW f \in [Harness -> Record], \A h \in Harness : f[h].harness = h,
         NEW s \in SetToSeqs({f[h] : h \in old})
  PROVE  /\ s \in Seq(Record) /\ Len(s) <= RecordLimit
         /\ \A i \in DOMAIN s : \E h \in old : s[i] = f[h]
<1> DEFINE T == {f[h] : h \in old}
           g == [h \in old |-> f[h]]
<1>1. IsFiniteSet(Harness) /\ Cardinality(Harness) <= RecordLimit
  BY LifecycleConstants, FS_AddElement DEF Harness
<1>2. IsFiniteSet(old) /\ Cardinality(old) <= Cardinality(Harness)
  BY <1>1, FS_Subset
<1>3. g \in Surjection(old, T)
  BY DEF Surjection
<1>4. IsFiniteSet(T) /\ Cardinality(T) <= Cardinality(old)
  <2> HIDE DEF T, g
  <2> QED BY <1>2, <1>3, FS_Surjection
<1>5. s \in [1..Cardinality(T) -> T]
  BY DEF SetToSeqs
<1>6. T \subseteq Record
  OBVIOUS
<1>7. Cardinality(T) \in Nat /\ Cardinality(old) \in Nat /\ Cardinality(Harness) \in Nat
  BY <1>1, <1>2, <1>4, FS_CardinalityType
<1>8. RecordLimit \in Nat
  BY Room1
<1>9. \A i \in DOMAIN s : s[i] \in T
  BY <1>5
<1>10. Len(s) = Cardinality(T) /\ s \in Seq(Record)
  <2> HIDE DEF T
  <2>1. s \in [1..Cardinality(T) -> Record]
    BY <1>5, <1>6
  <2> QED
    BY <1>5, <1>7, <2>1
<1> QED
  BY <1>1, <1>2, <1>4, <1>7, <1>8, <1>9, <1>10

(* The invariant holds at the start.                                        *)
LEMMA InitKept == Init => LifeInv
<1> SUFFICES ASSUME Init PROVE LifeInv
  OBVIOUS
<1>1. PICK old \in SUBSET Harness, others \in {{}, Merged} :
        /\ config = [h \in Harness |->
                       IF h \in old THEN [hook |-> "whole", own |-> h \in others]
                       ELSE IF h \in others THEN [hook |-> "none", own |-> TRUE] ELSE Nothing]
        /\ journal \in SetToSeqs({OldRecord(h) : h \in old})
        /\ last = [h \in Harness |-> IF h \in old THEN OldRecord(h) ELSE Nothing]
        /\ tree = IF old = {} THEN Nothing ELSE Legacy
  BY DEF Init
<1>2. /\ source \in Packaged /\ plans = [h \in Harness |-> NoPlan]
      /\ calls = 0 /\ edits = 0 /\ touched = FALSE
  BY DEF Init
<1>3. \A h \in Harness : config[h] \in Config \cup {Nothing}
  <2>1. ASSUME NEW h \in Harness PROVE [hook |-> "whole", own |-> h \in others] \in Config
    BY DEF Config, Hook
  <2>2. [hook |-> "none", own |-> TRUE] \in Config
    BY DEF Config, Hook
  <2> QED
    BY <1>1, <2>1, <2>2
<1>4. config \in [Harness -> Config \cup {Nothing}]
  BY <1>1, <1>3
<1>5. ASSUME NEW h \in Harness
      PROVE  /\ OldRecord(h) \in Record /\ OldRecord(h) # Nothing
             /\ OldRecord(h).v = 1 /\ OldRecord(h).harness = h
             /\ OldRecord(h).status = "installed" /\ OldRecord(h).after = config[h]
  <2>1. 0 \in 0..CallLimit
    BY LifecycleConstants
  <2>2. OldRecord(h) \in Record
    BY <1>3, <2>1 DEF OldRecord, Record, NoCompanion
  <2> QED
    BY <2>2, NothingIsNeither DEF OldRecord
<1> DEFINE f == [h \in Harness |-> OldRecord(h)]
<1>6. f \in [Harness -> Record] /\ \A h \in Harness : f[h].harness = h /\ f[h] = OldRecord(h)
  BY <1>5
<1>7. {f[h] : h \in old} = {OldRecord(h) : h \in old}
  OBVIOUS
<1> HIDE DEF f
<1>8. /\ journal \in Seq(Record) /\ Len(journal) <= RecordLimit
      /\ \A i \in DOMAIN journal : \E h \in old : journal[i] = f[h]
  <2>1. journal \in SetToSeqs({f[h] : h \in old})
    BY <1>1, <1>7
  <2> QED
    BY <1>6, <2>1, OldJournal
<1>9. ASSUME NEW i \in DOMAIN journal
      PROVE  \E h \in old : journal[i] = OldRecord(h)
  BY <1>6, <1>8
<1>10. ASSUME NEW i \in DOMAIN journal PROVE journal[i].v = 1 /\ ValidRecord(journal[i])
  BY <1>5, <1>9 DEF ValidRecord
<1>11. last \in [Harness -> Record \cup {Nothing}]
  BY <1>1, <1>5
<1>12. TypeOK
  <2>1. tree \in Tree \cup {Nothing}
    BY <1>1 DEF Tree
  <2>2. DOMAIN plans = Harness /\ \A h \in Harness : plans[h].kind \in {"none", "connect", "disconnect"}
    BY <1>2 DEF NoPlan
  <2>3. calls \in 0..CallLimit /\ edits \in 0..PersonLimit
    <3>1. CallLimit \in Nat /\ PersonLimit \in Nat
      BY LifecycleConstants
    <3> QED
      BY <1>2, <3>1
  <2>5. touched \in BOOLEAN
    BY <1>2
  <2>4. \A i \in DOMAIN journal : ValidRecord(journal[i])
    BY <1>10
  <2> QED
    BY <1>2, <1>4, <1>8, <1>11, <2>1, <2>2, <2>3, <2>4, <2>5 DEF TypeOK
<1>13. NewestIsLast
  <2> SUFFICES ASSUME NEW h \in Harness, NEW i \in DOMAIN journal, FirstOf(h, i)
               PROVE  journal[i] = last[h]
    BY DEF NewestIsLast
  <2>1. PICK g \in old : journal[i] = OldRecord(g)
    BY <1>9
  <2>2. g = h
    BY <2>1, <1>5 DEF FirstOf
  <2> QED
    BY <2>1, <2>2, <1>1
<1>14. ~HeadIs2 /\ ~Any2
  <2>1. ~Any2
    BY <1>10 DEF Any2
  <2>2. HeadIs2 => 1 \in DOMAIN journal /\ Head(journal) = journal[1]
    BY <1>8 DEF HeadIs2
  <2> QED
    BY <1>10, <2>1, <2>2 DEF HeadIs2
<1>15. \A h \in Harness : last[h] # Nothing => last[h].v = 1 /\ h \in old /\ last[h] = OldRecord(h)
  BY <1>1, <1>5
<1>16. OldAlone /\ PackagedOnly /\ CompanionWhileUsed
  BY <1>10, <1>14, <1>15 DEF OldAlone, PackagedOnly, CompanionWhileUsed, Connected
<1>17. HookFileOnly
  <2>1. Copilot \notin others /\ Copilot \in Harness
    BY LifecycleConstants DEF Harness
  <2> QED
    BY <1>1, <2>1 DEF HookFileOnly
<1>18. AsRecorded
  <2>1. ASSUME NEW h \in Harness
        PROVE  /\ last[h] # Nothing => config[h] = last[h].after
               /\ config[h] # Nothing => config[h].hook \in {"none", "whole"}
               /\ HasHook(h) <=> IsIn(h)
    <3>1. CASE h \in old
      <4>1. config[h].hook = "whole" /\ config[h] # Nothing
        <5>1. config[h] = [hook |-> "whole", own |-> h \in others]
          BY <1>1, <3>1
        <5>2. [hook |-> "whole", own |-> h \in others] \in Config
          BY DEF Config, Hook
        <5> QED
          BY <5>1, <5>2, NothingIsNeither
      <4>2. last[h] = OldRecord(h)
        BY <1>1, <3>1
      <4> QED
        BY <4>1, <4>2, <1>5 DEF HasHook, IsIn
    <3>2. CASE h \notin old
      BY <1>1, <3>2 DEF HasHook, IsIn
    <3> QED
      BY <3>1, <3>2
  <2> QED
    BY <1>1, <1>14, <2>1 DEF AsRecorded
<1> QED
  BY <1>12, <1>13, <1>16, <1>17, <1>18 DEF LifeInv

(* LifeInv is inductive: it holds at the start and every step keeps it.     *)
THEOREM LifeInvHolds == Spec => []LifeInv
<1> QED
  BY InitKept, NextKept, PTL DEF Spec

(* Everything has its type and the journal holds valid records only,        *)
(* however long it is and whatever is connected, disconnected and edited.   *)
THEOREM TypeOKHolds == Spec => []TypeOK
<1>1. LifeInv => TypeOK
  BY DEF LifeInv
<1> QED
  BY <1>1, LifeInvHolds, PTL

(* The head of the journal names exactly the Harnesses that are connected,  *)
(* and the companion is there as long as one of them is, even when their    *)
(* own records have been cut from the journal.                              *)
THEOREM CompanionWhileUsedHolds == Spec => []CompanionWhileUsed
<1>1. LifeInv => CompanionWhileUsed
  BY DEF LifeInv
<1> QED
  BY <1>1, LifeInvHolds, PTL

-----------------------------------------------------------------------------
(* What a person made.                                                      *)

(* What PersonsWorkKept says of one step.                                   *)
WorkKept ==
    calls' # calls =>
        /\ tree' # tree => tree # Foreign
        /\ \A h \in Harness : config'[h] # config[h] /\ config[h] # Nothing =>
              /\ config[h].hook \notin {"changed", "twice"}
              /\ config'[h] # Nothing => config'[h].own = config[h].own
              /\ config'[h] = Nothing => ~config[h].own

(* A connection changes nothing a person made.                              *)
LEMMA ConnectKeepsWork ==
  ASSUME LifeInv, NEW h \in Harness, ApplyConnect(h), Connects(h)
  PROVE  WorkKept
<1>1. /\ config' = [config EXCEPT ![h] = ConnectPlan(h).after] /\ tree' = source
  BY ConnectOutcome
<1>2. tree' # tree => tree # Foreign
  <2>1. tree = Nothing \/ tree = source \/ tree # Foreign
    BY Inspected DEF Connects, MayConnect
  <2> QED
    BY <1>1, <2>1, LifecycleConstants
<1>3. config'[h] = ConnectPlan(h).after /\ \A g \in Harness : g # h => config'[g] = config[g]
  BY <1>1 DEF LifeInv, TypeOK
<1>4. /\ ConnectPlan(h).after \in Config
      /\ config[h] # Nothing => /\ ConnectPlan(h).after.own = config[h].own
                                /\ config[h].hook \in {"none", "part", "whole"}
  BY ConnectedConfig DEF Connects
<1> QED
  BY <1>2, <1>3, <1>4, NothingIsNeither DEF WorkKept

(* Nor does a disconnection.                                                *)
LEMMA DisconnectKeepsWork ==
  ASSUME LifeInv, NEW h \in Harness, ApplyDisconnect(h), Disconnects(h)
  PROVE  WorkKept
<1> DEFINE left == [config[h] EXCEPT !.hook = "none"]
<1>1. /\ config' = [config EXCEPT ![h] = left] /\ tree \in Packaged
      /\ config[h] \in Config /\ config[h].hook = "whole"
  <2> DEFINE r == DisconnectRecord(h, plans[h])
  <2>1. /\ r.after = left /\ config' = [config EXCEPT ![h] = r.after] /\ r.companion.installed = tree
        /\ tree \in Packaged /\ config[h] \in Config /\ config[h].hook = "whole"
    BY DisconnectOutcome
  <2> QED
    BY <2>1
<1>2. left \in Config /\ left.own = config[h].own
  BY <1>1 DEF Config, Hook
<1> HIDE DEF left
<1>3. config'[h] = left /\ \A g \in Harness : g # h => config'[g] = config[g]
  BY <1>1 DEF LifeInv, TypeOK
<1>4. tree # Foreign
  BY <1>1, LifecycleConstants
<1> QED
  BY <1>1, <1>2, <1>3, <1>4, NothingIsNeither DEF WorkKept

(* Nor does the removal of an alpha connection.                             *)
LEMMA RemoveKeepsWork ==
  ASSUME LifeInv, NEW h \in Harness, RemoveLegacy(h)
  PROVE  WorkKept
<1> DEFINE left == IF h = Copilot THEN Nothing ELSE [config[h] EXCEPT !.hook = "none"]
<1>1. config' = [config EXCEPT ![h] = left] /\ tree' = tree /\ config[h] # Nothing /\ config[h].hook = "whole"
  BY DEF RemoveLegacy, Proven, HasHook
<1>2. config[h] \in Config
  BY <1>1 DEF LifeInv, TypeOK
<1>3. /\ left # Nothing => left.own = config[h].own
      /\ left = Nothing => ~config[h].own
  <2>1. CASE h = Copilot
    BY <1>1, <2>1 DEF LifeInv, HookFileOnly
  <2>2. CASE h # Copilot
    <3>1. left \in Config /\ left.own = config[h].own
      BY <1>2, <2>2 DEF Config, Hook
    <3> QED
      BY <3>1, NothingIsNeither
  <2> QED
    BY <2>1, <2>2
<1> HIDE DEF left
<1>4. config'[h] = left /\ \A g \in Harness : g # h => config'[g] = config[g]
  BY <1>1 DEF LifeInv, TypeOK
<1> QED
  BY <1>1, <1>3, <1>4 DEF WorkKept

(* No step does.                                                            *)
LEMMA StepKeepsWork == LifeInv /\ [Next]_vars => WorkKept
<1> SUFFICES ASSUME LifeInv, [Next]_vars, calls' # calls PROVE WorkKept
  BY DEF WorkKept
<1>1. ASSUME NEW h \in Harness, ApplyConnect(h) PROVE WorkKept
  <2>1. CASE Connects(h)
    BY <1>1, <2>1, ConnectKeepsWork
  <2>2. CASE ~Connects(h)
    BY <1>1, <2>2 DEF ApplyConnect, Connects, WorkKept
  <2> QED
    BY <2>1, <2>2
<1>2. ASSUME NEW h \in Harness, ApplyDisconnect(h) PROVE WorkKept
  <2>1. CASE Disconnects(h)
    BY <1>2, <2>1, DisconnectKeepsWork
  <2>2. CASE ~Disconnects(h)
    BY <1>2, <2>2 DEF ApplyDisconnect, Disconnects, WorkKept
  <2> QED
    BY <2>1, <2>2
<1>3. ASSUME NEW h \in Harness, RemoveLegacy(h) PROVE WorkKept
  BY <1>3, RemoveKeepsWork
<1>4. ASSUME NEW h \in Harness,
             PlanConnect(h) \/ PlanDisconnect(h) \/ EditOwn(h) \/ EditHook(h) \/ DeleteConfig(h)
      PROVE  calls' = calls
  BY <1>4 DEF PlanConnect, PlanDisconnect, EditOwn, EditHook, DeleteConfig
<1>5. EditTree \/ Upgrade \/ UNCHANGED vars => calls' = calls
  BY DEF EditTree, Upgrade, vars
<1> QED
  BY <1>1, <1>2, <1>3, <1>4, <1>5 DEF Next

(* No apply ever changes or removes what a person made.                     *)
THEOREM PersonsWorkKeptHolds == Spec => PersonsWorkKept
<1>1. LifeInv /\ [Next]_vars => [WorkKept]_vars
  BY StepKeepsWork
<1>2. PersonsWorkKept <=> [][WorkKept]_vars
  BY DEF PersonsWorkKept, WorkKept
<1> QED
  BY <1>1, <1>2, LifeInvHolds, PTL DEF Spec

-----------------------------------------------------------------------------
(* Nothing gets stuck while no person interferes and no record is cut.      *)

(* No person interfered and no newest record was cut from the journal.      *)
Undisturbed == LifeInv /\ ~touched /\ \A h \in Harness : Newest(h) = last[h]

(* The evidence of a Harness agrees.                                        *)
LEMMA ProvenIsIn ==
  ASSUME Undisturbed, NEW h \in Harness
  PROVE  /\ Installed(h) <=> IsIn(h)
         /\ Proven(h) <=> IsIn(h)
         /\ HasHook(h) <=> IsIn(h)
<1>1. Installed(h) <=> IsIn(h)
  BY DEF Undisturbed, Installed, IsIn
<1>2. HasHook(h) <=> IsIn(h)
  BY DEF Undisturbed, LifeInv, AsRecorded
<1> QED
  BY <1>1, <1>2 DEF Proven

(* The consumers can always be resolved.                                    *)
LEMMA Resolvable ==
  ASSUME Undisturbed, NEW h \in Harness
  PROVE  ResolveConsumers(h) # Unproven
<1>0. TypeOK /\ OldAlone /\ CompanionWhileUsed
  BY DEF Undisturbed, LifeInv
<1>1. HeadIs2 <=> Any2
  BY <1>0, OneVersion
<1>2. ASSUME HeadIs2, NEW g \in Candidates(h) PROVE Proven(g)
  <2>1. g \in Head(journal).companion.consumers /\ g \in Harness
    BY <1>0, <1>2, HeadRecord DEF Candidates, Record
  <2>2. IsIn(g)
    BY <1>0, <1>2, <2>1 DEF CompanionWhileUsed, IsIn
  <2> QED
    BY <2>1, <2>2, ProvenIsIn
<1>3. ResolveConsumers(h) = {g \in Candidates(h) : Proven(g)} \cup {h}
  BY <1>1, <1>2 DEF ResolveConsumers
<1>4. h # "unproven"
  BY LifecycleConstants DEF Harness
<1> QED
  BY <1>3, <1>4 DEF Unproven

(* The tree is what the head of the journal says it left.                   *)
LEMMA TreeOfHead ==
  ASSUME Undisturbed, HeadIs2
  PROVE  LET c == Head(journal).companion IN
         /\ c.installed \in Packaged /\ c.consumers \in SUBSET Harness /\ tree = c.after
         /\ c.action = "remove" => c.after = Nothing /\ c.consumers = {}
         /\ c.action # "remove" => c.after = c.installed
<1>1. /\ Head(journal) = journal[1] /\ 1 \in DOMAIN journal /\ journal[1] \in Record
      /\ journal[1].v = 2 /\ ValidRecord(journal[1])
  BY HeadRecord DEF Undisturbed, LifeInv
<1>2. journal[1].companion.installed \in Packaged /\ tree = journal[1].companion.after
  BY <1>1 DEF Undisturbed, LifeInv, PackagedOnly, AsRecorded
<1>3. journal[1].companion.consumers \in SUBSET Harness
  BY <1>1 DEF Record
<1>4. ValidTransition(journal[1].companion)
  BY <1>1 DEF ValidRecord
<1> QED
  BY <1>1, <1>2, <1>3, <1>4 DEF ValidTransition

(* The Harness can be disconnected, and its status says it is connected.    *)
Leaves(h) ==
    /\ MayDisconnect(h) /\ ValidDisconnectPlan(h, DisconnectPlan(h))
    /\ ValidRecord(DisconnectRecord(h, DisconnectPlan(h)))
    /\ HookStatus(h) = "installed"

(* A connected Harness can leave.                                           *)
LEMMA ConnectedLeaves ==
  ASSUME Undisturbed, NEW h \in Harness, Connected(h)
  PROVE  Leaves(h)
<1> DEFINE c == Head(journal).companion
           p == DisconnectPlan(h)
           r == DisconnectRecord(h, p)
<1>0. TypeOK /\ OldAlone /\ CompanionWhileUsed /\ HookFileOnly /\ Newest(h) = last[h]
  BY DEF Undisturbed, LifeInv
<1>1. HeadIs2 /\ h \in c.consumers
  BY <1>0 DEF OldAlone, CompanionWhileUsed, Connected
<1>2. /\ c.installed \in Packaged /\ c.consumers \in SUBSET Harness /\ tree = c.after
      /\ c.after = c.installed
  BY <1>1, TreeOfHead
<1>3. IsIn(h) /\ Installed(h) /\ HasHook(h)
  BY ProvenIsIn DEF Connected, IsIn
<1>4. config[h] = last[h].after /\ config[h] # Nothing /\ config[h] \in Config /\ config[h].hook = "whole"
  BY <1>0, <1>3 DEF Undisturbed, LifeInv, AsRecorded, IsIn, HasHook, TypeOK
<1>5. ResolveConsumers(h) # Unproven /\ ResolveConsumers(h) = c.consumers \cup {h}
  BY <1>0, <1>1, Resolvable, Resolved
<1>6. MayDisconnect(h)
  BY <1>0, <1>1, <1>2, <1>3, <1>4, <1>5 DEF MayDisconnect, Connected
<1>7. /\ p.head = Head(journal) /\ p.record = last[h] /\ p.before = config[h]
      /\ p.after = [config[h] EXCEPT !.hook = "none"] /\ p.remaining = c.consumers \ {h}
  BY <1>0, <1>5 DEF DisconnectPlan
<1>8. p.after.own = p.before.own
  BY <1>4, <1>7 DEF Config
<1>9. ValidDisconnectPlan(h, p)
  BY <1>1, <1>7, <1>8 DEF ValidDisconnectPlan, Connected
<1>10. c.installed # Nothing
  BY <1>2, LifecycleConstants
<1>11. ValidRecord(r)
  <2>1. /\ r.v = 2 /\ r.status = "removed" /\ r.harness = h
        /\ r.companion.before = c.installed /\ r.companion.installed = c.installed
        /\ r.companion.proof = "recorded" /\ r.companion.consumers = p.remaining
        /\ r.companion.action = IF p.remaining = {} THEN "remove" ELSE "retain"
        /\ r.companion.after = IF p.remaining = {} THEN Nothing ELSE c.installed
    BY <1>7 DEF DisconnectRecord
  <2> HIDE DEF r
  <2>2. ValidTransition(r.companion)
    BY <2>1, <1>10 DEF ValidTransition
  <2> QED
    BY <2>1, <2>2, <1>7 DEF ValidRecord
<1>12. HookStatus(h) = "installed"
  <2>1. CASE h = Copilot
    <3>1. ~config[h].own
      BY <1>0, <1>4, <2>1 DEF HookFileOnly
    <3>2. config[h] = Ours
      BY <1>4, <3>1 DEF Ours, Config
    <3> QED
      BY <1>0, <1>4, <2>1, <3>2 DEF HookStatus
  <2>2. CASE h # Copilot
    BY <1>3, <2>2 DEF HookStatus, HasHook
  <2> QED
    BY <2>1, <2>2
<1> QED
  BY <1>6, <1>9, <1>11, <1>12 DEF Leaves

(* The Harness can be connected, and its status says what it is.            *)
Joins(h) ==
    /\ MayConnect(h) /\ ResolveConsumers(h) # Unproven
    /\ ValidRecord(ConnectRecord(h, ConnectPlan(h)))
    /\ HookStatus(h) = IF Installed(h) THEN "installed" ELSE "not-installed"

(* A review finds the companion absent as it should be, or as recorded, or  *)
(* of an alpha release whose Harness is still connected.                    *)
LEMMA CompanionFound ==
  ASSUME Undisturbed, NEW h \in Harness, ~(tree = Legacy /\ ~Any2 /\ ~Installed(h))
  PROVE  ValidSubplan(InspectCompanion(h))
<1> DEFINE m == ManagedProof(h)
           c == InspectCompanion(h)
<1>0. TypeOK /\ OldAlone /\ CompanionWhileUsed /\ AsRecorded /\ ~touched
  BY DEF Undisturbed, LifeInv
<1>1. HeadIs2 <=> Any2
  BY <1>0, OneVersion
<1>2. CASE tree = Nothing
  <2>1. HeadIs2 => Head(journal).companion.action = "remove"
    BY <1>2, TreeOfHead, LifecycleConstants
  <2>2. \/ MissingCompanion = Subplan("create", "new", 0)
        \/ MissingCompanion = Subplan("create", "new", Head(journal).id)
    BY <1>1, <2>1 DEF MissingCompanion
  <2>3. c = MissingCompanion
    BY <1>2 DEF InspectCompanion
  <2> QED
    BY <1>2, <2>2, <2>3 DEF Subplan, ValidSubplan
<1>3. CASE tree # Nothing
  <2>1. m.proof \in {"recorded", "legacy-alpha"} /\ m.installed = tree
    <3>1. CASE HeadIs2
      <4>1. tree = Head(journal).companion.installed
        BY <1>3, <3>1, TreeOfHead
      <4>2. h \in Head(journal).companion.consumers => Proven(h)
        BY <1>0, <3>1, ProvenIsIn DEF CompanionWhileUsed, IsIn
      <4>3. m = [proof |-> "recorded", id |-> Head(journal).id,
                 installed |-> Head(journal).companion.installed]
        BY <1>1, <3>1, <4>2 DEF ManagedProof
      <4> QED
        BY <4>1, <4>3
    <3>2. CASE ~HeadIs2
      <4>1. tree = Legacy /\ ~Any2
        BY <1>0, <1>1, <1>3, <3>2 DEF AsRecorded
      <4>2. Proven(h)
        BY <4>1, ProvenIsIn
      <4>3. m = [proof |-> "legacy-alpha", id |-> Newest(h).id, installed |-> tree]
        BY <3>2, <4>1, <4>2 DEF ManagedProof
      <4> QED
        BY <4>3
    <3> QED
      BY <3>1, <3>2
  <2> HIDE DEF m
  <2>2. CASE tree = source
    <3>1. c = Subplan("none", m.proof, m.id)
      BY <1>3, <2>1, <2>2 DEF InspectCompanion, m
    <3> QED
      BY <1>3, <2>1, <2>2, <3>1 DEF Subplan, ValidSubplan
  <2>3. CASE tree # source
    <3>1. c = Subplan("upgrade", m.proof, m.id)
      BY <1>3, <2>1, <2>3 DEF InspectCompanion, m
    <3> QED
      BY <1>3, <2>1, <2>3, <3>1 DEF Subplan, ValidSubplan
  <2> QED
    BY <2>2, <2>3
<1> QED
  BY <1>2, <1>3

(* Every other one can join.                                                *)
LEMMA OthersJoin ==
  ASSUME Undisturbed, NEW h \in Harness, h # Copilot, ~(tree = Legacy /\ ~Any2 /\ ~Installed(h))
  PROVE  Joins(h)
<1> DEFINE p == ConnectPlan(h)
           c == InspectCompanion(h)
           r == ConnectRecord(h, p)
<1>0. LifeInv /\ TypeOK /\ AsRecorded /\ ~touched
  BY DEF Undisturbed, LifeInv
<1>1. ValidSubplan(c)
  BY CompanionFound
<1>2. MayConnect(h)
  BY <1>0, <1>1 DEF MayConnect, AsRecorded
<1>3. ResolveConsumers(h) # Unproven /\ h \in ResolveConsumers(h)
  BY <1>0, Resolvable, Resolved
<1>4. /\ c.before = tree /\ c.after = source
      /\ \/ c.action = "create" /\ tree = Nothing /\ c.proof = "new"
         \/ /\ c.action = "none" /\ tree # Nothing /\ tree = source
            /\ c.proof \in {"recorded", "legacy-alpha"}
         \/ /\ c.action = "upgrade" /\ tree \notin {Nothing, Foreign, source}
            /\ c.proof \in {"recorded", "legacy-alpha"}
  BY <1>0, <1>1, Inspected
<1>5. ValidRecord(r)
  <2>1. /\ r.v = 2 /\ r.status = "installed" /\ r.harness = h
        /\ r.companion.action = c.action /\ r.companion.before = tree /\ r.companion.after = source
        /\ r.companion.installed = source /\ r.companion.source = source
        /\ r.companion.proof = c.proof /\ r.companion.consumers = ResolveConsumers(h)
    BY <1>4 DEF ConnectRecord, ConnectPlan
  <2> HIDE DEF r, c
  <2>2. ValidTransition(r.companion)
    BY <1>4, <2>1 DEF ValidTransition
  <2> QED
    BY <1>3, <1>4, <2>1, <2>2 DEF ValidRecord
<1>6. HookStatus(h) = IF Installed(h) THEN "installed" ELSE "not-installed"
  <2>1. CASE HasHook(h)
    <3>1. Installed(h)
      BY <2>1, ProvenIsIn
    <3> QED
      BY <2>1, <3>1 DEF HookStatus, HasHook
  <2>2. CASE ~HasHook(h)
    <3>1. ~Installed(h)
      BY <2>2, ProvenIsIn
    <3>2. config[h] # Nothing => config[h].hook = "none"
      BY <1>0, <2>2 DEF AsRecorded, HasHook
    <3> QED
      BY <2>2, <3>1, <3>2 DEF HookStatus
  <2> QED
    BY <2>1, <2>2
<1> QED
  BY <1>2, <1>3, <1>5, <1>6 DEF Joins

(* As long as no person interferes and no record was cut, every connected   *)
(* Harness can be disconnected, every other one connected.                  *)
THEOREM NeverStuckHolds == Spec => []NeverStuck
<1>1. ASSUME LifeInv PROVE NeverStuck
  <2> SUFFICES ASSUME ~touched, \A h \in Harness : Newest(h) = last[h], NEW h \in Harness
               PROVE  IF Connected(h) THEN Leaves(h)
                      ELSE \/ h = Copilot \/ (tree = Legacy /\ ~Any2 /\ ~Installed(h))
                           \/ Joins(h)
    BY DEF NeverStuck, Leaves, Joins
  <2>1. Undisturbed
    BY <1>1 DEF Undisturbed
  <2> QED
    BY <2>1, ConnectedLeaves, OthersJoin
<1> QED
  BY <1>1, LifeInvHolds, PTL

-----------------------------------------------------------------------------
(* The build of the inventory plan (InventoryBuild).                        *)

(* The type of the variables.                                               *)
BuildTypeOK ==
    /\ buildCase \in BuildCases
    /\ buildStep \in Planners \cup {"rest", "built"}
    /\ restPlugins \in Nat
    /\ restDirectories \in Nat
    /\ visited \in Nat
    /\ gathered \in Seq(PlanSource)
    /\ built \subseteq PlanSource

(* While planners are to come, what is left of the plugins has not been told.*)
BudgetInv ==
    /\ BuildTypeOK
    /\ BuildWithinBudget
    /\ buildStep \in Planners =>
          Cardinality(PluginsOf(gathered)) + restPlugins <= buildCase.limits.plugins

-----------------------------------------------------------------------------
(* A sequence of sources tells of finitely many plugins.                    *)
LEMMA PluginsFinite ==
    ASSUME NEW s \in Seq(PlanSource)
    PROVE  IsFiniteSet(PluginsOf(s)) /\ Cardinality(PluginsOf(s)) \in Nat
<1> DEFINE N == {j \in DOMAIN s : s[j].ownership = "native-plugin"}
           f == [k \in N |-> s[k].plugin]
<1>1. IsFiniteSet(1 .. Len(s))
  BY FS_Interval
<1>2. N \subseteq 1 .. Len(s)
  OBVIOUS
<1>3. IsFiniteSet(N)
  BY <1>1, <1>2, FS_Subset
<1>4. f \in Surjection(N, PluginsOf(s))
  BY DEF PluginsOf, Surjection
<1>5. IsFiniteSet(PluginsOf(s))
  BY <1>3, <1>4, FS_Surjection
<1> QED
  BY <1>5, FS_CardinalityType

(* Sources that are added add their plugins.                                *)
LEMMA PluginsOfBoth ==
    ASSUME NEW s \in Seq(PlanSource), NEW t \in Seq(PlanSource)
    PROVE  PluginsOf(s \o t) = PluginsOf(s) \cup PluginsOf(t)
<1>1. PluginsOf(s \o t) \subseteq PluginsOf(s) \cup PluginsOf(t)
  <2> SUFFICES ASSUME NEW k \in DOMAIN (s \o t), (s \o t)[k].ownership = "native-plugin"
               PROVE  (s \o t)[k].plugin \in PluginsOf(s) \cup PluginsOf(t)
    BY DEF PluginsOf
  <2>1. CASE k \in DOMAIN s
    BY <2>1 DEF PluginsOf
  <2>2. CASE k \notin DOMAIN s
    <3>1. k - Len(s) \in DOMAIN t /\ (s \o t)[k] = t[k - Len(s)]
      BY <2>2
    <3> QED
      BY <3>1 DEF PluginsOf
  <2> QED
    BY <2>1, <2>2
<1>2. PluginsOf(s) \subseteq PluginsOf(s \o t)
  <2> SUFFICES ASSUME NEW k \in DOMAIN s, s[k].ownership = "native-plugin"
               PROVE  s[k].plugin \in PluginsOf(s \o t)
    BY DEF PluginsOf
  <2>1. k \in DOMAIN (s \o t) /\ (s \o t)[k] = s[k]
    OBVIOUS
  <2> QED
    BY <2>1 DEF PluginsOf
<1>3. PluginsOf(t) \subseteq PluginsOf(s \o t)
  <2> SUFFICES ASSUME NEW k \in DOMAIN t, t[k].ownership = "native-plugin"
               PROVE  t[k].plugin \in PluginsOf(s \o t)
    BY DEF PluginsOf
  <2>1. k + Len(s) \in DOMAIN (s \o t) /\ (s \o t)[k + Len(s)] = t[k]
    OBVIOUS
  <2> QED
    BY <2>1 DEF PluginsOf
<1> QED
  BY <1>1, <1>2, <1>3

(* What is added is no more than what it is made of.                        *)
LEMMA PluginsAdded ==
    ASSUME NEW s \in Seq(PlanSource), NEW t \in Seq(PlanSource)
    PROVE  Cardinality(PluginsOf(s \o t)) <= Cardinality(PluginsOf(s)) + Cardinality(PluginsOf(t))
<1>1. IsFiniteSet(PluginsOf(s)) /\ Cardinality(PluginsOf(s)) \in Nat
  BY PluginsFinite
<1>2. IsFiniteSet(PluginsOf(t)) /\ Cardinality(PluginsOf(t)) \in Nat
  BY PluginsFinite
<1>3. IsFiniteSet(PluginsOf(s) \cap PluginsOf(t))
  BY <1>1, FS_Subset
<1>4. Cardinality(PluginsOf(s) \cap PluginsOf(t)) \in Nat
  BY <1>3, FS_CardinalityType
<1>5. Cardinality(PluginsOf(s) \cup PluginsOf(t)) =
          Cardinality(PluginsOf(s)) + Cardinality(PluginsOf(t)) - Cardinality(PluginsOf(s) \cap PluginsOf(t))
  BY <1>1, <1>2, FS_Union
<1>6. Cardinality(PluginsOf(s) \cup PluginsOf(t)) <= Cardinality(PluginsOf(s)) + Cardinality(PluginsOf(t))
  BY <1>1, <1>2, <1>4, <1>5
<1>7. PluginsOf(s \o t) = PluginsOf(s) \cup PluginsOf(t)
  BY PluginsOfBoth
<1> QED
  BY <1>6, <1>7

-----------------------------------------------------------------------------
(* A build starts within its limits.                                        *)
LEMMA BuildStarts == BuildInit => BudgetInv
<1> SUFFICES ASSUME BuildInit PROVE BudgetInv
  OBVIOUS
<1>1. buildCase.limits.plugins \in Nat /\ buildCase.limits.directories \in Nat
  BY BuildCasesAssumption DEF BuildInit, BuildLimits
<1>2. gathered \in Seq(PlanSource)
  BY DEF BuildInit
<1>3. PluginsOf(gathered) = {}
  BY DEF BuildInit, PluginsOf
<1>4. Cardinality(PluginsOf(gathered)) = 0
  BY <1>3, FS_EmptySet
<1> QED
  BY <1>1, <1>2, <1>4 DEF BuildInit, BudgetInv, BuildTypeOK, BuildWithinBudget, Planners

LEMMA Spent ==
  ASSUME NEW a \in Int, NEW b \in Int, NEW c \in Int, NEW r \in Int, NEW l \in Int,
         b <= a + c, a + r <= l
  PROVE  b + (r - c) <= l
  OBVIOUS

LEMMA Walked ==
  ASSUME NEW k \in Nat, NEW r \in Nat, NEW v \in Nat, NEW l \in Nat, NEW n \in 0 .. k,
         k <= r, v + r <= l
  PROVE  k - n \in Nat /\ v + n \in Nat /\ (v + n) + (k - n) <= l
  OBVIOUS

(* A planner that keeps within what it is given keeps the build within its  *)
(* limits.                                                                  *)
LEMMA PlanWithin ==
    ASSUME NEW p \in Planners, NEW then \in Planners \cup {"rest"},
           p = "copilot" <=> then = "rest",
           BudgetInv, Plan(p, then)
    PROVE  BudgetInv'
<1> DEFINE mine == buildCase.planned[p]
           asked == buildCase.requests[p]
           limit == AdapterLimit(asked.directories, restDirectories)
<1>1. PICK n \in 0 .. Len(mine), read \in 0 .. limit :
          /\ Cardinality(PluginsOf(SubSeq(mine, 1, n))) <= AdapterLimit(asked.plugins, restPlugins)
          /\ gathered' = gathered \o SubSeq(mine, 1, n)
          /\ restPlugins' = IF p = "copilot" THEN restPlugins
                            ELSE Left(restPlugins, Cardinality(PluginsOf(SubSeq(mine, 1, n))))
          /\ restDirectories' = ResidualDirectories(limit - read, restDirectories)
          /\ visited' = visited + read
  BY DEF Plan
<1> DEFINE told == SubSeq(mine, 1, n)
           count == Cardinality(PluginsOf(told))
<1>2. /\ buildCase \in BuildCases /\ mine \in Seq(PlanSource) /\ asked \in BuildLimits
      /\ buildCase.limits \in BuildLimits
  BY BuildCasesAssumption DEF BudgetInv, BuildTypeOK
<1>3. /\ asked.plugins \in Nat /\ asked.directories \in Nat
      /\ buildCase.limits.plugins \in Nat /\ buildCase.limits.directories \in Nat
  BY <1>2 DEF BuildLimits
<1>4. told \in Seq(PlanSource)
  BY <1>2
<1>5. count \in Nat /\ Cardinality(PluginsOf(gathered)) \in Nat
  BY <1>4, PluginsFinite DEF BudgetInv, BuildTypeOK
<1>6. buildStep' = then /\ buildCase' = buildCase /\ built' = built /\ buildStep = p
  BY DEF Plan
<1>7. limit \in Nat /\ limit <= restDirectories
  BY <1>3 DEF AdapterLimit, AtMost, BudgetInv, BuildTypeOK
<1>8. restDirectories' \in Nat /\ visited' \in Nat /\ visited' + restDirectories' <= buildCase.limits.directories
  <2>1. restDirectories' = limit - read
    BY <1>1, <1>7 DEF ResidualDirectories, AtMost, BudgetInv, BuildTypeOK
  <2>2. restDirectories \in Nat /\ visited \in Nat /\ visited + restDirectories <= buildCase.limits.directories
    BY DEF BudgetInv, BuildTypeOK, BuildWithinBudget
  <2> DEFINE l == buildCase.limits.directories
  <2>3. l \in Nat /\ visited + restDirectories <= l
    BY <1>3, <2>2
  <2>4. read \in 0 .. limit /\ visited' = visited + read
    BY <1>1
  <2> HIDE DEF limit, l
  <2>5. limit - read \in Nat /\ visited + read \in Nat /\ (visited + read) + (limit - read) <= l
    BY ONLY <1>7, <2>2, <2>3, <2>4, Walked
  <2> QED
    BY ONLY <2>1, <2>4, <2>5 DEF l
<1>9. gathered' \in Seq(PlanSource)
  BY <1>1, <1>4 DEF BudgetInv, BuildTypeOK
<1>10. Cardinality(PluginsOf(gathered')) <= Cardinality(PluginsOf(gathered)) + count
  BY <1>1, <1>4, PluginsAdded DEF BudgetInv, BuildTypeOK
<1>11. Cardinality(PluginsOf(gathered')) \in Nat
  BY <1>9, PluginsFinite
<1>12. count <= restPlugins
  <2>1. count <= AdapterLimit(asked.plugins, restPlugins)
    BY <1>1
  <2>2. asked.plugins \in Nat /\ restPlugins \in Nat
    BY <1>3 DEF BudgetInv, BuildTypeOK
  <2> DEFINE most == AdapterLimit(asked.plugins, restPlugins)
  <2>3. most \in Nat /\ most <= restPlugins
    BY ONLY <2>2 DEF AdapterLimit, AtMost
  <2> HIDE DEF count, most
  <2> QED
    BY ONLY <1>5, <2>1, <2>2, <2>3 DEF most
<1>13. restPlugins' \in Nat /\ (p # "copilot" => restPlugins' = restPlugins - count)
  BY <1>1, <1>5, <1>12 DEF Left, BudgetInv, BuildTypeOK
<1>14. Cardinality(PluginsOf(gathered)) + restPlugins <= buildCase.limits.plugins
  BY <1>6 DEF BudgetInv
<1>15. Cardinality(PluginsOf(gathered')) <= buildCase.limits.plugins
  <2> DEFINE a == Cardinality(PluginsOf(gathered))
             b == Cardinality(PluginsOf(gathered'))
             l == buildCase.limits.plugins
  <2>1. a \in Nat /\ b \in Nat /\ l \in Nat /\ count \in Nat /\ restPlugins \in Nat
    BY <1>3, <1>5, <1>11 DEF BudgetInv, BuildTypeOK
  <2>2. b <= a + count /\ a + restPlugins <= l
    BY <1>10, <1>14
  <2> HIDE DEF a, b, l, count
  <2>3. b <= l
    BY ONLY <1>12, <2>1, <2>2
  <2> QED
    BY ONLY <2>3 DEF b, l
<1>16. p # "copilot" => Cardinality(PluginsOf(gathered')) + restPlugins' <= buildCase.limits.plugins
  <2> DEFINE a == Cardinality(PluginsOf(gathered))
             b == Cardinality(PluginsOf(gathered'))
             l == buildCase.limits.plugins
  <2>1. a \in Int /\ b \in Int /\ l \in Int /\ count \in Int /\ restPlugins \in Int
    BY <1>3, <1>5, <1>11 DEF BudgetInv, BuildTypeOK
  <2>2. b <= a + count /\ a + restPlugins <= l
    BY <1>10, <1>14
  <2> HIDE DEF a, b, l, count
  <2>3. b + (restPlugins - count) <= l
    BY ONLY <2>1, <2>2, Spent
  <2> QED
    BY <1>13, <2>3 DEF a, b, l
<1>17. BuildTypeOK'
  BY <1>6, <1>8, <1>9, <1>13 DEF BudgetInv, BuildTypeOK
<1>18. PluginsOf(gathered)' = PluginsOf(gathered')
  BY DEF PluginsOf
<1> QED
  BY <1>6, <1>8, <1>15, <1>16, <1>17, <1>18 DEF BudgetInv, BuildWithinBudget, Planners

(* The sources by convention are sources.                                   *)
LEMMA ConventionsTyped == BuildTypeOK => Conventions \subseteq PlanSource
<1> SUFFICES ASSUME BuildTypeOK, NEW root \in buildCase.catalog, NEW h \in root.visible \ Planners
             PROVE  ConventionSource(root, h) \in PlanSource
  BY DEF Conventions
<1>1. root \in CatalogRoot
  BY BuildCasesAssumption DEF BuildTypeOK
<1>2. root.scope \in {"global", "project"} /\ root.at \in BuildPath /\ h \in BuildHarness
  BY <1>1 DEF CatalogRoot
<1> QED
  BY <1>2 DEF ConventionSource, PlanSource

(* Completing the plan leaves the limits alone.                             *)
LEMMA CompleteWithin == BudgetInv /\ Complete => BudgetInv'
<1> SUFFICES ASSUME BudgetInv, Complete PROVE BudgetInv'
  OBVIOUS
<1>1. Conventions \subseteq PlanSource
  BY ConventionsTyped DEF BudgetInv
<1>2. FirstOfEachId(gathered) \subseteq PlanSource
  BY DEF FirstOfEachId, BudgetInv, BuildTypeOK
<1>3. built' \subseteq PlanSource
  BY <1>1, <1>2 DEF Complete
<1> QED
  BY <1>3 DEF Complete, BudgetInv, BuildTypeOK, BuildWithinBudget, Planners, PluginsOf

(* Every step of a build keeps its invariant.                               *)
LEMMA BuildSteps == BudgetInv /\ [BuildNext]_buildVars => BudgetInv'
<1> SUFFICES ASSUME BudgetInv, [BuildNext]_buildVars PROVE BudgetInv'
  OBVIOUS
<1>1. CASE Plan("codex", "claude")
  BY <1>1, PlanWithin DEF Planners
<1>2. CASE Plan("claude", "copilot")
  BY <1>2, PlanWithin DEF Planners
<1>3. CASE Plan("copilot", "rest")
  BY <1>3, PlanWithin DEF Planners
<1>4. CASE Complete
  BY <1>4, CompleteWithin
<1>5. CASE UNCHANGED buildVars
  BY <1>5 DEF buildVars, BudgetInv, BuildTypeOK, BuildWithinBudget, PluginsOf
<1> QED
  BY <1>1, <1>2, <1>3, <1>4, <1>5 DEF BuildNext

(* The invariant of a build holds throughout.                               *)
THEOREM BuildInvariant == BuildSpec => []BudgetInv
  BY BuildStarts, BuildSteps, PTL DEF BuildSpec

(* However the limits are shared, the planners together read no more        *)
(* directories and tell of no more plugins than the build may.              *)
THEOREM BuildBudgetKept == BuildSpec => []BuildWithinBudget
<1>1. BudgetInv => BuildWithinBudget
  BY DEF BudgetInv
<1> QED
  BY <1>1, BuildInvariant, PTL
-----------------------------------------------------------------------------
(* Of two beginnings of one path, one is a beginning of the other.          *)
LEMMA Comparable ==
    ASSUME NEW x \in Seq(Nat), NEW y \in Seq(Nat), NEW z \in Seq(Nat),
           y = x \/ Below(x, y), z = x \/ Below(x, z), y # <<>>, z # <<>>
    PROVE  ~Disjoint(y, z)
<1>1. Len(y) <= Len(x) /\ \A k \in 1 .. Len(y) : x[k] = y[k]
  BY DEF Below
<1>2. Len(z) <= Len(x) /\ \A k \in 1 .. Len(z) : x[k] = z[k]
  BY DEF Below
<1>3. CASE Len(y) < Len(z)
  BY <1>1, <1>2, <1>3 DEF Below, Disjoint
<1>4. CASE Len(z) < Len(y)
  BY <1>1, <1>2, <1>4 DEF Below, Disjoint
<1>5. CASE Len(y) = Len(z)
  <2>1. y = z
    BY SMTT(30), <1>1, <1>2, <1>5
  <2> QED
    BY <2>1 DEF Disjoint
<1> QED
  BY <1>3, <1>4, <1>5

(* What is below what is below a path is below the path.                    *)
LEMMA BelowBelow ==
    ASSUME NEW x \in Seq(Nat), NEW y \in Seq(Nat), NEW z \in Seq(Nat), Below(x, y), Below(y, z)
    PROVE  Below(x, z)
<1>1. \A k \in 1 .. Len(z) : k \in 1 .. Len(y) /\ y[k] = z[k]
  BY DEF Below
<1>2. \A k \in 1 .. Len(y) : x[k] = y[k]
  BY DEF Below
<1> QED
  BY <1>1, <1>2 DEF Below

(* Every excluded path is one of the outermost ones or below it: of those   *)
(* at or above it, the shortest has none above.                             *)
LEMMA OutermostAbove ==
    ASSUME NEW paths \in SUBSET Seq(Nat), NEW x \in paths
    PROVE  \E y \in Minimal(paths) : x = y \/ Below(x, y)
<1> DEFINE Over == {y \in paths : x = y \/ Below(x, y)}
           Lengths == {Len(y) : y \in Over}
<1>1. Lengths \subseteq Nat /\ Lengths # {}
  <2>1. x \in Over
    OBVIOUS
  <2>2. \A y \in Over : Len(y) \in Nat
    OBVIOUS
  <2> HIDE DEF Over
  <2> QED
    BY <2>1, <2>2
<1>2. PICK n \in Lengths : \A m \in Lengths : <<m, n>> \notin OpToRel(<, Nat)
  <2> HIDE DEF Lengths
  <2> QED
    BY <1>1, NatLessThanWellFounded, WFMin
<1>3. \A m \in Lengths : ~(m < n)
  BY <1>1, <1>2 DEF OpToRel
<1>4. PICK y \in Over : n = Len(y)
  BY <1>2
<1>5. ASSUME NEW z \in paths, Below(y, z) PROVE FALSE
  <2>1. x = z \/ Below(x, z)
    BY <1>4, <1>5, BelowBelow
  <2>2. Len(z) \in Lengths
    BY <2>1
  <2>3. Len(z) < Len(y)
    BY <1>5 DEF Below
  <2> QED
    BY <1>3, <1>4, <2>2, <2>3
<1> QED
  BY <1>4, <1>5 DEF Minimal

(* Where a path is disjoint from the outermost of a set, it is disjoint     *)
(* from all of the set.                                                     *)
LEMMA OutermostEnough ==
    ASSUME NEW paths \in SUBSET Seq(Nat), NEW c \in Seq(Nat), c # <<>>,
           \A y \in Minimal(paths) : Disjoint(y, c),
           NEW x \in paths, x # <<>>
    PROVE  Disjoint(x, c)
<1>1. PICK y \in Minimal(paths) : x = y \/ Below(x, y)
  BY OutermostAbove
<1>2. y \in Seq(Nat) /\ y # <<>>
  BY <1>1 DEF Minimal, Below
<1>3. ~Disjoint(y, c) \/ Disjoint(x, c)
  <2> SUFFICES ASSUME ~Disjoint(x, c), x # y PROVE ~Disjoint(y, c)
    BY <1>1
  <2>1. Below(x, y)
    BY <1>1
  <2>2. CASE c = x
    BY <2>1, <2>2 DEF Disjoint
  <2>3. CASE Below(c, x)
    BY <1>2, <2>1, <2>3, BelowBelow DEF Disjoint
  <2>4. CASE Below(x, c)
    BY <1>2, <2>1, <2>4, Comparable
  <2> QED
    BY <2>2, <2>3, <2>4 DEF Disjoint
<1> QED
  BY <1>1, <1>3

(* A path that is below a root, and disjoint from the outermost exclusions  *)
(* in that root, is disjoint from every exclusion.  (To the code nothing is *)
(* below the root of the file system, so that this one excludes nothing.)   *)
LEMMA ExclusionsHold ==
    ASSUME NEW out \in SUBSET Seq(Nat), NEW r \in Seq(Nat), NEW c \in Seq(Nat),
           Below(c, r),
           ~ \E x \in out : x = r \/ Below(r, x),
           \A y \in Minimal({x \in out : Below(x, r)}) : Disjoint(y, c),
           NEW x \in out
    PROVE  Disjoint(x, c)
<1>1. c # <<>> /\ r # <<>>
  BY DEF Below
<1>2. CASE x = <<>>
  BY <1>1, <1>2 DEF Disjoint, Below
<1>3. CASE x # <<>> /\ Below(x, r)
  BY <1>1, <1>3, OutermostEnough
<1>4. CASE x # <<>> /\ ~Below(x, r)
  <2>1. Disjoint(x, r)
    BY <1>4 DEF Disjoint
  <2>2. ~Below(c, x) /\ c # x
    BY <1>1, <1>4, <2>1, Comparable
  <2>3. ~Below(x, c)
    BY <1>4, BelowBelow
  <2> QED
    BY <2>2, <2>3 DEF Disjoint
<1> QED
  BY <1>2, <1>3, <1>4

(* No Skill of a plugin, and nothing a Skill root leaves out, is where a    *)
(* governance action may touch a Skill.                                     *)
LEMMA TypedPlanIsApart ==
    ASSUME BuildTypeOK, NEW root \in MutableRoots(built), NEW c \in BuildPath, Authorizes(root, c)
    PROVE  /\ \E s \in DirectRoots(built) : s.at = root.at /\ s.scope = root.scope /\ Below(c, s.at)
           /\ \A y \in Native(built) : Disjoint(y, c)
           /\ \A s \in OfRoot(built, root) : \A y \in s.excluded : Disjoint(y, c)
<1>1. PICK d \in DirectRoots(built) : root = MutableRoot(built, d) /\ ~root.denied
  BY DEF MutableRoots
<1> DEFINE mine == OfRoot(built, d)
           out == (UNION {s.excluded : s \in mine}) \cup Native(built)
<1>2. root.scope = d.scope /\ root.at = d.at
  BY <1>1 DEF MutableRoot
<1>3. root.excluded = Minimal({x \in out : Below(x, d.at)})
  BY <1>1 DEF MutableRoot
<1>4. ~ \E x \in out : x = d.at \/ Below(d.at, x)
  BY <1>1 DEF MutableRoot
<1>5. OfRoot(built, root) = mine
  BY <1>2 DEF OfRoot
<1>6. Below(c, d.at) /\ \A y \in root.excluded : Disjoint(y, c)
  BY <1>2 DEF Authorizes
<1>7. d.at \in Seq(Nat) /\ c \in Seq(Nat)
  BY BuildPathAssumption DEF BuildTypeOK, DirectRoots, PlanSource
<1>8. out \subseteq Seq(Nat)
  <2>1. \A s \in built : s.at \in Seq(Nat) /\ s.excluded \subseteq Seq(Nat)
    <3> SUFFICES ASSUME NEW s \in built PROVE s.at \in Seq(Nat) /\ s.excluded \subseteq Seq(Nat)
      OBVIOUS
    <3>1. s.at \in BuildPath /\ s.excluded \in SUBSET BuildPath
      BY DEF BuildTypeOK, PlanSource
    <3> QED
      BY <3>1, BuildPathAssumption
  <2>2. \A s \in mine : s \in built
    BY DEF OfRoot, DirectRoots
  <2> QED
    BY <2>1, <2>2 DEF Native
<1>9. \A x \in out : Disjoint(x, c)
  <2> HIDE DEF out
  <2> QED
    BY <1>3, <1>4, <1>6, <1>7, <1>8, ExclusionsHold
<1>10. Native(built) \subseteq out
  OBVIOUS
<1>11. \A s \in OfRoot(built, root) : \A y \in s.excluded : y \in out
  BY <1>5
<1> QED
  BY <1>2, <1>6, <1>9, <1>10, <1>11

(* What may be changed is apart from the plugins and from what the roots    *)
(* leave out, whatever the plan.                                            *)
THEOREM PluginsNeverTouched == BuildSpec => []MutableApart
<1>1. BudgetInv => MutableApart
  BY TypedPlanIsApart DEF BudgetInv, MutableApart
<1> QED
  BY <1>1, BuildInvariant, PTL

-----------------------------------------------------------------------------
(* The reading of one file.                                                 *)

(* What the reader is, and what each of its steps may rely on.              *)
ReaderType ==
    metadataReader \in [step : {"look", "open", "compare", "read", "done"}, noFollow : BOOLEAN,
                        expected : {0, 1, 2}, saw : Nat, open : Nat, offset : Nat,
                        atEnd : BOOLEAN,
                        result : {"none", "text", "unreadable", "link", "not file", "too large", "changed"}]

ReaderInv ==
    /\ ReaderType
    /\ metadataSize \in [1 .. MaxReplaced + 1 -> Nat]
    /\ metadataPath \in [kind : {"none", "other", "link", "file"}, file : 1 .. MaxReplaced + 1, moves : Nat]
    /\ metadataReader.result = "text" => metadataReader.step = "done"
    /\ metadataReader.step \in {"compare", "read"} => metadataReader.open \in 1 .. MaxReplaced + 1
    /\ metadataReader.step = "read" =>
          /\ metadataReader.open = metadataReader.saw
          /\ metadataReader.expected \in {0, metadataReader.open}
    /\ WholeFile

-----------------------------------------------------------------------------
(* A reading starts with nothing in hand.                                   *)
LEMMA ReaderStarts == MetadataInit => ReaderInv
<1> SUFFICES ASSUME MetadataInit PROVE ReaderInv
  OBVIOUS
<1>1. PICK noFollow \in BOOLEAN, expected \in {0, 1, 2} :
          metadataReader = [step |-> "look", noFollow |-> noFollow, expected |-> expected,
                            saw |-> 0, open |-> 0, offset |-> 0, atEnd |-> FALSE, result |-> "none"]
  BY DEF MetadataInit
<1>2. ReaderType
  BY <1>1 DEF ReaderType
<1>3. metadataSize \in [1 .. MaxReplaced + 1 -> Nat]
  BY MetadataBounds DEF MetadataInit
<1>4. metadataPath \in [kind : {"none", "other", "link", "file"}, file : 1 .. MaxReplaced + 1, moves : Nat]
  BY MetadataBounds DEF MetadataInit
<1> QED
  BY <1>1, <1>2, <1>3, <1>4 DEF ReaderInv, WholeFile

(* A refusal hands out nothing.                                             *)
LEMMA RefusalSafe ==
    ASSUME ReaderInv, ReaderMoves, metadataReader.result # "text",
           NEW code \in {"unreadable", "link", "not file", "too large", "changed"},
           metadataReader' = Refuse(code)
    PROVE  ReaderInv'
<1>1. /\ metadataReader'.step = "done" /\ metadataReader'.result = code
      /\ ReaderType'
  BY DEF ReaderInv, ReaderType, Refuse
<1> QED
  BY <1>1 DEF ReaderInv, ReaderMoves, WholeFile

(* Each step of the reader keeps the invariant; what the others do to the   *)
(* file leaves the reader as it is.                                         *)
LEMMA ReaderSteps == ReaderInv /\ [MetadataNext]_metadataVars => ReaderInv'
<1> SUFFICES ASSUME ReaderInv, [MetadataNext]_metadataVars PROVE ReaderInv'
  OBVIOUS
<1> DEFINE r == metadataReader
           p == metadataPath
<1>1. metadataSize \in [1 .. MaxReplaced + 1 -> Nat] /\ p.file \in 1 .. MaxReplaced + 1
  BY DEF ReaderInv
<1>2. MaxMetadata \in Nat /\ p.file \in Nat /\ r.offset \in Nat
  <2>1. r.offset \in Nat
    BY DEF ReaderInv, ReaderType
  <2> QED
    BY <1>1, <2>1, MetadataBounds
<1>3. CASE LookAtFile
  <2>1. r.result # "text" /\ ReaderMoves
    BY <1>3 DEF LookAtFile, ReaderInv
  <2>2. \/ \E code \in {"unreadable", "link", "not file", "too large", "changed"} : r' = Refuse(code)
        \/ r' = [r EXCEPT !.step = "open", !.saw = p.file]
    BY <1>3 DEF LookAtFile, ReaderInv
  <2>3. CASE r' = [r EXCEPT !.step = "open", !.saw = p.file]
    <3>1. ReaderType' /\ r'.step = "open" /\ r'.result = r.result
      BY <1>2, <2>3 DEF ReaderInv, ReaderType
    <3> QED
      BY <2>1, <3>1 DEF ReaderInv, ReaderMoves, WholeFile
  <2> QED
    BY <2>1, <2>2, <2>3, RefusalSafe
<1>4. CASE OpenFile
  <2>1. r.result # "text" /\ ReaderMoves
    BY <1>4 DEF OpenFile, ReaderInv
  <2>2. \/ \E code \in {"unreadable", "link", "not file", "too large", "changed"} : r' = Refuse(code)
        \/ r' = [r EXCEPT !.step = "compare", !.open = p.file]
    BY <1>4 DEF OpenFile, ReaderInv
  <2>3. CASE r' = [r EXCEPT !.step = "compare", !.open = p.file]
    <3>1. ReaderType' /\ r'.step = "compare" /\ r'.open = p.file /\ r'.result = r.result
      BY <1>2, <2>3 DEF ReaderInv, ReaderType
    <3> QED
      BY <1>1, <2>1, <3>1 DEF ReaderInv, ReaderMoves, WholeFile
  <2> QED
    BY <2>1, <2>2, <2>3, RefusalSafe
<1>5. CASE CompareFile
  <2>1. r.result # "text" /\ ReaderMoves
    BY <1>5 DEF CompareFile, ReaderInv
  <2>2. \/ \E code \in {"too large", "changed"} : r' = Refuse(code)
        \/ r.open = r.saw /\ r.expected \in {0, r.open} /\ r' = [r EXCEPT !.step = "read"]
    BY <1>5 DEF CompareFile
  <2>3. CASE r.open = r.saw /\ r.expected \in {0, r.open} /\ r' = [r EXCEPT !.step = "read"]
    <3>1. /\ ReaderType' /\ r'.step = "read" /\ r'.open = r.open /\ r'.saw = r.saw
          /\ r'.expected = r.expected /\ r'.result = r.result
      BY <2>3 DEF ReaderInv, ReaderType
    <3> QED
      BY <1>5, <2>1, <2>3, <3>1 DEF CompareFile, ReaderInv, ReaderMoves, WholeFile
  <2> QED
    BY <2>1, <2>2, <2>3, RefusalSafe
<1>6. CASE ReadSome
  <2>1. r.result # "text" /\ r.step = "read" /\ ReaderMoves
    BY <1>6 DEF ReadSome, ReaderInv
  <2>2. PICK n \in 1 .. (BufferLength - r.offset) : r' = [r EXCEPT !.offset = @ + n]
    BY <1>6 DEF ReadSome
  <2>3. n \in Nat
    BY <1>2, <2>2 DEF BufferLength
  <2>4. r.offset + n \in Nat /\ r' = [r EXCEPT !.offset = r.offset + n]
    BY <1>2, <2>2, <2>3
  <2>5. /\ ReaderType' /\ r'.step = "read" /\ r'.open = r.open /\ r'.saw = r.saw
        /\ r'.expected = r.expected /\ r'.result = r.result
    BY <2>1, <2>4 DEF ReaderInv, ReaderType
  <2> QED
    BY <2>1, <2>5 DEF ReaderInv, ReaderMoves, WholeFile
<1>7. CASE FinishRead
  <2>1. r.result # "text" /\ r.step = "read" /\ ReaderMoves
    BY <1>7 DEF FinishRead, ReaderInv
  <2>2. CASE r.offset > MaxMetadata
    BY <1>7, <2>1, <2>2, RefusalSafe DEF FinishRead
  <2>3. CASE ~(r.offset > MaxMetadata)
    <3>1. r.offset <= MaxMetadata /\ metadataSize[r.open] <= r.offset
      <4>1. r.offset >= BufferLength \/ metadataSize[r.open] <= r.offset
        BY <1>7 DEF FinishRead
      <4>2. r.offset <= MaxMetadata /\ ~(r.offset >= BufferLength)
        BY <1>2, <2>3 DEF BufferLength
      <4> QED
        BY <4>1, <4>2
    <3>2. r' = [r EXCEPT !.step = "done", !.result = "text", !.atEnd = TRUE]
      BY <1>7, <2>3, <3>1 DEF FinishRead
    <3>3. /\ ReaderType' /\ r'.step = "done" /\ r'.open = r.open /\ r'.saw = r.saw
          /\ r'.expected = r.expected /\ r'.offset = r.offset /\ r'.atEnd
      BY <3>2 DEF ReaderInv, ReaderType
    <3> QED
      BY <2>1, <3>1, <3>3 DEF ReaderInv, ReaderMoves, WholeFile
  <2> QED
    BY <2>2, <2>3
<1>8. CASE ReplaceFile
  <2>1. metadataPath' \in [kind : {"none", "other", "link", "file"}, file : 1 .. MaxReplaced + 1, moves : Nat]
    BY <1>1, <1>8 DEF ReplaceFile, ReaderInv
  <2> QED
    BY <1>8, <2>1 DEF ReplaceFile, ReaderInv, ReaderType, WholeFile
<1>9. CASE WriteFile
  <2>1. metadataSize' \in [1 .. MaxReplaced + 1 -> Nat]
    BY <1>1, <1>9, MetadataBounds DEF WriteFile
  <2> QED
    BY ZenonT(60), <1>9, <2>1 DEF WriteFile, ReaderInv, ReaderType, WholeFile
<1>10. CASE UNCHANGED metadataVars
  BY ZenonT(60), <1>10 DEF metadataVars, ReaderInv, ReaderType, WholeFile
<1> QED
  BY <1>3, <1>4, <1>5, <1>6, <1>7, <1>8, <1>9, <1>10 DEF MetadataNext

(* Text that is handed out is all of the file that was looked at, and no    *)
(* more than the bound.                                                     *)
THEOREM MetadataWhole == MetadataSpec => []WholeFile
<1>1. ReaderInv => WholeFile
  BY DEF ReaderInv
<1> QED
  BY <1>1, ReaderStarts, ReaderSteps, PTL DEF MetadataSpec
=============================================================================

-------------------------- MODULE LocalStoresProofs --------------------------
(***************************************************************************)
(* Proofs about LocalStores, for every set of callers and of reports,      *)
(* every limit and any number of calls, failures and deaths, whatever the  *)
(* callers do beside each other.                                           *)
(***************************************************************************)
EXTENDS LocalStores, FiniteSetTheorems, TLAPS

(* First, what the files and the steps of every call look like.            *)

(* A value a file may hold: of its kind, within its limits.                *)
Names == Stored \cup Report
Fits(n, v) ==
    /\ v \in Value(n)
    /\ n = "sources" => ValidSources(v)
    /\ n \in {"preflights", "index"} => Len(v) <= Kept

(* The files of a scan; the steps that replace a file; the calls that read *)
(* one.                                                                    *)
ScanFiles == {"latest", "previous", "index"} \cup Report
Replacing == {"open", "fill", "rename"}
ReadBy(n) ==
    CASE n = "preflights" -> {"prompt", "preflight", "feedback"}
      [] n = "events" -> {"stop", "compact"}
      [] n = "policy" -> {"policy"}
      [] n = "sources" -> {"add", "enable", "disable", "remove", "refresh"}
      [] n = "snapshot" -> {"refresh"}
      [] n \in {"latest", "index"} -> {"scan"}
      [] OTHER -> {}

(* A step fits the call it is a step of.                                   *)
StepOK(j, s) ==
    /\ s.on \in Names
    /\ s.do \in Replacing => Fits(s.on, s.value)
    /\ s.do \in {"open", "rename"} => s.on # "salt"
    /\ s.do \in {"append", "write"} =>
         s.on = "events" /\ s.value \in Nat /\ j.kind \in {"prompt", "stop"} /\ j.key # Absent
    /\ s.do \in {"salt", "key"} \/ (s.do = "fill" /\ s.on = "salt") => s.on = "salt" /\ j.kind \in {"prompt", "stop"}
    /\ s.do = "fill" /\ s.on = "salt" => s.value = j.id
    /\ s.do = "read" => j.kind \in ReadBy(s.on)
    /\ s.do = "read" /\ s.on = "events" /\ j.kind = "stop" => j.key # Absent
    /\ s.do = "read" /\ s.on = "snapshot" => s.value \in Value("sources")
    /\ s.do \in {"check", "unlink"} => j.kind = "erase"
    /\ s.do = "drop" => s.on \in Report
    /\ s.do \in Replacing \cup {"drop"} /\ s.on \in ScanFiles => j.kind = "scan"

(* Temporary files are opened, written and renamed one after the other,    *)
(* with one value; and the file of events is opened and written.           *)
InTurn(q) ==
    \A i \in 1..Len(q) :
        /\ q[i].do = "open" => i < Len(q) /\ q[i + 1] = Task("fill", q[i].on, q[i].value)
        /\ q[i].do = "fill" /\ q[i].on # "salt" => i < Len(q) /\ q[i + 1] = Task("rename", q[i].on, q[i].value)
        /\ q[i].do = "append" => i < Len(q) /\ q[i + 1] = Task("write", "events", q[i].value)
        /\ q[i].do = "fill" /\ q[i].on = "salt" => i < Len(q) /\ q[i + 1].do = "key"
        /\ i > 1 =>
             /\ q[i].do = "fill"   => q[i - 1] = Task("open", q[i].on, q[i].value)
             /\ q[i].do = "rename" => q[i - 1] = Task("fill", q[i].on, q[i].value)
             /\ q[i].do = "write"  => q[i - 1].do = "append"

(* Every file, and every temporary file, that is there and whole holds a   *)
(* value that fits its name.                                               *)
Contents ==
    \A p \in Place \cup Scratch : slot[p] \notin {Absent, Torn} => Fits(p[1], slot[p])

(* Types.                                                                  *)
AnyValue == (UNION {Value(n) : n \in Names}) \cup {Absent, Torn}
TaskKind    == {"salt", "key", "read", "refuse", "open", "fill", "rename", "append", "write",
             "check", "unlink", "drop"}
Kind     == {"none", "prompt", "stop", "compact", "erase", "preflight", "feedback", "policy",
             "add", "enable", "disable", "remove", "refresh", "scan"}
TaskType     == [do : TaskKind, on : Names, value : AnyValue]
Call     == [id : Nat, kind : Kind, arg : Nat \cup SourceKey \cup Report, at : Seq(TaskType),
             read : AnyValue, key : Nat \cup {Absent}, tmp : Scratch \cup {Absent}, bad : BOOLEAN]

Typed ==
    /\ topic \in DOMAIN Kinds
    /\ slot \in [Place \cup Scratch -> AnyValue]
    /\ job \in [Caller -> Call]
    /\ opened \in [Caller -> Place \cup Scratch \cup {Absent}]
    /\ review \in [Stored -> AnyValue]
    /\ calls \in 0..CallsMade /\ trouble \in 0..TroubleLimit /\ met \subseteq Caller

LEMMA Constants ==
  /\ SourceLimit \in Nat /\ EnabledLimit \in Nat /\ CallsMade \in Nat /\ TroubleLimit \in Nat
  /\ Kept \in Nat /\ Kept >= 1 /\ Absent # Torn
  /\ \A n \in Names : Absent \notin Value(n) /\ Torn \notin Value(n)
  BY StoreConstants DEF Names

LEMMA ValueOf ==
  /\ Value("preflights") = Seq(Preflight) /\ Value("events") = Seq(Event)
  /\ Value("salt") = Nat /\ Value("policy") = Nat
  /\ Value("sources") = [SourceKey -> Source \cup {Absent}]
  /\ Value("snapshot") = [SourceKey -> State \cup {Absent}]
  /\ Value("latest") = Report /\ Value("previous") = Report /\ Value("index") = Seq(Report)
  /\ \A r \in Report : Value(r) = {r}
<1>1. \A r \in Report : r \notin Stored
  BY StoreConstants
<1>2. ASSUME NEW r \in Report PROVE Value(r) = {r}
  BY <1>1 DEF Value, Stored
<1> QED
  BY <1>2 DEF Value

LEMMA Numbers == Absent \notin Nat /\ Torn \notin Nat /\ Nat \subseteq AnyValue
<1>1. "salt" \in Names
  BY DEF Names, Stored
<1>2. Nat \in {Value(n) : n \in Names}
  BY <1>1, ValueOf
<1> QED
  BY <1>1, <1>2, Constants, ValueOf DEF AnyValue

LEMMA ValueIsAny == \A n \in Names : Value(n) \subseteq AnyValue
  BY DEF AnyValue

(* Names and places.                                                       *)
LEMMA Places ==
  /\ \A n \in Names : PlaceOf(n) \in Place /\ PlaceOf(n) \notin Scratch /\ PlaceOf(n)[1] = n
  /\ \A t \in Scratch : t[1] \in Names /\ t # Absent /\ t \notin Place
  /\ \A n \in Names, u \in Caller : <<n, u>> \in Scratch /\ <<n, u>>[1] = n
  /\ \A p \in Place : p[1] \in Names /\ p = PlaceOf(p[1]) /\ p # Absent
  /\ \A n, m \in Names : PlaceOf(n) = PlaceOf(m) => n = m
<1>1. \A n \in Names, u \in Caller : <<n, u>> \in Scratch /\ <<n, u>>[1] = n
  BY DEF Names, Scratch
<1>2. ASSUME NEW t \in Scratch PROVE t[1] \in Names /\ t # Absent /\ t \notin Place
  BY StoreConstants DEF Scratch, Place, Names
<1>3. ASSUME NEW p \in Place PROVE p[1] \in Names /\ p = PlaceOf(p[1]) /\ p # Absent
  BY StoreConstants DEF Place, Names, PlaceOf
<1>4. ASSUME NEW n \in Names PROVE PlaceOf(n) \in Place /\ PlaceOf(n) \notin Scratch /\ PlaceOf(n)[1] = n
  BY StoreConstants DEF Place, Names, PlaceOf, Scratch
<1>5. \A n, m \in Names : PlaceOf(n) = PlaceOf(m) => n = m
  BY DEF PlaceOf
<1> QED
  BY <1>1, <1>2, <1>3, <1>4, <1>5

-----------------------------------------------------------------------------
(* Programs.                                                               *)

Runs(j, q) ==
    q \in Seq(TaskType) /\ InTurn(q) /\ \A i \in 1..Len(q) : StepOK(j, q[i])
Starts(q) == q = <<>> \/ q[1].do \notin {"fill", "rename", "write"}

LEMMA Joined ==
  ASSUME NEW j, NEW p, NEW q, Runs(j, p), Runs(j, q), Starts(q)
  PROVE  Runs(j, p \o q) /\ (Starts(p) => Starts(p \o q))
<1> DEFINE r == p \o q
<1>1. /\ p \in Seq(TaskType) /\ q \in Seq(TaskType) /\ r \in Seq(TaskType) /\ Len(r) = Len(p) + Len(q)
      /\ Len(p) \in Nat /\ Len(q) \in Nat
      /\ \A i \in 1..Len(p) : r[i] = p[i]
      /\ \A i \in 1..Len(q) : r[Len(p) + i] = q[i]
  BY DEF Runs
<1>2. ASSUME NEW i \in 1..Len(r), i > Len(p) PROVE i - Len(p) \in 1..Len(q) /\ r[i] = q[i - Len(p)]
  BY <1>1, <1>2
<1>3. \A i \in 1..Len(r) : StepOK(j, r[i])
  BY <1>1, <1>2 DEF Runs
<1> DEFINE L(s, i) ==
        /\ s[i].do = "open" => i < Len(s) /\ s[i + 1] = Task("fill", s[i].on, s[i].value)
        /\ s[i].do = "fill" /\ s[i].on # "salt" => i < Len(s) /\ s[i + 1] = Task("rename", s[i].on, s[i].value)
        /\ s[i].do = "append" => i < Len(s) /\ s[i + 1] = Task("write", "events", s[i].value)
        /\ s[i].do = "fill" /\ s[i].on = "salt" => i < Len(s) /\ s[i + 1].do = "key"
        /\ i > 1 =>
             /\ s[i].do = "fill"   => s[i - 1] = Task("open", s[i].on, s[i].value)
             /\ s[i].do = "rename" => s[i - 1] = Task("fill", s[i].on, s[i].value)
             /\ s[i].do = "write"  => s[i - 1].do = "append"
<1>4. (\A i \in 1..Len(p) : L(p, i)) /\ (\A i \in 1..Len(q) : L(q, i))
  BY DEF Runs, InTurn
<1>5. ASSUME NEW i \in 1..Len(r), i <= Len(p) PROVE L(r, i)
  <2>1. i \in 1..Len(p) /\ r[i] = p[i] /\ L(p, i)
    BY SMTT(30), <1>1, <1>4, <1>5
  <2>2. i < Len(p) => i < Len(r) /\ r[i + 1] = p[i + 1]
    BY <1>1, <2>1
  <2>3. i > 1 => r[i - 1] = p[i - 1]
    BY <1>1, <2>1
  <2> QED
    BY <2>1, <2>2, <2>3
<1>6. ASSUME NEW i \in 1..Len(r), i > Len(p) PROVE L(r, i)
  <2> DEFINE k == i - Len(p)
  <2>1. k \in 1..Len(q) /\ r[i] = q[k] /\ L(q, k)
    BY <1>2, <1>4, <1>6
  <2>2. k < Len(q) => i < Len(r) /\ r[i + 1] = q[k + 1]
    <3>1. SUFFICES ASSUME k < Len(q) PROVE i < Len(r) /\ r[i + 1] = q[k + 1]
      OBVIOUS
    <3>2. k + 1 \in 1..Len(q) /\ Len(p) + (k + 1) = i + 1 /\ i < Len(r)
      BY <1>1, <2>1, <3>1
    <3> QED
      BY <3>2, <1>1
  <2>3. k > 1 => r[i - 1] = q[k - 1]
    <3>1. SUFFICES ASSUME k > 1 PROVE r[i - 1] = q[k - 1]
      OBVIOUS
    <3>2. k - 1 \in 1..Len(q) /\ Len(p) + (k - 1) = i - 1
      BY <1>1, <2>1, <3>1
    <3> QED
      BY <3>2, <1>1
  <2>4. k = 1 => r[i].do \notin {"fill", "rename", "write"}
    BY <2>1, <1>1 DEF Starts
  <2>5. k = 1 \/ k > 1
    BY <2>1, <1>1
  <2> HIDE DEF k
  <2> QED
    BY <2>1, <2>2, <2>3, <2>4, <2>5
<1>7. \A i \in 1..Len(r) : L(r, i)
  BY <1>1, <1>5, <1>6
<1>8. InTurn(r)
  BY <1>7 DEF InTurn
<1>9. Starts(p) => Starts(r)
  <2>1. CASE p = <<>>
    <3>1. r = q
      BY <1>1, <2>1
    <3> QED
      BY <3>1
  <2>2. CASE p # <<>>
    <3>1. 1 \in 1..Len(p)
      BY <1>1, <2>2
    <3> QED
      BY <3>1, <1>1, <2>2 DEF Starts
  <2> QED
    BY <2>1, <2>2
<1> QED
  BY <1>1, <1>3, <1>8, <1>9 DEF Runs

LEMMA Rest ==
  ASSUME NEW j, NEW q, Runs(j, q), q # <<>>
  PROVE  /\ Runs(j, Tail(q)) /\ Len(Tail(q)) = Len(q) - 1 /\ Head(q) = q[1] /\ 1 \in 1..Len(q)
         /\ \A i \in 1..Len(Tail(q)) : i + 1 \in 1..Len(q) /\ Tail(q)[i] = q[i + 1]
<1> DEFINE r == Tail(q)
<1>1. /\ q \in Seq(TaskType) /\ r \in Seq(TaskType) /\ Len(q) \in Nat /\ Len(q) >= 1 /\ Len(r) = Len(q) - 1
      /\ Head(q) = q[1] /\ \A i \in 1..Len(r) : i + 1 \in 1..Len(q) /\ r[i] = q[i + 1]
  BY DEF Runs
<1> DEFINE L(s, i) ==
        /\ s[i].do = "open" => i < Len(s) /\ s[i + 1] = Task("fill", s[i].on, s[i].value)
        /\ s[i].do = "fill" /\ s[i].on # "salt" => i < Len(s) /\ s[i + 1] = Task("rename", s[i].on, s[i].value)
        /\ s[i].do = "append" => i < Len(s) /\ s[i + 1] = Task("write", "events", s[i].value)
        /\ s[i].do = "fill" /\ s[i].on = "salt" => i < Len(s) /\ s[i + 1].do = "key"
        /\ i > 1 =>
             /\ s[i].do = "fill"   => s[i - 1] = Task("open", s[i].on, s[i].value)
             /\ s[i].do = "rename" => s[i - 1] = Task("fill", s[i].on, s[i].value)
             /\ s[i].do = "write"  => s[i - 1].do = "append"
<1>2. \A i \in 1..Len(q) : L(q, i)
  BY DEF Runs, InTurn
<1>3. ASSUME NEW i \in 1..Len(r) PROVE L(r, i)
  <2>1. i + 1 \in 1..Len(q) /\ r[i] = q[i + 1] /\ L(q, i + 1)
    BY <1>1, <1>2
  <2>2. i + 1 < Len(q) => i < Len(r) /\ r[i + 1] = q[(i + 1) + 1]
    BY <1>1, <2>1
  <2>3. i > 1 => i + 1 > 1 /\ r[i - 1] = q[(i + 1) - 1]
    BY <1>1, <2>1
  <2> QED
    BY <2>1, <2>2, <2>3
<1>4. InTurn(r)
  BY <1>3 DEF InTurn
<1>5. \A i \in 1..Len(r) : StepOK(j, r[i])
  BY <1>1 DEF Runs
<1> QED
  BY <1>1, <1>4, <1>5 DEF Runs

(* The pieces calls are made of.                                           *)
LEMMA Nothing == ASSUME NEW j PROVE Runs(j, <<>>) /\ Starts(<<>>)
  BY DEF Runs, Starts, InTurn

LEMMA Replacement ==
  ASSUME NEW j, NEW n \in Names, NEW v, Fits(n, v), n # "salt", n \in ScanFiles => j.kind = "scan"
  PROVE  Runs(j, Replace(n, v)) /\ Starts(Replace(n, v)) /\ Replace(n, v) # <<>>
<1>1. v \in AnyValue
  BY ValueIsAny DEF Fits
<1>2. \A d \in {"open", "fill", "rename"} :
         Task(d, n, v) \in TaskType /\ Task(d, n, v).do = d /\ Task(d, n, v).on = n /\ Task(d, n, v).value = v
  BY <1>1 DEF Task, TaskType, TaskKind
<1> DEFINE q == Replace(n, v)
<1>3. /\ q \in Seq(TaskType) /\ Len(q) = 3
      /\ q[1] = Task("open", n, v) /\ q[2] = Task("fill", n, v) /\ q[3] = Task("rename", n, v)
  BY <1>2 DEF Replace
<1>4. InTurn(q)
  <2>1. \A i \in 1..Len(q) : i = 1 \/ i = 2 \/ i = 3
    BY <1>3
  <2> HIDE DEF q
  <2> QED
    BY <2>1, <1>2, <1>3 DEF InTurn
<1>5. \A d \in {"open", "fill", "rename"} : StepOK(j, Task(d, n, v))
  BY <1>2 DEF StepOK, Replacing
<1>6. \A i \in 1..Len(q) : StepOK(j, q[i])
  BY <1>3, <1>5
<1>7. q # <<>>
  <2>1. Len(q) = 3
    BY <1>3
  <2> HIDE DEF q
  <2> QED
    BY <2>1
<1> QED
  BY <1>2, <1>3, <1>4, <1>6, <1>7 DEF Runs, Starts

LEMMA Appending ==
  ASSUME NEW j, NEW of \in Nat, j.kind \in {"prompt", "stop"}, j.key # Absent
  PROVE  Runs(j, AppendSteps(of)) /\ Starts(AppendSteps(of)) /\ AppendSteps(of) # <<>>
<1>1. of \in AnyValue /\ "events" \in Names
  BY Numbers DEF Names, Stored
<1>2. \A d \in {"append", "write"} : /\ Task(d, "events", of) \in TaskType /\ Task(d, "events", of).do = d
         /\ Task(d, "events", of).on = "events" /\ Task(d, "events", of).value = of
  BY <1>1 DEF Task, TaskType, TaskKind
<1> DEFINE q == AppendSteps(of)
<1>3. q \in Seq(TaskType) /\ Len(q) = 2 /\ q[1] = Task("append", "events", of) /\ q[2] = Task("write", "events", of)
  BY <1>2 DEF AppendSteps
<1>4. InTurn(q)
  <2>1. \A i \in 1..Len(q) : i = 1 \/ i = 2
    BY <1>3
  <2> HIDE DEF q
  <2> QED
    BY <2>1, <1>2, <1>3 DEF InTurn
<1>5. \A d \in {"append", "write"} : StepOK(j, Task(d, "events", of))
  BY <1>1, <1>2 DEF StepOK, Replacing
<1>6. (\A i \in 1..Len(q) : StepOK(j, q[i])) /\ q # <<>>
  BY <1>3, <1>5
<1> QED
  BY <1>2, <1>3, <1>4, <1>6 DEF Runs, Starts

LEMMA OneRuns ==
  ASSUME NEW j, NEW s \in TaskType, StepOK(j, s), s.do \notin {"open", "fill", "rename", "append", "write"}
  PROVE  Runs(j, <<s>>) /\ Starts(<<s>>) /\ <<s>> # <<>>
<1> DEFINE q == <<s>>
<1>1. q \in Seq(TaskType) /\ Len(q) = 1 /\ q[1] = s /\ q # <<>>
  OBVIOUS
<1>2. InTurn(q)
  <2>1. \A i \in 1..Len(q) : i = 1
    BY <1>1
  <2> HIDE DEF q
  <2> QED
    BY <2>1, <1>1 DEF InTurn
<1>3. \A i \in 1..Len(q) : StepOK(j, q[i])
  BY <1>1
<1> QED
  BY <1>1, <1>2, <1>3 DEF Runs, Starts

LEMMA Reading ==
  ASSUME NEW j, NEW n \in Names, n # "snapshot", j.kind \in ReadBy(n),
         n = "events" /\ j.kind = "stop" => j.key # Absent
  PROVE  Runs(j, ReadOf(n)) /\ Starts(ReadOf(n)) /\ ReadOf(n) # <<>>
<1> DEFINE s == Task("read", n, Absent)
<1>1. s \in TaskType /\ s.do = "read" /\ s.on = n
  BY DEF AnyValue, Task, TaskType, TaskKind
<1>2. StepOK(j, s)
  BY <1>1 DEF StepOK, Replacing
<1> QED
  BY <1>1, <1>2, OneRuns DEF ReadOf

LEMMA Refusing == ASSUME NEW j PROVE Runs(j, Refused) /\ Starts(Refused) /\ Refused # <<>>
<1> DEFINE s == Task("refuse", "policy", Absent)
<1>1. s \in TaskType /\ s.do = "refuse" /\ s.on = "policy" /\ "policy" \in Names
  BY DEF AnyValue, Names, Stored, Task, TaskType, TaskKind
<1>2. StepOK(j, s)
  BY <1>1 DEF StepOK, Replacing
<1> QED
  BY <1>1, <1>2, OneRuns DEF Refused

(* Lists.                                                                  *)
LEMMA FirstOf ==
  ASSUME NEW S, NEW s \in Seq(S)
  PROVE  /\ First(s) \in Seq(S) /\ Len(First(s)) <= Kept /\ Len(First(s)) <= Len(s)
         /\ \A i \in 1..Len(First(s)) : i \in 1..Len(s) /\ First(s)[i] = s[i]
         /\ Len(s) > Len(First(s)) => Len(First(s)) = Kept
         /\ s # <<>> => Len(First(s)) >= 1
<1>1. Kept \in Nat /\ Kept >= 1 /\ Len(s) \in Nat
  BY Constants
<1> DEFINE k == IF Len(s) < Kept THEN Len(s) ELSE Kept
<1>2. k \in 0..Len(s) /\ k <= Kept /\ (Len(s) > k => k = Kept) /\ (Len(s) >= 1 => k >= 1)
  BY <1>1
<1>3. First(s) = SubSeq(s, 1, k)
  BY DEF First
<1> HIDE DEF k
<1>4. First(s) \in Seq(S) /\ Len(First(s)) = k /\ \A i \in 1..k : First(s)[i] = s[i]
  BY <1>1, <1>2, <1>3
<1>5. s # <<>> => Len(s) >= 1
  BY <1>1
<1> QED
  BY <1>1, <1>2, <1>4, <1>5

LEMMA ItemsOf == ASSUME NEW S, NEW s \in Seq(S) PROVE Items(s) = {s[i] : i \in 1..Len(s)} /\ Items(s) \subseteq S
<1>1. DOMAIN s = 1..Len(s) /\ \A i \in 1..Len(s) : s[i] \in S
  OBVIOUS
<1> QED
  BY <1>1 DEF Items

LEMMA ItemOf == ASSUME NEW S, NEW s \in Seq(S), NEW x \in Items(s) PROVE \E i \in 1..Len(s) : x = s[i]
  BY ItemsOf

LEMMA SuffixIs ==
  ASSUME NEW S, NEW s \in Seq(S), NEW m \in 1..(Len(s) + 1), NEW r, r = SubSeq(s, m, Len(s))
  PROVE  /\ r \in Seq(S) /\ Len(r) = Len(s) - m + 1
         /\ \A i \in 1..Len(r) : i + m - 1 \in 1..Len(s) /\ r[i] = s[i + m - 1]
<1>1. Len(s) \in Nat /\ m \in Nat /\ m >= 1 /\ m <= Len(s) + 1
  OBVIOUS
<1>2. r = [i \in 1..(Len(s) - m + 1) |-> s[i + m - 1]]
  BY SMTT(30)
<1>3. \A i \in 1..(Len(s) - m + 1) : i + m - 1 \in 1..Len(s)
  BY <1>1
<1>4. \A i \in 1..(Len(s) - m + 1) : s[i + m - 1] \in S
  BY <1>3
<1>5. Len(s) - m + 1 \in Nat
  BY <1>1
<1>6. r \in Seq(S)
  BY <1>2, <1>4, <1>5
<1>7. Len(r) = Len(s) - m + 1
  BY <1>2, <1>5
<1> QED
  BY <1>2, <1>3, <1>6, <1>7

LEMMA SuffixOfLast ==
  ASSUME NEW S, NEW s \in Seq(S), NEW k \in 1..(Len(LastOf(s)) + 1)
  PROVE  /\ LastOf(s) \in Seq(S) /\ SubSeq(LastOf(s), k, Len(LastOf(s))) \in Seq(S)
         /\ Items(SubSeq(LastOf(s), k, Len(LastOf(s)))) \subseteq Items(s)
<1>1. Kept \in Nat /\ Len(s) \in Nat
  BY Constants
<1> DEFINE m == IF Len(s) < Kept THEN 1 ELSE Len(s) - Kept + 1
           l == LastOf(s)
           r == SubSeq(l, k, Len(l))
<1>2. m \in 1..(Len(s) + 1)
  BY <1>1
<1>3. l = SubSeq(s, m, Len(s))
  BY DEF LastOf
<1>4. l \in Seq(S) /\ Len(l) = Len(s) - m + 1 /\ \A i \in 1..Len(l) : i + m - 1 \in 1..Len(s) /\ l[i] = s[i + m - 1]
  <2> HIDE DEF m, l
  <2> QED
    BY <1>2, <1>3, SuffixIs
<1> HIDE DEF m, l
<1>5. r \in Seq(S) /\ Len(r) = Len(l) - k + 1 /\ \A i \in 1..Len(r) : i + k - 1 \in 1..Len(l) /\ r[i] = l[i + k - 1]
  <2>1. k \in 1..(Len(l) + 1)
    BY DEF l
  <2> DEFINE t == r
  <2>2. t = SubSeq(l, k, Len(l))
    OBVIOUS
  <2> HIDE DEF t
  <2>3. t \in Seq(S) /\ Len(t) = Len(l) - k + 1 /\ \A i \in 1..Len(t) : i + k - 1 \in 1..Len(l) /\ t[i] = l[i + k - 1]
    BY <1>4, <2>1, <2>2, SuffixIs
  <2> QED
    BY <2>3 DEF t
<1>6. Items(r) \subseteq Items(s)
  <2>1. ASSUME NEW x \in Items(r) PROVE x \in Items(s)
    <3>1. PICK i \in 1..Len(r) : x = r[i]
      BY <1>5, <2>1, ItemOf
    <3>2. i + k - 1 \in 1..Len(l) /\ x = l[i + k - 1]
      BY <3>1, <1>5
    <3>3. (i + k - 1) + m - 1 \in 1..Len(s) /\ x = s[(i + k - 1) + m - 1]
      BY <3>2, <1>4
    <3> QED
      BY <3>3, ItemsOf
  <2> QED
    BY <2>1
<1> QED
  BY <1>4, <1>5, <1>6 DEF l

-----------------------------------------------------------------------------
(* What follows from reading a file.                                       *)

Was(n, v) == v = Absent \/ Fits(n, v)

LEMMA AfterPreflightsRuns ==
  ASSUME NEW j \in Call, NEW v, Was("preflights", v), NEW q \in AfterPreflights(j, v),
         j.kind \in ReadBy("preflights"), j.key # Absent => j.kind \in {"prompt", "stop"}
  PROVE  Runs(j, q) /\ Starts(q)
<1>1. /\ v \in Seq(Preflight) \/ v = Absent
      /\ v # Absent => Len(v) <= Kept
      /\ "preflights" \in Names /\ "preflights" \notin ScanFiles
  BY ValueOf, StoreConstants DEF Was, Fits, Names, Stored, ScanFiles
<1>2. List(v) \in Seq(Preflight)
  BY <1>1 DEF List
<1>3. CASE j.kind # "feedback"
  <2> DEFINE e == [id |-> j.id, feedback |-> 0]
             w == <<e>> \o List(v)
  <2>1. w \in Seq(Preflight)
    <3>1. e \in Preflight
      BY DEF Preflight, Call
    <3> QED
      BY <3>1, <1>2
  <2>2. Fits("preflights", First(w))
    BY <2>1, FirstOf, ValueOf DEF Fits
  <2>3. Runs(j, Replace("preflights", First(w))) /\ Starts(Replace("preflights", First(w)))
    BY <2>2, <1>1, Replacement
  <2>4. q = Replace("preflights", First(w)) \o (IF j.key # Absent THEN AppendSteps(0) ELSE <<>>)
    BY <1>3 DEF AfterPreflights
  <2>5. CASE j.key # Absent
    <3>1. Runs(j, AppendSteps(0)) /\ Starts(AppendSteps(0))
      BY <2>5, Appending
    <3> QED
      BY <2>3, <2>4, <2>5, <3>1, Joined
  <2>6. CASE j.key = Absent
    BY <2>3, <2>4, <2>6, Joined, Nothing
  <2> QED
    BY <2>5, <2>6
<1>4. CASE j.kind = "feedback" /\ \A i \in DOMAIN List(v) : List(v)[i].id # j.arg
  <2>1. q = Refused
    BY <1>4 DEF AfterPreflights
  <2> QED
    BY <2>1, Refusing
<1>5. CASE j.kind = "feedback" /\ ~ \A i \in DOMAIN List(v) : List(v)[i].id # j.arg
  <2> DEFINE w == [i \in DOMAIN v |-> IF v[i].id = j.arg THEN [v[i] EXCEPT !.feedback = j.id] ELSE v[i]]
  <2>1. q = Replace("preflights", w)
    BY <1>5 DEF AfterPreflights
  <2>2. v # Absent
    BY <1>5 DEF List
  <2>3. w \in Seq(Preflight) /\ Len(w) = Len(v)
    <3>1. DOMAIN v = 1..Len(v) /\ Len(v) \in Nat /\ \A i \in 1..Len(v) : v[i] \in Preflight
      BY <1>1, <2>2
    <3>2. \A i \in 1..Len(v) : [v[i] EXCEPT !.feedback = j.id] \in Preflight
      BY <3>1 DEF Preflight, Call
    <3> QED
      BY <3>1, <3>2
  <2>4. Fits("preflights", w)
    BY <2>2, <2>3, <1>1, ValueOf DEF Fits
  <2> QED
    BY <2>1, <2>4, <1>1, Replacement
<1> QED
  BY <1>3, <1>4, <1>5

LEMMA AfterEventsRuns ==
  ASSUME NEW j \in Call, NEW v, Was("events", v), NEW q \in AfterEvents(j, v),
         j.kind \in ReadBy("events"), j.kind = "stop" => j.key # Absent
  PROVE  Runs(j, q) /\ Starts(q)
<1>1. /\ v \in Seq(Event) \/ v = Absent
      /\ "events" \in Names /\ "events" \notin ScanFiles
      /\ j.kind \in {"stop", "compact"}
  BY ValueOf, StoreConstants DEF Was, Fits, Names, Stored, ScanFiles, ReadBy
<1>2. List(v) \in Seq(Event)
  BY <1>1 DEF List
<1>3. CASE j.kind = "compact"
  <2>1. q \in Compacted(v)
    BY <1>3 DEF AfterEvents
  <2>2. CASE List(v) = <<>>
    BY <2>1, <2>2, Nothing DEF Compacted
  <2>3. CASE List(v) # <<>>
    <3> DEFINE Cut(s) == {Replace("events", SubSeq(LastOf(s), k, Len(LastOf(s)))) : k \in 1..(Len(LastOf(s)) + 1)}
    <3>0. PICK s \in InOrder(v) : q \in Cut(s)
      BY <2>1, <2>3 DEF Compacted
    <3>1. PICK k \in 1..(Len(LastOf(s)) + 1) : q = Replace("events", SubSeq(LastOf(s), k, Len(LastOf(s))))
      BY <3>0
    <3>2. v \in Seq(Event) /\ Items(v) \subseteq Event
      BY <1>1, <2>3, ItemsOf DEF List
    <3>3. s \in Seq(Event)
      BY <3>0, <3>2 DEF InOrder
    <3>4. SubSeq(LastOf(s), k, Len(LastOf(s))) \in Seq(Event)
      BY <3>1, <3>3, SuffixOfLast
    <3>5. Fits("events", SubSeq(LastOf(s), k, Len(LastOf(s))))
      BY <3>4, ValueOf DEF Fits
    <3> QED
      BY <3>1, <3>5, <1>1, Replacement
  <2> QED
    BY <2>2, <2>3
<1>4. CASE j.kind = "stop"
  <2>1. PICK of \in {0} \cup LatestOpen(List(v), j.key) : q = AppendSteps(of)
    BY <1>4 DEF AfterEvents
  <2>2. of \in Nat
    <3>1. \A i \in DOMAIN List(v) : List(v)[i].id \in Nat
      <4>1. \A i \in DOMAIN List(v) : List(v)[i] \in Event
        BY <1>2
      <4> QED
        BY <4>1 DEF Event
    <3> QED
      BY <3>1, <2>1 DEF LatestOpen, Open, Deliveries
  <2> QED
    BY <1>4, <2>1, <2>2, Appending
<1> QED
  BY <1>1, <1>3, <1>4

LEMMA AfterPolicyRuns ==
  ASSUME NEW j \in Call, NEW v, NEW q \in AfterPolicy(j, v)
  PROVE  Runs(j, q) /\ Starts(q)
<1>1. Fits("policy", j.id) /\ "policy" \in Names /\ "policy" \notin ScanFiles
  BY ValueOf, StoreConstants DEF Fits, Call, Names, Stored, ScanFiles
<1>2. Runs(j, Replace("policy", j.id)) /\ Starts(Replace("policy", j.id))
  BY <1>1, Replacement
<1> QED
  BY <1>2, Refusing DEF AfterPolicy

LEMMA AfterSourcesRuns ==
  ASSUME NEW j \in Call, NEW v, Was("sources", v), NEW q \in AfterSources(j, v),
         j.kind \in ReadBy("sources"),
         j.kind \in {"add", "enable", "disable", "remove"} => j.arg \in SourceKey
  PROVE  Runs(j, q) /\ Starts(q)
<1> DEFINE S == SourcesOf(v)
           with(T) == IF ValidSources(T) THEN {Replace("sources", T)} ELSE {Refused}
<1>1. "sources" \in Names /\ "sources" \notin ScanFiles /\ "snapshot" \in Names
  BY StoreConstants DEF Names, Stored, ScanFiles
<1>2. Presets \in [SourceKey -> Source \cup {Absent}]
  BY DEF Presets, Source
<1>3. S \in [SourceKey -> Source \cup {Absent}]
  BY <1>2, ValueOf DEF SourcesOf, Was, Fits
<1>4. ASSUME NEW T \in [SourceKey -> Source \cup {Absent}], q \in with(T) PROVE Runs(j, q) /\ Starts(q)
  <2>1. CASE ValidSources(T)
    <3>1. Fits("sources", T)
      BY <2>1, ValueOf DEF Fits
    <3> QED
      BY <3>1, <2>1, <1>1, <1>4, Replacement
  <2>2. CASE ~ValidSources(T)
    BY <2>2, <1>4, Refusing
  <2> QED
    BY <2>1, <2>2
<1>5. CASE j.kind = "refresh"
  <2>1. q = <<Task("read", "snapshot", S)>>
    BY <1>5 DEF AfterSources
  <2> DEFINE s == Task("read", "snapshot", S)
  <2>2. S \in AnyValue
    BY <1>1, <1>3, ValueIsAny, ValueOf
  <2>3. s \in TaskType /\ s.do = "read" /\ s.on = "snapshot" /\ s.value = S
    BY <2>2, <1>1 DEF Task, TaskType, TaskKind
  <2>4. StepOK(j, s)
    BY <2>3, <1>1, <1>3, <1>5, ValueOf DEF StepOK, Replacing, ReadBy
  <2> QED
    BY <2>1, <2>3, <2>4, OneRuns
<1>6. CASE j.kind = "add"
  <2>1. [S EXCEPT ![j.arg] = [on |-> FALSE, by |-> {j.id}]] \in [SourceKey -> Source \cup {Absent}]
    BY <1>3, <1>6 DEF Source, Call
  <2>2. q = Refused \/ q \in with([S EXCEPT ![j.arg] = [on |-> FALSE, by |-> {j.id}]])
    BY <1>6 DEF AfterSources
  <2> HIDE DEF with, S
  <2> QED
    BY <2>1, <2>2, <1>4, Refusing
<1>7. CASE j.kind \in {"enable", "disable"}
  <2> DEFINE T == [S EXCEPT ![j.arg] = [on |-> j.kind = "enable", by |-> @.by \cup {j.id}]]
  <2>1. q = Refused \/ (q \in with(T) /\ j.arg \in Told(S))
    BY <1>7 DEF AfterSources
  <2>2. j.arg \in Told(S) => T \in [SourceKey -> Source \cup {Absent}]
    <3>1. SUFFICES ASSUME j.arg \in Told(S) PROVE T \in [SourceKey -> Source \cup {Absent}]
      OBVIOUS
    <3>2. S[j.arg] \in Source
      BY <3>1, <1>3 DEF Told
    <3>3. (j.kind = "enable") \in BOOLEAN /\ S[j.arg].by \cup {j.id} \subseteq Nat
      BY <3>2 DEF Source, Call
    <3>4. [on |-> j.kind = "enable", by |-> S[j.arg].by \cup {j.id}] \in Source
      BY <3>3 DEF Source
    <3> HIDE DEF S
    <3> QED
      BY <3>4, <1>3
  <2> HIDE DEF with, T, S
  <2> QED
    BY <2>1, <2>2, <1>4, Refusing
<1>8. CASE j.kind = "remove"
  <2>1. [S EXCEPT ![j.arg] = Absent] \in [SourceKey -> Source \cup {Absent}]
    BY <1>3
  <2>2. q = Refused \/ q \in with([S EXCEPT ![j.arg] = Absent])
    BY <1>8 DEF AfterSources
  <2> HIDE DEF with, S
  <2> QED
    BY <2>1, <2>2, <1>4, Refusing
<1> QED
  BY <1>5, <1>6, <1>7, <1>8 DEF ReadBy

LEMMA AfterSnapshotRuns ==
  ASSUME NEW j \in Call, NEW v, Was("snapshot", v), NEW q \in AfterSnapshot(j, v),
         Current(j).value \in Value("sources")
  PROVE  Runs(j, q) /\ Starts(q)
<1> DEFINE S == Current(j).value
           had(k) == v # Absent /\ k \in Told(v) /\ v[k].by # 0
           N(good) == [k \in SourceKey |->
              CASE k \notin Told(S)      -> Absent
                [] k \in Told(S) /\ ~S[k].on -> [status |-> "disabled", by |-> 0]
                [] k \in good            -> [status |-> "ready", by |-> j.id]
                [] OTHER -> IF had(k) THEN [status |-> "stale", by |-> v[k].by]
                            ELSE [status |-> "error", by |-> 0]]
<1>1. "snapshot" \in Names /\ "snapshot" \notin ScanFiles
  BY StoreConstants DEF Names, Stored, ScanFiles
<1>2. PICK good \in SUBSET {k \in Told(S) : S[k].on} : q = Replace("snapshot", N(good))
  BY DEF AfterSnapshot
<1>3. ASSUME NEW k \in SourceKey PROVE N(good)[k] \in State \cup {Absent}
  <2>1. [status |-> "disabled", by |-> 0] \in State /\ [status |-> "error", by |-> 0] \in State
    BY DEF State
  <2>2. [status |-> "ready", by |-> j.id] \in State
    BY DEF State, Call
  <2>3. had(k) => [status |-> "stale", by |-> v[k].by] \in State
    <3>1. SUFFICES ASSUME had(k) PROVE [status |-> "stale", by |-> v[k].by] \in State
      OBVIOUS
    <3>2. v \in [SourceKey -> State \cup {Absent}] /\ v[k] # Absent
      BY <3>1, ValueOf DEF Was, Fits, Told
    <3>3. v[k].by \in Nat
      BY <3>2 DEF State
    <3> QED
      BY <3>3 DEF State
  <2> HIDE DEF had, S
  <2> QED
    BY <2>1, <2>2, <2>3
<1>4. N(good) \in [SourceKey -> State \cup {Absent}]
  <2>1. N(good) = [k \in SourceKey |-> N(good)[k]]
    OBVIOUS
  <2> HIDE DEF N
  <2> QED
    BY <2>1, <1>3
<1> HIDE DEF N
<1>5. Fits("snapshot", N(good))
  BY <1>4, ValueOf DEF Fits
<1> QED
  BY <1>1, <1>2, <1>5, Replacement

LEMMA ScanNames ==
  /\ "latest" \in Names /\ "previous" \in Names /\ "index" \in Names /\ "salt" \notin Report
  /\ Report \subseteq Names /\ ScanFiles \subseteq Names
  BY StoreConstants DEF Names, Stored, ScanFiles

LEMMA AfterLatestRuns ==
  ASSUME NEW j \in Call, NEW v, Was("latest", v), NEW q \in AfterLatest(j, v), j.kind = "scan", j.arg \in Report
  PROVE  Runs(j, q) /\ Starts(q)
<1> DEFINE A == IF v \notin {Absent, j.arg} THEN Replace("previous", v) ELSE <<>>
           B == Replace("latest", j.arg)
           C == ReadOf("index")
<1>1. Runs(j, A) /\ Starts(A)
  <2>1. CASE v \in {Absent, j.arg}
    BY <2>1, Nothing
  <2>2. CASE v \notin {Absent, j.arg}
    <3>1. Fits("previous", v)
      BY <2>2, ValueOf DEF Was, Fits
    <3> QED
      BY <2>2, <3>1, ScanNames, Replacement
  <2> QED
    BY <2>1, <2>2
<1>2. Runs(j, B) /\ Starts(B)
  <2>1. Fits("latest", j.arg)
    BY ValueOf DEF Fits
  <2> QED
    BY <2>1, ScanNames, Replacement
<1>3. Runs(j, C) /\ Starts(C)
  BY ScanNames, Reading DEF ReadBy
<1>4. q = (A \o B) \o C
  BY DEF AfterLatest
<1> HIDE DEF A, B, C
<1>5. Runs(j, A \o B) /\ Starts(A \o B)
  BY <1>1, <1>2, Joined
<1> QED
  BY <1>3, <1>4, <1>5, Joined

LEMMA PrunedOf ==
  ASSUME NEW j, j.kind = "scan", NEW next \in Seq(Report)
  PROVE  /\ Runs(j, Pruned(next)) /\ Starts(Pruned(next))
         /\ Len(Pruned(next)) = Len(next) - Len(First(next))
         /\ \A i \in 1..Len(Pruned(next)) : /\ Kept + i \in 1..Len(next) /\ Kept = Len(First(next))
                                            /\ Pruned(next)[i].do = "drop" /\ Pruned(next)[i].on = next[Kept + i]
<1> DEFINE q == Pruned(next)
           n == Len(next) - Len(First(next))
<1>1. n \in Nat /\ \A i \in 1..n : Kept + i \in 1..Len(next) /\ Kept = Len(First(next))
  <2>1. Len(next) \in Nat /\ Len(First(next)) \in Nat /\ Len(First(next)) <= Len(next) /\ Kept \in Nat
    BY FirstOf, Constants
  <2>2. Len(next) > Len(First(next)) => Len(First(next)) = Kept
    BY FirstOf
  <2> QED
    BY <2>1, <2>2
<1>2. q = [i \in 1..n |-> Task("drop", next[Kept + i], Absent)]
  BY DEF Pruned
<1>3. \A i \in 1..n : next[Kept + i] \in Report
  BY <1>1
<1>4. \A i \in 1..n : Task("drop", next[Kept + i], Absent) \in TaskType
  BY <1>3, ScanNames DEF Task, TaskType, TaskKind, AnyValue
<1> HIDE DEF n, q
<1>5. q \in Seq(TaskType) /\ Len(q) = n /\ \A i \in 1..n : q[i] = Task("drop", next[Kept + i], Absent)
  BY <1>1, <1>2, <1>4
<1>6. \A i \in 1..n : q[i].do = "drop" /\ q[i].on = next[Kept + i]
  BY <1>5 DEF Task
<1>7. \A i \in 1..n : StepOK(j, q[i])
  BY <1>3, <1>6, ScanNames DEF StepOK, Replacing
<1>8. InTurn(q)
  BY <1>1, <1>5, <1>6 DEF InTurn
<1>9. Starts(q)
  <2>1. q # <<>> => 1 \in 1..n
    BY <1>1, <1>5
  <2> QED
    BY <2>1, <1>6 DEF Starts
<1> QED
  BY <1>1, <1>5, <1>6, <1>7, <1>8, <1>9 DEF Runs, n, q

LEMMA AfterIndexRuns ==
  ASSUME NEW j \in Call, NEW v, Was("index", v), NEW q \in AfterIndex(j, v), j.kind = "scan", j.arg \in Report
  PROVE  Runs(j, q) /\ Starts(q)
<1> DEFINE next == <<j.arg>> \o List(v)
<1>1. List(v) \in Seq(Report)
  BY ValueOf DEF Was, Fits, List
<1>2. next \in Seq(Report)
  BY <1>1
<1>3. CASE j.arg \in Items(List(v))
  BY <1>3, Nothing DEF AfterIndex
<1>4. CASE j.arg \notin Items(List(v))
  <2> DEFINE A == Replace(j.arg, j.arg)
             B == Replace("index", First(next))
             C == Pruned(next)
  <2>1. q = (A \o B) \o C
    BY <1>4 DEF AfterIndex
  <2>2. Runs(j, A) /\ Starts(A)
    <3>1. Fits(j.arg, j.arg) /\ j.arg \in Names /\ j.arg # "salt"
      BY ValueOf, ScanNames, StoreConstants DEF Fits, Stored
    <3> QED
      BY <3>1, Replacement
  <2>3. Runs(j, B) /\ Starts(B)
    <3>1. Fits("index", First(next))
      BY <1>2, FirstOf, ValueOf DEF Fits
    <3> QED
      BY <3>1, ScanNames, Replacement
  <2>4. Runs(j, C) /\ Starts(C)
    BY <1>2, PrunedOf
  <2> HIDE DEF A, B, C
  <2>5. Runs(j, A \o B) /\ Starts(A \o B)
    BY <2>2, <2>3, Joined
  <2> QED
    BY <2>1, <2>4, <2>5, Joined
<1> QED
  BY <1>3, <1>4

LEMMA AfterRuns ==
  ASSUME NEW j \in Call, NEW n, NEW v, Was(n, v), NEW q \in After(j, n, v),
         j.kind \in ReadBy(n), j.key # Absent => j.kind \in {"prompt", "stop"},
         n = "events" /\ j.kind = "stop" => j.key # Absent,
         n = "snapshot" => Current(j).value \in Value("sources"),
         j.kind = "scan" => j.arg \in Report,
         j.kind \in {"add", "enable", "disable", "remove"} => j.arg \in SourceKey
  PROVE  Runs(j, q) /\ Starts(q)
<1>1. n \in {"preflights", "events", "policy", "sources", "snapshot", "latest", "index"}
  BY DEF ReadBy
<1>2. CASE n = "preflights"
  BY <1>2, AfterPreflightsRuns DEF After
<1>3. CASE n = "events"
  BY <1>3, AfterEventsRuns DEF After
<1>4. CASE n = "policy"
  BY <1>4, AfterPolicyRuns DEF After
<1>5. CASE n = "sources"
  BY <1>5, AfterSourcesRuns DEF After
<1>6. CASE n = "snapshot"
  BY <1>6, AfterSnapshotRuns DEF After
<1>7. CASE n = "latest"
  <2>1. q \in AfterLatest(j, v) /\ j.kind = "scan" /\ Was("latest", v)
    BY <1>7 DEF After, ReadBy
  <2> QED
    BY <2>1, AfterLatestRuns
<1>8. CASE n = "index"
  <2>1. q \in AfterIndex(j, v) /\ j.kind = "scan" /\ Was("index", v)
    BY <1>8 DEF After, ReadBy
  <2> QED
    BY <2>1, AfterIndexRuns
<1> QED
  BY <1>1, <1>2, <1>3, <1>4, <1>5, <1>6, <1>7, <1>8

-----------------------------------------------------------------------------
(* Calls and what they have open.                                          *)

CallOK(j) ==
    /\ j \in Call /\ Runs(j, j.at)
    /\ j.at = <<>> => j = NoJob
    /\ j.key # Absent => j.kind \in {"prompt", "stop"}
    /\ j.kind = "scan" => j.arg \in Report
    /\ j.kind \in {"add", "enable", "disable", "remove"} => j.arg \in SourceKey

HandsOK(c) ==
    /\ CallDoes(c, "rename") \/ (CallDoes(c, "fill") /\ On(c) # "salt") =>
         job[c].tmp \in Scratch /\ job[c].tmp[1] = On(c)
    /\ opened[c] # Absent =>
         /\ CallDoes(c, "fill") \/ CallDoes(c, "write")
         /\ \/ opened[c] = PlaceOf(On(c))
            \/ opened[c] = job[c].tmp /\ CallDoes(c, "fill") /\ On(c) # "salt"
         /\ slot[opened[c]] # Absent

Jobs ==
    \A c \in Caller :
        /\ CallOK(job[c]) /\ HandsOK(c)
        /\ ~Free(c) => job[c].kind \in Kinds[topic] /\ job[c].id \in 1..calls
        /\ \A d \in Caller : d # c /\ ~Free(c) /\ ~Free(d) => job[c].id # job[d].id

(* The shape of the state: values, calls and what they have open.          *)
Shape == Typed /\ Jobs /\ Contents

LEMMA NoJobOK == CallOK(NoJob)
<1>1. NoJob \in Call /\ NoJob.at = <<>> /\ NoJob.key = Absent /\ NoJob.kind = "none"
  BY DEF NoJob, Call, Kind, AnyValue
<1>2. Runs(NoJob, NoJob.at)
  BY <1>1, Nothing
<1> QED
  BY <1>1, <1>2 DEF CallOK

LEMMA SameRuns ==
  ASSUME NEW j, NEW k, NEW q, Runs(j, q), k.kind = j.kind, k.key = j.key, k.id = j.id
  PROVE  Runs(k, q)
  BY DEF Runs, StepOK

LEMMA FieldsOf ==
  ASSUME NEW j \in Call
  PROVE  /\ \A v \in AnyValue : LET k == [j EXCEPT !.read = v] IN
               k \in Call /\ k = [id |-> j.id, kind |-> j.kind, arg |-> j.arg, at |-> j.at, read |-> v,
                                  key |-> j.key, tmp |-> j.tmp, bad |-> j.bad]
         /\ \A v \in Nat : LET k == [j EXCEPT !.key = v] IN
               k \in Call /\ k = [id |-> j.id, kind |-> j.kind, arg |-> j.arg, at |-> j.at, read |-> j.read,
                                  key |-> v, tmp |-> j.tmp, bad |-> j.bad]
         /\ \A t \in Scratch : LET k == [j EXCEPT !.tmp = t] IN
               k \in Call /\ k = [id |-> j.id, kind |-> j.kind, arg |-> j.arg, at |-> j.at, read |-> j.read,
                                  key |-> j.key, tmp |-> t, bad |-> j.bad]
         /\ \A b \in BOOLEAN : LET k == [j EXCEPT !.bad = b] IN
               k \in Call /\ k = [id |-> j.id, kind |-> j.kind, arg |-> j.arg, at |-> j.at, read |-> j.read,
                                  key |-> j.key, tmp |-> j.tmp, bad |-> b]
         /\ \A q \in Seq(TaskType) : LET k == [j EXCEPT !.at = q] IN
               k \in Call /\ k = [id |-> j.id, kind |-> j.kind, arg |-> j.arg, at |-> q, read |-> j.read,
                                  key |-> j.key, tmp |-> j.tmp, bad |-> j.bad]
<1>1. j = [id |-> j.id, kind |-> j.kind, arg |-> j.arg, at |-> j.at, read |-> j.read,
           key |-> j.key, tmp |-> j.tmp, bad |-> j.bad]
  BY DEF Call
<1>2. ASSUME NEW v \in AnyValue
      PROVE  [j EXCEPT !.read = v] \in Call /\ [j EXCEPT !.read = v] =
               [id |-> j.id, kind |-> j.kind, arg |-> j.arg, at |-> j.at, read |-> v,
                key |-> j.key, tmp |-> j.tmp, bad |-> j.bad]
  BY <1>1 DEF Call
<1>3. ASSUME NEW v \in Nat
      PROVE  [j EXCEPT !.key = v] \in Call /\ [j EXCEPT !.key = v] =
               [id |-> j.id, kind |-> j.kind, arg |-> j.arg, at |-> j.at, read |-> j.read,
                key |-> v, tmp |-> j.tmp, bad |-> j.bad]
  BY <1>1 DEF Call
<1>4. ASSUME NEW t \in Scratch
      PROVE  [j EXCEPT !.tmp = t] \in Call /\ [j EXCEPT !.tmp = t] =
               [id |-> j.id, kind |-> j.kind, arg |-> j.arg, at |-> j.at, read |-> j.read,
                key |-> j.key, tmp |-> t, bad |-> j.bad]
  BY <1>1 DEF Call
<1>5. ASSUME NEW b \in BOOLEAN
      PROVE  [j EXCEPT !.bad = b] \in Call /\ [j EXCEPT !.bad = b] =
               [id |-> j.id, kind |-> j.kind, arg |-> j.arg, at |-> j.at, read |-> j.read,
                key |-> j.key, tmp |-> j.tmp, bad |-> b]
  BY <1>1 DEF Call
<1>6. ASSUME NEW q \in Seq(TaskType)
      PROVE  [j EXCEPT !.at = q] \in Call /\ [j EXCEPT !.at = q] =
               [id |-> j.id, kind |-> j.kind, arg |-> j.arg, at |-> q, read |-> j.read,
                key |-> j.key, tmp |-> j.tmp, bad |-> j.bad]
  BY <1>1 DEF Call
<1> QED
  BY <1>2, <1>3, <1>4, <1>5, <1>6

(* One call moves: it ends, or goes on with other steps.                   *)
Moves(c) ==
    /\ job' = [job EXCEPT ![c] = job'[c]]
    /\ CallOK(job'[c])
    /\ \/ job'[c] = NoJob
       \/ /\ job'[c].at # <<>> /\ met' = met
          /\ job'[c].id = job[c].id /\ job'[c].kind = job[c].kind /\ job'[c].arg = job[c].arg
    /\ met' \subseteq met /\ met \ {c} \subseteq met'

LEMMA GoToMoves ==
  ASSUME Typed, NEW c \in Caller, CallOK(job[c]), NEW j \in Call, NEW q, Runs(j, q), GoTo(c, j, q),
         j.id = job[c].id, j.kind = job[c].kind, j.arg = job[c].arg,
         j.key # Absent => j.kind \in {"prompt", "stop"}
  PROVE  /\ Moves(c)
         /\ job'[c] = IF q = <<>> THEN NoJob
                      ELSE [id |-> j.id, kind |-> j.kind, arg |-> j.arg, at |-> q, read |-> j.read,
                            key |-> j.key, tmp |-> j.tmp, bad |-> j.bad]
<1>1. q \in Seq(TaskType) /\ job \in [Caller -> Call]
  BY DEF Runs, Typed
<1>2. CASE q = <<>>
  <2>1. job' = [job EXCEPT ![c] = NoJob] /\ met' = met \ {c}
    BY <1>2 DEF GoTo
  <2>2. job'[c] = NoJob
    BY <1>1, <2>1
  <2> QED
    BY <1>2, <2>1, <2>2, NoJobOK DEF Moves
<1>3. CASE q # <<>>
  <2> DEFINE k == [id |-> j.id, kind |-> j.kind, arg |-> j.arg, at |-> q, read |-> j.read,
                   key |-> j.key, tmp |-> j.tmp, bad |-> j.bad]
  <2>1. [j EXCEPT !.at = q] \in Call /\ [j EXCEPT !.at = q] = k
    BY <1>1, FieldsOf
  <2>2. job' = [job EXCEPT ![c] = k] /\ met' = met
    BY <1>3, <2>1 DEF GoTo
  <2>3. job'[c] = k
    BY <1>1, <2>2
  <2>4. k.id = j.id /\ k.kind = j.kind /\ k.arg = j.arg /\ k.at = q /\ k.key = j.key
    OBVIOUS
  <2> HIDE DEF k
  <2>5. Runs(k, q)
    BY <2>4, SameRuns
  <2>6. CallOK(k)
    BY <1>3, <2>1, <2>4, <2>5 DEF CallOK
  <2>7. Moves(c)
    BY <1>3, <2>2, <2>3, <2>4, <2>6 DEF Moves
  <2> QED
    BY <1>3, <2>3, <2>7 DEF k
<1> QED
  BY <1>2, <1>3

LEMMA AtWork ==
  ASSUME Shape, NEW c \in Caller, ~Free(c)
  PROVE  /\ CallOK(job[c]) /\ HandsOK(c) /\ job[c] \in Call /\ job[c].at \in Seq(TaskType)
         /\ Current(job[c]) = job[c].at[1] /\ 1 \in 1..Len(job[c].at)
         /\ Current(job[c]) \in TaskType /\ StepOK(job[c], Current(job[c]))
         /\ On(c) \in Names /\ PlaceOf(On(c)) \in Place
<1>1. CallOK(job[c]) /\ HandsOK(c)
  BY DEF Shape, Jobs
<1>2. job[c].at # <<>> /\ Runs(job[c], job[c].at) /\ job[c] \in Call
  BY <1>1 DEF Free, CallOK
<1>3. Current(job[c]) = job[c].at[1] /\ 1 \in 1..Len(job[c].at)
  BY <1>2, Rest DEF Current
<1>4. StepOK(job[c], Current(job[c])) /\ job[c].at \in Seq(TaskType)
  BY <1>2, <1>3 DEF Runs
<1>5. Current(job[c]) \in TaskType
  BY <1>3, <1>4
<1>6. On(c) \in Names
  BY <1>5 DEF TaskType, On
<1> QED
  BY <1>1, <1>2, <1>3, <1>4, <1>5, <1>6, Places

(* What follows the current step.                                          *)
LEMMA NextStep ==
  ASSUME NEW j, NEW q, Runs(j, q), q # <<>>, NEW a, a = q[1]
  PROVE  /\ a.do = "open" => Tail(q) # <<>> /\ Tail(q)[1] = Task("fill", a.on, a.value)
         /\ a.do = "fill" /\ a.on # "salt" => Tail(q) # <<>> /\ Tail(q)[1] = Task("rename", a.on, a.value)
         /\ a.do = "fill" /\ a.on = "salt" => Tail(q) # <<>> /\ Tail(q)[1].do = "key"
         /\ a.do = "append" => Tail(q) # <<>> /\ Tail(q)[1] = Task("write", "events", a.value)
         /\ Tail(q) # <<>> =>
              /\ Tail(q)[1].do = "fill"   => a.do = "open"
              /\ Tail(q)[1].do = "rename" => a.do = "fill" /\ a.on # "salt"
              /\ Tail(q)[1].do = "write"  => a.do = "append"
<1>0. q \in Seq(TaskType) /\ Tail(q) \in Seq(TaskType) /\ Len(Tail(q)) = Len(q) - 1 /\ Len(q) \in Nat /\ Len(q) >= 1
  BY Rest DEF Runs
<1>1. q \in Seq(TaskType) /\ 1 \in 1..Len(q) /\ Len(q) \in Nat /\ Tail(q) \in Seq(TaskType)
      /\ (Tail(q) # <<>> <=> 1 < Len(q)) /\ (1 < Len(q) => 2 \in 1..Len(q) /\ Tail(q)[1] = q[2])
  <2>1. Tail(q) # <<>> <=> 1 < Len(q)
    <3> DEFINE r == Tail(q)
    <3>1. r \in Seq(TaskType) /\ Len(r) = Len(q) - 1 /\ Len(q) \in Nat
      BY <1>0
    <3> HIDE DEF r
    <3>2. r # <<>> <=> 1 < Len(q)
      BY <3>1
    <3> QED
      BY <3>2 DEF r
  <2>2. 1 < Len(q) => 2 \in 1..Len(q) /\ 1 \in 1..Len(Tail(q))
    BY <1>0
  <2> QED
    BY <1>0, <2>1, <2>2, Rest
<1>2. /\ q[1].do = "open" => 1 < Len(q) /\ q[2] = Task("fill", q[1].on, q[1].value)
      /\ q[1].do = "fill" /\ q[1].on # "salt" => 1 < Len(q) /\ q[2] = Task("rename", q[1].on, q[1].value)
      /\ q[1].do = "append" => 1 < Len(q) /\ q[2] = Task("write", "events", q[1].value)
      /\ q[1].do = "fill" /\ q[1].on = "salt" => 1 < Len(q) /\ q[2].do = "key"
  BY <1>1 DEF Runs, InTurn
<1>3. 1 < Len(q) =>
         /\ q[2].do = "fill"   => q[1] = Task("open", q[2].on, q[2].value)
         /\ q[2].do = "rename" => q[1] = Task("fill", q[2].on, q[2].value)
         /\ q[2].do = "write"  => q[1].do = "append"
  BY <1>1 DEF Runs, InTurn
<1>4. 1 < Len(q) /\ q[2].do = "rename" => q[2].on # "salt"
  BY <1>1 DEF Runs, StepOK
<1> QED
  BY <1>1, <1>2, <1>3, <1>4 DEF Task

LEMMA ContinueMoves ==
  ASSUME Shape, NEW c \in Caller, ~Free(c), Continue(c)
  PROVE  /\ Moves(c)
         /\ job'[c] = LET j == job[c] IN
               IF Tail(j.at) = <<>> THEN NoJob
               ELSE [id |-> j.id, kind |-> j.kind, arg |-> j.arg, at |-> Tail(j.at), read |-> j.read,
                     key |-> j.key, tmp |-> j.tmp, bad |-> j.bad]
<1>1. CallOK(job[c]) /\ job[c].at # <<>>
  BY AtWork DEF Free
<1>2. Runs(job[c], Tail(job[c].at)) /\ job[c] \in Call
  BY <1>1, Rest DEF CallOK
<1>3. GoTo(c, job[c], Tail(job[c].at)) /\ (job[c].key # Absent => job[c].kind \in {"prompt", "stop"})
  BY <1>1 DEF Continue, CallOK
<1>4. Typed
  BY DEF Shape
<1> DEFINE j == job[c]
           q == Tail(j.at)
<1>5. /\ CallOK(job[c]) /\ j \in Call /\ Runs(j, q) /\ GoTo(c, j, q)
      /\ j.id = job[c].id /\ j.kind = job[c].kind /\ j.arg = job[c].arg
      /\ j.key # Absent => j.kind \in {"prompt", "stop"}
  BY <1>1, <1>2, <1>3
<1> HIDE DEF j, q
<1>6. /\ Moves(c)
      /\ job'[c] = IF q = <<>> THEN NoJob
                   ELSE [id |-> j.id, kind |-> j.kind, arg |-> j.arg, at |-> q, read |-> j.read,
                         key |-> j.key, tmp |-> j.tmp, bad |-> j.bad]
  BY ONLY <1>4, <1>5, c \in Caller, GoToMoves
<1> QED
  BY <1>6 DEF j, q

LEMMA FailMoves ==
  ASSUME Shape, NEW c \in Caller, ~Free(c), CallFails(c)
  PROVE  /\ Moves(c)
         /\ \/ job'[c] = NoJob
            \/ \E q \in {ReadOf("preflights"), AppendSteps(0)} :
                  LET j == job[c] IN
                  /\ j.kind = "prompt" /\ Runs(j, q) /\ Starts(q) /\ q # <<>>
                  /\ job'[c] = [id |-> j.id, kind |-> j.kind, arg |-> j.arg, at |-> q, read |-> j.read,
                               key |-> j.key, tmp |-> j.tmp, bad |-> TRUE]
<1> DEFINE j == job[c]
           k == [j EXCEPT !.bad = TRUE]
           n == [id |-> j.id, kind |-> j.kind, arg |-> j.arg, at |-> j.at, read |-> j.read,
                 key |-> j.key, tmp |-> j.tmp, bad |-> TRUE]
<1>1. CallOK(j) /\ j \in Call /\ Typed
  BY AtWork DEF Shape
<1>2. k \in Call /\ k = n
  BY <1>1, FieldsOf
<1>3. k.id = j.id /\ k.kind = j.kind /\ k.arg = j.arg /\ k.key = j.key /\ k.read = j.read /\ k.tmp = j.tmp /\ k.bad = TRUE
  BY <1>2
<1>4. PICK q \in {ReadOf("preflights"), AppendSteps(0), <<>>} :
         /\ GoTo(c, k, q)
         /\ q = ReadOf("preflights") => j.kind = "prompt"
         /\ q = AppendSteps(0) /\ q # ReadOf("preflights") /\ q # <<>> => j.kind = "prompt" /\ j.key # Absent
  <2>1. CASE j.kind = "prompt" /\ On(c) = "salt"
    BY <2>1, <1>3 DEF CallFails
  <2>2. CASE ~(j.kind = "prompt" /\ On(c) = "salt") /\ j.kind = "prompt" /\ On(c) = "preflights" /\ j.key # Absent
    BY <2>2, <1>3 DEF CallFails
  <2>3. CASE ~(j.kind = "prompt" /\ On(c) = "salt") /\ ~(j.kind = "prompt" /\ On(c) = "preflights" /\ j.key # Absent)
    <3>1. GoTo(c, k, <<>>)
      BY <2>3, <1>3 DEF CallFails
    <3>2. <<>> # ReadOf("preflights")
      BY DEF ReadOf
    <3> QED
      BY <3>1, <3>2
  <2> QED
    BY <2>1, <2>2, <2>3
<1>5. q = <<>> \/ (j.kind = "prompt" /\ Runs(j, q) /\ Starts(q) /\ q # <<>>)
  <2>1. CASE q = ReadOf("preflights")
    <3>1. "preflights" \in Names /\ j.kind \in ReadBy("preflights")
      BY <2>1, <1>4 DEF Names, Stored, ReadBy
    <3> QED
      BY <2>1, <3>1, <1>4, Reading
  <2>2. CASE q = AppendSteps(0) /\ q # ReadOf("preflights") /\ q # <<>>
    BY <2>2, <1>4, Appending
  <2> QED
    BY <2>1, <2>2, <1>4
<1>6. Runs(k, q)
  BY <1>3, <1>5, Nothing, SameRuns
<1>7. k.key # Absent => k.kind \in {"prompt", "stop"}
  BY <1>1, <1>3 DEF CallOK
<1> HIDE DEF k
<1>8. Moves(c) /\ job'[c] = IF q = <<>> THEN NoJob
                      ELSE [id |-> k.id, kind |-> k.kind, arg |-> k.arg, at |-> q, read |-> k.read,
                            key |-> k.key, tmp |-> k.tmp, bad |-> k.bad]
  <2>1. Typed /\ CallOK(job[c]) /\ k \in Call /\ Runs(k, q) /\ GoTo(c, k, q)
    BY <1>1, <1>2, <1>4, <1>6
  <2>2. k.id = job[c].id /\ k.kind = job[c].kind /\ k.arg = job[c].arg
    BY <1>3
  <2> QED
    BY ONLY <2>1, <2>2, <1>7, c \in Caller, GoToMoves
<1> QED
  BY <1>3, <1>4, <1>5, <1>8

(* What the callers hold after a step.                                     *)
LEMMA HandsOther ==
  ASSUME NEW d \in Caller, HandsOK(d), job'[d] = job[d],
         \/ opened'[d] = Absent
         \/ opened[d] # Absent /\ opened'[d] \in {opened[d], PlaceOf(On(d))} /\ slot'[opened'[d]] # Absent
  PROVE  HandsOK(d)'
  BY DEF HandsOK, CallDoes, Free, On, Current

LEMMA HandsStart ==
  ASSUME Typed, NEW c \in Caller, Moves(c), opened'[c] = Absent, Starts(job'[c].at)
  PROVE  HandsOK(c)'
<1>1. job'[c].at = <<>> \/ Head(job'[c].at) = job'[c].at[1]
  OBVIOUS
<1> QED
  BY <1>1 DEF HandsOK, CallDoes, Free, On, Current, Starts

LEMMA NoJobStarts == Starts(NoJob.at)
  BY DEF NoJob, Starts

LEMMA OnWith ==
  ASSUME Shape, NEW c \in Caller, ~Free(c), Continue(c)
  PROVE  /\ Moves(c)
         /\ CallDoes(c, "open")   => /\ CallDoes(c, "fill")' /\ On(c)' = On(c)
                                     /\ Current(job[c])'.value = Current(job[c]).value
         /\ CallDoes(c, "fill") /\ On(c) # "salt" =>
              CallDoes(c, "rename")' /\ On(c)' = On(c) /\ Current(job[c])'.value = Current(job[c]).value
         /\ CallDoes(c, "fill") /\ On(c) = "salt" => CallDoes(c, "key")'
         /\ CallDoes(c, "append") => CallDoes(c, "write")' /\ On(c)' = "events"
         /\ ~CallDoes(c, "open") /\ ~CallDoes(c, "append") /\ ~CallDoes(c, "fill") => Starts(job'[c].at)
         /\ job'[c] # NoJob => job'[c].tmp = job[c].tmp /\ job'[c].key = job[c].key /\ job'[c].at = Tail(job[c].at)
         /\ job'[c] = NoJob <=> Tail(job[c].at) = <<>>
<1> DEFINE j == job[c]
           r == Tail(j.at)
<1>1. /\ Moves(c)
      /\ job'[c] = IF r = <<>> THEN NoJob
                   ELSE [id |-> j.id, kind |-> j.kind, arg |-> j.arg, at |-> r, read |-> j.read,
                         key |-> j.key, tmp |-> j.tmp, bad |-> j.bad]
  BY ContinueMoves
<1>2. job'[c].at = r /\ (r # <<>> => job'[c].tmp = j.tmp /\ job'[c].key = j.key) /\ (job'[c] = NoJob <=> r = <<>>)
  <2>1. CASE r = <<>>
    BY <1>1, <2>1 DEF NoJob
  <2>2. CASE r # <<>>
    <3>1. NoJob.at = <<>>
      BY DEF NoJob
    <3> QED
      BY <1>1, <2>2, <3>1
  <2> QED
    BY <2>1, <2>2
<1>3. r # <<>> => Head(r) = r[1]
  OBVIOUS
<1>4. Runs(j, j.at) /\ j.at # <<>> /\ Current(j) = j.at[1]
  BY AtWork DEF CallOK, Free
<1> DEFINE a == j.at[1]
<1>5. /\ a.do = "open" => r # <<>> /\ r[1] = Task("fill", a.on, a.value)
      /\ a.do = "fill" /\ a.on # "salt" => r # <<>> /\ r[1] = Task("rename", a.on, a.value)
      /\ a.do = "fill" /\ a.on = "salt" => r # <<>> /\ r[1].do = "key"
      /\ a.do = "append" => r # <<>> /\ r[1] = Task("write", "events", a.value)
      /\ r # <<>> =>
           /\ r[1].do = "fill"   => a.do = "open"
           /\ r[1].do = "rename" => a.do = "fill" /\ a.on # "salt"
           /\ r[1].do = "write"  => a.do = "append"
  BY <1>4, NextStep
<1>6. Current(job[c])' = Head(r) /\ On(c)' = Head(r).on /\ Current(job[c]) = a /\ On(c) = a.on
  BY <1>2, <1>4 DEF Current, On
<1>7. /\ \A x : CallDoes(c, x) <=> a.do = x
      /\ \A x : r # <<>> => (CallDoes(c, x)' <=> r[1].do = x)
  BY <1>2, <1>3, <1>4, <1>6 DEF CallDoes, Free
<1>8. \A x, n, v : Task(x, n, v).do = x /\ Task(x, n, v).on = n /\ Task(x, n, v).value = v
  BY DEF Task
<1> HIDE DEF a, r
<1>9. Starts(job'[c].at) <=> Starts(r)
  BY <1>2
<1>10. a.do \notin {"open", "append", "fill"} => Starts(r)
  <2>1. CASE r = <<>>
    BY <2>1 DEF Starts
  <2>2. CASE r # <<>>
    <3>1. /\ r[1].do = "fill"   => a.do = "open"
          /\ r[1].do = "rename" => a.do = "fill"
          /\ r[1].do = "write"  => a.do = "append"
      BY <1>5, <2>2
    <3> QED
      BY <3>1 DEF Starts
  <2> QED
    BY <2>1, <2>2
<1>11. r # <<>> => On(c)' = r[1].on /\ Current(job[c])' = r[1]
  BY <1>3, <1>6
<1>12. CallDoes(c, "open") => CallDoes(c, "fill")' /\ On(c)' = On(c) /\ Current(job[c])'.value = Current(job[c]).value
  BY <1>5, <1>6, <1>7, <1>8, <1>11
<1>13. CallDoes(c, "fill") /\ On(c) # "salt" =>
         CallDoes(c, "rename")' /\ On(c)' = On(c) /\ Current(job[c])'.value = Current(job[c]).value
  BY <1>5, <1>6, <1>7, <1>8, <1>11
<1>14. CallDoes(c, "fill") /\ On(c) = "salt" => CallDoes(c, "key")'
  BY <1>5, <1>6, <1>7
<1>15. CallDoes(c, "append") => CallDoes(c, "write")' /\ On(c)' = "events"
  BY <1>5, <1>6, <1>7, <1>8, <1>11
<1>16. ~CallDoes(c, "open") /\ ~CallDoes(c, "append") /\ ~CallDoes(c, "fill") => Starts(job'[c].at)
  BY <1>7, <1>9, <1>10
<1> QED
  BY <1>1, <1>2, <1>12, <1>13, <1>14, <1>15, <1>16 DEF r

LEMMA JobsMove ==
  ASSUME Shape, NEW c \in Caller, ~Free(c), Moves(c), UNCHANGED <<topic, calls>>,
         HandsOK(c)', \A d \in Caller \ {c} : HandsOK(d)'
  PROVE  Jobs' /\ job' \in [Caller -> Call] /\ met' \subseteq Caller /\ \A d \in Caller \ {c} : job'[d] = job[d]
<1>1. job \in [Caller -> Call] /\ Jobs /\ met \subseteq Caller
  BY DEF Shape, Typed
<1>2. job' = [job EXCEPT ![c] = job'[c]] /\ CallOK(job'[c])
  BY DEF Moves
<1>3. \A d \in Caller \ {c} : job'[d] = job[d]
  BY <1>1, <1>2
<1>4. \A d \in Caller \ {c} : CallOK(job'[d])
  BY <1>1, <1>3 DEF Jobs
<1>5. job'[c] = NoJob => Free(c)'
  BY DEF NoJob, Free
<1>6. ~Free(c)' => job'[c].id = job[c].id /\ job'[c].kind = job[c].kind
  BY <1>5 DEF Moves
<1>7. \A d \in Caller \ {c} : Free(d)' <=> Free(d)
  BY <1>3 DEF Free
<1>8. job' \in [Caller -> Call]
  BY <1>1, <1>2 DEF CallOK
<1>9. met' \subseteq Caller
  BY <1>1 DEF Moves
<1>10. ASSUME NEW d \in Caller
       PROVE  /\ CallOK(job'[d]) /\ HandsOK(d)'
              /\ ~Free(d)' => ~Free(d) /\ job'[d].kind = job[d].kind /\ job'[d].id = job[d].id
  BY <1>2, <1>3, <1>4, <1>6, <1>7
<1>11. \A d \in Caller : ~Free(d)' => job[d].kind \in Kinds[topic] /\ job[d].id \in 1..calls
  BY <1>1, <1>10 DEF Jobs
<1>12. \A d, e \in Caller : d # e /\ ~Free(d)' /\ ~Free(e)' => job[d].id # job[e].id
  BY <1>1, <1>10 DEF Jobs
<1>13. Jobs'
  BY <1>10, <1>11, <1>12 DEF Jobs
<1> QED
  BY <1>3, <1>8, <1>9, <1>13

(* A step that touches no file.                                            *)
LEMMA QuietShape ==
  ASSUME Shape, NEW c \in Caller, ~Free(c), Moves(c), UNCHANGED <<slot, opened>>, Calm,
         Starts(job'[c].at), opened[c] = Absent
  PROVE  Shape'
<1>1. HandsOK(c)'
  BY HandsStart DEF Shape
<1>2. ASSUME NEW d \in Caller \ {c} PROVE HandsOK(d)'
  <2>1. HandsOK(d) /\ job'[d] = job[d]
    BY DEF Shape, Jobs, Moves, Typed
  <2>2. opened[d] # Absent => slot[opened[d]] # Absent
    BY <2>1 DEF HandsOK
  <2> QED
    BY <2>1, <2>2, HandsOther
<1>3. Jobs' /\ job' \in [Caller -> Call] /\ met' \subseteq Caller
  BY <1>1, <1>2, JobsMove DEF Calm
<1>4. Typed'
  BY <1>3 DEF Shape, Typed, Calm
<1>5. Contents'
  BY DEF Shape, Contents
<1> QED
  BY <1>3, <1>4, <1>5 DEF Shape

LEMMA NothingOpen ==
  ASSUME Shape, NEW c \in Caller, ~CallDoes(c, "fill"), ~CallDoes(c, "write") PROVE opened[c] = Absent
  BY DEF Shape, Jobs, HandsOK

LEMMA OneThing == \A c \in Caller : \A x, y : CallDoes(c, x) /\ CallDoes(c, y) => x = y
  BY DEF CallDoes

LEMMA FailStarts ==
  ASSUME Shape, NEW c \in Caller, ~Free(c), CallFails(c) PROVE Moves(c) /\ Starts(job'[c].at)
<1>1. CASE job'[c] = NoJob
  BY <1>1, FailMoves, NoJobStarts
<1>2. CASE job'[c] # NoJob
  <2>1. PICK q : /\ Starts(q)
                 /\ job'[c] = [id |-> job[c].id, kind |-> job[c].kind, arg |-> job[c].arg, at |-> q,
                              read |-> job[c].read, key |-> job[c].key, tmp |-> job[c].tmp, bad |-> TRUE]
    BY <1>2, FailMoves
  <2>2. job'[c].at = q
    BY <2>1
  <2> QED
    BY <2>1, <2>2, FailMoves
<1> QED
  BY <1>1, <1>2

LEMMA FailShape ==
  ASSUME Shape, NEW c \in Caller, ~Free(c), CallFails(c), UNCHANGED <<slot, opened>>, Calm,
         ~CallDoes(c, "fill"), ~CallDoes(c, "write")
  PROVE  Shape'
<1>1. Moves(c) /\ Starts(job'[c].at)
  BY FailStarts
<1>2. opened[c] = Absent
  BY NothingOpen
<1> QED
  BY <1>1, <1>2, QuietShape

LEMMA ReadMoves ==
  ASSUME Shape, NEW c \in Caller, CallDoes(c, "read"), slot[PlaceOf(On(c))] # Torn,
         NEW q \in After(job[c], On(c), slot[PlaceOf(On(c))]),
         GoTo(c, [job[c] EXCEPT !.read = slot[PlaceOf(On(c))]], q)
  PROVE  /\ Moves(c) /\ Runs(job[c], q) /\ Starts(q)
         /\ job'[c] = LET j == job[c] IN
               IF q = <<>> THEN NoJob
               ELSE [id |-> j.id, kind |-> j.kind, arg |-> j.arg, at |-> q, read |-> slot[PlaceOf(On(c))],
                     key |-> j.key, tmp |-> j.tmp, bad |-> j.bad]
<1> DEFINE j == job[c]
           n == On(c)
           v == slot[PlaceOf(n)]
           k == [j EXCEPT !.read = v]
<1>0. ~Free(c) /\ Current(j).do = "read" /\ Current(j).on = n
  BY DEF CallDoes, On
<1>1. CallOK(j) /\ j \in Call /\ Typed /\ n \in Names /\ StepOK(j, Current(j)) /\ PlaceOf(n) \in Place
  BY <1>0, AtWork DEF Shape
<1>2. v \in AnyValue
  BY <1>1 DEF Typed
<1>3. k \in Call /\ k = [id |-> j.id, kind |-> j.kind, arg |-> j.arg, at |-> j.at, read |-> v,
                          key |-> j.key, tmp |-> j.tmp, bad |-> j.bad]
  BY <1>1, <1>2, FieldsOf
<1>4. Was(n, v)
  <2>1. v \notin {Absent, Torn} => Fits(PlaceOf(n)[1], v)
    BY <1>1 DEF Shape, Contents
  <2> QED
    BY <1>1, <2>1, Places DEF Was
<1>5. /\ j.kind \in ReadBy(n)
      /\ n = "events" /\ j.kind = "stop" => j.key # Absent
      /\ n = "snapshot" => Current(j).value \in Value("sources")
  BY <1>0, <1>1 DEF StepOK
<1>6. Runs(j, q) /\ Starts(q)
  BY <1>1, <1>4, <1>5, AfterRuns DEF CallOK
<1>7. k.id = j.id /\ k.kind = j.kind /\ k.arg = j.arg /\ k.key = j.key /\ k.read = v /\ k.tmp = j.tmp /\ k.bad = j.bad
  BY <1>3
<1> HIDE DEF k
<1>8. Runs(k, q)
  BY <1>6, <1>7, SameRuns
<1>9. k.key # Absent => k.kind \in {"prompt", "stop"}
  BY <1>1, <1>7 DEF CallOK
<1>10. GoTo(c, k, q)
  BY DEF k
<1>11. /\ Moves(c)
       /\ job'[c] = IF q = <<>> THEN NoJob
                    ELSE [id |-> k.id, kind |-> k.kind, arg |-> k.arg, at |-> q, read |-> k.read,
                          key |-> k.key, tmp |-> k.tmp, bad |-> k.bad]
  <2>1. CallOK(job[c]) /\ k \in Call /\ k.id = job[c].id /\ k.kind = job[c].kind /\ k.arg = job[c].arg
    BY <1>1, <1>3, <1>7
  <2> QED
    BY ONLY <1>1, <2>1, <1>8, <1>9, <1>10, c \in Caller, GoToMoves
<1> QED
  BY <1>6, <1>7, <1>11

LEMMA ReadShape == ASSUME Shape, NEW c \in Caller, Read(c) PROVE Shape'
<1>1. CallDoes(c, "read") /\ ~Free(c) /\ UNCHANGED <<slot, opened>> /\ Calm
  BY DEF Read, CallDoes
<1>2. ~CallDoes(c, "fill") /\ ~CallDoes(c, "write")
  BY <1>1, OneThing
<1>3. CASE slot[PlaceOf(On(c))] = Torn
  <2>1. CallFails(c)
    BY <1>3 DEF Read
  <2> QED
    BY <1>1, <1>2, <2>1, FailShape
<1>4. CASE slot[PlaceOf(On(c))] # Torn
  <2>1. PICK q \in After(job[c], On(c), slot[PlaceOf(On(c))]) :
           GoTo(c, [job[c] EXCEPT !.read = slot[PlaceOf(On(c))]], q)
    BY <1>4 DEF Read
  <2>2. Moves(c) /\ Starts(q) /\ (job'[c] = NoJob \/ job'[c].at = q)
    <3> DEFINE j == job[c]
               k == [id |-> j.id, kind |-> j.kind, arg |-> j.arg, at |-> q, read |-> slot[PlaceOf(On(c))],
                     key |-> j.key, tmp |-> j.tmp, bad |-> j.bad]
    <3>1. Moves(c) /\ Starts(q) /\ job'[c] = IF q = <<>> THEN NoJob ELSE k
      BY <1>1, <1>4, <2>1, ReadMoves
    <3>2. k.at = q
      OBVIOUS
    <3> HIDE DEF k
    <3> QED
      BY <3>1, <3>2
  <2>3. Starts(job'[c].at)
    BY <2>2, NoJobStarts
  <2>4. opened[c] = Absent
    BY <1>2, NothingOpen
  <2> QED
    BY <1>1, <2>2, <2>3, <2>4, QuietShape
<1> QED
  BY <1>3, <1>4

LEMMA DeclineShape == ASSUME Shape, NEW c \in Caller, Decline(c) PROVE Shape'
<1>1. CallDoes(c, "refuse") /\ ~Free(c) /\ UNCHANGED <<slot, opened>> /\ Calm /\ CallFails(c)
  BY DEF Decline, CallDoes
<1>2. ~CallDoes(c, "fill") /\ ~CallDoes(c, "write")
  BY <1>1, OneThing
<1> QED
  BY <1>1, <1>2, FailShape

LEMMA CheckShape == ASSUME Shape, NEW c \in Caller, CheckReviewed(c) PROVE Shape'
<1>1. CallDoes(c, "check") /\ ~Free(c) /\ UNCHANGED <<slot, opened>> /\ Calm /\ (Continue(c) \/ CallFails(c))
  BY DEF CheckReviewed, CallDoes
<1>2. ~CallDoes(c, "fill") /\ ~CallDoes(c, "write") /\ ~CallDoes(c, "open") /\ ~CallDoes(c, "append")
  BY <1>1, OneThing
<1>3. CASE CallFails(c)
  BY <1>1, <1>2, <1>3, FailShape
<1>4. CASE Continue(c)
  <2>1. Moves(c) /\ Starts(job'[c].at)
    BY <1>1, <1>2, <1>4, OnWith
  <2>2. opened[c] = Absent
    BY <1>2, NothingOpen
  <2> QED
    BY <1>1, <2>1, <2>2, QuietShape
<1> QED
  BY <1>1, <1>3, <1>4

LEMMA SaltThere == PlaceOf("salt") \in Place /\ PlaceOf("salt")[1] = "salt" /\ "salt" \in Names
                   /\ PlaceOf("events") \in Place /\ PlaceOf("events")[1] = "events" /\ "events" \in Names
<1>1. "salt" \in Names /\ "events" \in Names
  BY DEF Names, Stored
<1> QED
  BY <1>1, Places

LEMMA KeyMoves ==
  ASSUME Shape, NEW c \in Caller, CallDoes(c, "key"), Held("salt") \notin {Absent, Torn}, Key(c)
  PROVE  /\ Moves(c) /\ Starts(job'[c].at) /\ Held("salt") \in Nat
         /\ \E q \in {ReadOf("events"), ReadOf("preflights")} :
              LET j == job[c] IN
              /\ Runs(job'[c], q)
              /\ job'[c] = [id |-> j.id, kind |-> j.kind, arg |-> j.arg, at |-> q, read |-> j.read,
                           key |-> Held("salt"), tmp |-> j.tmp, bad |-> j.bad]
<1> DEFINE j == job[c]
           v == Held("salt")
           k == [j EXCEPT !.key = v]
           q == ReadOf(IF j.kind = "stop" THEN "events" ELSE "preflights")
           n == [id |-> j.id, kind |-> j.kind, arg |-> j.arg, at |-> q, read |-> j.read,
                 key |-> v, tmp |-> j.tmp, bad |-> j.bad]
<1>0. ~Free(c) /\ Current(j).do = "key"
  BY DEF CallDoes
<1>1. CallOK(j) /\ j \in Call /\ Typed /\ StepOK(j, Current(j))
  BY <1>0, AtWork DEF Shape
<1>2. v \in Nat
  BY SaltThere, ValueOf DEF Shape, Contents, Fits, Held
<1>3. k \in Call /\ k = [id |-> j.id, kind |-> j.kind, arg |-> j.arg, at |-> j.at, read |-> j.read,
                          key |-> v, tmp |-> j.tmp, bad |-> j.bad]
  BY <1>1, <1>2, FieldsOf
<1>4. k.id = j.id /\ k.kind = j.kind /\ k.arg = j.arg /\ k.key = v /\ k.read = j.read /\ k.tmp = j.tmp /\ k.bad = j.bad
  BY <1>3
<1>5. j.kind \in {"prompt", "stop"}
  BY <1>0, <1>1 DEF StepOK
<1>6. v # Absent /\ "preflights" \in Names /\ "events" \in Names
  BY DEF Names, Stored
<1> HIDE DEF k
<1>7. Runs(k, q) /\ Starts(q) /\ q # <<>>
  <2>1. CASE j.kind = "stop"
    BY <2>1, <1>4, <1>6, Reading DEF ReadBy
  <2>2. CASE j.kind # "stop"
    BY <2>2, <1>4, <1>5, <1>6, Reading DEF ReadBy
  <2> QED
    BY <2>1, <2>2
<1>8. GoTo(c, k, q)
  BY DEF Key, Held, k
<1>9. k.key # Absent => k.kind \in {"prompt", "stop"}
  BY <1>4, <1>5
<1>10. q \in {ReadOf("events"), ReadOf("preflights")}
  OBVIOUS
<1> HIDE DEF q
<1>11. /\ Moves(c)
       /\ job'[c] = IF q = <<>> THEN NoJob
                    ELSE [id |-> k.id, kind |-> k.kind, arg |-> k.arg, at |-> q, read |-> k.read,
                          key |-> k.key, tmp |-> k.tmp, bad |-> k.bad]
  <2>1. CallOK(job[c]) /\ k \in Call /\ k.id = job[c].id /\ k.kind = job[c].kind /\ k.arg = job[c].arg
    BY <1>1, <1>3, <1>4
  <2> QED
    BY ONLY <1>1, <2>1, <1>7, <1>8, <1>9, c \in Caller, GoToMoves
<1>12. job'[c] = n
  BY <1>4, <1>7, <1>11
<1>13. n.at = q /\ n.key = v /\ n.kind = j.kind /\ n.id = j.id
  OBVIOUS
<1>14. Runs(n, q)
  BY <1>4, <1>7, <1>13, SameRuns
<1>15. Starts(job'[c].at)
  BY <1>7, <1>12, <1>13
<1> QED
  BY <1>2, <1>10, <1>11, <1>12, <1>14, <1>15

LEMMA KeyShape == ASSUME Shape, NEW c \in Caller, Key(c) PROVE Shape'
<1>1. CallDoes(c, "key") /\ ~Free(c) /\ UNCHANGED <<slot, opened>> /\ Calm
  BY DEF Key, CallDoes
<1>2. ~CallDoes(c, "fill") /\ ~CallDoes(c, "write")
  BY <1>1, OneThing
<1>3. CASE Held("salt") \in {Absent, Torn}
  <2>1. CallFails(c)
    BY <1>3 DEF Key, Held
  <2> QED
    BY <1>1, <1>2, <2>1, FailShape
<1>4. CASE Held("salt") \notin {Absent, Torn}
  <2>1. Moves(c) /\ Starts(job'[c].at)
    BY <1>1, <1>4, KeyMoves
  <2>2. opened[c] = Absent
    BY <1>2, NothingOpen
  <2> QED
    BY <1>1, <2>1, <2>2, QuietShape
<1> QED
  BY <1>3, <1>4

(* A step that changes files: what must be shown.                          *)
LEMMA FileShape ==
  ASSUME Shape, NEW c \in Caller, ~Free(c), Moves(c), UNCHANGED <<topic, review, calls>>, trouble' \in 0..TroubleLimit,
         opened' \in [Caller -> Place \cup Scratch \cup {Absent}],
         slot' \in [Place \cup Scratch -> AnyValue], Contents',
         HandsOK(c)',
         \A d \in Caller \ {c} :
            \/ opened'[d] = Absent
            \/ opened[d] # Absent /\ opened'[d] \in {opened[d], PlaceOf(On(d))} /\ slot'[opened'[d]] # Absent
  PROVE  Shape'
<1>1. ASSUME NEW d \in Caller \ {c} PROVE HandsOK(d)'
  <2>1. HandsOK(d) /\ job'[d] = job[d]
    BY DEF Shape, Jobs, Moves, Typed
  <2> QED
    BY <2>1, HandsOther
<1>2. Jobs' /\ job' \in [Caller -> Call] /\ met' \subseteq Caller
  BY <1>1, JobsMove
<1>3. Typed'
  BY <1>2 DEF Shape, Typed
<1> QED
  BY <1>2, <1>3 DEF Shape

(* One file gets a new content.                                            *)
LEMMA NewContent ==
  ASSUME Shape, NEW p \in Place \cup Scratch, NEW v, v \in {Absent, Torn} \/ Fits(p[1], v),
         slot' = [slot EXCEPT ![p] = v]
  PROVE  /\ Contents' /\ slot' \in [Place \cup Scratch -> AnyValue] /\ slot'[p] = v
         /\ \A o \in Place \cup Scratch : o # p => slot'[o] = slot[o]
<1>1. slot \in [Place \cup Scratch -> AnyValue] /\ Contents
  BY DEF Shape, Typed
<1>2. p[1] \in Names
  BY Places
<1>3. v \in AnyValue
  BY <1>2, ValueIsAny DEF Fits, AnyValue
<1> QED
  BY <1>1, <1>3 DEF Contents

LEMMA OpenMoves ==
  ASSUME Shape, NEW c \in Caller, CallDoes(c, "open"), NEW t \in Scratch, t[1] = On(c),
         GoTo(c, [job[c] EXCEPT !.tmp = t], Tail(job[c].at))
  PROVE  /\ Moves(c) /\ job'[c].tmp = t /\ job'[c].at = Tail(job[c].at) /\ job'[c].key = job[c].key
         /\ CallDoes(c, "fill")' /\ On(c)' = On(c) /\ Current(job[c])'.value = Current(job[c]).value
         /\ On(c) # "salt" /\ job'[c] # NoJob
<1> DEFINE j == job[c]
           q == Tail(j.at)
           k == [j EXCEPT !.tmp = t]
           n == [id |-> j.id, kind |-> j.kind, arg |-> j.arg, at |-> q, read |-> j.read,
                 key |-> j.key, tmp |-> t, bad |-> j.bad]
<1>0. ~Free(c) /\ Current(j).do = "open"
  BY DEF CallDoes
<1>1. CallOK(j) /\ j \in Call /\ Typed /\ StepOK(j, Current(j)) /\ Current(j) = j.at[1] /\ j.at # <<>>
  BY <1>0, AtWork DEF Shape, Free
<1>2. k \in Call /\ k = [id |-> j.id, kind |-> j.kind, arg |-> j.arg, at |-> j.at, read |-> j.read,
                          key |-> j.key, tmp |-> t, bad |-> j.bad]
  BY <1>1, FieldsOf
<1>3. k.id = j.id /\ k.kind = j.kind /\ k.arg = j.arg /\ k.key = j.key /\ k.read = j.read /\ k.tmp = t /\ k.bad = j.bad
  BY <1>2
<1> HIDE DEF k
<1>4. Runs(j, j.at) /\ Runs(j, q)
  BY <1>1, Rest DEF CallOK
<1>5. q # <<>> /\ q[1] = Task("fill", Current(j).on, Current(j).value)
  BY <1>0, <1>1, <1>4, NextStep
<1>6. Runs(k, q)
  BY <1>3, <1>4, SameRuns
<1>7. k.key # Absent => k.kind \in {"prompt", "stop"}
  BY <1>1, <1>3 DEF CallOK
<1>8. GoTo(c, k, q)
  BY DEF k
<1> HIDE DEF q
<1>9. /\ Moves(c)
      /\ job'[c] = IF q = <<>> THEN NoJob
                   ELSE [id |-> k.id, kind |-> k.kind, arg |-> k.arg, at |-> q, read |-> k.read,
                         key |-> k.key, tmp |-> k.tmp, bad |-> k.bad]
  <2>1. CallOK(job[c]) /\ k \in Call /\ k.id = job[c].id /\ k.kind = job[c].kind /\ k.arg = job[c].arg
    BY <1>1, <1>2, <1>3
  <2> QED
    BY ONLY <1>1, <2>1, <1>6, <1>7, <1>8, c \in Caller, GoToMoves
<1>10. job'[c] = n
  BY <1>3, <1>5, <1>9
<1>11. n.at = q /\ n.tmp = t /\ n.key = j.key
  OBVIOUS
<1> HIDE DEF n
<1>12. Head(q) = q[1]
  BY <1>4, <1>5
<1>13. On(c) # "salt"
  BY <1>0, <1>1 DEF StepOK, On
<1>14. CallDoes(c, "fill")' /\ On(c)' = On(c) /\ Current(job[c])'.value = Current(j).value
  BY <1>5, <1>10, <1>11, <1>12 DEF CallDoes, Free, On, Current, Task
<1>15. job'[c] # NoJob
  BY <1>5, <1>10, <1>11 DEF NoJob
<1> QED
  BY <1>9, <1>10, <1>11, <1>13, <1>14, <1>15 DEF q

LEMMA OpenShape == ASSUME Shape, NEW c \in Caller, OpenTemporary(c) PROVE Shape'
<1>1. CallDoes(c, "open") /\ ~Free(c)
  BY DEF OpenTemporary, CallDoes
<1>2. PICK use \in Caller : LET t == <<On(c), use>> IN
         /\ IF use = c THEN UNCHANGED trouble ELSE trouble < TroubleLimit /\ trouble' = trouble + 1
         /\ slot' = [slot EXCEPT ![t] = Torn]
         /\ opened' = [opened EXCEPT ![c] = t]
         /\ GoTo(c, [job[c] EXCEPT !.tmp = t], Tail(job[c].at))
  BY DEF OpenTemporary
<1> DEFINE t == <<On(c), use>>
<1>3. t \in Scratch /\ t[1] = On(c)
  BY <1>1, AtWork, Places
<1>4. /\ Moves(c) /\ job'[c].tmp = t /\ CallDoes(c, "fill")' /\ On(c)' = On(c) /\ On(c) # "salt"
  BY <1>1, <1>2, <1>3, OpenMoves
<1>5. trouble' \in 0..TroubleLimit /\ UNCHANGED <<topic, review, calls>>
  <2>1. trouble \in 0..TroubleLimit /\ TroubleLimit \in Nat
    BY Constants DEF Shape, Typed
  <2>2. trouble' = trouble \/ (trouble < TroubleLimit /\ trouble' = trouble + 1)
    BY <1>2
  <2>3. UNCHANGED <<topic, review, calls>>
    BY DEF OpenTemporary
  <2> QED
    BY <2>1, <2>2, <2>3
<1>6. slot' = [slot EXCEPT ![t] = Torn] /\ opened' = [opened EXCEPT ![c] = t]
  BY <1>2
<1>7. opened \in [Caller -> Place \cup Scratch \cup {Absent}]
  BY DEF Shape, Typed
<1> HIDE DEF t
<1>8. /\ opened' \in [Caller -> Place \cup Scratch \cup {Absent}] /\ opened'[c] = t
      /\ \A d \in Caller \ {c} : opened'[d] = opened[d]
  BY <1>3, <1>6, <1>7
<1>9. /\ Contents' /\ slot' \in [Place \cup Scratch -> AnyValue] /\ slot'[t] = Torn
      /\ \A o \in Place \cup Scratch : o # t => slot'[o] = slot[o]
  BY <1>3, <1>6, NewContent
<1>10. Torn # Absent
  BY Constants
<1>11. HandsOK(c)'
  BY <1>3, <1>4, <1>8, <1>9, <1>10, OneThing DEF HandsOK
<1>12. ASSUME NEW d \in Caller \ {c} PROVE
          \/ opened'[d] = Absent
          \/ opened[d] # Absent /\ opened'[d] \in {opened[d], PlaceOf(On(d))} /\ slot'[opened'[d]] # Absent
  <2>1. HandsOK(d)
    BY DEF Shape, Jobs
  <2>2. opened[d] # Absent => slot[opened[d]] # Absent /\ opened[d] \in Place \cup Scratch
    BY <2>1, <1>7 DEF HandsOK
  <2> QED
    BY <2>2, <1>8, <1>9, <1>10
<1> QED
  BY <1>1, <1>4, <1>5, <1>8, <1>9, <1>11, <1>12, FileShape

LEMMA OpenedTyped == ASSUME Shape PROVE /\ opened \in [Caller -> Place \cup Scratch \cup {Absent}]
                                        /\ slot \in [Place \cup Scratch -> AnyValue]
                                        /\ \A d \in Caller : opened[d] # Absent =>
                                             slot[opened[d]] # Absent /\ opened[d] \in Place \cup Scratch
  BY DEF Shape, Typed, Jobs, HandsOK

(* What c has open when it writes.                                         *)
LEMMA InHand ==
  ASSUME Shape, NEW c \in Caller, opened[c] # Absent
  PROVE  /\ opened[c] \in Place \cup Scratch /\ opened[c][1] = On(c) /\ slot[opened[c]] # Absent /\ ~Free(c)
         /\ CallDoes(c, "write") \/ On(c) = "salt" => opened[c] = PlaceOf(On(c))
         /\ CallDoes(c, "fill") \/ CallDoes(c, "write")
         /\ opened[c] = PlaceOf(On(c)) \/ opened[c] = job[c].tmp
<1>1. HandsOK(c)
  BY DEF Shape, Jobs
<1>2. ~Free(c)
  BY <1>1 DEF HandsOK, CallDoes
<1>3. On(c) \in Names
  BY <1>2, AtWork
<1>4. ~(CallDoes(c, "write") /\ CallDoes(c, "fill"))
  BY OneThing
<1> QED
  BY <1>1, <1>2, <1>3, <1>4, Places, OpenedTyped DEF HandsOK

LEMMA FillShape == ASSUME Shape, NEW c \in Caller, Fill(c) PROVE Shape'
<1>1. CallDoes(c, "fill") /\ ~Free(c) /\ Continue(c) /\ Calm /\ opened' = [opened EXCEPT ![c] = Absent]
  BY DEF Fill, CallDoes
<1>2. StepOK(job[c], Current(job[c])) /\ Current(job[c]).do = "fill" /\ Current(job[c]).on = On(c)
  BY <1>1, AtWork DEF CallDoes, On
<1>3. Fits(On(c), Current(job[c]).value)
  BY <1>2 DEF StepOK, Replacing
<1>4. /\ opened \in [Caller -> Place \cup Scratch \cup {Absent}] /\ slot \in [Place \cup Scratch -> AnyValue] /\ Contents
      /\ \A d \in Caller : opened[d] # Absent => slot[opened[d]] # Absent /\ opened[d] \in Place \cup Scratch
  BY OpenedTyped DEF Shape
<1>5. /\ Contents' /\ slot' \in [Place \cup Scratch -> AnyValue]
      /\ \A o \in Place \cup Scratch : slot[o] # Absent => slot'[o] # Absent
  <2>1. CASE opened[c] = Absent
    <3>1. slot' = slot
      BY <2>1 DEF Fill
    <3> QED
      BY <1>4, <3>1 DEF Contents
  <2>2. CASE opened[c] # Absent
    <3> DEFINE p == opened[c]
               v == Current(job[c]).value
    <3>1. p \in Place \cup Scratch /\ p[1] = On(c)
      BY <2>2, InHand
    <3>2. slot' = [slot EXCEPT ![p] = v] \/ slot' = [slot EXCEPT ![p] = Torn]
      BY <2>2 DEF Fill
    <3>3. v # Absent /\ Torn # Absent
      BY <1>1, <1>3, AtWork, Constants DEF Fits
    <3>4. Fits(p[1], v)
      BY <1>3, <3>1
    <3> HIDE DEF p, v
    <3>5. CASE slot' = [slot EXCEPT ![p] = v]
      BY <3>1, <3>3, <3>4, <3>5, NewContent
    <3>6. CASE slot' = [slot EXCEPT ![p] = Torn]
      BY <3>1, <3>3, <3>6, NewContent
    <3> QED
      BY <3>2, <3>5, <3>6
  <2> QED
    BY <2>1, <2>2
<1>6. Moves(c) /\ (job'[c] # NoJob => job'[c].tmp = job[c].tmp)
  BY <1>1, OnWith
<1>7. HandsOK(c)'
  <2>1. opened'[c] = Absent
    BY <1>1, <1>4
  <2>2. CASE On(c) = "salt"
    <3>1. CallDoes(c, "key")'
      BY <1>1, <2>2, OnWith
    <3>2. ~CallDoes(c, "fill")' /\ ~CallDoes(c, "rename")'
      BY <3>1 DEF CallDoes
    <3> QED
      BY <2>1, <3>2 DEF HandsOK
  <2>3. CASE On(c) # "salt"
    <3>1. CallDoes(c, "rename")' /\ On(c)' = On(c)
      BY <1>1, <2>3, OnWith
    <3>2. ~CallDoes(c, "fill")' /\ job'[c] # NoJob
      BY <3>1 DEF CallDoes, Free, NoJob
    <3>3. job[c].tmp \in Scratch /\ job[c].tmp[1] = On(c)
      BY <1>1, <2>3, AtWork DEF HandsOK
    <3> QED
      BY <2>1, <3>1, <3>2, <3>3, <1>6 DEF HandsOK
  <2> QED
    BY <2>2, <2>3
<1>8. ASSUME NEW d \in Caller \ {c} PROVE
          \/ opened'[d] = Absent
          \/ opened[d] # Absent /\ opened'[d] \in {opened[d], PlaceOf(On(d))} /\ slot'[opened'[d]] # Absent
  BY <1>1, <1>4, <1>5
<1>9. opened' \in [Caller -> Place \cup Scratch \cup {Absent}] /\ UNCHANGED <<topic, review, calls>> /\ trouble' \in 0..TroubleLimit
  BY <1>1, <1>4 DEF Calm, Shape, Typed
<1> QED
  BY <1>1, <1>5, <1>6, <1>7, <1>8, <1>9, FileShape

LEMMA RenameFacts ==
  ASSUME Shape, NEW c \in Caller, CallDoes(c, "rename")
  PROVE  LET n == On(c) t == job[c].tmp IN
         /\ ~Free(c) /\ n \in Names /\ n # "salt" /\ PlaceOf(n) \in Place /\ PlaceOf(n)[1] = n /\ PlaceOf(n) # Absent
         /\ t \in Scratch /\ t[1] = n /\ t # PlaceOf(n) /\ t # Absent /\ opened[c] = Absent
         /\ slot[t] # Absent => slot[t] \in {Absent, Torn} \/ Fits(n, slot[t])
<1>1. ~Free(c)
  BY DEF CallDoes
<1>2. HandsOK(c) /\ On(c) \in Names /\ StepOK(job[c], Current(job[c])) /\ Contents
  BY <1>1, AtWork DEF Shape
<1>3. On(c) # "salt"
  BY <1>2 DEF StepOK, CallDoes, On
<1>4. ~CallDoes(c, "fill") /\ ~CallDoes(c, "write")
  BY OneThing
<1>5. job[c].tmp \in Scratch /\ job[c].tmp[1] = On(c)
  BY <1>2 DEF HandsOK
<1>6. opened[c] = Absent
  BY <1>4, NothingOpen
<1>7. slot[job[c].tmp] \notin {Absent, Torn} => Fits(On(c), slot[job[c].tmp])
  BY <1>2, <1>5 DEF Contents
<1> QED
  BY <1>1, <1>2, <1>3, <1>5, <1>6, <1>7, Places

LEMMA RenameShape == ASSUME Shape, NEW c \in Caller, PutInPlace(c) PROVE Shape'
<1> DEFINE n == On(c)
           t == job[c].tmp
           p == PlaceOf(n)
<1>1. CallDoes(c, "rename") /\ Calm
  BY DEF PutInPlace
<1>2. /\ ~Free(c) /\ n \in Names /\ p \in Place /\ p[1] = n /\ p # Absent /\ t \in Scratch /\ t[1] = n /\ t # p /\ t # Absent
      /\ opened[c] = Absent
      /\ slot[t] # Absent => slot[t] \in {Absent, Torn} \/ Fits(n, slot[t])
  BY <1>1, RenameFacts
<1>3. ~CallDoes(c, "fill") /\ ~CallDoes(c, "write") /\ ~CallDoes(c, "open") /\ ~CallDoes(c, "append")
  BY <1>1, OneThing
<1>4. CASE slot[t] = Absent
  <2>1. CallFails(c) /\ UNCHANGED <<slot, opened>>
    BY <1>4 DEF PutInPlace
  <2> QED
    BY <1>1, <1>2, <1>3, <2>1, FailShape
<1>5. CASE slot[t] # Absent
  <2>1. /\ Continue(c)
        /\ slot' = [slot EXCEPT ![p] = slot[t], ![t] = Absent]
        /\ opened' = [d \in Caller |-> IF opened[d] = t THEN p ELSE IF opened[d] = p THEN Absent ELSE opened[d]]
    BY <1>5 DEF PutInPlace
  <2>2. /\ opened \in [Caller -> Place \cup Scratch \cup {Absent}] /\ slot \in [Place \cup Scratch -> AnyValue] /\ Contents
        /\ \A d \in Caller : opened[d] # Absent => slot[opened[d]] # Absent /\ opened[d] \in Place \cup Scratch
    BY OpenedTyped DEF Shape
  <2>3. /\ slot' \in [Place \cup Scratch -> AnyValue] /\ slot'[p] = slot[t] /\ slot'[t] = Absent
        /\ \A o \in Place \cup Scratch : o \notin {p, t} => slot'[o] = slot[o]
    BY <1>2, <2>1, <2>2 DEF AnyValue
  <2>4. Contents'
    <3>1. ASSUME NEW o \in Place \cup Scratch, slot'[o] \notin {Absent, Torn} PROVE Fits(o[1], slot'[o])
      BY <1>2, <1>5, <2>2, <2>3, <3>1 DEF Contents
    <3> QED
      BY <3>1 DEF Contents
  <2>5. Moves(c) /\ Starts(job'[c].at)
    BY <1>2, <1>3, <2>1, OnWith
  <2>6. opened'[c] = Absent
    BY <1>2, <2>1
  <2>7. HandsOK(c)'
    BY <2>5, <2>6, HandsStart DEF Shape
  <2>8. ASSUME NEW d \in Caller \ {c} PROVE
          \/ opened'[d] = Absent
          \/ opened[d] # Absent /\ opened'[d] \in {opened[d], PlaceOf(On(d))} /\ slot'[opened'[d]] # Absent
    <3>1. CASE opened[d] = t
      <4>1. opened[d] # Absent /\ On(d) = n
        BY <1>2, <3>1, InHand
      <4> QED
        BY <1>2, <1>5, <2>1, <2>3, <3>1, <4>1
    <3>2. CASE opened[d] # t
      BY <1>2, <2>1, <2>2, <2>3, <3>2
    <3> QED
      BY <3>1, <3>2
  <2>9. opened' \in [Caller -> Place \cup Scratch \cup {Absent}]
    BY <1>2, <2>1, <2>2
  <2>10. UNCHANGED <<topic, review, calls>> /\ trouble' \in 0..TroubleLimit
    BY <1>1 DEF Calm, Shape, Typed
  <2> QED
    BY <1>2, <2>3, <2>4, <2>5, <2>7, <2>8, <2>9, <2>10, FileShape
<1> QED
  BY <1>4, <1>5

(* A step that removes what is at p, which nobody has open any more.       *)
LEMMA RemoveShape ==
  ASSUME Shape, NEW c \in Caller, ~Free(c), Continue(c), Calm, NEW p \in Place,
         ~CallDoes(c, "fill"), ~CallDoes(c, "write"), ~CallDoes(c, "open"), ~CallDoes(c, "append"),
         slot' = [slot EXCEPT ![p] = Absent],
         opened' = [d \in Caller |-> IF opened[d] = p THEN Absent ELSE opened[d]]
  PROVE  Shape'
<1>1. opened[c] = Absent /\ p # Absent
  BY NothingOpen, Places
<1>2. Moves(c) /\ Starts(job'[c].at)
  BY OnWith
<1>3. /\ opened \in [Caller -> Place \cup Scratch \cup {Absent}]
      /\ \A d \in Caller : opened[d] # Absent => slot[opened[d]] # Absent /\ opened[d] \in Place \cup Scratch
  BY OpenedTyped
<1>4. /\ Contents' /\ slot' \in [Place \cup Scratch -> AnyValue]
      /\ \A o \in Place \cup Scratch : o # p => slot'[o] = slot[o]
  BY NewContent
<1>5. opened'[c] = Absent /\ opened' \in [Caller -> Place \cup Scratch \cup {Absent}]
  BY <1>1, <1>3
<1>6. HandsOK(c)'
  BY <1>2, <1>5, HandsStart DEF Shape
<1>7. ASSUME NEW d \in Caller \ {c} PROVE
          \/ opened'[d] = Absent
          \/ opened[d] # Absent /\ opened'[d] \in {opened[d], PlaceOf(On(d))} /\ slot'[opened'[d]] # Absent
  BY <1>3, <1>4
<1>8. UNCHANGED <<topic, review, calls>> /\ trouble' \in 0..TroubleLimit
  BY DEF Calm, Shape, Typed
<1> QED
  BY <1>2, <1>4, <1>5, <1>6, <1>7, <1>8, FileShape

LEMMA DropShape == ASSUME Shape, NEW c \in Caller, Drop(c) PROVE Shape'
<1>1. CallDoes(c, "drop") /\ ~Free(c) /\ Continue(c) /\ Calm
  BY DEF Drop, CallDoes
<1>2. ~CallDoes(c, "fill") /\ ~CallDoes(c, "write") /\ ~CallDoes(c, "open") /\ ~CallDoes(c, "append")
  BY <1>1, OneThing
<1>3. PlaceOf(On(c)) \in Place
  BY <1>1, AtWork
<1>4. /\ slot' = [slot EXCEPT ![PlaceOf(On(c))] = Absent]
      /\ opened' = [d \in Caller |-> IF opened[d] = PlaceOf(On(c)) THEN Absent ELSE opened[d]]
  BY DEF Drop
<1> QED
  BY <1>1, <1>2, <1>3, <1>4, RemoveShape

LEMMA EraseShape == ASSUME Shape, NEW c \in Caller, EraseFile(c) PROVE Shape'
<1>1. CallDoes(c, "unlink") /\ ~Free(c) /\ Calm
  BY DEF EraseFile, CallDoes
<1>2. ~CallDoes(c, "fill") /\ ~CallDoes(c, "write") /\ ~CallDoes(c, "open") /\ ~CallDoes(c, "append")
  BY <1>1, OneThing
<1>3. PlaceOf(On(c)) \in Place
  BY <1>1, AtWork
<1>4. CASE slot[PlaceOf(On(c))] = Absent
  <2>1. CallFails(c) /\ UNCHANGED <<slot, opened>>
    BY <1>4 DEF EraseFile
  <2> QED
    BY <1>1, <1>2, <2>1, FailShape
<1>5. CASE slot[PlaceOf(On(c))] # Absent
  <2>1. /\ Continue(c) /\ slot' = [slot EXCEPT ![PlaceOf(On(c))] = Absent]
        /\ opened' = [d \in Caller |-> IF opened[d] = PlaceOf(On(c)) THEN Absent ELSE opened[d]]
    BY <1>5 DEF EraseFile
  <2> QED
    BY <1>1, <1>2, <1>3, <2>1, RemoveShape
<1> QED
  BY <1>4, <1>5

LEMMA SaltMoves ==
  ASSUME Shape, NEW c \in Caller, Salt(c)
  PROVE  /\ Moves(c) /\ ~Free(c) /\ opened[c] = Absent /\ job'[c] # NoJob
         /\ job'[c].tmp = job[c].tmp /\ job'[c].key = job[c].key
         /\ job'[c].at = IF Held("salt") = Absent
                        THEN <<Task("fill", "salt", job[c].id), Task("key", "salt", Absent)>>
                        ELSE <<Task("key", "salt", Absent)>>
         /\ Held("salt") = Absent =>
              CallDoes(c, "fill")' /\ On(c)' = "salt" /\ Current(job[c])'.value = job[c].id
         /\ Held("salt") # Absent => CallDoes(c, "key")'
<1> DEFINE j == job[c]
           a == Task("fill", "salt", j.id)
           b == Task("key", "salt", Absent)
           q == IF Held("salt") = Absent THEN <<a, b>> ELSE <<b>>
           n == [id |-> j.id, kind |-> j.kind, arg |-> j.arg, at |-> q, read |-> j.read,
                 key |-> j.key, tmp |-> j.tmp, bad |-> j.bad]
<1>1. CallDoes(c, "salt") /\ ~Free(c) /\ Current(j).do = "salt"
  BY DEF Salt, CallDoes
<1>2. CallOK(j) /\ j \in Call /\ Typed /\ StepOK(j, Current(j)) /\ ~CallDoes(c, "fill") /\ ~CallDoes(c, "write")
  BY <1>1, AtWork, OneThing DEF Shape
<1>3. opened[c] = Absent
  BY <1>2, NothingOpen
<1>4. j.kind \in {"prompt", "stop"} /\ j.id \in Nat /\ j.id \in AnyValue /\ Absent \in AnyValue
  BY <1>1, <1>2, Numbers DEF StepOK, Call, AnyValue
<1>5. /\ a \in TaskType /\ a.do = "fill" /\ a.on = "salt" /\ a.value = j.id
      /\ b \in TaskType /\ b.do = "key" /\ b.on = "salt"
  BY <1>4, SaltThere DEF Task, TaskType, TaskKind
<1>6. StepOK(j, a)
  <2>1. Fits("salt", j.id) /\ "salt" \notin ScanFiles
    BY <1>4, ValueOf, ScanNames DEF Fits, ScanFiles
  <2> QED
    BY <1>4, <1>5, <2>1, SaltThere DEF StepOK
<1>7. StepOK(j, b)
  BY <1>4, <1>5, SaltThere DEF StepOK, Replacing
<1> HIDE DEF a, b
<1>8. Runs(j, <<b>>)
  BY <1>5, <1>7, OneRuns
<1>9. Runs(j, <<a, b>>)
  <2> DEFINE r == <<a, b>>
  <2>1. r \in Seq(TaskType) /\ Len(r) = 2 /\ r[1] = a /\ r[2] = b
    BY <1>5
  <2>2. \A i \in 1..Len(r) : i = 1 \/ i = 2
    BY <2>1
  <2> HIDE DEF r
  <2>3. InTurn(r)
    BY <2>1, <2>2, <1>5 DEF InTurn
  <2>4. \A i \in 1..Len(r) : StepOK(j, r[i])
    BY <2>1, <2>2, <1>6, <1>7
  <2>5. Runs(j, r)
    BY <2>1, <2>3, <2>4 DEF Runs
  <2> QED
    BY <2>5 DEF r
<1>10. Runs(j, q) /\ q # <<>> /\ GoTo(c, j, q)
  BY <1>8, <1>9 DEF Salt, Held, a, b
<1>11. j.key # Absent => j.kind \in {"prompt", "stop"}
  BY <1>4
<1>12. q[1] = (IF Held("salt") = Absent THEN a ELSE b) /\ Head(q) = q[1]
  OBVIOUS
<1> HIDE DEF q
<1>13. Moves(c) /\ job'[c] = n
  <2>1. CallOK(job[c]) /\ j \in Call /\ j.id = job[c].id /\ j.kind = job[c].kind /\ j.arg = job[c].arg
    BY <1>2
  <2> HIDE DEF j
  <2>2. /\ Moves(c)
        /\ job'[c] = IF q = <<>> THEN NoJob
                    ELSE [id |-> j.id, kind |-> j.kind, arg |-> j.arg, at |-> q, read |-> j.read,
                          key |-> j.key, tmp |-> j.tmp, bad |-> j.bad]
    BY ONLY <1>2, <2>1, <1>10, <1>11, c \in Caller, GoToMoves
  <2> QED
    BY <2>2, <1>10
<1>14. n.at = q /\ n.tmp = j.tmp /\ n.key = j.key
  OBVIOUS
<1> HIDE DEF n
<1>15. job'[c] # NoJob
  BY <1>10, <1>13, <1>14 DEF NoJob
<1>16. \A x : CallDoes(c, x)' <=> q[1].do = x
  BY <1>10, <1>12, <1>13, <1>14 DEF CallDoes, Free, Current
<1>17. On(c)' = q[1].on /\ Current(job[c])'.value = q[1].value
  BY <1>12, <1>13, <1>14 DEF On, Current
<1> QED
  BY <1>1, <1>3, <1>5, <1>12, <1>13, <1>14, <1>15, <1>16, <1>17 DEF q, a, b

LEMMA SaltShape == ASSUME Shape, NEW c \in Caller, Salt(c) PROVE Shape'
<1>1. /\ Moves(c) /\ ~Free(c) /\ opened[c] = Absent /\ Calm
      /\ Held("salt") = Absent => CallDoes(c, "fill")' /\ On(c)' = "salt"
      /\ Held("salt") # Absent => CallDoes(c, "key")'
  BY SaltMoves DEF Salt
<1>2. CASE Held("salt") # Absent
  <2>1. UNCHANGED <<slot, opened>>
    BY <1>2 DEF Salt, Held
  <2>2. job'[c].at # <<>> /\ Head(job'[c].at) = job'[c].at[1]
    BY <1>1, <1>2 DEF CallDoes, Free
  <2>3. Starts(job'[c].at)
    BY <1>1, <1>2, <2>2 DEF CallDoes, Current, Starts
  <2> QED
    BY <1>1, <2>1, <2>3, QuietShape
<1>3. CASE Held("salt") = Absent
  <2> DEFINE p == PlaceOf("salt")
  <2>1. slot' = [slot EXCEPT ![p] = Torn] /\ opened' = [opened EXCEPT ![c] = p]
    BY <1>3 DEF Salt, Held
  <2>2. p \in Place
    BY SaltThere
  <2>3. /\ opened \in [Caller -> Place \cup Scratch \cup {Absent}]
        /\ \A d \in Caller : opened[d] # Absent => slot[opened[d]] # Absent /\ opened[d] \in Place \cup Scratch
    BY OpenedTyped
  <2> HIDE DEF p
  <2>4. /\ Contents' /\ slot' \in [Place \cup Scratch -> AnyValue] /\ slot'[p] = Torn
        /\ \A o \in Place \cup Scratch : o # p => slot'[o] = slot[o]
    BY <2>1, <2>2, NewContent
  <2>5. Torn # Absent
    BY Constants
  <2>6. /\ opened'[c] = p /\ opened' \in [Caller -> Place \cup Scratch \cup {Absent}]
        /\ \A d \in Caller \ {c} : opened'[d] = opened[d]
    BY <2>1, <2>2, <2>3
  <2>7. HandsOK(c)'
    <3>1. ~CallDoes(c, "rename")'
      BY <1>1, <1>3 DEF CallDoes
    <3> QED
      BY <1>1, <1>3, <2>4, <2>5, <2>6, <3>1 DEF HandsOK, p
  <2>8. ASSUME NEW d \in Caller \ {c} PROVE
          \/ opened'[d] = Absent
          \/ opened[d] # Absent /\ opened'[d] \in {opened[d], PlaceOf(On(d))} /\ slot'[opened'[d]] # Absent
    BY <2>3, <2>4, <2>5, <2>6
  <2>9. UNCHANGED <<topic, review, calls>> /\ trouble' \in 0..TroubleLimit
    BY <1>1 DEF Calm, Shape, Typed
  <2> QED
    BY <1>1, <2>4, <2>6, <2>7, <2>8, <2>9, FileShape
<1> QED
  BY <1>2, <1>3

-----------------------------------------------------------------------------
(* Events, ends that nobody chose, and how a call begins.                  *)

LEMMA EventsShape == ASSUME Shape, NEW c \in Caller, OpenEvents(c) PROVE Shape'
<1> DEFINE p == PlaceOf("events")
<1>1. CallDoes(c, "append") /\ ~Free(c) /\ Continue(c) /\ Calm /\ opened' = [opened EXCEPT ![c] = p]
  BY DEF OpenEvents, CallDoes
<1>2. Moves(c) /\ CallDoes(c, "write")' /\ On(c)' = "events"
  BY <1>1, OnWith
<1>3. p \in Place /\ p[1] = "events"
  BY SaltThere
<1>4. /\ opened \in [Caller -> Place \cup Scratch \cup {Absent}] /\ slot \in [Place \cup Scratch -> AnyValue] /\ Contents
      /\ \A d \in Caller : opened[d] # Absent => slot[opened[d]] # Absent /\ opened[d] \in Place \cup Scratch
  BY OpenedTyped DEF Shape
<1>5. /\ Contents' /\ slot' \in [Place \cup Scratch -> AnyValue] /\ slot'[p] # Absent
      /\ \A o \in Place \cup Scratch : slot[o] # Absent => slot'[o] # Absent
  <2>1. CASE slot[p] # Absent
    <3>1. slot' = slot
      BY <2>1 DEF OpenEvents
    <3> QED
      BY <1>4, <2>1, <3>1 DEF Contents
  <2>2. CASE slot[p] = Absent
    <3> DEFINE v == <<>>
    <3>1. slot' = [slot EXCEPT ![p] = v]
      BY <2>2 DEF OpenEvents
    <3>2. v \in Seq(Event)
      OBVIOUS
    <3>3. Fits(p[1], v)
      BY <1>3, <3>2, ValueOf DEF Fits
    <3>4. v # Absent
      BY <3>2, ValueOf, SaltThere, Constants
    <3> HIDE DEF p, v
    <3> QED
      BY <1>3, <3>1, <3>3, <3>4, NewContent
  <2> QED
    BY <2>1, <2>2
<1> HIDE DEF p
<1>6. opened'[c] = p /\ opened' \in [Caller -> Place \cup Scratch \cup {Absent}] /\ \A d \in Caller \ {c} : opened'[d] = opened[d]
  BY <1>1, <1>3, <1>4
<1>7. HandsOK(c)'
  BY <1>2, <1>5, <1>6, OneThing DEF HandsOK, p, CallDoes
<1>8. ASSUME NEW d \in Caller \ {c} PROVE
          \/ opened'[d] = Absent
          \/ opened[d] # Absent /\ opened'[d] \in {opened[d], PlaceOf(On(d))} /\ slot'[opened'[d]] # Absent
  BY <1>4, <1>5, <1>6
<1>9. UNCHANGED <<topic, review, calls>> /\ trouble' \in 0..TroubleLimit
  BY <1>1 DEF Calm, Shape, Typed
<1> QED
  BY <1>1, <1>2, <1>5, <1>6, <1>7, <1>8, <1>9, FileShape

(* What c writes: an event, into the file it has open.                      *)
LEMMA EventWritten ==
  ASSUME Shape, NEW c \in Caller, WriteEvent(c), opened[c] # Absent, slot[opened[c]] # Torn
  PROVE  LET j == job[c]
             e == [id |-> j.id, kind |-> j.kind, of |-> Current(j).value, key |-> j.key] IN
         /\ opened[c] = PlaceOf("events") /\ slot[opened[c]] \in Seq(Event) /\ e \in Event
         /\ slot' = [slot EXCEPT ![PlaceOf("events")] = Append(slot[PlaceOf("events")], e)]
<1> DEFINE j == job[c]
           e == [id |-> j.id, kind |-> j.kind, of |-> Current(j).value, key |-> j.key]
<1>1. CallDoes(c, "write") /\ ~Free(c)
  BY DEF WriteEvent, CallDoes
<1>2. StepOK(j, Current(j)) /\ Current(j).do = "write" /\ On(c) = Current(j).on /\ j \in Call
  BY <1>1, AtWork DEF CallDoes, On
<1>3. On(c) = "events" /\ Current(j).value \in Nat /\ j.kind \in {"prompt", "stop"} /\ j.key # Absent
  BY <1>2 DEF StepOK
<1>4. opened[c] = PlaceOf("events") /\ slot[opened[c]] # Absent
  BY <1>1, <1>3, InHand
<1>5. Fits(PlaceOf("events")[1], slot[PlaceOf("events")])
  BY <1>4, SaltThere DEF Shape, Contents
<1>6. slot[opened[c]] \in Seq(Event)
  BY <1>4, <1>5, SaltThere, ValueOf DEF Fits
<1>7. j.id \in Nat /\ j.key \in Nat
  BY <1>2, <1>3 DEF Call
<1>8. e \in Event
  BY <1>3, <1>7 DEF Event
<1>9. slot \in [Place \cup Scratch -> AnyValue] /\ PlaceOf("events") \in Place \cup Scratch
  BY SaltThere, OpenedTyped
<1>10. slot' = [slot EXCEPT ![opened[c]] = Append(@, e)]
  BY <1>4 DEF WriteEvent
<1> HIDE DEF e
<1> QED
  BY <1>4, <1>6, <1>8, <1>9, <1>10 DEF e

LEMMA WriteShape == ASSUME Shape, NEW c \in Caller, WriteEvent(c) PROVE Shape'
<1>1. CallDoes(c, "write") /\ ~Free(c) /\ Continue(c) /\ Calm /\ opened' = [opened EXCEPT ![c] = Absent]
  BY DEF WriteEvent, CallDoes
<1>2. ~CallDoes(c, "fill") /\ ~CallDoes(c, "open") /\ ~CallDoes(c, "append")
  BY <1>1, OneThing
<1>3. Moves(c) /\ Starts(job'[c].at)
  BY <1>1, <1>2, OnWith
<1>4. /\ opened \in [Caller -> Place \cup Scratch \cup {Absent}] /\ slot \in [Place \cup Scratch -> AnyValue] /\ Contents
      /\ \A d \in Caller : opened[d] # Absent => slot[opened[d]] # Absent /\ opened[d] \in Place \cup Scratch
  BY OpenedTyped DEF Shape
<1>5. /\ Contents' /\ slot' \in [Place \cup Scratch -> AnyValue]
      /\ \A o \in Place \cup Scratch : slot[o] # Absent => slot'[o] # Absent
  <2>1. CASE opened[c] = Absent \/ slot[opened[c]] = Torn
    <3>1. slot' = slot
      BY <2>1 DEF WriteEvent
    <3> QED
      BY <1>4, <3>1 DEF Contents
  <2>2. CASE opened[c] # Absent /\ slot[opened[c]] # Torn
    <3> DEFINE p == PlaceOf("events")
               j == job[c]
               e == [id |-> j.id, kind |-> j.kind, of |-> Current(j).value, key |-> j.key]
               v == Append(slot[p], e)
    <3>1. opened[c] = p /\ slot[opened[c]] \in Seq(Event) /\ e \in Event /\ slot' = [slot EXCEPT ![p] = v]
      BY <2>2, EventWritten
    <3> HIDE DEF e
    <3>2. v \in Seq(Event)
      BY <3>1
    <3> HIDE DEF v, p
    <3>3. Fits(p[1], v) /\ v # Absent /\ p \in Place
      BY <3>2, ValueOf, SaltThere, Constants DEF Fits, p
    <3> QED
      BY <3>1, <3>3, NewContent
  <2> QED
    BY <2>1, <2>2
<1>6. opened'[c] = Absent /\ opened' \in [Caller -> Place \cup Scratch \cup {Absent}] /\ \A d \in Caller \ {c} : opened'[d] = opened[d]
  BY <1>1, <1>4
<1>7. HandsOK(c)'
  BY <1>3, <1>6, HandsStart DEF Shape
<1>8. ASSUME NEW d \in Caller \ {c} PROVE
          \/ opened'[d] = Absent
          \/ opened[d] # Absent /\ opened'[d] \in {opened[d], PlaceOf(On(d))} /\ slot'[opened'[d]] # Absent
  BY <1>4, <1>5, <1>6
<1>9. UNCHANGED <<topic, review, calls>> /\ trouble' \in 0..TroubleLimit
  BY <1>1 DEF Calm, Shape, Typed
<1> QED
  BY <1>1, <1>3, <1>5, <1>6, <1>7, <1>8, <1>9, FileShape

(* What is left when a call is cut short: no other caller has it open.      *)
LEMMA LeftFacts ==
  ASSUME Shape, NEW c \in Caller, slot' = Left(c), opened' = [opened EXCEPT ![c] = Absent]
  PROVE  /\ Contents' /\ slot' \in [Place \cup Scratch -> AnyValue]
         /\ opened' \in [Caller -> Place \cup Scratch \cup {Absent}]
         /\ opened'[c] = Absent /\ \A d \in Caller \ {c} : opened'[d] = opened[d]
         /\ \A d \in Caller \ {c} : opened[d] # Absent => slot'[opened[d]] = slot[opened[d]]
         /\ \A p \in Place : slot'[p] = slot[p]
         /\ \A t \in Scratch : slot'[t] \in {slot[t], Absent} /\ (slot'[t] # slot[t] => job[c].tmp = t /\ slot'[t] = Absent)
         /\ \A d \in Caller \ {c} : job[d].tmp # Absent => slot'[job[d].tmp] = slot[job[d].tmp]
<1>1. /\ opened \in [Caller -> Place \cup Scratch \cup {Absent}] /\ slot \in [Place \cup Scratch -> AnyValue] /\ Contents
      /\ \A d \in Caller : opened[d] # Absent => slot[opened[d]] # Absent /\ opened[d] \in Place \cup Scratch
  BY OpenedTyped DEF Shape
<1>2. \A d \in Caller : job[d].tmp \in Scratch \cup {Absent}
  BY DEF Shape, Typed, Call
<1>3. /\ opened' \in [Caller -> Place \cup Scratch \cup {Absent}]
      /\ opened'[c] = Absent /\ \A d \in Caller \ {c} : opened'[d] = opened[d]
  BY <1>1
<1>4. \A t \in Scratch : t # Absent /\ t \notin Place
  BY Places
<1>5. CASE job[c].tmp # Absent /\ \A d \in Caller \ {c} : job[d].tmp # job[c].tmp
  <2> DEFINE t == job[c].tmp
  <2>1. slot' = [slot EXCEPT ![t] = Absent]
    BY <1>5 DEF Left
  <2>2. t \in Scratch
    BY <1>2, <1>5
  <2> HIDE DEF t
  <2>3. /\ Contents' /\ slot' \in [Place \cup Scratch -> AnyValue] /\ slot'[t] = Absent
        /\ \A o \in Place \cup Scratch : o # t => slot'[o] = slot[o]
    BY <2>1, <2>2, NewContent
  <2>4. \A d \in Caller \ {c} : opened[d] # Absent => opened[d] # t
    <3>1. ASSUME NEW d \in Caller \ {c}, opened[d] # Absent, opened[d] = t PROVE FALSE
      <4>1. On(d) \in Names
        BY <3>1, InHand, AtWork
      <4>2. PlaceOf(On(d)) \in Place
        BY <4>1, Places
      <4>3. opened[d] = job[d].tmp
        BY <1>4, <2>2, <3>1, <4>2, InHand
      <4> QED
        BY <1>5, <3>1, <4>3 DEF t
    <3> QED
      BY <3>1
  <2>5. \A d \in Caller \ {c} : job[d].tmp # t
    BY <1>5 DEF t
  <2> QED
    BY <1>1, <1>2, <1>3, <1>4, <2>2, <2>3, <2>4, <2>5 DEF t
<1>6. CASE ~(job[c].tmp # Absent /\ \A d \in Caller \ {c} : job[d].tmp # job[c].tmp)
  <2>1. slot' = slot
    BY <1>6 DEF Left
  <2> QED
    BY <1>1, <1>3, <2>1 DEF Contents
<1> QED
  BY <1>5, <1>6

LEMMA CutShape ==
  ASSUME Shape, NEW c \in Caller, ~Free(c), Moves(c), Starts(job'[c].at), trouble < TroubleLimit, trouble' = trouble + 1,
         slot' = Left(c), opened' = [opened EXCEPT ![c] = Absent], UNCHANGED <<topic, review, calls>>
  PROVE  Shape'
<1>1. /\ Contents' /\ slot' \in [Place \cup Scratch -> AnyValue]
      /\ opened' \in [Caller -> Place \cup Scratch \cup {Absent}]
      /\ opened'[c] = Absent /\ \A d \in Caller \ {c} : opened'[d] = opened[d]
      /\ \A d \in Caller \ {c} : opened[d] # Absent => slot'[opened[d]] = slot[opened[d]]
  BY LeftFacts
<1>2. HandsOK(c)'
  BY <1>1, HandsStart DEF Shape
<1>3. ASSUME NEW d \in Caller \ {c} PROVE
          \/ opened'[d] = Absent
          \/ opened[d] # Absent /\ opened'[d] \in {opened[d], PlaceOf(On(d))} /\ slot'[opened'[d]] # Absent
  BY <1>1, OpenedTyped
<1>4. trouble' \in 0..TroubleLimit
  <2>1. trouble \in 0..TroubleLimit /\ TroubleLimit \in Nat
    BY Constants DEF Shape, Typed
  <2> QED
    BY <2>1
<1> QED
  BY <1>1, <1>2, <1>3, <1>4, FileShape

LEMMA TroubleShape == ASSUME Shape, NEW c \in Caller, Trouble(c) PROVE Shape'
<1>1. Moves(c) /\ Starts(job'[c].at) /\ ~Free(c)
  BY FailStarts DEF Trouble
<1> QED
  BY <1>1, CutShape DEF Trouble

LEMMA DeathMoves == ASSUME Shape, NEW c \in Caller, CallerDies(c) PROVE Moves(c) /\ job'[c] = NoJob
<1>1. job' = [job EXCEPT ![c] = NoJob] /\ met' = met \ {c} /\ job \in [Caller -> Call]
  BY DEF CallerDies, Shape, Typed
<1>2. job'[c] = NoJob
  BY <1>1
<1> QED
  BY <1>1, <1>2, NoJobOK DEF Moves

LEMMA DeathShape == ASSUME Shape, NEW c \in Caller, CallerDies(c) PROVE Shape'
<1>1. Moves(c) /\ Starts(job'[c].at) /\ ~Free(c)
  BY DeathMoves, NoJobStarts DEF CallerDies
<1> QED
  BY <1>1, CutShape DEF CallerDies

LEMMA KindsOf ==
  ASSUME NEW kind, topic \in DOMAIN Kinds, kind \in Kinds[topic]
  PROVE  kind \in Kind \ {"none"} /\ (kind = "scan" <=> topic = "reports")
  BY DEF Kinds, Kind

(* The steps a call begins with.                                            *)
LEMMA OpeningRuns ==
  ASSUME Typed, NEW kind \in Kind \ {"none"}, NEW j, j.kind = kind
  PROVE  Runs(j, Opening(kind)) /\ Starts(Opening(kind)) /\ Opening(kind) # <<>>
<1>1. {"preflights", "events", "salt", "policy", "latest", "sources"} \subseteq Names
  BY DEF Names, Stored
<1>2. CASE kind \in {"prompt", "stop"}
  <2> DEFINE s == Task("salt", "salt", Absent)
  <2>1. s \in TaskType /\ s.do = "salt" /\ s.on = "salt"
    BY <1>1 DEF Task, TaskType, TaskKind, AnyValue
  <2>2. StepOK(j, s)
    BY <1>1, <1>2, <2>1 DEF StepOK, Replacing
  <2>3. Opening(kind) = <<s>>
    BY <1>2 DEF Opening
  <2> HIDE DEF s
  <2> QED
    BY <2>1, <2>2, <2>3, OneRuns
<1>3. CASE kind = "erase"
  <2>1. ASSUME NEW n \in {"preflights", "events", "salt"}, NEW d \in {"check", "unlink"}
        PROVE  LET s == Task(d, n, review[n]) IN
               s \in TaskType /\ StepOK(j, s) /\ s.do = d
    <3> DEFINE s == Task(d, n, review[n])
    <3>1. n \in Stored /\ n \in Names
      BY DEF Stored, Names
    <3>2. review[n] \in AnyValue
      BY <3>1 DEF Typed
    <3>3. s \in TaskType /\ s.do = d /\ s.on = n
      BY <3>1, <3>2 DEF Task, TaskType, TaskKind
    <3>4. StepOK(j, s)
      BY <1>3, <3>1, <3>3 DEF StepOK, Replacing
    <3> QED
      BY <3>3, <3>4
  <2> DEFINE a == CheckOf("preflights")
             b == CheckOf("events")
             e == CheckOf("salt")
  <2>2. /\ a \in TaskType /\ StepOK(j, a) /\ a.do = "check" /\ b \in TaskType /\ StepOK(j, b) /\ b.do = "check"
        /\ e \in TaskType /\ StepOK(j, e) /\ e.do = "check"
    BY <2>1 DEF CheckOf
  <2> DEFINE A == <<a, b, e>>
             U(n) == UnlinkOf(n)
  <2>3. Runs(j, A) /\ Starts(A) /\ A # <<>>
    <3> HIDE DEF a, b, e
    <3>1. A \in Seq(TaskType) /\ Len(A) = 3 /\ A[1] = a /\ A[2] = b /\ A[3] = e /\ A # <<>>
      BY <2>2
    <3>2. \A i \in 1..Len(A) : i = 1 \/ i = 2 \/ i = 3
      BY <3>1
    <3> HIDE DEF A
    <3>3. \A i \in 1..Len(A) : StepOK(j, A[i]) /\ A[i].do = "check"
      BY <3>1, <3>2, <2>2
    <3>4. InTurn(A)
      BY <3>3 DEF InTurn
    <3> QED
      BY <3>1, <3>3, <3>4, <2>2 DEF Runs, Starts
  <2>4. ASSUME NEW n \in {"preflights", "events", "salt"} PROVE Runs(j, U(n)) /\ Starts(U(n))
    <3>1. CASE review[n] = Absent
      BY <3>1, Nothing DEF UnlinkOf
    <3>2. CASE review[n] # Absent
      <4>1. U(n) = <<Task("unlink", n, review[n])>>
        BY <3>2 DEF UnlinkOf
      <4> QED
        BY <4>1, <2>1, OneRuns
    <3> QED
      BY <3>1, <3>2
  <2>5. Opening(kind) = ((A \o U("preflights")) \o U("events")) \o U("salt")
    BY <1>3 DEF Opening
  <2> HIDE DEF A, U
  <2>6. Runs(j, A \o U("preflights")) /\ Starts(A \o U("preflights"))
    BY <2>3, <2>4, Joined
  <2>7. Runs(j, (A \o U("preflights")) \o U("events")) /\ Starts((A \o U("preflights")) \o U("events"))
    BY <2>4, <2>6, Joined
  <2>8. Runs(j, ((A \o U("preflights")) \o U("events")) \o U("salt")) /\ Starts(((A \o U("preflights")) \o U("events")) \o U("salt"))
    BY <2>4, <2>7, Joined
  <2>9. ((A \o U("preflights")) \o U("events")) \o U("salt") # <<>>
    <3>1. A \in Seq(TaskType) /\ U("preflights") \in Seq(TaskType) /\ U("events") \in Seq(TaskType) /\ U("salt") \in Seq(TaskType) /\ Len(A) > 0
      BY <2>3, <2>4 DEF Runs
    <3> QED
      BY <3>1
  <2> QED
    BY <2>5, <2>8, <2>9
<1>4. CASE kind = "compact"
  BY <1>1, <1>4, Reading DEF Opening, ReadBy
<1>5. CASE kind \in {"preflight", "feedback"}
  BY <1>1, <1>5, Reading DEF Opening, ReadBy
<1>6. CASE kind = "policy"
  BY <1>1, <1>6, Reading DEF Opening, ReadBy
<1>7. CASE kind = "scan"
  BY <1>1, <1>7, Reading DEF Opening, ReadBy
<1>8. CASE kind \in {"add", "enable", "disable", "remove", "refresh"}
  BY <1>1, <1>8, Reading DEF Opening, ReadBy
<1> QED
  BY <1>2, <1>3, <1>4, <1>5, <1>6, <1>7, <1>8 DEF Kind

(* A call as it begins.                                                    *)
NewCall(c, kind, arg) ==
    [id |-> calls + 1, kind |-> kind, arg |-> arg, at |-> Opening(kind), read |-> Absent,
     key |-> Absent, tmp |-> Absent, bad |-> FALSE]

LEMMA BeginMoves ==
  ASSUME Shape, NEW c \in Caller, BeginCall(c)
  PROVE  /\ Free(c) /\ opened[c] = Absent /\ calls' = calls + 1 /\ calls' \in 0..CallsMade
         /\ UNCHANGED <<topic, slot, opened, review, trouble, done, retired>>
         /\ \E kind \in Kinds[topic] : \E arg \in Nat \cup SourceKey \cup Report :
              LET beside == {d \in Caller \ {c} : ~Free(d) /\ Files(job[d].kind) \cap Files(kind) # {}} IN
              /\ kind \in Kind \ {"none"}
              /\ job' = [job EXCEPT ![c] = NewCall(c, kind, arg)] /\ job'[c] = NewCall(c, kind, arg)
              /\ CallOK(job'[c]) /\ Starts(job'[c].at) /\ ~Free(c)'
              /\ met' = IF beside = {} THEN met ELSE met \cup beside \cup {c}
              /\ notes' = IF kind = "scan" /\ beside # {} THEN notes \cup {<<"scans", 0>>} ELSE notes
<1>1. Typed /\ CallOK(job[c]) /\ calls \in 0..CallsMade /\ CallsMade \in Nat
  BY Constants DEF Shape, Jobs, Typed
<1>2. Free(c) /\ calls < CallsMade /\ calls' = calls + 1 /\ UNCHANGED <<topic, slot, opened, review, trouble, done, retired>>
  BY DEF BeginCall
<1>3. calls' \in 0..CallsMade /\ calls + 1 \in Nat
  BY <1>1, <1>2
<1>4. opened[c] = Absent
  BY <1>2, NothingOpen DEF CallDoes
<1>5. PICK kind \in Kinds[topic] :
        LET beside == {d \in Caller \ {c} : ~Free(d) /\ Files(job[d].kind) \cap Files(kind) # {}} IN
        /\ \E arg \in CASE kind = "feedback" -> 0..calls
                        [] kind \in {"add", "enable", "disable", "remove"} -> {Preset, "other", "third"}
                        [] kind = "scan" -> Report
                        [] OTHER -> {0} :
             job' = [job EXCEPT ![c] = [NoJob EXCEPT !.id = calls + 1, !.kind = kind,
                                                     !.arg = arg, !.at = Opening(kind)]]
        /\ met' = IF beside = {} THEN met ELSE met \cup beside \cup {c}
        /\ notes' = IF kind = "scan" /\ beside # {} THEN notes \cup {<<"scans", 0>>} ELSE notes
  BY DEF BeginCall
<1>6. kind \in Kind \ {"none"}
  BY <1>1, KindsOf DEF Typed
<1>7. \E arg \in Nat \cup SourceKey \cup Report :
         /\ job' = [job EXCEPT ![c] = [NoJob EXCEPT !.id = calls + 1, !.kind = kind,
                                                    !.arg = arg, !.at = Opening(kind)]]
         /\ kind = "scan" => arg \in Report
         /\ kind \in {"add", "enable", "disable", "remove"} => arg \in SourceKey
  <2> DEFINE A == CASE kind = "feedback" -> 0..calls
                    [] kind \in {"add", "enable", "disable", "remove"} -> {Preset, "other", "third"}
                    [] kind = "scan" -> Report
                    [] OTHER -> {0}
  <2>1. A \subseteq Nat \cup SourceKey \cup Report
    <3>1. CASE kind = "feedback"
      BY <1>1, <3>1
    <3>2. CASE kind \in {"add", "enable", "disable", "remove"}
      BY <3>2 DEF SourceKey, Preset
    <3>3. CASE kind = "scan"
      BY <3>3
    <3>4. CASE kind \notin {"feedback", "add", "enable", "disable", "remove", "scan"}
      BY <3>4
    <3> QED
      BY <3>1, <3>2, <3>3, <3>4
  <2>2. kind = "scan" => A = Report
    OBVIOUS
  <2>3. kind \in {"add", "enable", "disable", "remove"} => A = SourceKey
    BY DEF SourceKey, Preset
  <2>4. \E arg \in A : job' = [job EXCEPT ![c] = [NoJob EXCEPT !.id = calls + 1, !.kind = kind,
                                                    !.arg = arg, !.at = Opening(kind)]]
    BY <1>5
  <2> HIDE DEF A
  <2> QED
    BY <2>1, <2>2, <2>3, <2>4
<1>8. PICK arg \in Nat \cup SourceKey \cup Report :
         /\ job' = [job EXCEPT ![c] = [NoJob EXCEPT !.id = calls + 1, !.kind = kind,
                                                    !.arg = arg, !.at = Opening(kind)]]
         /\ kind = "scan" => arg \in Report
         /\ kind \in {"add", "enable", "disable", "remove"} => arg \in SourceKey
  BY <1>7
<1> DEFINE k == NewCall(c, kind, arg)
           q == Opening(kind)
<1>9. [NoJob EXCEPT !.id = calls + 1, !.kind = kind, !.arg = arg, !.at = q] = k
  <2>1. q \in Seq(TaskType)
    <3>1. k.kind = kind
      BY DEF NewCall
    <3> HIDE DEF k
    <3>2. Runs(k, Opening(kind))
      BY <1>1, <1>6, <3>1, OpeningRuns
    <3> QED
      BY <3>2 DEF Runs
  <2>2. NoJob \in Call
    BY NoJobOK DEF CallOK
  <2>3. k = [id |-> calls + 1, kind |-> kind, arg |-> arg, at |-> q, read |-> NoJob.read,
             key |-> NoJob.key, tmp |-> NoJob.tmp, bad |-> NoJob.bad]
    BY DEF NewCall, NoJob
  <2> DEFINE i == calls + 1
  <2>4. i \in Nat /\ kind \in Kind /\ arg \in Nat \cup SourceKey \cup Report /\ q \in Seq(TaskType) /\ NoJob \in Call
    BY <1>3, <1>6, <1>8, <2>1, <2>2
  <2> DEFINE r == NoJob
  <2>41. r \in Call
    BY <2>2
  <2> HIDE DEF i, k, q, r
  <2>5. [r EXCEPT !.id = i, !.kind = kind, !.arg = arg, !.at = q] =
           [id |-> i, kind |-> kind, arg |-> arg, at |-> q, read |-> r.read, key |-> r.key,
            tmp |-> r.tmp, bad |-> r.bad]
    <3>1. ASSUME NEW s \in Call PROVE s = [id |-> s.id, kind |-> s.kind, arg |-> s.arg, at |-> s.at, read |-> s.read, key |-> s.key, tmp |-> s.tmp, bad |-> s.bad]
      BY DEF Call
    <3> DEFINE a == [r EXCEPT !.id = i]
               b == [a EXCEPT !.kind = kind]
               d == [b EXCEPT !.arg = arg]
               e == [d EXCEPT !.at = q]
    <3>2. a \in Call /\ a = [id |-> i, kind |-> r.kind, arg |-> r.arg, at |-> r.at, read |-> r.read, key |-> r.key, tmp |-> r.tmp, bad |-> r.bad]
      BY SMTT(30), <3>1, <2>4, <2>41 DEF Call
    <3> HIDE DEF a
    <3>3. b \in Call /\ b = [id |-> a.id, kind |-> kind, arg |-> a.arg, at |-> a.at, read |-> a.read, key |-> a.key, tmp |-> a.tmp, bad |-> a.bad]
      BY SMTT(30), <3>1, <3>2, <2>4 DEF Call
    <3> HIDE DEF b
    <3>4. d \in Call /\ d = [id |-> b.id, kind |-> b.kind, arg |-> arg, at |-> b.at, read |-> b.read, key |-> b.key, tmp |-> b.tmp, bad |-> b.bad]
      BY <3>1, <3>3 DEF Call
    <3> HIDE DEF d
    <3>5. e = [id |-> d.id, kind |-> d.kind, arg |-> d.arg, at |-> q, read |-> d.read, key |-> d.key, tmp |-> d.tmp, bad |-> d.bad]
      BY <3>1, <3>4 DEF Call
    <3>6. e = [id |-> i, kind |-> kind, arg |-> arg, at |-> q, read |-> r.read, key |-> r.key, tmp |-> r.tmp, bad |-> r.bad]
      BY <3>2, <3>3, <3>4, <3>5
    <3>7. [r EXCEPT !.id = i, !.kind = kind, !.arg = arg, !.at = q] = e
      BY DEF a, b, d
    <3> QED
      BY <3>6, <3>7
  <2> QED
    BY <2>3, <2>5 DEF i, r
<1>10. job' = [job EXCEPT ![c] = k] /\ job'[c] = k
  BY <1>1, <1>8, <1>9 DEF Typed
<1>11. k.id = calls + 1 /\ k.kind = kind /\ k.arg = arg /\ k.at = q /\ k.key = Absent
  BY DEF NewCall
<1>12. Runs(k, q) /\ Starts(q) /\ q # <<>>
  BY <1>1, <1>6, <1>11, OpeningRuns
<1>13. k \in Call
  <2>1. q \in Seq(TaskType) /\ Absent \in AnyValue
    BY <1>12 DEF Runs, AnyValue
  <2> HIDE DEF q
  <2>2. [id |-> calls + 1, kind |-> kind, arg |-> arg, at |-> q, read |-> Absent,
         key |-> Absent, tmp |-> Absent, bad |-> FALSE] \in Call
    BY <1>3, <1>6, <1>8, <2>1 DEF Call
  <2> QED
    BY <2>2 DEF NewCall, q
<1> HIDE DEF k, q
<1>14. CallOK(k)
  BY <1>8, <1>11, <1>12, <1>13 DEF CallOK
<1>15. ~Free(c)'
  BY <1>10, <1>11, <1>12 DEF Free
<1>16. CallOK(job'[c]) /\ Starts(job'[c].at)
  BY <1>10, <1>11, <1>12, <1>14
<1>17. /\ job' = [job EXCEPT ![c] = NewCall(c, kind, arg)] /\ job'[c] = NewCall(c, kind, arg)
  BY <1>10 DEF k
<1> QED
  BY <1>2, <1>3, <1>4, <1>5, <1>6, <1>8, <1>15, <1>16, <1>17

LEMMA BeginShape == ASSUME Shape, NEW c \in Caller, BeginCall(c) PROVE Shape'
<1>1. /\ Free(c) /\ opened[c] = Absent /\ calls' = calls + 1 /\ calls' \in 0..CallsMade
      /\ UNCHANGED <<topic, slot, opened, review, trouble, done, retired>>
  BY BeginMoves
<1>2. PICK kind \in Kinds[topic], arg \in Nat \cup SourceKey \cup Report :
         /\ job' = [job EXCEPT ![c] = NewCall(c, kind, arg)] /\ job'[c] = NewCall(c, kind, arg)
         /\ CallOK(job'[c]) /\ Starts(job'[c].at) /\ ~Free(c)'
         /\ LET beside == {d \in Caller \ {c} : ~Free(d) /\ Files(job[d].kind) \cap Files(kind) # {}} IN
            met' = IF beside = {} THEN met ELSE met \cup beside \cup {c}
  BY BeginMoves
<1>3. Typed /\ Jobs /\ Contents
  BY DEF Shape
<1>4. \A d \in Caller \ {c} : job'[d] = job[d]
  BY <1>2, <1>3 DEF Typed
<1>5. met' \subseteq Caller
  BY <1>2, <1>3 DEF Typed
<1>6. job' \in [Caller -> Call]
  BY <1>2, <1>3 DEF Typed, CallOK
<1>7. job'[c].id = calls + 1 /\ job'[c].kind = kind
  BY <1>2 DEF NewCall
<1>8. HandsOK(c)'
  <2>1. job'[c].at # <<>> => Head(job'[c].at) = job'[c].at[1]
    OBVIOUS
  <2> QED
    BY <1>1, <1>2, <2>1 DEF HandsOK, CallDoes, Free, On, Current, Starts
<1>9. ASSUME NEW d \in Caller \ {c} PROVE HandsOK(d)'
  BY <1>1, <1>3, <1>4 DEF HandsOK, CallDoes, Free, On, Current, Jobs
<1>10. \A d \in Caller \ {c} : Free(d)' <=> Free(d)
  BY <1>4 DEF Free
<1>11. ASSUME NEW d \in Caller \ {c}, ~Free(d) PROVE job[d].id \in 1..calls /\ job[d].id \in 1..calls' /\ job[d].id # calls + 1
  <2>1. job[d].id \in 1..calls /\ calls \in 0..CallsMade
    BY <1>3, <1>11 DEF Jobs, Typed
  <2> QED
    BY <1>1, <2>1
<1>12. calls + 1 \in 1..calls'
  BY <1>1, <1>3 DEF Typed
<1>13. Jobs'
  <2>1. ASSUME NEW d \in Caller PROVE
          /\ CallOK(job'[d]) /\ HandsOK(d)'
          /\ ~Free(d)' => job'[d].kind \in Kinds[topic] /\ job'[d].id \in 1..calls'
    <3>1. CASE d = c
      BY <1>2, <1>7, <1>8, <1>12, <3>1
    <3>2. CASE d # c
      BY <1>3, <1>4, <1>9, <1>10, <1>11, <3>2 DEF Jobs
    <3> QED
      BY <3>1, <3>2
  <2>2. ASSUME NEW d \in Caller, NEW e \in Caller, d # e, ~Free(d)', ~Free(e)' PROVE job'[d].id # job'[e].id
    <3>1. CASE d = c
      BY <1>4, <1>7, <1>10, <1>11, <2>2, <3>1
    <3>2. CASE e = c
      BY <1>4, <1>7, <1>10, <1>11, <2>2, <3>2
    <3>3. CASE d # c /\ e # c
      BY <1>3, <1>4, <1>10, <2>2, <3>3 DEF Jobs
    <3> QED
      BY <3>1, <3>2, <3>3
  <2>3. topic' = topic
    BY <1>1
  <2> QED
    BY <2>1, <2>2, <2>3 DEF Jobs
<1>14. Contents'
  BY <1>1, <1>3 DEF Contents
<1>15. Typed'
  BY <1>1, <1>3, <1>5, <1>6 DEF Typed
<1> QED
  BY <1>13, <1>14, <1>15 DEF Shape

LEMMA ReviewShape == ASSUME Shape, Review PROVE Shape'
<1>1. UNCHANGED <<topic, slot, job, opened, calls, trouble, met>> /\ review' = [n \in Stored |-> slot[PlaceOf(n)]]
  BY DEF Review
<1>2. \A n \in Stored : slot[PlaceOf(n)] \in AnyValue
  BY Places DEF Shape, Typed, Names
<1>3. Typed'
  BY <1>1, <1>2 DEF Shape, Typed
<1>4. Jobs'
  BY <1>1 DEF Shape, Jobs, HandsOK, CallDoes, Free, On, Current
<1>5. Contents'
  BY <1>1 DEF Shape, Contents
<1> QED
  BY <1>3, <1>4, <1>5 DEF Shape

LEMMA RestShape == ASSUME Shape, UNCHANGED storeVars PROVE Shape'
<1>1. UNCHANGED <<topic, slot, job, opened, review, calls, trouble, met>>
  BY DEF storeVars
<1>2. Typed'
  BY <1>1 DEF Shape, Typed
<1>3. Jobs'
  BY <1>1 DEF Shape, Jobs, HandsOK, CallDoes, Free, On, Current
<1>4. Contents'
  BY <1>1 DEF Shape, Contents
<1> QED
  BY <1>2, <1>3, <1>4 DEF Shape

LEMMA ShapeInit == StoreInit => Shape
<1> SUFFICES ASSUME StoreInit PROVE Shape
  OBVIOUS
<1>1. Absent \in AnyValue
  BY DEF AnyValue
<1>2. NoJob \in Call /\ CallOK(NoJob)
  BY NoJobOK DEF CallOK
<1>3. \A c \in Caller : Free(c) /\ opened[c] = Absent /\ job[c] = NoJob
  BY DEF StoreInit, Free, NoJob
<1>4. Typed
  BY <1>1, <1>2, Constants DEF StoreInit, Typed
<1>5. Jobs
  BY <1>2, <1>3 DEF Jobs, HandsOK, CallDoes
<1>6. Contents
  BY DEF StoreInit, Contents
<1> QED
  BY <1>4, <1>5, <1>6 DEF Shape

LEMMA ShapeStep == ASSUME Shape, [StoreNext]_storeVars PROVE Shape'
<1>1. CASE UNCHANGED storeVars
  BY <1>1, RestShape
<1>2. CASE Review
  BY <1>2, ReviewShape
<1>3. ASSUME NEW c \in Caller,
             \/ BeginCall(c) \/ Read(c) \/ Decline(c) \/ OpenTemporary(c) \/ Fill(c) \/ PutInPlace(c) \/ Drop(c)
             \/ Salt(c) \/ Key(c) \/ OpenEvents(c) \/ WriteEvent(c) \/ CheckReviewed(c) \/ EraseFile(c)
             \/ Trouble(c) \/ CallerDies(c)
      PROVE  Shape'
  BY <1>3, BeginShape, ReadShape, DeclineShape, OpenShape, FillShape, RenameShape, DropShape, SaltShape, KeyShape,
     EventsShape, WriteShape, CheckShape, EraseShape, TroubleShape, DeathShape
<1> QED
  BY <1>1, <1>2, <1>3 DEF StoreNext

(* What is in the files and what the calls are about to do always fit each *)
(* other: every value is of its kind, every step has what it needs, and    *)
(* every handle is to a file that exists.                                  *)
THEOREM ShapeHolds == StoreSpec => []Shape
<1>1. Shape /\ [StoreNext]_storeVars => Shape'
  BY ShapeStep
<1> QED
  BY <1>1, ShapeInit, PTL DEF StoreSpec

-----------------------------------------------------------------------------
(* What each step does to the files, to what is open, and to the notes.    *)

(* What every step of a call does: the others' calls stay as they are, and  *)
(* nothing noted is forgotten.                                              *)
LEMMA MovesOthers ==
  ASSUME Shape, NEW c \in Caller, Moves(c)
  PROVE  /\ \A d \in Caller \ {c} : job'[d] = job[d]
         /\ job'[c] = NoJob \/ (~Free(c)' /\ job'[c].id = job[c].id /\ job'[c].kind = job[c].kind
                                /\ job'[c].arg = job[c].arg /\ met' = met)
         /\ met \ {c} \subseteq met' /\ met' \subseteq met
<1>1. job \in [Caller -> Call] /\ job' = [job EXCEPT ![c] = job'[c]]
  BY DEF Shape, Typed, Moves
<1> QED
  BY <1>1 DEF Moves, Free

LEMMA SameCall ==
  ASSUME NEW d \in Caller, job'[d] = job[d]
  PROVE  /\ \A x : CallDoes(d, x)' <=> CallDoes(d, x)
         /\ On(d)' = On(d) /\ (Free(d)' <=> Free(d)) /\ Current(job[d])' = Current(job[d])
  BY DEF CallDoes, On, Free, Current

(* A failure leaves the temporary name, or the call has ended.              *)
LEMMA FailTmp ==
  ASSUME Shape, NEW c \in Caller, ~Free(c), CallFails(c)
  PROVE  job'[c] = NoJob \/ (job'[c].tmp = job[c].tmp /\ job'[c].key = job[c].key /\ job[c].kind = "prompt"
                             /\ job'[c].at \in {ReadOf("preflights"), AppendSteps(0)} /\ Runs(job[c], job'[c].at))
<1>1. CASE job'[c] # NoJob
  <2> DEFINE j == job[c]
             k(q) == [id |-> j.id, kind |-> j.kind, arg |-> j.arg, at |-> q, read |-> j.read,
                      key |-> j.key, tmp |-> j.tmp, bad |-> TRUE]
  <2>1. PICK q \in {ReadOf("preflights"), AppendSteps(0)} : j.kind = "prompt" /\ Runs(j, q) /\ job'[c] = k(q)
    BY <1>1, FailMoves
  <2>2. k(q).tmp = j.tmp /\ k(q).at = q /\ k(q).key = j.key
    OBVIOUS
  <2> HIDE DEF k
  <2> QED
    BY <2>1, <2>2
<1> QED
  BY <1>1

LEMMA NoTmp == NoJob.tmp = Absent /\ NoJob.key = Absent /\ NoJob.at = <<>> /\ NoJob.kind = "none"
  BY DEF NoJob

(* Steps that touch no file.                                                *)
Quiet(c) == Read(c) \/ Decline(c) \/ CheckReviewed(c) \/ Key(c)

LEMMA QuietFacts ==
  ASSUME Shape, NEW c \in Caller, Quiet(c)
  PROVE  /\ ~Free(c) /\ Moves(c) /\ Starts(job'[c].at) /\ opened[c] = Absent
         /\ ~CallDoes(c, "fill") /\ ~CallDoes(c, "rename") /\ ~CallDoes(c, "write") /\ ~CallDoes(c, "open")
         /\ UNCHANGED <<slot, opened, retired, notes, topic, review, calls, trouble>>
         /\ job'[c].tmp \in {Absent, job[c].tmp}
<1>1. ~Free(c) /\ UNCHANGED <<slot, opened, retired, notes, topic, review, calls, trouble>>
      /\ (CallDoes(c, "read") \/ CallDoes(c, "refuse") \/ CallDoes(c, "check") \/ CallDoes(c, "key"))
  BY DEF Quiet, Read, Decline, CheckReviewed, Key, CallDoes, Calm
<1>2. ~CallDoes(c, "fill") /\ ~CallDoes(c, "rename") /\ ~CallDoes(c, "write") /\ ~CallDoes(c, "open") /\ ~CallDoes(c, "append")
  BY <1>1, OneThing
<1>3. opened[c] = Absent
  BY <1>2, NothingOpen
<1>4. CASE CallFails(c)
  BY <1>1, <1>2, <1>3, <1>4, FailStarts, FailTmp, NoTmp
<1>5. CASE Continue(c)
  BY <1>1, <1>2, <1>3, <1>5, OnWith, NoTmp
<1>6. CASE Read(c) /\ ~CallFails(c)
  <2>1. CallDoes(c, "read") /\ slot[PlaceOf(On(c))] # Torn
    BY <1>6 DEF Read
  <2>2. PICK q \in After(job[c], On(c), slot[PlaceOf(On(c))]) :
           GoTo(c, [job[c] EXCEPT !.read = slot[PlaceOf(On(c))]], q)
    BY <1>6, <2>1 DEF Read
  <2> DEFINE j == job[c]
             k == [id |-> j.id, kind |-> j.kind, arg |-> j.arg, at |-> q, read |-> slot[PlaceOf(On(c))],
                   key |-> j.key, tmp |-> j.tmp, bad |-> j.bad]
  <2>3. Moves(c) /\ Starts(q) /\ job'[c] = IF q = <<>> THEN NoJob ELSE k
    BY <2>1, <2>2, ReadMoves
  <2>4. k.at = q /\ k.tmp = j.tmp
    OBVIOUS
  <2> HIDE DEF k
  <2> QED
    BY <1>1, <1>2, <1>3, <2>3, <2>4, NoTmp, NoJobStarts
<1>7. CASE Key(c) /\ ~CallFails(c)
  <2>1. CallDoes(c, "key") /\ Held("salt") \notin {Absent, Torn}
    BY <1>7 DEF Key, Held
  <2> DEFINE j == job[c]
             k(q) == [id |-> j.id, kind |-> j.kind, arg |-> j.arg, at |-> q, read |-> j.read,
                           key |-> Held("salt"), tmp |-> j.tmp, bad |-> j.bad]
  <2>2. PICK q : Moves(c) /\ Starts(job'[c].at) /\ job'[c] = k(q)
    BY <1>7, <2>1, KeyMoves
  <2>3. k(q).tmp = j.tmp
    OBVIOUS
  <2> HIDE DEF k
  <2> QED
    BY <1>1, <1>2, <1>3, <2>2, <2>3
<1>8. CallFails(c) \/ Continue(c) \/ Read(c) \/ Key(c)
  BY DEF Quiet, Decline, CheckReviewed
<1> QED
  BY <1>4, <1>5, <1>6, <1>7, <1>8

(* The rename, when the temporary file is there.                            *)
LEMMA RenameDone ==
  ASSUME Shape, NEW c \in Caller, PutInPlace(c), slot[job[c].tmp] # Absent
  PROVE  LET n == On(c) t == job[c].tmp p == PlaceOf(n) IN
         /\ CallDoes(c, "rename") /\ ~Free(c) /\ Continue(c) /\ Calm /\ n \in Names /\ n # "salt"
         /\ p \in Place /\ t \in Scratch /\ t # p /\ t[1] = n /\ opened[c] = Absent /\ opened'[c] = Absent
         /\ slot'[p] = slot[t] /\ slot'[t] = Absent
         /\ \A o \in Place \cup Scratch : o \notin {p, t} => slot'[o] = slot[o]
         /\ opened' = [d \in Caller |-> IF opened[d] = t THEN p ELSE IF opened[d] = p THEN Absent ELSE opened[d]]
         /\ Moves(c) /\ Starts(job'[c].at) /\ job'[c].tmp \in {Absent, t} /\ notes' = notes
         /\ retired' = retired \cup LeftOut(c)
<1> DEFINE n == On(c)
           t == job[c].tmp
           p == PlaceOf(n)
<1>1. CallDoes(c, "rename") /\ Calm /\ Continue(c) /\ notes' = notes /\ retired' = retired \cup LeftOut(c)
      /\ slot' = [slot EXCEPT ![p] = slot[t], ![t] = Absent]
      /\ opened' = [d \in Caller |-> IF opened[d] = t THEN p ELSE IF opened[d] = p THEN Absent ELSE opened[d]]
  BY DEF PutInPlace
<1>2. /\ ~Free(c) /\ n \in Names /\ n # "salt" /\ p \in Place /\ p # Absent /\ t \in Scratch /\ t # p /\ t # Absent /\ t[1] = n
      /\ opened[c] = Absent
  BY <1>1, RenameFacts
<1>3. ~CallDoes(c, "fill") /\ ~CallDoes(c, "open") /\ ~CallDoes(c, "append")
  BY <1>1, OneThing
<1>4. Moves(c) /\ Starts(job'[c].at) /\ job'[c].tmp \in {Absent, t}
  BY <1>1, <1>2, <1>3, OnWith, NoTmp
<1>5. slot \in [Place \cup Scratch -> AnyValue]
  BY OpenedTyped
<1>6. /\ slot'[p] = slot[t] /\ slot'[t] = Absent /\ \A o \in Place \cup Scratch : o \notin {p, t} => slot'[o] = slot[o]
  BY <1>1, <1>2, <1>5
<1>7. opened'[c] = Absent
  BY <1>1, <1>2
<1> QED
  BY <1>1, <1>2, <1>4, <1>6, <1>7

(* The removal of a file by Drop, or by EraseFile when it is there.         *)
Removes(c) == Drop(c) \/ (EraseFile(c) /\ Held(On(c)) # Absent)

LEMMA RemoveFacts ==
  ASSUME Shape, NEW c \in Caller, Removes(c)
  PROVE  LET p == PlaceOf(On(c)) IN
         /\ ~Free(c) /\ Continue(c) /\ Calm /\ Moves(c) /\ Starts(job'[c].at) /\ On(c) \in Names /\ p \in Place
         /\ opened[c] = Absent /\ opened'[c] = Absent /\ ~CallDoes(c, "fill") /\ ~CallDoes(c, "rename")
         /\ slot'[p] = Absent /\ \A o \in Place \cup Scratch : o # p => slot'[o] = slot[o]
         /\ opened' = [d \in Caller |-> IF opened[d] = p THEN Absent ELSE opened[d]]
         /\ job'[c].tmp \in {Absent, job[c].tmp}
<1> DEFINE p == PlaceOf(On(c))
<1>1. /\ CallDoes(c, "drop") \/ CallDoes(c, "unlink")
      /\ ~Free(c) /\ Continue(c) /\ Calm
      /\ slot' = [slot EXCEPT ![p] = Absent]
      /\ opened' = [d \in Caller |-> IF opened[d] = p THEN Absent ELSE opened[d]]
  BY DEF Removes, Drop, EraseFile, CallDoes, Held
<1>2. ~CallDoes(c, "fill") /\ ~CallDoes(c, "rename") /\ ~CallDoes(c, "write") /\ ~CallDoes(c, "open") /\ ~CallDoes(c, "append")
  BY <1>1, OneThing
<1>3. opened[c] = Absent /\ On(c) \in Names /\ p \in Place /\ slot \in [Place \cup Scratch -> AnyValue]
  BY <1>1, <1>2, NothingOpen, AtWork, OpenedTyped
<1>4. Moves(c) /\ Starts(job'[c].at) /\ job'[c].tmp \in {Absent, job[c].tmp}
  BY <1>1, <1>2, OnWith, NoTmp
<1>5. slot'[p] = Absent /\ \A o \in Place \cup Scratch : o # p => slot'[o] = slot[o]
  BY <1>1, <1>3
<1>6. opened'[c] = Absent
  BY <1>1, <1>3
<1> QED
  BY <1>1, <1>2, <1>3, <1>4, <1>5, <1>6

(* The ends that nobody chose.                                              *)
Cut(c) == Trouble(c) \/ CallerDies(c)

LEMMA CutFacts ==
  ASSUME Shape, NEW c \in Caller, Cut(c)
  PROVE  /\ ~Free(c) /\ Moves(c) /\ Starts(job'[c].at) /\ slot' = Left(c) /\ opened' = [opened EXCEPT ![c] = Absent]
         /\ notes' = notes \cup {<<"trouble", 0>>} /\ UNCHANGED <<topic, review, calls, retired>>
         /\ job'[c].tmp \in {Absent, job[c].tmp}
         /\ job'[c] = NoJob \/ CallFails(c)
<1>1. CASE Trouble(c)
  BY <1>1, FailStarts, FailTmp, NoTmp DEF Trouble
<1>2. CASE CallerDies(c)
  BY <1>2, DeathMoves, NoJobStarts, NoTmp DEF CallerDies
<1> QED
  BY <1>1, <1>2 DEF Cut

(* The steps that write events.                                             *)
LEMMA EventsFacts ==
  ASSUME Shape, NEW c \in Caller, OpenEvents(c)
  PROVE  /\ CallDoes(c, "append") /\ ~Free(c) /\ Continue(c) /\ Calm /\ Moves(c) /\ ~CallDoes(c, "fill")
         /\ CallDoes(c, "write")' /\ On(c)' = "events" /\ job'[c].tmp = job[c].tmp /\ opened[c] = Absent
         /\ opened' = [opened EXCEPT ![c] = PlaceOf("events")] /\ opened'[c] = PlaceOf("events")
         /\ UNCHANGED <<retired, notes>>
         /\ slot'[PlaceOf("events")] = IF Held("events") = Absent THEN <<>> ELSE Held("events")
         /\ \A o \in Place \cup Scratch : o # PlaceOf("events") => slot'[o] = slot[o]
<1>1. CallDoes(c, "append") /\ ~Free(c) /\ Continue(c) /\ Calm /\ UNCHANGED <<retired, notes>>
      /\ opened' = [opened EXCEPT ![c] = PlaceOf("events")]
      /\ slot' = IF Held("events") = Absent THEN [slot EXCEPT ![PlaceOf("events")] = <<>>] ELSE slot
  BY DEF OpenEvents, CallDoes, Held
<1>2. Moves(c) /\ CallDoes(c, "write")' /\ On(c)' = "events" /\ (job'[c] # NoJob => job'[c].tmp = job[c].tmp)
  BY <1>1, OnWith
<1>3. job'[c] # NoJob
  BY <1>2, NoTmp DEF CallDoes, Free
<1>4. ~CallDoes(c, "fill") /\ ~CallDoes(c, "write")
  BY <1>1, OneThing
<1>5. opened[c] = Absent /\ opened \in [Caller -> Place \cup Scratch \cup {Absent}] /\ slot \in [Place \cup Scratch -> AnyValue]
      /\ PlaceOf("events") \in Place
  BY <1>4, NothingOpen, OpenedTyped, SaltThere
<1>6. /\ slot'[PlaceOf("events")] = IF Held("events") = Absent THEN <<>> ELSE Held("events")
      /\ \A o \in Place \cup Scratch : o # PlaceOf("events") => slot'[o] = slot[o]
  <2>1. CASE Held("events") = Absent
    BY <1>1, <1>5, <2>1
  <2>2. CASE Held("events") # Absent
    BY <1>1, <2>2 DEF Held
  <2> QED
    BY <2>1, <2>2
<1>7. opened'[c] = PlaceOf("events")
  BY <1>1, <1>5
<1> QED
  BY <1>1, <1>2, <1>3, <1>4, <1>5, <1>6, <1>7

LEMMA WriteFacts ==
  ASSUME Shape, NEW c \in Caller, WriteEvent(c)
  PROVE  /\ CallDoes(c, "write") /\ ~Free(c) /\ Continue(c) /\ Calm /\ Moves(c) /\ Starts(job'[c].at) /\ ~CallDoes(c, "fill")
         /\ job'[c].tmp \in {Absent, job[c].tmp} /\ retired' = retired
         /\ opened' = [opened EXCEPT ![c] = Absent] /\ job[c].key # Absent /\ job[c].kind \in {"prompt", "stop"}
         /\ notes \subseteq notes' /\ notes' \subseteq notes \cup {<<"key", job[c].key>>, <<"closed", Current(job[c]).value>>}
         /\ \A o \in Place \cup Scratch : o # PlaceOf("events") => slot'[o] = slot[o]
         /\ \/ slot'[PlaceOf("events")] = slot[PlaceOf("events")]
            \/ LET e == [id |-> job[c].id, kind |-> job[c].kind, of |-> Current(job[c]).value, key |-> job[c].key] IN
               /\ Held("events") \in Seq(Event) /\ e \in Event
               /\ slot'[PlaceOf("events")] = Append(Held("events"), e)
<1>1. CallDoes(c, "write") /\ ~Free(c) /\ Continue(c) /\ Calm /\ retired' = retired /\ opened' = [opened EXCEPT ![c] = Absent]
  BY DEF WriteEvent, CallDoes
<1>2. ~CallDoes(c, "fill") /\ ~CallDoes(c, "open") /\ ~CallDoes(c, "append")
  BY <1>1, OneThing
<1>3. Moves(c) /\ Starts(job'[c].at) /\ job'[c].tmp \in {Absent, job[c].tmp}
  BY <1>1, <1>2, OnWith, NoTmp
<1>4. StepOK(job[c], Current(job[c])) /\ Current(job[c]).do = "write"
  BY <1>1, AtWork DEF CallDoes
<1>5. job[c].key # Absent /\ job[c].kind \in {"prompt", "stop"}
  BY <1>4 DEF StepOK
<1>6. notes \subseteq notes' /\ notes' \subseteq notes \cup {<<"key", job[c].key>>, <<"closed", Current(job[c]).value>>}
  BY DEF WriteEvent
<1>7. slot \in [Place \cup Scratch -> AnyValue] /\ PlaceOf("events") \in Place \cup Scratch
  BY OpenedTyped, SaltThere
<1>8. CASE opened[c] = Absent \/ slot[opened[c]] = Torn
  <2>1. slot' = slot
    BY <1>8 DEF WriteEvent
  <2> QED
    BY <1>1, <1>2, <1>3, <1>5, <1>6, <2>1
<1>9. CASE opened[c] # Absent /\ slot[opened[c]] # Torn
  <2> DEFINE e == [id |-> job[c].id, kind |-> job[c].kind, of |-> Current(job[c]).value, key |-> job[c].key]
  <2>1. opened[c] = PlaceOf("events") /\ slot[opened[c]] \in Seq(Event) /\ e \in Event
        /\ slot' = [slot EXCEPT ![PlaceOf("events")] = Append(slot[PlaceOf("events")], e)]
    BY <1>9, EventWritten
  <2> HIDE DEF e
  <2>2. slot'[PlaceOf("events")] = Append(slot[PlaceOf("events")], e)
        /\ \A o \in Place \cup Scratch : o # PlaceOf("events") => slot'[o] = slot[o]
    BY <1>7, <2>1
  <2> QED
    BY <1>1, <1>2, <1>3, <1>5, <1>6, <2>1, <2>2 DEF e, Held
<1> QED
  BY <1>8, <1>9

(* Torn files.  A file is torn only while the one who opened it has not    *)
(* written it, or when that was interrupted, or when two have written to   *)
(* one temporary file; a salt is torn for the first two reasons only, and  *)
(* any other file for the third only: the temporary file a call renames is *)
(* its own, and whole, where no two share one.                             *)
Torns ==
    /\ \A p \in Place \cup Scratch : slot[p] = Torn =>
          \/ Noted("trouble")
          \/ Noted("collision") /\ p # PlaceOf("salt")
          \/ \E c \in Caller : opened[c] = p /\ CallDoes(c, "fill")
    /\ \A n \in Names : Held(n) = Torn => n = "salt" \/ Noted("collision")
    /\ \A c, d \in Caller : c # d /\ job[c].tmp = job[d].tmp /\ job[c].tmp # Absent => Noted("collision")
    /\ \A c \in Caller :
          /\ CallDoes(c, "rename") /\ slot[job[c].tmp] = Torn => Noted("collision")
          /\ CallDoes(c, "fill") /\ On(c) # "salt" /\ opened[c] # job[c].tmp => Noted("collision")

(* Only who shares a temporary file is overtaken.                          *)
Collided == overtaken # {} => Noted("collision")

LEMMA OpenFacts ==
  ASSUME Shape, NEW c \in Caller, OpenTemporary(c)
  PROVE  \E t \in Scratch :
         /\ CallDoes(c, "open") /\ ~Free(c) /\ Moves(c) /\ t[1] = On(c) /\ On(c) # "salt" /\ opened[c] = Absent
         /\ job'[c].tmp = t /\ job'[c].at = Tail(job[c].at) /\ job'[c] # NoJob /\ job'[c].key = job[c].key
         /\ CallDoes(c, "fill")' /\ On(c)' = On(c) /\ Current(job[c])'.value = Current(job[c]).value
         /\ opened'[c] = t /\ \A d \in Caller \ {c} : opened'[d] = opened[d]
         /\ slot'[t] = Torn /\ \A o \in Place \cup Scratch : o # t => slot'[o] = slot[o]
         /\ UNCHANGED <<topic, review, calls, retired>>
         /\ notes \subseteq notes' /\ notes' \subseteq notes \cup {<<"collision", 0>>}
         /\ slot[t] # Absent \/ (\E d \in Caller \ {c} : job[d].tmp = t) => <<"collision", 0>> \in notes'
<1>1. CallDoes(c, "open") /\ ~Free(c) /\ UNCHANGED <<topic, review, calls, retired>>
  BY DEF OpenTemporary, CallDoes
<1>2. PICK use \in Caller : LET t == <<On(c), use>>
             taken == slot[t] # Absent \/ \E d \in Caller \ {c} : job[d].tmp = t IN
         /\ slot' = [slot EXCEPT ![t] = Torn]
         /\ opened' = [opened EXCEPT ![c] = t]
         /\ GoTo(c, [job[c] EXCEPT !.tmp = t], Tail(job[c].at))
         /\ notes' = IF taken THEN notes \cup {<<"collision", 0>>} ELSE notes
  BY DEF OpenTemporary
<1> DEFINE t == <<On(c), use>>
<1>3. t \in Scratch /\ t[1] = On(c)
  BY <1>1, AtWork, Places
<1>4. /\ Moves(c) /\ job'[c].tmp = t /\ job'[c].at = Tail(job[c].at) /\ job'[c].key = job[c].key
      /\ CallDoes(c, "fill")' /\ On(c)' = On(c) /\ Current(job[c])'.value = Current(job[c]).value
      /\ On(c) # "salt" /\ job'[c] # NoJob
  BY <1>1, <1>2, <1>3, OpenMoves
<1>5. slot' = [slot EXCEPT ![t] = Torn] /\ opened' = [opened EXCEPT ![c] = t]
  BY <1>2
<1>6. /\ notes' = IF slot[t] # Absent \/ \E d \in Caller \ {c} : job[d].tmp = t
                  THEN notes \cup {<<"collision", 0>>} ELSE notes
  BY <1>2
<1>7. ~CallDoes(c, "fill") /\ ~CallDoes(c, "write")
  BY <1>1, OneThing
<1>8. opened[c] = Absent /\ opened \in [Caller -> Place \cup Scratch \cup {Absent}] /\ slot \in [Place \cup Scratch -> AnyValue]
  BY <1>7, NothingOpen, OpenedTyped
<1> HIDE DEF t
<1>9. /\ opened'[c] = t /\ \A d \in Caller \ {c} : opened'[d] = opened[d]
      /\ slot'[t] = Torn /\ \A o \in Place \cup Scratch : o # t => slot'[o] = slot[o]
  BY <1>3, <1>5, <1>8
<1>10. /\ notes \subseteq notes' /\ notes' \subseteq notes \cup {<<"collision", 0>>}
       /\ slot[t] # Absent \/ (\E d \in Caller \ {c} : job[d].tmp = t) => <<"collision", 0>> \in notes'
  BY <1>6
<1> QED
  BY <1>1, <1>3, <1>4, <1>8, <1>9, <1>10

LEMMA FillFacts ==
  ASSUME Shape, NEW c \in Caller, Fill(c)
  PROVE  /\ CallDoes(c, "fill") /\ ~Free(c) /\ Continue(c) /\ Calm /\ Moves(c) /\ notes' = notes
         /\ On(c) \in Names /\ Fits(On(c), Current(job[c]).value) /\ Current(job[c]).value \notin {Absent, Torn}
         /\ opened'[c] = Absent /\ \A d \in Caller \ {c} : opened'[d] = opened[d]
         /\ opened[c] # Absent => /\ opened[c] \in Place \cup Scratch /\ opened[c][1] = On(c)
                                  /\ \/ slot'[opened[c]] = Current(job[c]).value
                                     \/ c \in overtaken /\ slot'[opened[c]] = Torn
                                  /\ opened[c] = PlaceOf(On(c)) \/ opened[c] = job[c].tmp
                                  /\ On(c) = "salt" => opened[c] = PlaceOf("salt")
         /\ \A o \in Place \cup Scratch : o # opened[c] => slot'[o] = slot[o]
         /\ On(c) # "salt" => /\ CallDoes(c, "rename")' /\ On(c)' = On(c)
                              /\ Current(job[c])'.value = Current(job[c]).value /\ job'[c].tmp = job[c].tmp
                              /\ job[c].tmp \in Scratch /\ job[c].tmp[1] = On(c)
         /\ On(c) = "salt" => CallDoes(c, "key")' /\ Starts(job'[c].at) /\ Current(job[c]).value = job[c].id
         /\ job'[c] # NoJob /\ job'[c].tmp = job[c].tmp /\ job'[c].key = job[c].key
<1>1. CallDoes(c, "fill") /\ ~Free(c) /\ Continue(c) /\ Calm /\ opened' = [opened EXCEPT ![c] = Absent] /\ notes' = notes
  BY DEF Fill, CallDoes
<1>2. StepOK(job[c], Current(job[c])) /\ Current(job[c]).do = "fill" /\ Current(job[c]).on = On(c) /\ On(c) \in Names /\ HandsOK(c)
  BY <1>1, AtWork DEF CallDoes, On
<1>3. Fits(On(c), Current(job[c]).value) /\ (On(c) = "salt" => Current(job[c]).value = job[c].id)
  BY <1>2 DEF StepOK, Replacing
<1>4. Current(job[c]).value \notin {Absent, Torn}
  BY <1>2, <1>3, Constants DEF Fits
<1>5. /\ opened \in [Caller -> Place \cup Scratch \cup {Absent}] /\ slot \in [Place \cup Scratch -> AnyValue]
  BY OpenedTyped
<1>6. opened'[c] = Absent /\ \A d \in Caller \ {c} : opened'[d] = opened[d]
  BY <1>1, <1>5
<1>7. opened[c] # Absent => /\ opened[c] \in Place \cup Scratch /\ opened[c][1] = On(c)
                            /\ opened[c] = PlaceOf(On(c)) \/ opened[c] = job[c].tmp
                            /\ On(c) = "salt" => opened[c] = PlaceOf("salt")
  BY InHand
<1>8. \/ slot' = IF opened[c] = Absent THEN slot ELSE [slot EXCEPT ![opened[c]] = Current(job[c]).value]
      \/ c \in overtaken /\ opened[c] # Absent /\ slot' = [slot EXCEPT ![opened[c]] = Torn]
  BY DEF Fill
<1>9. /\ opened[c] # Absent => \/ slot'[opened[c]] = Current(job[c]).value
                               \/ c \in overtaken /\ slot'[opened[c]] = Torn
      /\ \A o \in Place \cup Scratch : o # opened[c] => slot'[o] = slot[o]
  BY <1>5, <1>7, <1>8
<1>10. /\ Moves(c)
       /\ On(c) # "salt" => CallDoes(c, "rename")' /\ On(c)' = On(c) /\ Current(job[c])'.value = Current(job[c]).value
       /\ On(c) = "salt" => CallDoes(c, "key")'
       /\ job'[c] # NoJob => job'[c].tmp = job[c].tmp /\ job'[c].key = job[c].key
  BY <1>1, OnWith
<1>11. job'[c] # NoJob
  BY <1>10, NoTmp DEF CallDoes, Free
<1>12. On(c) # "salt" => job[c].tmp \in Scratch /\ job[c].tmp[1] = On(c)
  BY <1>1, <1>2 DEF HandsOK
<1>13. On(c) = "salt" => Starts(job'[c].at)
  <2>1. job'[c].at # <<>> /\ Head(job'[c].at) = job'[c].at[1]
    BY <1>10, <1>11 DEF CallDoes, Free, Moves
  <2> QED
    BY <2>1, <1>10 DEF Starts, CallDoes, Current
<1> QED
  BY <1>1, <1>2, <1>3, <1>4, <1>6, <1>7, <1>9, <1>10, <1>11, <1>12, <1>13

LEMMA SaltFacts ==
  ASSUME Shape, NEW c \in Caller, Salt(c)
  PROVE  /\ CallDoes(c, "salt") /\ ~Free(c) /\ Moves(c) /\ Calm /\ UNCHANGED <<retired, notes>> /\ opened[c] = Absent
         /\ job'[c] # NoJob /\ job'[c].tmp = job[c].tmp /\ job'[c].key = job[c].key
         /\ job'[c].at = IF Held("salt") = Absent
                        THEN <<Task("fill", "salt", job[c].id), Task("key", "salt", Absent)>>
                        ELSE <<Task("key", "salt", Absent)>>
         /\ Held("salt") = Absent =>
              /\ CallDoes(c, "fill")' /\ On(c)' = "salt" /\ ~CallDoes(c, "rename")'
              /\ slot'[PlaceOf("salt")] = Torn /\ \A o \in Place \cup Scratch : o # PlaceOf("salt") => slot'[o] = slot[o]
              /\ opened'[c] = PlaceOf("salt") /\ \A d \in Caller \ {c} : opened'[d] = opened[d]
         /\ Held("salt") # Absent => CallDoes(c, "key")' /\ Starts(job'[c].at) /\ UNCHANGED <<slot, opened>>
<1>1. /\ Moves(c) /\ ~Free(c) /\ opened[c] = Absent /\ job'[c] # NoJob
      /\ job'[c].tmp = job[c].tmp /\ job'[c].key = job[c].key
      /\ job'[c].at = IF Held("salt") = Absent
                     THEN <<Task("fill", "salt", job[c].id), Task("key", "salt", Absent)>>
                     ELSE <<Task("key", "salt", Absent)>>
      /\ Held("salt") = Absent => CallDoes(c, "fill")' /\ On(c)' = "salt"
      /\ Held("salt") # Absent => CallDoes(c, "key")'
  BY SaltMoves
<1>2. CallDoes(c, "salt") /\ Calm /\ UNCHANGED <<retired, notes>>
  BY DEF Salt
<1>3. slot \in [Place \cup Scratch -> AnyValue] /\ opened \in [Caller -> Place \cup Scratch \cup {Absent}]
      /\ PlaceOf("salt") \in Place
  BY OpenedTyped, SaltThere
<1>4. CASE Held("salt") = Absent
  <2>1. slot' = [slot EXCEPT ![PlaceOf("salt")] = Torn] /\ opened' = [opened EXCEPT ![c] = PlaceOf("salt")]
    BY <1>4 DEF Salt, Held
  <2>2. /\ slot'[PlaceOf("salt")] = Torn /\ \A o \in Place \cup Scratch : o # PlaceOf("salt") => slot'[o] = slot[o]
        /\ opened'[c] = PlaceOf("salt") /\ \A d \in Caller \ {c} : opened'[d] = opened[d]
    BY <1>3, <2>1
  <2>3. ~CallDoes(c, "rename")'
    BY <1>1, <1>4 DEF CallDoes
  <2> QED
    BY <1>1, <1>2, <1>4, <2>2, <2>3
<1>5. CASE Held("salt") # Absent
  <2>1. UNCHANGED <<slot, opened>>
    BY <1>5 DEF Salt, Held
  <2>2. job'[c].at # <<>> /\ Head(job'[c].at) = job'[c].at[1]
    BY <1>1, <1>5 DEF CallDoes, Free
  <2>3. Starts(job'[c].at)
    BY <1>1, <1>5, <2>2 DEF CallDoes, Current, Starts
  <2> QED
    BY <1>1, <1>2, <1>5, <2>1, <2>3
<1> QED
  BY <1>4, <1>5

LEMMA Started ==
  ASSUME NEW c \in Caller, Starts(job'[c].at) PROVE ~CallDoes(c, "fill")' /\ ~CallDoes(c, "rename")' /\ ~CallDoes(c, "write")'
<1>1. job'[c].at = <<>> \/ Head(job'[c].at) = job'[c].at[1]
  OBVIOUS
<1> QED
  BY <1>1 DEF Starts, CallDoes, Free, Current

(* The steps of a call that has begun.                                     *)
Moving(c) ==
    \/ Read(c) \/ Decline(c) \/ OpenTemporary(c) \/ Fill(c) \/ PutInPlace(c) \/ Drop(c)
    \/ Salt(c) \/ Key(c) \/ OpenEvents(c) \/ WriteEvent(c) \/ CheckReviewed(c) \/ EraseFile(c)
    \/ Trouble(c) \/ CallerDies(c)

LEMMA MovingMoves ==
  ASSUME Shape, NEW c \in Caller, Moving(c)
  PROVE  ~Free(c) /\ Moves(c) /\ UNCHANGED <<topic, review, calls>>
<1>1. CASE Quiet(c)
  BY <1>1, QuietFacts
<1>2. CASE OpenTemporary(c)
  BY <1>2, OpenFacts
<1>3. CASE Fill(c)
  BY <1>3, FillFacts DEF Calm
<1>4. CASE PutInPlace(c)
  <2>1. CASE slot[job[c].tmp] # Absent
    BY <1>4, <2>1, RenameDone DEF Calm
  <2>2. CASE slot[job[c].tmp] = Absent
    BY <1>4, <2>2, FailStarts DEF PutInPlace, CallDoes, Calm
  <2> QED
    BY <2>1, <2>2
<1>5. CASE Drop(c) \/ EraseFile(c)
  <2>1. CASE Removes(c)
    BY <2>1, RemoveFacts DEF Calm
  <2>2. CASE ~Removes(c)
    <3>1. EraseFile(c) /\ slot[PlaceOf(On(c))] = Absent
      BY <1>5, <2>2 DEF Removes, Held
    <3>2. CallFails(c) /\ ~Free(c) /\ Calm
      BY <3>1 DEF EraseFile, CallDoes
    <3> QED
      BY <3>2, FailStarts DEF Calm
  <2> QED
    BY <2>1, <2>2
<1>6. CASE Salt(c)
  BY <1>6, SaltFacts DEF Calm
<1>7. CASE OpenEvents(c) \/ WriteEvent(c)
  BY <1>7, EventsFacts, WriteFacts DEF Calm
<1>8. CASE Cut(c)
  BY <1>8, CutFacts
<1> QED
  BY <1>1, <1>2, <1>3, <1>4, <1>5, <1>6, <1>7, <1>8 DEF Moving, Quiet, Cut

LEMMA NextCases ==
  ASSUME [StoreNext]_storeVars
  PROVE  \/ UNCHANGED storeVars \/ Review
         \/ \E c \in Caller : BeginCall(c) \/ Moving(c)
  BY DEF StoreNext, Moving

LEMMA NotesKept ==
  ASSUME Shape, NEW c \in Caller, Moving(c) PROVE notes \subseteq notes'
<1>1. CASE Quiet(c)
  BY <1>1, QuietFacts
<1>2. CASE OpenTemporary(c)
  BY <1>2, OpenFacts
<1>3. CASE Fill(c) \/ PutInPlace(c) \/ Drop(c) \/ Salt(c) \/ OpenEvents(c)
  BY <1>3 DEF Fill, PutInPlace, Drop, Salt, OpenEvents
<1>4. CASE WriteEvent(c)
  BY <1>4, WriteFacts
<1>5. CASE EraseFile(c)
  <2> DEFINE n == On(c)
  <2>1. notes \subseteq notes'
    <3>1. CASE slot[PlaceOf(n)] = Absent
      BY <1>5, <3>1 DEF EraseFile
    <3>2. CASE slot[PlaceOf(n)] # Absent
      BY <1>5, <3>2 DEF EraseFile
    <3> QED
      BY <3>1, <3>2
  <2> QED
    BY <2>1
<1>6. CASE Cut(c)
  BY <1>6, CutFacts
<1> QED
  BY <1>1, <1>2, <1>3, <1>4, <1>5, <1>6 DEF Moving, Quiet, Cut

-----------------------------------------------------------------------------
(* Files that another has written to.                                       *)

(* Who is overtaken has still to write, and to a temporary file that was    *)
(* opened to be truncated, not to the salt.                                 *)
Overtaking ==
    /\ overtaken \subseteq Caller
    /\ \A c \in overtaken : CallDoes(c, "fill") /\ On(c) # "salt"

(* A step overtakes only who shares the file that it writes to, and the     *)
(* caller who makes it is not overtaken after it.                           *)
LEMMA OvertakenMove ==
  ASSUME Overtaking, NEW c \in Caller, Moving(c)
  PROVE  overtaken' \subseteq overtaken \cup Behind(c) /\ c \notin overtaken'
<1>1. c \notin Behind(c)
  BY DEF Behind
<1>2. CASE Fill(c)
  BY <1>1, <1>2 DEF Fill
<1>3. CASE Cut(c)
  BY <1>3 DEF Cut, Trouble, CallerDies
<1>4. CASE ~Fill(c) /\ ~Cut(c)
  <2>1. ~CallDoes(c, "fill")
    <3>1. \E x \in {"read", "refuse", "open", "rename", "drop", "salt", "key", "append", "write", "check", "unlink"} :
             CallDoes(c, x)
      BY <1>4 DEF Moving, Cut, Read, Decline, OpenTemporary, PutInPlace, Drop, Salt, Key, OpenEvents, WriteEvent,
                  CheckReviewed, EraseFile
    <3> QED
      BY <3>1 DEF CallDoes
  <2>2. c \notin overtaken
    BY <2>1 DEF Overtaking
  <2>3. CASE OpenTemporary(c)
    <3>1. overtaken' \subseteq overtaken
      BY <2>3 DEF OpenTemporary
    <3> QED
      BY <2>2, <3>1
  <2>4. CASE WriteEvent(c)
    BY <1>1, <2>2, <2>4 DEF WriteEvent
  <2>5. CASE ~OpenTemporary(c) /\ ~WriteEvent(c)
    <3>1. overtaken' = overtaken
      BY <1>4, <2>5 DEF Moving, Cut, Read, Decline, PutInPlace, Drop, Salt, Key, OpenEvents, CheckReviewed, EraseFile
    <3> QED
      BY <2>2, <3>1
  <2> QED
    BY <2>3, <2>4, <2>5
<1> QED
  BY <1>2, <1>3, <1>4

LEMMA OvertakingStep == ASSUME Shape, Overtaking, [StoreNext]_storeVars PROVE Overtaking'
<1>1. CASE UNCHANGED storeVars \/ Review
  <2>1. UNCHANGED <<job, overtaken>>
    BY <1>1 DEF storeVars, Review
  <2> QED
    BY <2>1 DEF Overtaking, CallDoes, Free, On, Current
<1>2. ASSUME NEW c \in Caller, \A d \in Caller \ {c} : job'[d] = job[d], c \notin overtaken',
             overtaken' \subseteq overtaken \cup Behind(c)
      PROVE  Overtaking'
  <2>1. ASSUME NEW d \in overtaken' PROVE d \in Caller /\ CallDoes(d, "fill")' /\ On(d)' # "salt"
    <3>1. d \in Caller /\ CallDoes(d, "fill") /\ On(d) # "salt"
      BY <1>2 DEF Overtaking, Behind
    <3>2. job'[d] = job[d]
      BY <1>2, <3>1
    <3> QED
      BY <3>1, <3>2, SameCall
  <2> QED
    BY <2>1 DEF Overtaking
<1>3. ASSUME NEW c \in Caller, BeginCall(c) PROVE Overtaking'
  <2>1. Free(c) /\ overtaken' = overtaken
    BY <1>3 DEF BeginCall
  <2>2. PICK kind \in Kinds[topic], arg \in Nat \cup SourceKey \cup Report :
           job' = [job EXCEPT ![c] = NewCall(c, kind, arg)]
    BY <1>3, BeginMoves
  <2>3. \A d \in Caller \ {c} : job'[d] = job[d]
    BY <2>2 DEF Shape, Typed
  <2>4. c \notin overtaken
    BY <2>1 DEF Overtaking, CallDoes
  <2> QED
    BY <1>2, <2>1, <2>3, <2>4
<1>4. ASSUME NEW c \in Caller, Moving(c) PROVE Overtaking'
  <2>1. \A d \in Caller \ {c} : job'[d] = job[d]
    BY <1>4, MovingMoves, MovesOthers
  <2> QED
    BY <1>2, <1>4, <2>1, OvertakenMove
<1> QED
  BY <1>1, <1>3, <1>4, NextCases

LEMMA OvertakingInit == StoreInit => Overtaking
  BY DEF StoreInit, Overtaking

(* Every file holds a value of its kind and within its limits              *)
(* (MAX_RECORDS, the history's limit, the limits of catalog sources),      *)
(* whatever callers meet, fail or die.                                     *)
THEOREM StoreTypeOKHolds == StoreSpec => []StoreTypeOK
<1>1. Shape /\ Overtaking => StoreTypeOK
  <2> SUFFICES ASSUME Shape, Overtaking PROVE StoreTypeOK
    OBVIOUS
  <2>1. Typed /\ Jobs /\ Contents
    BY DEF Shape
  <2>2. ASSUME NEW p \in Place \cup Scratch PROVE slot[p] \in Value(p[1]) \cup {Absent, Torn}
    BY <2>1 DEF Contents, Fits
  <2>3. ASSUME NEW n \in Stored PROVE Held(n) \notin {Absent, Torn} => Fits(n, Held(n))
    <3>1. n \in Names
      BY DEF Names
    <3>2. PlaceOf(n) \in Place /\ PlaceOf(n)[1] = n
      BY <3>1, Places
    <3> QED
      BY <2>1, <3>2 DEF Contents, Held
  <2>4. "sources" \in Stored /\ "preflights" \in Stored /\ "index" \in Stored
    BY DEF Stored
  <2>5. ASSUME NEW c \in Caller PROVE
          /\ job[c].id \in 0..calls /\ (Free(c) => job[c] = NoJob)
          /\ opened[c] # Absent => opened[c] \in Place \cup Scratch /\ slot[opened[c]] # Absent
    <3>1. Free(c) => job[c] = NoJob
      BY <2>1 DEF Jobs, CallOK, Free
    <3>2. calls \in Nat
      BY <2>1, Constants DEF Typed
    <3>3. job[c].id \in 0..calls
      BY <2>1, <3>1, <3>2 DEF Jobs, NoJob
    <3> QED
      BY <3>1, <3>3, OpenedTyped
  <2>6. DOMAIN slot = Place \cup Scratch /\ topic \in DOMAIN Kinds /\ calls \in 0..CallsMade /\ trouble \in 0..TroubleLimit
        /\ met \subseteq Caller /\ overtaken \subseteq Caller
    BY <2>1 DEF Typed, Overtaking
  <2>7. \A c \in Caller : c \in overtaken => CallDoes(c, "fill")
    BY DEF Overtaking
  <2> QED
    BY <2>2, <2>3, <2>4, <2>5, <2>6, <2>7 DEF StoreTypeOK, Fits
<1>2. Shape /\ Overtaking /\ [StoreNext]_storeVars => Overtaking'
  BY OvertakingStep
<1> QED
  BY <1>1, <1>2, OvertakingInit, ShapeHolds, PTL DEF StoreSpec

-----------------------------------------------------------------------------
(* Torn files.                                                              *)

LEMMA TornsKeep ==
  ASSUME Shape, Torns, NEW c \in Caller, \A d \in Caller \ {c} : job'[d] = job[d], notes \subseteq notes',
         \A d \in Caller \ {c} : opened'[d] = opened[d] \/ (opened[d] \in Place /\ slot'[opened[d]] # Torn),
         \A p \in Place \cup Scratch : slot'[p] = Torn => slot[p] = Torn,
         ~CallDoes(c, "fill") \/ <<"trouble", 0>> \in notes',
         job'[c].tmp \in {Absent, job[c].tmp}, ~CallDoes(c, "fill")', ~CallDoes(c, "rename")'
  PROVE  Torns'
<1>1. \A d \in Caller \ {c} : (\A x : CallDoes(d, x)' <=> CallDoes(d, x)) /\ On(d)' = On(d) /\ job'[d].tmp = job[d].tmp
  BY SameCall
<1>2. \A n \in Names : PlaceOf(n) \in Place
  BY Places
<1>3. \A d \in Caller : job[d].tmp \in Scratch \cup {Absent}
  BY DEF Shape, Typed, Call
<1>4. ASSUME NEW p \in Place \cup Scratch, slot'[p] = Torn, <<"trouble", 0>> \notin notes',
             p # PlaceOf("salt") => <<"collision", 0>> \notin notes'
      PROVE  \E d \in Caller : opened'[d] = p /\ CallDoes(d, "fill")'
  <2>1. slot[p] = Torn /\ ~Noted("trouble") /\ (p # PlaceOf("salt") => ~Noted("collision"))
    BY <1>4 DEF Noted
  <2>2. PICK d \in Caller : opened[d] = p /\ CallDoes(d, "fill")
    BY <2>1 DEF Torns
  <2>3. d # c
    BY <1>4, <2>2
  <2> QED
    BY <1>1, <1>4, <2>2, <2>3
<1>5. ASSUME NEW n \in Names, Held(n)' = Torn PROVE n = "salt" \/ <<"collision", 0>> \in notes'
  BY <1>2, <1>5 DEF Torns, Held, Noted
<1>6. ASSUME NEW d \in Caller, NEW e \in Caller, d # e, job'[d].tmp = job'[e].tmp, job'[d].tmp # Absent
      PROVE  <<"collision", 0>> \in notes'
  <2>1. job[d].tmp = job[e].tmp /\ job[d].tmp # Absent
    BY <1>1, <1>6
  <2> QED
    BY <2>1, <1>6 DEF Torns, Noted
<1>7. ASSUME NEW d \in Caller PROVE
        /\ CallDoes(d, "rename")' /\ slot'[job'[d].tmp] = Torn => <<"collision", 0>> \in notes'
        /\ CallDoes(d, "fill")' /\ On(d)' # "salt" /\ opened'[d] # job'[d].tmp => <<"collision", 0>> \in notes'
  <2>1. CASE d = c
    BY <2>1
  <2>2. CASE d # c
    <3>1. HandsOK(d)
      BY DEF Shape, Jobs
    <3>2. CallDoes(d, "rename") => job[d].tmp \in Scratch
      BY <3>1 DEF HandsOK
    <3>3. CallDoes(d, "rename") /\ slot'[job[d].tmp] = Torn => <<"collision", 0>> \in notes'
      BY <3>2 DEF Torns, Noted
    <3>4. CallDoes(d, "fill") /\ On(d) # "salt" /\ opened'[d] # job[d].tmp => opened[d] # job[d].tmp
      BY <2>2, <1>3, Places, Constants
    <3> QED
      BY <1>1, <2>2, <3>3, <3>4 DEF Torns, Noted
  <2> QED
    BY <2>1, <2>2
<1> QED
  BY <1>4, <1>5, <1>6, <1>7 DEF Torns, Noted

LEMMA TornsOpen == ASSUME Shape, Torns, NEW c \in Caller, OpenTemporary(c) PROVE Torns'
<1>1. PICK t \in Scratch :
         /\ CallDoes(c, "open") /\ ~Free(c) /\ Moves(c) /\ t[1] = On(c) /\ On(c) # "salt" /\ opened[c] = Absent
         /\ job'[c].tmp = t
         /\ CallDoes(c, "fill")' /\ On(c)' = On(c)
         /\ opened'[c] = t /\ \A d \in Caller \ {c} : opened'[d] = opened[d]
         /\ slot'[t] = Torn /\ \A o \in Place \cup Scratch : o # t => slot'[o] = slot[o]
         /\ notes \subseteq notes'
         /\ slot[t] # Absent \/ (\E d \in Caller \ {c} : job[d].tmp = t) => <<"collision", 0>> \in notes'
  BY OpenFacts
<1>2. \A d \in Caller \ {c} : /\ job'[d] = job[d] /\ (\A x : CallDoes(d, x)' <=> CallDoes(d, x))
                              /\ On(d)' = On(d) /\ job'[d].tmp = job[d].tmp
  BY <1>1, MovesOthers, SameCall
<1>3. \A n \in Names : PlaceOf(n) \in Place
  BY Places
<1>4. t \notin Place /\ t # Absent
  BY <1>1, Places
<1>5. ASSUME NEW p \in Place \cup Scratch, slot'[p] = Torn, <<"trouble", 0>> \notin notes',
             p # PlaceOf("salt") => <<"collision", 0>> \notin notes'
      PROVE  \E d \in Caller : opened'[d] = p /\ CallDoes(d, "fill")'
  <2>1. CASE p = t
    BY <1>1, <2>1
  <2>2. CASE p # t
    <3>1. PICK d \in Caller : opened[d] = p /\ CallDoes(d, "fill")
      BY <1>1, <1>5, <2>2 DEF Torns, Noted
    <3>2. d # c
      BY <1>1, <3>1, OneThing
    <3> QED
      BY <1>1, <1>2, <3>1, <3>2
  <2> QED
    BY <2>1, <2>2
<1>6. ASSUME NEW n \in Names, Held(n)' = Torn PROVE n = "salt" \/ <<"collision", 0>> \in notes'
  BY <1>1, <1>3, <1>4, <1>6 DEF Torns, Held, Noted
<1>7. ASSUME NEW d \in Caller, NEW e \in Caller, d # e, job'[d].tmp = job'[e].tmp, job'[d].tmp # Absent
      PROVE  <<"collision", 0>> \in notes'
  <2>1. CASE d = c
    BY <1>1, <1>2, <1>7, <2>1
  <2>2. CASE e = c
    BY <1>1, <1>2, <1>7, <2>2
  <2>3. CASE d # c /\ e # c
    BY <1>1, <1>2, <1>7, <2>3 DEF Torns, Noted
  <2> QED
    BY <2>1, <2>2, <2>3
<1>8. ASSUME NEW d \in Caller PROVE
        /\ CallDoes(d, "rename")' /\ slot'[job'[d].tmp] = Torn => <<"collision", 0>> \in notes'
        /\ CallDoes(d, "fill")' /\ On(d)' # "salt" /\ opened'[d] # job'[d].tmp => <<"collision", 0>> \in notes'
  <2>1. CASE d = c
    <3>1. ~CallDoes(c, "rename")'
      BY <1>1 DEF CallDoes
    <3> QED
      BY <1>1, <2>1, <3>1
  <2>2. CASE d # c
    <3>1. HandsOK(d)
      BY DEF Shape, Jobs
    <3>2. CallDoes(d, "rename") => job[d].tmp \in Scratch
      BY <3>1 DEF HandsOK
    <3>3. CallDoes(d, "rename") /\ slot'[job[d].tmp] = Torn => <<"collision", 0>> \in notes'
      BY <1>1, <2>2, <3>2 DEF Torns, Noted
    <3> QED
      BY <1>1, <1>2, <2>2, <3>3 DEF Torns, Noted
  <2> QED
    BY <2>1, <2>2
<1> QED
  BY <1>5, <1>6, <1>7, <1>8 DEF Torns, Noted

LEMMA TornsFill == ASSUME Shape, Overtaking, Collided, Torns, NEW c \in Caller, Fill(c) PROVE Torns'
<1>1. /\ CallDoes(c, "fill") /\ Moves(c) /\ notes' = notes /\ On(c) \in Names
      /\ Current(job[c]).value \notin {Absent, Torn}
      /\ opened'[c] = Absent /\ \A d \in Caller \ {c} : opened'[d] = opened[d]
      /\ opened[c] # Absent => /\ opened[c][1] = On(c)
                               /\ \/ slot'[opened[c]] = Current(job[c]).value
                                  \/ c \in overtaken /\ slot'[opened[c]] = Torn
      /\ \A o \in Place \cup Scratch : o # opened[c] => slot'[o] = slot[o]
      /\ On(c) # "salt" => CallDoes(c, "rename")' /\ job[c].tmp \in Scratch
      /\ On(c) = "salt" => CallDoes(c, "key")'
      /\ job'[c].tmp = job[c].tmp
  BY FillFacts
<1>2. \A d \in Caller \ {c} : /\ job'[d] = job[d] /\ (\A x : CallDoes(d, x)' <=> CallDoes(d, x))
                              /\ On(d)' = On(d) /\ job'[d].tmp = job[d].tmp
  BY <1>1, MovesOthers, SameCall
<1>3. \A n \in Names : PlaceOf(n) \in Place
  BY Places
<1>4. \A p \in Place \cup Scratch : slot'[p] = Torn =>
         \/ slot[p] = Torn /\ p # opened[c]
         \/ <<"collision", 0>> \in notes' /\ p # PlaceOf("salt")
  <2>1. c \in overtaken => <<"collision", 0>> \in notes' /\ On(c) # "salt"
    BY <1>1 DEF Overtaking, Collided, Noted
  <2>2. PlaceOf("salt")[1] = "salt"
    BY DEF PlaceOf
  <2> QED
    BY <1>1, <2>1, <2>2, Places
<1>5. ASSUME NEW p \in Place \cup Scratch, slot'[p] = Torn, <<"trouble", 0>> \notin notes',
             p # PlaceOf("salt") => <<"collision", 0>> \notin notes'
      PROVE  \E d \in Caller : opened'[d] = p /\ CallDoes(d, "fill")'
  <2>1. PICK d \in Caller : opened[d] = p /\ CallDoes(d, "fill")
    BY <1>1, <1>4, <1>5 DEF Torns, Noted
  <2>2. d # c
    BY <1>4, <1>5, <2>1
  <2> QED
    BY <1>1, <1>2, <2>1, <2>2
<1>6. ASSUME NEW n \in Names, Held(n)' = Torn PROVE n = "salt" \/ <<"collision", 0>> \in notes'
  BY <1>1, <1>3, <1>4, <1>6 DEF Torns, Held, Noted
<1>7. ASSUME NEW d \in Caller, NEW e \in Caller, d # e, job'[d].tmp = job'[e].tmp, job'[d].tmp # Absent
      PROVE  <<"collision", 0>> \in notes'
  <2>1. job[d].tmp = job[e].tmp /\ job[d].tmp # Absent
    BY <1>1, <1>2, <1>7
  <2> QED
    BY <1>1, <1>7, <2>1 DEF Torns, Noted
<1>8. ASSUME NEW d \in Caller PROVE
        /\ CallDoes(d, "rename")' /\ slot'[job'[d].tmp] = Torn => <<"collision", 0>> \in notes'
        /\ CallDoes(d, "fill")' /\ On(d)' # "salt" /\ opened'[d] # job'[d].tmp => <<"collision", 0>> \in notes'
  <2>1. CASE d = c
    <3>1. ~CallDoes(c, "fill")'
      BY <1>1 DEF CallDoes
    <3>2. CASE On(c) = "salt"
      <4>1. ~CallDoes(c, "rename")'
        BY <1>1, <3>2 DEF CallDoes
      <4> QED
        BY <2>1, <3>1, <4>1
    <3>3. CASE On(c) # "salt"
      <4>1. slot'[job[c].tmp] = Torn => job[c].tmp # opened[c] \/ <<"collision", 0>> \in notes'
        BY <1>1, <1>4, <3>3
      <4>2. job[c].tmp # opened[c] => <<"collision", 0>> \in notes'
        BY <1>1, <3>3 DEF Torns, Noted
      <4> QED
        BY <1>1, <2>1, <3>1, <4>1, <4>2
    <3> QED
      BY <3>2, <3>3
  <2>2. CASE d # c
    <3>1. HandsOK(d)
      BY DEF Shape, Jobs
    <3>2. CallDoes(d, "rename") => job[d].tmp \in Scratch
      BY <3>1 DEF HandsOK
    <3>3. CallDoes(d, "rename") /\ slot'[job[d].tmp] = Torn => <<"collision", 0>> \in notes'
      BY <1>1, <1>4, <3>2 DEF Torns, Noted
    <3> QED
      BY <1>1, <1>2, <2>2, <3>3 DEF Torns, Noted
  <2> QED
    BY <2>1, <2>2
<1> QED
  BY <1>5, <1>6, <1>7, <1>8 DEF Torns, Noted

LEMMA TornsSalt == ASSUME Shape, Torns, NEW c \in Caller, Salt(c), Held("salt") = Absent PROVE Torns'
<1> DEFINE p0 == PlaceOf("salt")
<1>1. /\ CallDoes(c, "salt") /\ Moves(c) /\ notes' = notes /\ job'[c].tmp = job[c].tmp
      /\ CallDoes(c, "fill")' /\ On(c)' = "salt" /\ ~CallDoes(c, "rename")'
      /\ slot'[p0] = Torn /\ \A o \in Place \cup Scratch : o # p0 => slot'[o] = slot[o]
      /\ opened'[c] = p0 /\ \A d \in Caller \ {c} : opened'[d] = opened[d]
  BY SaltFacts
<1>2. \A d \in Caller \ {c} : /\ job'[d] = job[d] /\ (\A x : CallDoes(d, x)' <=> CallDoes(d, x))
                              /\ On(d)' = On(d) /\ job'[d].tmp = job[d].tmp
  BY <1>1, MovesOthers, SameCall
<1>3. \A n \in Names : PlaceOf(n) \in Place /\ (PlaceOf(n) = p0 => n = "salt")
  BY Places, SaltThere
<1>4. p0 \in Place
  BY SaltThere
<1> HIDE DEF p0
<1>5. ASSUME NEW p \in Place \cup Scratch, slot'[p] = Torn, <<"trouble", 0>> \notin notes',
             p # PlaceOf("salt") => <<"collision", 0>> \notin notes'
      PROVE  \E d \in Caller : opened'[d] = p /\ CallDoes(d, "fill")'
  <2>1. CASE p = p0
    BY <1>1, <2>1
  <2>2. CASE p # p0
    <3>1. PICK d \in Caller : opened[d] = p /\ CallDoes(d, "fill")
      BY <1>1, <1>5, <2>2 DEF Torns, Noted
    <3>2. d # c
      BY <1>1, <3>1, OneThing
    <3> QED
      BY <1>1, <1>2, <3>1, <3>2
  <2> QED
    BY <2>1, <2>2
<1>6. ASSUME NEW n \in Names, Held(n)' = Torn PROVE n = "salt" \/ <<"collision", 0>> \in notes'
  BY <1>1, <1>3, <1>6 DEF Torns, Held, Noted
<1>7. ASSUME NEW d \in Caller, NEW e \in Caller, d # e, job'[d].tmp = job'[e].tmp, job'[d].tmp # Absent
      PROVE  <<"collision", 0>> \in notes'
  <2>1. job[d].tmp = job[e].tmp /\ job[d].tmp # Absent
    BY <1>1, <1>2, <1>7
  <2> QED
    BY <1>1, <1>7, <2>1 DEF Torns, Noted
<1>8. ASSUME NEW d \in Caller PROVE
        /\ CallDoes(d, "rename")' /\ slot'[job'[d].tmp] = Torn => <<"collision", 0>> \in notes'
        /\ CallDoes(d, "fill")' /\ On(d)' # "salt" /\ opened'[d] # job'[d].tmp => <<"collision", 0>> \in notes'
  <2>1. CASE d = c
    BY <1>1, <2>1
  <2>2. CASE d # c
    <3>1. HandsOK(d)
      BY DEF Shape, Jobs
    <3>2. CallDoes(d, "rename") => job[d].tmp \in Scratch
      BY <3>1 DEF HandsOK
    <3>3. CallDoes(d, "rename") /\ slot'[job[d].tmp] = Torn => <<"collision", 0>> \in notes'
      BY <1>1, <1>4, <3>2, Places DEF Torns, Noted
    <3> QED
      BY <1>1, <1>2, <2>2, <3>3 DEF Torns, Noted
  <2> QED
    BY <2>1, <2>2
<1> QED
  BY <1>5, <1>6, <1>7, <1>8 DEF Torns, Noted

LEMMA TornsRename ==
  ASSUME Shape, Torns, NEW c \in Caller, PutInPlace(c), slot[job[c].tmp] # Absent PROVE Torns'
<1> DEFINE n0 == On(c)
           t == job[c].tmp
           p0 == PlaceOf(n0)
<1>1. /\ CallDoes(c, "rename") /\ n0 \in Names /\ n0 # "salt"
      /\ p0 \in Place /\ t \in Scratch /\ t # p0 /\ t[1] = n0 /\ opened[c] = Absent /\ opened'[c] = Absent
      /\ slot'[p0] = slot[t] /\ slot'[t] = Absent
      /\ \A o \in Place \cup Scratch : o \notin {p0, t} => slot'[o] = slot[o]
      /\ opened' = [d \in Caller |-> IF opened[d] = t THEN p0 ELSE IF opened[d] = p0 THEN Absent ELSE opened[d]]
      /\ Moves(c) /\ Starts(job'[c].at) /\ job'[c].tmp \in {Absent, t} /\ notes' = notes
  BY RenameDone
<1>2. \A d \in Caller \ {c} : /\ job'[d] = job[d] /\ (\A x : CallDoes(d, x)' <=> CallDoes(d, x))
                              /\ On(d)' = On(d) /\ job'[d].tmp = job[d].tmp
  BY <1>1, MovesOthers, SameCall
<1>3. \A n \in Names : PlaceOf(n) \in Place /\ (PlaceOf(n) = p0 => n = n0)
  BY <1>1, Places
<1>4. ~CallDoes(c, "fill")' /\ ~CallDoes(c, "rename")'
  BY <1>1, Started
<1>5. slot[t] = Torn => Noted("collision")
  BY <1>1 DEF Torns
<1>6. Torn # Absent
  BY Constants
<1> HIDE DEF t, p0, n0
<1>7. ASSUME NEW p \in Place \cup Scratch, slot'[p] = Torn, <<"trouble", 0>> \notin notes',
             p # PlaceOf("salt") => <<"collision", 0>> \notin notes'
      PROVE  \E d \in Caller : opened'[d] = p /\ CallDoes(d, "fill")'
  <2>1. CASE p = p0
    <3>1. p0 # PlaceOf("salt")
      BY <1>1, <1>3, SaltThere
    <3>2. <<"collision", 0>> \in notes'
      BY <1>1, <1>5, <2>1, <1>7 DEF Noted
    <3> QED
      BY <1>7, <2>1, <3>1, <3>2
  <2>2. CASE p # p0
    <3>1. p # t /\ slot[p] = Torn
      BY <1>1, <1>6, <1>7, <2>2
    <3>2. PICK d \in Caller : opened[d] = p /\ CallDoes(d, "fill")
      BY <1>1, <1>7, <3>1 DEF Torns, Noted
    <3>3. d # c
      BY <1>1, <3>2, OneThing
    <3> QED
      BY <1>1, <1>2, <2>2, <3>1, <3>2, <3>3
  <2> QED
    BY <2>1, <2>2
<1>8. ASSUME NEW n \in Names, Held(n)' = Torn PROVE n = "salt" \/ <<"collision", 0>> \in notes'
  <2>1. CASE PlaceOf(n) = p0
    BY <1>1, <1>5, <1>8, <2>1 DEF Held, Noted
  <2>2. CASE PlaceOf(n) # p0
    <3>1. PlaceOf(n) # t
      BY <1>1, <1>6, <1>8 DEF Held
    <3> QED
      BY <1>1, <1>3, <1>8, <2>2, <3>1 DEF Torns, Held, Noted
  <2> QED
    BY <2>1, <2>2
<1>9. ASSUME NEW d \in Caller, NEW e \in Caller, d # e, job'[d].tmp = job'[e].tmp, job'[d].tmp # Absent
      PROVE  <<"collision", 0>> \in notes'
  <2>1. job[d].tmp = job[e].tmp /\ job[d].tmp # Absent
    BY <1>1, <1>2, <1>9 DEF t
  <2> QED
    BY <1>1, <1>9, <2>1 DEF Torns, Noted
<1>10. ASSUME NEW d \in Caller PROVE
        /\ CallDoes(d, "rename")' /\ slot'[job'[d].tmp] = Torn => <<"collision", 0>> \in notes'
        /\ CallDoes(d, "fill")' /\ On(d)' # "salt" /\ opened'[d] # job'[d].tmp => <<"collision", 0>> \in notes'
  <2>1. CASE d = c
    BY <1>4, <2>1
  <2>2. CASE d # c
    <3>1. HandsOK(d) /\ job[d].tmp \in Scratch \cup {Absent}
      BY DEF Shape, Jobs, Typed, Call
    <3>2. CallDoes(d, "rename") => job[d].tmp \in Scratch
      BY <3>1 DEF HandsOK
    <3>3. \A o \in Scratch : o \notin Place /\ o # Absent
      BY Places
    <3>4. CallDoes(d, "rename") /\ slot'[job[d].tmp] = Torn => <<"collision", 0>> \in notes'
      BY <1>1, <1>6, <3>2, <3>3 DEF Torns, Noted
    <3>5. CASE opened[d] = t
      <4>1. job[d].tmp = t => <<"collision", 0>> \in notes'
        BY <1>1, <2>2, <3>3 DEF Torns, Noted, t
      <4>2. CallDoes(d, "fill") /\ On(d) # "salt" /\ job[d].tmp # t => <<"collision", 0>> \in notes'
        BY <1>1, <3>5 DEF Torns, Noted
      <4> QED
        BY <1>2, <2>2, <3>4, <4>1, <4>2
    <3>6. CASE opened[d] # t
      <4>1. opened'[d] = opened[d] \/ opened[d] = p0
        BY <1>1, <2>2, <3>6
      <4>2. opened[d] = p0 => opened[d] # job[d].tmp
        BY <1>1, <3>1, <3>3, Places
      <4> QED
        BY <1>1, <1>2, <2>2, <3>4, <4>1, <4>2 DEF Torns, Noted
    <3> QED
      BY <3>5, <3>6
  <2> QED
    BY <2>1, <2>2
<1> QED
  BY <1>7, <1>8, <1>9, <1>10 DEF Torns, Noted

LEMMA TornsQuiet == ASSUME Shape, Torns, NEW c \in Caller, Quiet(c) PROVE Torns'
<1>1. /\ Moves(c) /\ Starts(job'[c].at) /\ ~CallDoes(c, "fill") /\ UNCHANGED <<slot, opened, notes>>
      /\ job'[c].tmp \in {Absent, job[c].tmp}
  BY QuietFacts
<1>2. (\A d \in Caller \ {c} : job'[d] = job[d]) /\ ~CallDoes(c, "fill")' /\ ~CallDoes(c, "rename")'
  BY <1>1, MovesOthers, Started
<1> QED
  BY <1>1, <1>2, TornsKeep

LEMMA TornsRemove == ASSUME Shape, Torns, NEW c \in Caller, Removes(c) PROVE Torns'
<1> DEFINE p == PlaceOf(On(c))
<1>1. /\ Moves(c) /\ Starts(job'[c].at) /\ p \in Place
      /\ ~CallDoes(c, "fill")
      /\ slot'[p] = Absent /\ \A o \in Place \cup Scratch : o # p => slot'[o] = slot[o]
      /\ opened' = [d \in Caller |-> IF opened[d] = p THEN Absent ELSE opened[d]]
      /\ job'[c].tmp \in {Absent, job[c].tmp}
  BY RemoveFacts
<1>2. (\A d \in Caller \ {c} : job'[d] = job[d]) /\ ~CallDoes(c, "fill")' /\ ~CallDoes(c, "rename")'
  BY <1>1, MovesOthers, Started
<1>3. notes \subseteq notes'
  BY DEF Removes, Drop, EraseFile
<1>4. Absent # Torn
  BY Constants
<1> HIDE DEF p
<1>5. \A q \in Place \cup Scratch : slot'[q] = Torn => slot[q] = Torn
  BY <1>1, <1>4
<1>6. \A d \in Caller \ {c} : opened'[d] = opened[d] \/ (opened[d] \in Place /\ slot'[opened[d]] # Torn)
  BY <1>1, <1>4
<1> QED
  BY <1>1, <1>2, <1>3, <1>5, <1>6, TornsKeep

LEMMA TornsCut == ASSUME Shape, Torns, NEW c \in Caller, Cut(c) PROVE Torns'
<1>1. /\ Moves(c) /\ Starts(job'[c].at) /\ slot' = Left(c) /\ opened' = [opened EXCEPT ![c] = Absent]
      /\ notes' = notes \cup {<<"trouble", 0>>} /\ job'[c].tmp \in {Absent, job[c].tmp}
  BY CutFacts
<1>2. (\A d \in Caller \ {c} : job'[d] = job[d]) /\ ~CallDoes(c, "fill")' /\ ~CallDoes(c, "rename")'
  BY <1>1, MovesOthers, Started
<1>3. /\ \A d \in Caller \ {c} : opened'[d] = opened[d]
      /\ \A p \in Place : slot'[p] = slot[p]
      /\ \A t \in Scratch : slot'[t] \in {slot[t], Absent}
  BY <1>1, LeftFacts
<1>4. Absent # Torn
  BY Constants
<1>5. \A q \in Place \cup Scratch : slot'[q] = Torn => slot[q] = Torn
  BY <1>3, <1>4
<1> QED
  BY <1>1, <1>2, <1>3, <1>5, TornsKeep

LEMMA TornsEvents == ASSUME Shape, Torns, NEW c \in Caller, OpenEvents(c) \/ WriteEvent(c) PROVE Torns'
<1> DEFINE p == PlaceOf("events")
<1>1. /\ Moves(c) /\ ~CallDoes(c, "fill") /\ notes \subseteq notes' /\ job'[c].tmp \in {Absent, job[c].tmp}
      /\ \A o \in Place \cup Scratch : o # p => slot'[o] = slot[o]
      /\ (CallDoes(c, "write")' \/ Starts(job'[c].at))
      /\ slot'[p] = Torn => slot[p] = Torn
  <2>1. CASE OpenEvents(c)
    <3>1. <<>> # Torn
      <4>1. <<>> \in Value("events") /\ Torn \notin Value("events")
        <5>1. <<>> \in Seq(Event)
          OBVIOUS
        <5> QED
          BY <5>1, ValueOf, SaltThere, Constants
      <4> QED
        BY <4>1
    <3> QED
      BY <2>1, <3>1, EventsFacts DEF Held
  <2>2. CASE WriteEvent(c)
    <3> DEFINE e == [id |-> job[c].id, kind |-> job[c].kind, of |-> Current(job[c]).value, key |-> job[c].key]
    <3>1. \/ slot'[p] = slot[p]
          \/ Held("events") \in Seq(Event) /\ e \in Event /\ slot'[p] = Append(Held("events"), e)
      BY <2>2, WriteFacts
    <3> HIDE DEF e
    <3>2. slot'[p] = slot[p] \/ slot'[p] \in Seq(Event)
      BY <3>1
    <3>3. Torn \notin Seq(Event)
      BY ValueOf, SaltThere, Constants
    <3> QED
      BY <2>2, <3>2, <3>3, WriteFacts
  <2> QED
    BY <2>1, <2>2
<1>2. opened' = [opened EXCEPT ![c] = opened'[c]] /\ opened \in [Caller -> Place \cup Scratch \cup {Absent}]
  BY OpenedTyped DEF OpenEvents, WriteEvent
<1>3. \A d \in Caller \ {c} : opened'[d] = opened[d]
  BY <1>2
<1>4. (\A d \in Caller \ {c} : job'[d] = job[d]) /\ ~CallDoes(c, "fill")' /\ ~CallDoes(c, "rename")'
  <2>1. CallDoes(c, "write")' => ~CallDoes(c, "fill")' /\ ~CallDoes(c, "rename")'
    BY DEF CallDoes
  <2> QED
    BY <1>1, <2>1, MovesOthers, Started
<1> HIDE DEF p
<1>5. \A q \in Place \cup Scratch : slot'[q] = Torn => slot[q] = Torn
  BY <1>1
<1> QED
  BY <1>1, <1>3, <1>4, <1>5, TornsKeep

LEMMA TornsBegin == ASSUME Shape, Torns, NEW c \in Caller, BeginCall(c) PROVE Torns'
<1>1. Free(c) /\ UNCHANGED <<slot, opened>> /\ notes \subseteq notes'
  BY BeginMoves DEF BeginCall
<1>2. PICK kind \in Kinds[topic], arg \in Nat \cup SourceKey \cup Report :
         /\ job' = [job EXCEPT ![c] = NewCall(c, kind, arg)] /\ job'[c] = NewCall(c, kind, arg)
         /\ Starts(job'[c].at)
  BY BeginMoves
<1>3. \A d \in Caller \ {c} : job'[d] = job[d]
  BY <1>2 DEF Shape, Typed
<1>4. job'[c].tmp = Absent
  BY <1>2 DEF NewCall
<1>5. ~CallDoes(c, "fill") /\ ~CallDoes(c, "fill")' /\ ~CallDoes(c, "rename")'
  BY <1>1, <1>2, Started DEF CallDoes
<1> QED
  BY <1>1, <1>3, <1>4, <1>5, TornsKeep

LEMMA TornsStep == ASSUME Shape, Overtaking, Collided, Torns, [StoreNext]_storeVars PROVE Torns'
<1>1. ASSUME UNCHANGED <<slot, job, opened, notes>> PROVE Torns'
  BY <1>1 DEF Torns, Noted, Held, CallDoes, Free, On, Current
<1>2. CASE UNCHANGED storeVars
  BY <1>1, <1>2 DEF storeVars
<1>3. CASE Review
  BY <1>1, <1>3 DEF Review
<1>4. ASSUME NEW c \in Caller, EraseFile(c) PROVE Torns'
  <2>1. CASE Held(On(c)) # Absent
    BY <1>4, <2>1, TornsRemove DEF Removes
  <2>2. CASE Held(On(c)) = Absent
    <3>1. CallDoes(c, "unlink") /\ ~Free(c) /\ CallFails(c) /\ UNCHANGED <<slot, opened, notes>>
      BY <1>4, <2>2 DEF EraseFile, Held, CallDoes
    <3>2. ~CallDoes(c, "fill")
      BY <3>1, OneThing
    <3>3. Moves(c) /\ Starts(job'[c].at) /\ job'[c].tmp \in {Absent, job[c].tmp}
      BY <3>1, FailStarts, FailTmp, NoTmp
    <3>4. (\A d \in Caller \ {c} : job'[d] = job[d]) /\ ~CallDoes(c, "fill")' /\ ~CallDoes(c, "rename")'
      BY <3>3, MovesOthers, Started
    <3> QED
      BY <3>1, <3>2, <3>3, <3>4, TornsKeep
  <2> QED
    BY <2>1, <2>2
<1>5. ASSUME NEW c \in Caller, PutInPlace(c) PROVE Torns'
  <2>1. CASE slot[job[c].tmp] # Absent
    BY <1>5, <2>1, TornsRename
  <2>2. CASE slot[job[c].tmp] = Absent
    <3>1. CallDoes(c, "rename") /\ ~Free(c) /\ CallFails(c) /\ UNCHANGED <<slot, opened, notes>>
      BY <1>5, <2>2 DEF PutInPlace, CallDoes
    <3>2. ~CallDoes(c, "fill")
      BY <3>1, OneThing
    <3>3. Moves(c) /\ Starts(job'[c].at) /\ job'[c].tmp \in {Absent, job[c].tmp}
      BY <3>1, FailStarts, FailTmp, NoTmp
    <3>4. (\A d \in Caller \ {c} : job'[d] = job[d]) /\ ~CallDoes(c, "fill")' /\ ~CallDoes(c, "rename")'
      BY <3>3, MovesOthers, Started
    <3> QED
      BY <3>1, <3>2, <3>3, <3>4, TornsKeep
  <2> QED
    BY <2>1, <2>2
<1>6. ASSUME NEW c \in Caller, Salt(c) PROVE Torns'
  <2>1. CASE Held("salt") = Absent
    BY <1>6, <2>1, TornsSalt
  <2>2. CASE Held("salt") # Absent
    <3>1. /\ CallDoes(c, "salt") /\ Moves(c) /\ notes' = notes /\ job'[c].tmp = job[c].tmp
          /\ Starts(job'[c].at) /\ UNCHANGED <<slot, opened>>
      BY <1>6, <2>2, SaltFacts
    <3>2. ~CallDoes(c, "fill")
      BY <3>1, OneThing
    <3>3. (\A d \in Caller \ {c} : job'[d] = job[d]) /\ ~CallDoes(c, "fill")' /\ ~CallDoes(c, "rename")'
      BY <3>1, MovesOthers, Started
    <3> QED
      BY <3>1, <3>2, <3>3, TornsKeep
  <2> QED
    BY <2>1, <2>2
<1>7. ASSUME NEW c \in Caller,
             \/ BeginCall(c) \/ Read(c) \/ Decline(c) \/ OpenTemporary(c) \/ Fill(c) \/ PutInPlace(c) \/ Drop(c)
             \/ Salt(c) \/ Key(c) \/ OpenEvents(c) \/ WriteEvent(c) \/ CheckReviewed(c) \/ EraseFile(c)
             \/ Trouble(c) \/ CallerDies(c)
      PROVE  Torns'
  BY <1>4, <1>5, <1>6, <1>7, TornsBegin, TornsQuiet, TornsOpen, TornsFill, TornsRemove, TornsEvents, TornsCut
     DEF Quiet, Cut, Removes
<1> QED
  BY <1>2, <1>3, <1>7 DEF StoreNext

(* Who writes to a file that another has open shares its temporary name, or *)
(* finds it renamed.                                                        *)
LEMMA CollidedMove ==
  ASSUME Shape, Torns, NEW c \in Caller, Moving(c), NEW d \in Behind(c) PROVE Noted("collision")
<1>1. /\ d \in Caller /\ d # c /\ opened[d] = opened[c] /\ opened[d] # Absent
      /\ CallDoes(d, "fill") /\ On(d) # "salt"
  BY DEF Behind
<1>2. CASE opened[d] # job[d].tmp
  BY <1>1, <1>2 DEF Torns
<1>3. CASE opened[d] = job[d].tmp
  <2>1. job[d].tmp \in Scratch
    <3>1. HandsOK(d)
      BY <1>1 DEF Shape, Jobs
    <3> QED
      BY <1>1, <3>1 DEF HandsOK
  <2>2. opened[c] = PlaceOf(On(c)) \/ opened[c] = job[c].tmp
    BY <1>1, InHand
  <2>3. ~Free(c) /\ On(c) \in Names
    BY MovingMoves, AtWork
  <2>4. opened[c] # PlaceOf(On(c))
    BY <1>1, <1>3, <2>1, <2>3, Places
  <2> QED
    BY <1>1, <1>3, <2>2, <2>4 DEF Torns
<1> QED
  BY <1>2, <1>3

LEMMA CollidedStep == ASSUME Shape, Overtaking, Torns, Collided, [StoreNext]_storeVars PROVE Collided'
<1>1. CASE UNCHANGED storeVars \/ Review
  BY <1>1 DEF storeVars, Review, Collided, Noted
<1>2. ASSUME NEW c \in Caller, BeginCall(c) PROVE Collided'
  BY <1>2 DEF BeginCall, Collided, Noted
<1>3. ASSUME NEW c \in Caller, Moving(c) PROVE Collided'
  <2>1. notes \subseteq notes'
    BY <1>3, NotesKept
  <2>2. overtaken' \subseteq overtaken \cup Behind(c)
    BY <1>3, OvertakenMove
  <2>3. Behind(c) # {} => Noted("collision")
    BY <1>3, CollidedMove
  <2> QED
    BY <2>1, <2>2, <2>3 DEF Collided, Noted
<1> QED
  BY <1>1, <1>2, <1>3, NextCases

LEMMA TornsInit == StoreInit => Torns /\ Collided
<1> SUFFICES ASSUME StoreInit PROVE Torns /\ Collided
  OBVIOUS
<1>1. \A c \in Caller : Free(c) /\ job[c].tmp = Absent
  BY DEF StoreInit, NoJob, Free
<1>2. \A p \in Place \cup Scratch : slot[p] # Torn
  BY Constants DEF StoreInit
<1>3. \A n \in Names : Held(n) # Torn
  BY <1>2, Places DEF Held
<1> QED
  BY <1>1, <1>2, <1>3 DEF Torns, Collided, StoreInit, CallDoes

(* A file is torn only while it is being written, after a failure, or      *)
(* where two calls have written to one temporary file, which may leave the *)
(* end of the longer content after the shorter; the salt never for the     *)
(* last reason, and any other file for it only (writeFile and rename in    *)
(* every store).                                                           *)
THEOREM TornsHolds == StoreSpec => []Torns
<1> DEFINE I == Shape /\ Overtaking /\ Collided /\ Torns
<1>1. I /\ [StoreNext]_storeVars => I'
  BY ShapeStep, OvertakingStep, CollidedStep, TornsStep
<1>2. StoreInit => I
  BY ShapeInit, OvertakingInit, TornsInit
<1>3. I => Torns
  OBVIOUS
<1> QED
  BY <1>1, <1>2, <1>3, PTL DEF StoreSpec

-----------------------------------------------------------------------------
(* Erasing for good.                                                       *)

(* Who runs beside another on the same files is known to have met it.      *)
Meetings ==
    \A c, d \in Caller : c # d /\ ~Free(c) /\ ~Free(d) /\ Files(job[c].kind) \cap Files(job[d].kind) # {} =>
        c \in met

-----------------------------------------------------------------------------
(* Calls that meet.                                                         *)

LEMMA MeetingsMove == ASSUME Shape, Meetings, NEW a \in Caller, ~Free(a), Moves(a) PROVE Meetings'
<1>1. /\ \A d \in Caller \ {a} : job'[d] = job[d]
      /\ job'[a] = NoJob \/ (~Free(a)' /\ job'[a].kind = job[a].kind /\ met' = met)
      /\ met \ {a} \subseteq met'
  BY MovesOthers
<1>2. job'[a] = NoJob => Free(a)'
  BY NoTmp DEF Free
<1>3. ASSUME NEW c \in Caller, NEW d \in Caller, c # d, ~Free(c)', ~Free(d)',
             Files(job'[c].kind) \cap Files(job'[d].kind) # {}
      PROVE  c \in met'
  <2>1. /\ job'[c].kind = job[c].kind /\ job'[d].kind = job[d].kind /\ ~Free(c) /\ ~Free(d)
        /\ (met' = met \/ c # a)
    BY <1>1, <1>2, <1>3, SameCall
  <2>2. c \in met
    BY <1>3, <2>1 DEF Meetings
  <2> QED
    BY <1>1, <2>1, <2>2
<1> QED
  BY <1>3 DEF Meetings

LEMMA MeetingsBegin == ASSUME Shape, Meetings, NEW a \in Caller, BeginCall(a) PROVE Meetings'
<1>1. PICK kind \in Kinds[topic], arg \in Nat \cup SourceKey \cup Report :
         LET beside == {d \in Caller \ {a} : ~Free(d) /\ Files(job[d].kind) \cap Files(kind) # {}} IN
         /\ job' = [job EXCEPT ![a] = NewCall(a, kind, arg)] /\ job'[a] = NewCall(a, kind, arg)
         /\ met' = IF beside = {} THEN met ELSE met \cup beside \cup {a}
  BY BeginMoves
<1>2. \A d \in Caller \ {a} : job'[d] = job[d]
  BY <1>1 DEF Shape, Typed
<1>3. \A d \in Caller \ {a} : Free(d)' <=> Free(d)
  BY <1>2, SameCall
<1>4. job'[a].kind = kind /\ met \subseteq met'
  BY <1>1 DEF NewCall
<1>5. \A d \in Caller \ {a} : ~Free(d) /\ Files(job[d].kind) \cap Files(kind) # {} => d \in met' /\ a \in met'
  BY <1>1
<1>6. ASSUME NEW c \in Caller, NEW d \in Caller, c # d, ~Free(c)', ~Free(d)',
             Files(job'[c].kind) \cap Files(job'[d].kind) # {}
      PROVE  c \in met'
  <2>1. CASE c = a
    BY <1>2, <1>3, <1>4, <1>5, <1>6, <2>1
  <2>2. CASE d = a
    BY <1>2, <1>3, <1>4, <1>5, <1>6, <2>2
  <2>3. CASE c # a /\ d # a
    <3>1. c \in met
      BY <1>2, <1>3, <1>6, <2>3 DEF Meetings
    <3> QED
      BY <1>4, <3>1
  <2> QED
    BY <2>1, <2>2, <2>3
<1> QED
  BY <1>6 DEF Meetings

LEMMA MeetingsStep == ASSUME Shape, Meetings, [StoreNext]_storeVars PROVE Meetings'
<1>1. ASSUME UNCHANGED <<job, met>> PROVE Meetings'
  BY <1>1 DEF Meetings, Free
<1>2. CASE UNCHANGED storeVars \/ Review
  BY <1>1, <1>2 DEF storeVars, Review
<1>3. ASSUME NEW c \in Caller, BeginCall(c) PROVE Meetings'
  BY <1>3, MeetingsBegin
<1>4. ASSUME NEW c \in Caller, Moving(c) PROVE Meetings'
  BY <1>4, MovingMoves, MeetingsMove
<1> QED
  BY <1>2, <1>3, <1>4, NextCases

LEMMA MeetingsInit == StoreInit => Meetings
  BY DEF StoreInit, Meetings, Free, NoJob

(* An erase that nobody ran beside is alone.                                *)
LEMMA EraseAlone ==
  ASSUME Shape, Meetings, NEW c \in Caller, job[c].kind = "erase", c \notin met, NEW d \in Caller, d # c
  PROVE  Free(d)
<1> SUFFICES ASSUME ~Free(d) PROVE FALSE
  OBVIOUS
<1>1. ~Free(c)
  BY NoTmp DEF Shape, Jobs, CallOK, Free
<1>2. job[c].kind \in Kinds[topic] /\ job[d].kind \in Kinds[topic] /\ topic \in DOMAIN Kinds
  BY <1>1 DEF Shape, Jobs, Typed
<1>3. Files(job[c].kind) \cap Files(job[d].kind) # {}
  <2>1. topic \in {"hooks", "tasks"} /\ job[d].kind \in {"prompt", "stop", "compact", "erase", "preflight", "feedback"}
    BY <1>2 DEF Kinds
  <2>2. {"preflights", "events", "salt"} \cap Files(job[d].kind) # {}
    BY <2>1 DEF Files
  <2>3. Files("erase") = {"preflights", "events", "salt"}
    BY DEF Files
  <2> QED
    BY <2>2, <2>3
<1> QED
  BY <1>1, <1>3 DEF Meetings

-----------------------------------------------------------------------------
(* Erasing.                                                                 *)

(* The files an erase removes.                                             *)
EraseFiles == {"preflights", "events", "salt"}
(* The steps left of an erase: every check comes before every removal,     *)
(* both against one review, and nothing is removed twice.                  *)
ErasePlan(q) ==
    /\ \A i \in 1..Len(q) : q[i].do \in {"check", "unlink"} /\ q[i].on \in EraseFiles
    /\ \A i, k \in 1..Len(q) : q[i].do = "check" /\ q[k].do = "unlink" =>
          i < k /\ (q[i].on = q[k].on => q[i].value = q[k].value)
    /\ \A i, k \in 1..Len(q) : q[i].do = "unlink" /\ q[k].do = "unlink" /\ q[i].on = q[k].on => i = k
Unchecks(q, i) == q[i].do = "unlink" /\ \A k \in 1..Len(q) : q[k].do = "check" => q[k].on # q[i].on
(* And when nobody ran beside it, what has been checked is still what is   *)
(* in the file.                                                            *)
Erasings ==
    \A c \in Caller : job[c].kind = "erase" =>
        LET q == job[c].at IN
        /\ ErasePlan(q)
        /\ c \notin met => \A i \in 1..Len(q) : Unchecks(q, i) => Held(q[i].on) = q[i].value

LEMMA ErasePlanTail ==
  ASSUME NEW q \in Seq(TaskType), q # <<>>, ErasePlan(q)
  PROVE  ErasePlan(Tail(q))
<1> DEFINE r == Tail(q)
<1>1. Len(r) = Len(q) - 1 /\ Len(q) \in Nat /\ \A i \in 1..Len(r) : i + 1 \in 1..Len(q) /\ r[i] = q[i + 1]
  OBVIOUS
<1> HIDE DEF r
<1>2. \A i \in 1..Len(r) : r[i].do \in {"check", "unlink"} /\ r[i].on \in EraseFiles
  BY <1>1 DEF ErasePlan
<1>3. ASSUME NEW i \in 1..Len(r), NEW k \in 1..Len(r), r[i].do = "check", r[k].do = "unlink"
      PROVE  i < k /\ (r[i].on = r[k].on => r[i].value = r[k].value)
  <2>1. i + 1 \in 1..Len(q) /\ k + 1 \in 1..Len(q) /\ r[i] = q[i + 1] /\ r[k] = q[k + 1]
    BY <1>1, <1>3
  <2>2. q[i + 1].do = "check" /\ q[k + 1].do = "unlink"
    BY <1>3, <2>1
  <2>3. i + 1 < k + 1 /\ (q[i + 1].on = q[k + 1].on => q[i + 1].value = q[k + 1].value)
    BY <2>1, <2>2 DEF ErasePlan
  <2>4. i + 1 < k + 1 /\ (r[i].on = r[k].on => r[i].value = r[k].value)
    BY <2>1, <2>3
  <2> QED
    BY <1>1, <2>4
<1>4. ASSUME NEW i \in 1..Len(r), NEW k \in 1..Len(r), r[i].do = "unlink", r[k].do = "unlink", r[i].on = r[k].on
      PROVE  i = k
  <2>1. i + 1 = k + 1
    BY <1>1, <1>4 DEF ErasePlan
  <2> QED
    BY <1>1, <2>1
<1> QED
  BY <1>2, <1>3, <1>4 DEF ErasePlan, r

(* The steps an erase begins with: what is reviewed is checked, then         *)
(* removed.                                                                  *)
Begun(q, S) ==
    /\ q \in Seq(TaskType) /\ Len(q) >= 3
    /\ q[1] = CheckOf("preflights") /\ q[2] = CheckOf("events") /\ q[3] = CheckOf("salt")
    /\ \A i \in 1..Len(q) : i > 3 => q[i].do = "unlink" /\ q[i].on \in S /\ q[i].value = review[q[i].on]
    /\ \A i, k \in 1..Len(q) : i > 3 /\ k > 3 /\ q[i].on = q[k].on => i = k

LEMMA BegunMore ==
  ASSUME NEW q, NEW S, Begun(q, S), NEW n \in Stored, n \notin S, review[n] \in AnyValue
  PROVE  Begun(q \o UnlinkOf(n), S \cup {n})
<1>1. q \in Seq(TaskType) /\ Len(q) \in Nat /\ Len(q) >= 3
  BY DEF Begun
<1>2. CASE review[n] = Absent
  <2>1. q \o UnlinkOf(n) = q
    BY <1>1, <1>2 DEF UnlinkOf
  <2>2. Begun(q, S \cup {n})
    BY DEF Begun
  <2> QED
    BY <2>1, <2>2
<1>3. CASE review[n] # Absent
  <2> DEFINE u == Task("unlink", n, review[n])
             r == q \o UnlinkOf(n)
  <2>1. UnlinkOf(n) = <<u>>
    BY <1>3 DEF UnlinkOf
  <2>2. u.do = "unlink" /\ u.on = n /\ u.value = review[n]
    BY DEF Task
  <2>3. u \in TaskType
    <3>1. n \in Names
      BY DEF Names
    <3> QED
      BY <3>1 DEF Task, TaskType, TaskKind
  <2> HIDE DEF u
  <2>4. /\ r \in Seq(TaskType) /\ Len(r) = Len(q) + 1 /\ r[Len(q) + 1] = u
        /\ \A i \in 1..Len(q) : r[i] = q[i]
    BY <1>1, <2>1, <2>3
  <2> HIDE DEF r
  <2>5. \A i \in 1..Len(r) : i \in 1..Len(q) \/ i = Len(q) + 1
    BY <1>1, <2>4
  <2>6. r[1] = q[1] /\ r[2] = q[2] /\ r[3] = q[3] /\ Len(r) >= 3
    BY <1>1, <2>4
  <2>7. \A i \in 1..Len(r) : i > 3 => r[i].do = "unlink" /\ r[i].on \in S \cup {n} /\ r[i].value = review[r[i].on]
    BY <2>2, <2>4, <2>5 DEF Begun
  <2>8. ASSUME NEW i \in 1..Len(r), NEW k \in 1..Len(r), i > 3, k > 3, r[i].on = r[k].on PROVE i = k
    <3>1. i \in 1..Len(q) => r[i].on \in S
      BY <2>4, <2>8 DEF Begun
    <3>2. k \in 1..Len(q) => r[k].on \in S
      BY <2>4, <2>8 DEF Begun
    <3>3. i \in 1..Len(q) /\ k \in 1..Len(q) => i = k
      BY <2>4, <2>8 DEF Begun
    <3> QED
      BY <2>2, <2>4, <2>5, <2>8, <3>1, <3>2, <3>3
  <2>9. Begun(r, S \cup {n})
    BY <2>4, <2>6, <2>7, <2>8 DEF Begun
  <2> QED
    BY <2>9 DEF r
<1> QED
  BY <1>2, <1>3

LEMMA BegunErase == ASSUME Typed PROVE Begun(Opening("erase"), EraseFiles)
<1> DEFINE a == CheckOf("preflights")
           b == CheckOf("events")
           e == CheckOf("salt")
           A == <<a, b, e>>
<1>1. "preflights" \in Stored /\ "events" \in Stored /\ "salt" \in Stored /\ Stored \subseteq Names
  BY DEF Stored, Names
<1>2. \A n \in Stored : review[n] \in AnyValue
  BY DEF Typed
<1>3. a \in TaskType /\ b \in TaskType /\ e \in TaskType
  BY <1>1, <1>2 DEF CheckOf, Task, TaskType, TaskKind
<1>4. Begun(A, {})
  <2> HIDE DEF a, b, e
  <2>1. A \in Seq(TaskType) /\ Len(A) = 3 /\ A[1] = a /\ A[2] = b /\ A[3] = e
    BY <1>3
  <2>2. \A i \in 1..Len(A) : ~(i > 3)
    BY <2>1
  <2> HIDE DEF A
  <2> QED
    BY <2>1, <2>2 DEF Begun, a, b, e
<1> HIDE DEF A
<1>5. Begun(A \o UnlinkOf("preflights"), {} \cup {"preflights"})
  BY <1>1, <1>2, <1>4, BegunMore
<1>6. Begun((A \o UnlinkOf("preflights")) \o UnlinkOf("events"), ({} \cup {"preflights"}) \cup {"events"})
  BY <1>1, <1>2, <1>5, BegunMore
<1>7. Begun(((A \o UnlinkOf("preflights")) \o UnlinkOf("events")) \o UnlinkOf("salt"),
            (({} \cup {"preflights"}) \cup {"events"}) \cup {"salt"})
  BY <1>1, <1>2, <1>6, BegunMore
<1>8. (({} \cup {"preflights"}) \cup {"events"}) \cup {"salt"} = EraseFiles
  BY DEF EraseFiles
<1>9. Opening("erase") = ((A \o UnlinkOf("preflights")) \o UnlinkOf("events")) \o UnlinkOf("salt")
  BY DEF Opening, A
<1> QED
  BY <1>7, <1>8, <1>9

LEMMA EraseOpening ==
  ASSUME Typed
  PROVE  ErasePlan(Opening("erase")) /\ \A i \in 1..Len(Opening("erase")) : ~Unchecks(Opening("erase"), i)
<1> DEFINE q == Opening("erase")
<1>1. Begun(q, EraseFiles)
  BY BegunErase
<1> HIDE DEF q
<1>2. Len(q) \in Nat /\ 1 \in 1..Len(q) /\ 2 \in 1..Len(q) /\ 3 \in 1..Len(q)
      /\ \A i \in 1..Len(q) : i = 1 \/ i = 2 \/ i = 3 \/ i > 3
  BY <1>1 DEF Begun
<1>3. /\ q[1].do = "check" /\ q[1].on = "preflights" /\ q[1].value = review["preflights"]
      /\ q[2].do = "check" /\ q[2].on = "events" /\ q[2].value = review["events"]
      /\ q[3].do = "check" /\ q[3].on = "salt" /\ q[3].value = review["salt"]
  BY <1>1 DEF Begun, CheckOf, Task
<1>4. \A i \in 1..Len(q) : i > 3 => q[i].do = "unlink" /\ q[i].on \in EraseFiles /\ q[i].value = review[q[i].on]
  BY <1>1 DEF Begun
<1>5. \A i \in 1..Len(q) : q[i].do \in {"check", "unlink"} /\ q[i].on \in EraseFiles /\ q[i].value = review[q[i].on]
                           /\ (q[i].do = "unlink" <=> i > 3)
  BY <1>2, <1>3, <1>4 DEF EraseFiles
<1>6. ASSUME NEW i \in 1..Len(q), NEW k \in 1..Len(q), q[i].do = "check", q[k].do = "unlink"
      PROVE  i < k /\ (q[i].on = q[k].on => q[i].value = q[k].value)
  <2>1. k > 3 /\ ~(i > 3)
    BY <1>5, <1>6
  <2> QED
    BY <1>2, <1>5, <2>1
<1>7. ASSUME NEW i \in 1..Len(q), NEW k \in 1..Len(q), q[i].do = "unlink", q[k].do = "unlink", q[i].on = q[k].on
      PROVE  i = k
  BY <1>1, <1>5, <1>7 DEF Begun
<1>8. ErasePlan(q)
  BY <1>5, <1>6, <1>7 DEF ErasePlan
<1>9. ASSUME NEW i \in 1..Len(q), Unchecks(q, i) PROVE FALSE
  <2>1. q[i].on # "preflights" /\ q[i].on # "events" /\ q[i].on # "salt"
    BY <1>2, <1>3, <1>9 DEF Unchecks
  <2> QED
    BY <1>5, <2>1 DEF EraseFiles
<1> QED
  BY <1>8, <1>9 DEF q

LEMMA StepsLeft ==
  ASSUME Shape, NEW c \in Caller, ~Free(c), Continue(c), job'[c] # NoJob
  PROVE  job'[c].at = Tail(job[c].at) /\ job'[c].id = job[c].id /\ job'[c].kind = job[c].kind
  BY OnWith, MovesOthers

(* An erase that goes on does so with its next step.                        *)
LEMMA EraseMoves ==
  ASSUME Shape, Erasings, NEW c \in Caller, Moving(c), job'[c].kind = "erase"
  PROVE  /\ job[c].kind = "erase" /\ ~Free(c) /\ job'[c].at = Tail(job[c].at) /\ met' = met
         /\ \/ CheckReviewed(c) /\ Held(On(c)) = Current(job[c]).value
            \/ EraseFile(c) /\ Held(On(c)) # Absent
<1>1. ~Free(c) /\ job'[c] # NoJob /\ job[c].kind = "erase" /\ met' = met
  BY MovingMoves, MovesOthers, NoTmp
<1>2. Current(job[c]).do \in {"check", "unlink"}
  BY <1>1, AtWork DEF Erasings, ErasePlan
<1>3. ~CallFails(c)
  BY <1>1, FailTmp
<1>4. ~Cut(c)
  BY <1>1, <1>3, CutFacts
<1>5. CheckReviewed(c) \/ EraseFile(c)
  BY <1>2, <1>4 DEF Moving, Cut, CallDoes, Read, Decline, OpenTemporary, Fill, PutInPlace, Drop, Salt, Key,
     OpenEvents, WriteEvent
<1>6. CASE CheckReviewed(c)
  <2>1. Held(On(c)) = Current(job[c]).value /\ Continue(c)
    BY <1>3, <1>6 DEF CheckReviewed, Held
  <2> QED
    BY <1>1, <1>6, <2>1, StepsLeft
<1>7. CASE EraseFile(c)
  <2>1. Held(On(c)) # Absent /\ Continue(c)
    BY <1>3, <1>7 DEF EraseFile, Held
  <2> QED
    BY <1>1, <1>7, <2>1, StepsLeft
<1> QED
  BY <1>5, <1>6, <1>7

LEMMA ErasingsMove ==
  ASSUME Shape, Meetings, Erasings, NEW a \in Caller, Moving(a) PROVE Erasings'
<1>1. ~Free(a) /\ (\A d \in Caller \ {a} : job'[d] = job[d]) /\ met \ {a} \subseteq met'
  BY MovingMoves, MovesOthers
<1>2. ASSUME NEW c \in Caller, c # a, job'[c].kind = "erase"
      PROVE  ErasePlan(job'[c].at) /\ c \in met'
  <2>1. job'[c] = job[c] /\ ErasePlan(job[c].at)
    BY <1>1, <1>2 DEF Erasings
  <2>2. c \in met
    BY <1>1, <1>2, <2>1, EraseAlone
  <2> QED
    BY <1>1, <1>2, <2>1, <2>2
<1>3. ASSUME job'[a].kind = "erase"
      PROVE  LET q == job'[a].at IN
             ErasePlan(q) /\ (a \notin met' => \A i \in 1..Len(q) : Unchecks(q, i) => slot'[PlaceOf(q[i].on)] = q[i].value)
  <2> DEFINE q == job[a].at
             r == Tail(q)
  <2>1. job[a].kind = "erase" /\ job'[a].at = r /\ met' = met
    BY <1>3, EraseMoves
  <2>2. /\ q \in Seq(TaskType) /\ Current(job[a]) = q[1] /\ 1 \in 1..Len(q) /\ q # <<>> /\ ErasePlan(q)
        /\ On(a) = q[1].on /\ Runs(job[a], q)
    BY <1>1, <2>1, AtWork DEF Erasings, On, Free, CallOK
  <2>3. Len(r) = Len(q) - 1 /\ Len(q) \in Nat /\ \A i \in 1..Len(r) : i + 1 \in 1..Len(q) /\ r[i] = q[i + 1]
    BY <2>2, Rest
  <2>4. \A k \in 1..Len(q) : k = 1 \/ (k - 1 \in 1..Len(r) /\ r[k - 1] = q[k])
    <3> SUFFICES ASSUME NEW k \in 1..Len(q), k # 1 PROVE k - 1 \in 1..Len(r) /\ r[k - 1] = q[k]
      OBVIOUS
    <3>1. k - 1 \in 1..Len(r) /\ (k - 1) + 1 = k
      BY <2>3
    <3> QED
      BY <2>3, <3>1
  <2>5. ErasePlan(r)
    BY <2>2, ErasePlanTail
  <2>6. a \notin met => \A i \in 1..Len(q) : Unchecks(q, i) => Held(q[i].on) = q[i].value
    BY <2>1 DEF Erasings
  <2> HIDE DEF q, r
  <2>7. ASSUME a \notin met, NEW i \in 1..Len(r), Unchecks(r, i) PROVE slot'[PlaceOf(r[i].on)] = r[i].value
    <3>1. i + 1 \in 1..Len(q) /\ r[i] = q[i + 1] /\ r[i].do = "unlink" /\ i + 1 # 1
      BY <2>3, <2>7 DEF Unchecks
    <3>2. Unchecks(q, i + 1) \/ (q[1].do = "check" /\ q[1].on = r[i].on)
      <4>1. ASSUME NEW k \in 1..Len(q), q[k].do = "check", q[k].on = r[i].on PROVE k = 1
        BY <2>4, <2>7, <4>1 DEF Unchecks
      <4> QED
        BY <3>1, <4>1, <2>2 DEF Unchecks
    <3>3. CASE CheckReviewed(a) /\ Held(On(a)) = Current(job[a]).value
      <4>1. slot' = slot
        BY <3>3 DEF CheckReviewed
      <4>2. Held(r[i].on) = r[i].value
        <5>1. CASE Unchecks(q, i + 1)
          BY <2>6, <2>7, <3>1, <5>1
        <5>2. CASE q[1].do = "check" /\ q[1].on = r[i].on
          <6>1. q[1].value = q[i + 1].value
            BY <2>2, <3>1, <5>2 DEF ErasePlan
          <6> QED
            BY <2>2, <3>1, <3>3, <5>2, <6>1
        <5> QED
          BY <3>2, <5>1, <5>2
      <4> QED
        BY <4>1, <4>2 DEF Held
    <3>4. CASE EraseFile(a) /\ Held(On(a)) # Absent
      <4>1. q[1].do = "unlink"
        BY <2>2, <3>4 DEF EraseFile, CallDoes
      <4>2. Unchecks(q, i + 1) /\ q[i + 1].on # q[1].on
        BY <2>2, <3>1, <3>2, <4>1 DEF ErasePlan
      <4>3. Held(r[i].on) = r[i].value
        BY <2>6, <2>7, <3>1, <4>2
      <4>4. q[i + 1].on \in Names /\ q[1].on \in Names
        <5>1. q[i + 1] \in TaskType /\ q[1] \in TaskType
          BY <2>2, <3>1
        <5> QED
          BY <5>1 DEF TaskType
      <4>5. PlaceOf(r[i].on) # PlaceOf(On(a)) /\ PlaceOf(r[i].on) \in Place \cup Scratch
        BY <2>2, <3>1, <4>2, <4>4, Places
      <4>6. Removes(a)
        BY <3>4 DEF Removes
      <4>7. slot'[PlaceOf(r[i].on)] = slot[PlaceOf(r[i].on)]
        BY <4>5, <4>6, RemoveFacts
      <4> QED
        BY <4>3, <4>7 DEF Held
    <3> QED
      BY <1>3, <3>3, <3>4, EraseMoves
  <2> QED
    BY <2>1, <2>5, <2>7 DEF r
<1> QED
  BY <1>2, <1>3 DEF Erasings, Held

LEMMA ErasingsBegin ==
  ASSUME Shape, Erasings, NEW a \in Caller, BeginCall(a) PROVE Erasings'
<1>1. PICK kind \in Kinds[topic], arg \in Nat \cup SourceKey \cup Report :
         LET beside == {d \in Caller \ {a} : ~Free(d) /\ Files(job[d].kind) \cap Files(kind) # {}} IN
         /\ job' = [job EXCEPT ![a] = NewCall(a, kind, arg)] /\ job'[a] = NewCall(a, kind, arg)
         /\ met' = IF beside = {} THEN met ELSE met \cup beside \cup {a}
  BY BeginMoves
<1>2. slot' = slot
  BY BeginMoves
<1>3. (\A d \in Caller \ {a} : job'[d] = job[d]) /\ met \subseteq met'
  BY <1>1 DEF Shape, Typed
<1>4. ASSUME NEW c \in Caller, c # a, job'[c].kind = "erase"
      PROVE  LET q == job'[c].at IN
             ErasePlan(q) /\ (c \notin met' => \A i \in 1..Len(q) : Unchecks(q, i) => slot'[PlaceOf(q[i].on)] = q[i].value)
  BY <1>2, <1>3, <1>4 DEF Erasings, Held
<1>5. ASSUME job'[a].kind = "erase"
      PROVE  ErasePlan(job'[a].at) /\ \A i \in 1..Len(job'[a].at) : ~Unchecks(job'[a].at, i)
  <2>1. job'[a].at = Opening("erase")
    BY <1>1, <1>5 DEF NewCall
  <2> QED
    BY <2>1, EraseOpening DEF Shape
<1> QED
  BY <1>4, <1>5 DEF Erasings, Held

LEMMA ErasingsStep == ASSUME Shape, Meetings, Erasings, [StoreNext]_storeVars PROVE Erasings'
<1>1. CASE UNCHANGED storeVars \/ Review
  BY <1>1 DEF storeVars, Review, Erasings, Held
<1>2. ASSUME NEW c \in Caller, BeginCall(c) PROVE Erasings'
  BY <1>2, ErasingsBegin
<1>3. ASSUME NEW c \in Caller, Moving(c) PROVE Erasings'
  BY <1>3, ErasingsMove
<1> QED
  BY <1>1, <1>2, <1>3, NextCases

LEMMA ErasingsInit == StoreInit => Erasings
  BY DEF StoreInit, Erasings, NoJob

-----------------------------------------------------------------------------
(* What was erased, and what the callers may still write.                  *)

(* The listed files, and that a value of one has no work of an erased      *)
(* call.                                                                   *)
Listed == {"preflights", "events"}
Clean(n, v) == \A x \in Tokens(n, v) : x \in 0..calls /\ <<"erased", n, x>> \notin notes

(* What an erase that nobody ran beside has removed is in no file, in no   *)
(* temporary file of a call that goes on, and in nothing a call is about   *)
(* to write.                                                               *)
Erased ==
    /\ \A w \in notes : w[1] = "erased" => w[2] \in Listed /\ w[3] \in 0..calls /\ w = <<"erased", w[2], w[3]>>
    /\ \A w \in notes : w[1] # "unseen"
    /\ \A n \in Listed : Clean(n, Held(n))
    /\ \A c \in Caller : ~Free(c) /\ job[c].kind # "erase" =>
          \A n \in Listed : <<"erased", n, job[c].id>> \notin notes
    /\ \A c \in Caller : \A i \in 1..Len(job[c].at) :
          LET s == job[c].at[i] IN s.do \in Replacing /\ s.on \in Listed => Clean(s.on, s.value)
    /\ \A c \in Caller : job[c].kind # "erase" /\ job[c].tmp # Absent /\ job[c].tmp[1] \in Listed =>
          Clean(job[c].tmp[1], slot[job[c].tmp])

(* What a list of steps writes into a listed file: only n, with work of S.   *)
Keeps(q, n, S) ==
    \A i \in 1..Len(q) : q[i].do \in Replacing /\ q[i].on \in Listed => q[i].on = n /\ Tokens(n, q[i].value) \subseteq S

LEMMA KeepsJoined ==
  ASSUME NEW n, NEW S, NEW p \in Seq(TaskType), NEW q \in Seq(TaskType), Keeps(p, n, S), Keeps(q, n, S)
  PROVE  Keeps(p \o q, n, S)
<1> DEFINE r == p \o q
<1>1. Len(r) = Len(p) + Len(q) /\ Len(p) \in Nat /\ Len(q) \in Nat
  OBVIOUS
<1>2. \A i \in 1..Len(r) : \/ i \in 1..Len(p) /\ r[i] = p[i]
                           \/ i - Len(p) \in 1..Len(q) /\ r[i] = q[i - Len(p)]
  OBVIOUS
<1> HIDE DEF r
<1>3. ASSUME NEW i \in 1..Len(r), r[i].do \in Replacing, r[i].on \in Listed
      PROVE  r[i].on = n /\ Tokens(n, r[i].value) \subseteq S
  BY <1>2, <1>3 DEF Keeps
<1>4. Keeps(r, n, S)
  BY <1>3 DEF Keeps
<1> QED
  BY <1>4 DEF r

LEMMA KeepsOne == ASSUME NEW n, NEW S, NEW s, s.do \notin Replacing PROVE Keeps(<<s>>, n, S)
<1>1. \A i \in 1..Len(<<s>>) : <<s>>[i] = s
  OBVIOUS
<1> QED
  BY <1>1 DEF Keeps

LEMMA KeepsNone ==
  ASSUME NEW n, NEW S
  PROVE  /\ Keeps(<<>>, n, S) /\ Keeps(Refused, n, S) /\ \A m : Keeps(ReadOf(m), n, S)
         /\ \A of : Keeps(AppendSteps(of), n, S)
<1>1. Keeps(<<>>, n, S)
  BY DEF Keeps
<1>2. Task("refuse", "policy", Absent).do \notin Replacing
  BY DEF Task, Replacing
<1>3. Keeps(Refused, n, S)
  BY <1>2, KeepsOne DEF Refused
<1>4. ASSUME NEW m PROVE Keeps(ReadOf(m), n, S)
  <2>1. Task("read", m, Absent).do \notin Replacing
    BY DEF Task, Replacing
  <2> QED
    BY <2>1, KeepsOne DEF ReadOf
<1>5. ASSUME NEW of PROVE Keeps(AppendSteps(of), n, S)
  <2> DEFINE a == Task("append", "events", of)
             b == Task("write", "events", of)
  <2>1. a.do \notin Replacing /\ b.do \notin Replacing
    BY DEF Task, Replacing
  <2> HIDE DEF a, b
  <2>2. Keeps(<<a, b>>, n, S)
    <3>1. \A i \in 1..Len(<<a, b>>) : <<a, b>>[i] = a \/ <<a, b>>[i] = b
      OBVIOUS
    <3> QED
      BY <2>1, <3>1 DEF Keeps
  <2> QED
    BY <2>2 DEF a, b, AppendSteps
<1> QED
  BY <1>1, <1>3, <1>4, <1>5

LEMMA KeepsReplace ==
  ASSUME NEW n, NEW S, NEW m, NEW v, m \in Listed => m = n /\ Tokens(n, v) \subseteq S
  PROVE  Keeps(Replace(m, v), n, S)
<1> DEFINE q == Replace(m, v)
<1>1. \A i \in 1..Len(q) : q[i].on = m /\ q[i].value = v
  <2> DEFINE a == Task("open", m, v)
             b == Task("fill", m, v)
             e == Task("rename", m, v)
  <2>1. a.on = m /\ b.on = m /\ e.on = m /\ a.value = v /\ b.value = v /\ e.value = v
    BY DEF Task
  <2> HIDE DEF a, b, e
  <2>2. \A i \in 1..Len(<<a, b, e>>) : <<a, b, e>>[i] \in {a, b, e}
    OBVIOUS
  <2>3. \A i \in 1..Len(<<a, b, e>>) : <<a, b, e>>[i].on = m /\ <<a, b, e>>[i].value = v
    BY <2>1, <2>2
  <2> QED
    BY <2>3 DEF Replace, a, b, e
<1> HIDE DEF q
<1> QED
  BY <1>1 DEF Keeps, q

(* Tokens of lists.                                                          *)
LEMMA TokensOf ==
  /\ \A v \in Seq(Preflight) : Tokens("preflights", v) = {e.id : e \in Items(v)} \cup ({e.feedback : e \in Items(v)} \ {0})
  /\ \A v \in Seq(Event) : Tokens("events", v) = {e.id : e \in Items(v)}
  /\ \A n : Tokens(n, Absent) = {} /\ Tokens(n, Torn) = {}
<1>1. "preflights" \in Names /\ "events" \in Names
  BY DEF Names, Stored
<1>2. /\ \A v \in Seq(Preflight) : v \notin {Absent, Torn}
      /\ \A v \in Seq(Event) : v \notin {Absent, Torn}
  BY <1>1, Constants, ValueOf
<1>3. ASSUME NEW v \in Seq(Preflight)
      PROVE  Tokens("preflights", v) = {e.id : e \in Items(v)} \cup ({e.feedback : e \in Items(v)} \ {0})
  BY <1>2 DEF Tokens
<1>4. ASSUME NEW v \in Seq(Event) PROVE Tokens("events", v) = {e.id : e \in Items(v)}
  BY <1>2 DEF Tokens
<1>5. ASSUME NEW n PROVE Tokens(n, Absent) = {} /\ Tokens(n, Torn) = {}
  BY DEF Tokens
<1> QED
  BY <1>3, <1>4, <1>5

LEMMA PreflightKeeps ==
  ASSUME NEW v, Was("preflights", v), NEW id \in Nat, NEW w \in Seq(Preflight),
         \A i \in 1..Len(w) : \/ w[i].id = id /\ w[i].feedback = 0
                              \/ v # Absent /\ \E k \in 1..Len(v) : w[i].id = v[k].id /\ w[i].feedback \in {v[k].feedback, id}
  PROVE  Tokens("preflights", w) \subseteq Tokens("preflights", v) \cup {id}
<1>1. ASSUME NEW x \in Tokens("preflights", w) PROVE x \in Tokens("preflights", v) \cup {id}
  <2>1. \E e \in Items(w) : x = e.id \/ (x = e.feedback /\ x # 0)
    BY <1>1, TokensOf
  <2>2. PICK e \in Items(w) : x = e.id \/ (x = e.feedback /\ x # 0)
    BY <2>1
  <2>3. PICK i \in 1..Len(w) : e = w[i]
    BY <2>2, ItemOf
  <2>4. CASE w[i].id = id /\ w[i].feedback = 0
    BY <2>1, <2>2, <2>3, <2>4
  <2>5. CASE v # Absent /\ \E k \in 1..Len(v) : w[i].id = v[k].id /\ w[i].feedback \in {v[k].feedback, id}
    <3>1. PICK k \in 1..Len(v) : w[i].id = v[k].id /\ w[i].feedback \in {v[k].feedback, id}
      BY <2>5
    <3>2. v \in Seq(Preflight)
      BY <2>5, ValueOf DEF Was, Fits
    <3>3. v[k] \in Items(v)
      BY <3>1, <3>2, ItemsOf
    <3>4. v[k].id \in Tokens("preflights", v) /\ (v[k].feedback # 0 => v[k].feedback \in Tokens("preflights", v))
      BY <3>2, <3>3, TokensOf
    <3> QED
      BY <2>1, <2>2, <2>3, <3>1, <3>4
  <2> QED
    BY <2>3, <2>4, <2>5
<1> QED
  BY <1>1

LEMMA AfterPreflightsKeeps ==
  ASSUME NEW j \in Call, NEW v, Was("preflights", v), NEW q \in AfterPreflights(j, v),
         j.kind \in ReadBy("preflights"), j.key # Absent => j.kind \in {"prompt", "stop"}
  PROVE  Keeps(q, "preflights", Tokens("preflights", v) \cup {j.id})
<1> DEFINE S == Tokens("preflights", v) \cup {j.id}
<1>1. /\ v \in Seq(Preflight) \/ v = Absent
      /\ v # Absent => Len(v) <= Kept
      /\ "preflights" \in Names /\ "preflights" \notin ScanFiles /\ j.id \in Nat
  BY ValueOf, StoreConstants DEF Was, Fits, Names, Stored, ScanFiles, Call
<1>2. List(v) \in Seq(Preflight)
  BY <1>1 DEF List
<1>3. CASE j.kind # "feedback"
  <2> DEFINE e == [id |-> j.id, feedback |-> 0]
             l == List(v)
             w == <<e>> \o l
             f == First(w)
  <2>1. e \in Preflight /\ e.id = j.id /\ e.feedback = 0
    BY <1>1 DEF Preflight
  <2> HIDE DEF e
  <2>2. /\ w \in Seq(Preflight)
        /\ \A i \in 1..Len(w) : w[i] = e \/ (i - 1 \in 1..Len(l) /\ w[i] = l[i - 1])
    BY <2>1, <1>2
  <2>3. f \in Seq(Preflight) /\ Len(f) <= Kept /\ \A i \in 1..Len(f) : i \in 1..Len(w) /\ f[i] = w[i]
    <3> HIDE DEF w
    <3> QED
      BY <2>2, FirstOf
  <2>4. v = Absent => l = <<>>
    BY DEF List
  <2>5. v # Absent => l = v
    BY DEF List
  <2> HIDE DEF w, f, l
  <2>6. ASSUME NEW i \in 1..Len(f)
        PROVE  \/ f[i].id = j.id /\ f[i].feedback = 0
               \/ v # Absent /\ \E k \in 1..Len(v) : f[i].id = v[k].id /\ f[i].feedback \in {v[k].feedback, j.id}
    <3>1. CASE f[i] = e
      BY <2>1, <3>1
    <3>2. CASE i - 1 \in 1..Len(l) /\ f[i] = l[i - 1]
      <4>1. v # Absent
        BY <2>4, <3>2
      <4>2. i - 1 \in 1..Len(v) /\ f[i] = v[i - 1]
        BY <2>5, <3>2, <4>1
      <4> QED
        BY <4>1, <4>2
    <3> QED
      BY <2>2, <2>3, <3>1, <3>2
  <2>7. Tokens("preflights", f) \subseteq S
    BY <1>1, <2>3, <2>6, PreflightKeeps
  <2> HIDE DEF S
  <2>8. Keeps(Replace("preflights", f), "preflights", S)
    BY <2>7, KeepsReplace
  <2>9. Runs(j, Replace("preflights", f))
    <3>1. Fits("preflights", f)
      BY <2>3, ValueOf DEF Fits
    <3> QED
      BY <1>1, <3>1, Replacement
  <2>10. q = Replace("preflights", f) \o (IF j.key # Absent THEN AppendSteps(0) ELSE <<>>)
    BY <1>3 DEF AfterPreflights, f, w, e, l
  <2>11. Replace("preflights", f) \in Seq(TaskType)
    BY <2>9 DEF Runs
  <2>12. CASE j.key # Absent
    <3>1. AppendSteps(0) \in Seq(TaskType)
      BY <1>1, <2>12, Appending DEF Runs
    <3>2. Keeps(Replace("preflights", f) \o AppendSteps(0), "preflights", S)
      BY <2>8, <2>11, <3>1, KeepsNone, KeepsJoined
    <3> QED
      BY <2>10, <2>12, <3>2 DEF S
  <2>13. CASE j.key = Absent
    <3>1. q = Replace("preflights", f)
      BY <2>10, <2>11, <2>13
    <3> QED
      BY <2>8, <3>1 DEF S
  <2> QED
    BY <2>12, <2>13
<1>4. CASE j.kind = "feedback" /\ \A i \in DOMAIN List(v) : List(v)[i].id # j.arg
  <2>1. q = Refused
    BY <1>4 DEF AfterPreflights
  <2> QED
    BY <2>1, KeepsNone
<1>5. CASE j.kind = "feedback" /\ ~ \A i \in DOMAIN List(v) : List(v)[i].id # j.arg
  <2> DEFINE w == [i \in DOMAIN v |-> IF v[i].id = j.arg THEN [v[i] EXCEPT !.feedback = j.id] ELSE v[i]]
  <2>1. q = Replace("preflights", w)
    BY <1>5 DEF AfterPreflights
  <2>2. v # Absent
    BY <1>5 DEF List
  <2>3. DOMAIN v = 1..Len(v) /\ Len(v) \in Nat /\ \A i \in 1..Len(v) : v[i] \in Preflight
    BY <1>1, <2>2
  <2>4. \A e \in Preflight : LET x == [e EXCEPT !.feedback = j.id] IN x \in Preflight /\ x.id = e.id /\ x.feedback = j.id
    BY <1>1 DEF Preflight
  <2>5. /\ w \in Seq(Preflight) /\ Len(w) = Len(v)
        /\ \A i \in 1..Len(w) : i \in 1..Len(v) /\ w[i].id = v[i].id /\ w[i].feedback \in {v[i].feedback, j.id}
    BY <2>3, <2>4
  <2> HIDE DEF w
  <2>6. Tokens("preflights", w) \subseteq S
    BY <1>1, <2>2, <2>5, PreflightKeeps
  <2> QED
    BY <2>1, <2>6, KeepsReplace
<1> QED
  BY <1>3, <1>4, <1>5

LEMMA AfterEventsKeeps ==
  ASSUME NEW j \in Call, NEW v, Was("events", v), NEW q \in AfterEvents(j, v)
  PROVE  Keeps(q, "events", Tokens("events", v) \cup {j.id})
<1> DEFINE S == Tokens("events", v) \cup {j.id}
<1>1. v \in Seq(Event) \/ v = Absent
  BY ValueOf DEF Was, Fits
<1>2. CASE j.kind = "compact" /\ List(v) # <<>>
  <2> DEFINE Part(s) == {Replace("events", SubSeq(LastOf(s), k, Len(LastOf(s)))) : k \in 1..(Len(LastOf(s)) + 1)}
  <2>0. PICK s \in InOrder(v) : q \in Part(s)
    BY <1>2 DEF Compacted, AfterEvents
  <2>1. PICK k \in 1..(Len(LastOf(s)) + 1) : q = Replace("events", SubSeq(LastOf(s), k, Len(LastOf(s))))
    BY <2>0
  <2>2. v \in Seq(Event) /\ Items(v) \subseteq Event
    BY <1>1, <1>2, ItemsOf DEF List
  <2>3. s \in Seq(Event) /\ Items(s) = Items(v)
    BY <2>0, <2>2 DEF InOrder
  <2> DEFINE r == SubSeq(LastOf(s), k, Len(LastOf(s)))
  <2>4. r \in Seq(Event) /\ Items(r) \subseteq Items(v)
    BY <2>1, <2>3, SuffixOfLast
  <2> HIDE DEF r
  <2>5. Tokens("events", r) \subseteq S
    BY <2>2, <2>4, TokensOf
  <2>6. q = Replace("events", r)
    BY <2>1 DEF r
  <2> QED
    BY <2>5, <2>6, KeepsReplace
<1>3. CASE j.kind = "compact" /\ List(v) = <<>>
  BY <1>3, KeepsNone DEF AfterEvents, Compacted
<1>4. CASE j.kind # "compact"
  BY <1>4, KeepsNone DEF AfterEvents
<1> QED
  BY <1>2, <1>3, <1>4

LEMMA AfterOthersKeep ==
  ASSUME NEW j \in Call, NEW n, NEW v, NEW q \in After(j, n, v), Was(n, v),
         n \in {"policy", "sources", "snapshot", "latest", "index"},
         j.kind \in ReadBy(n), j.kind = "scan" => j.arg \in Report, NEW S
  PROVE  Keeps(q, n, S)
<1>1. n \notin Listed
  BY DEF Listed
<1>2. "policy" \notin Listed /\ "sources" \notin Listed /\ "snapshot" \notin Listed /\ "latest" \notin Listed
      /\ "previous" \notin Listed /\ "index" \notin Listed /\ Report \cap Listed = {}
  BY StoreConstants DEF Listed, Stored
<1>3. CASE n = "policy"
  <2>1. q = Refused \/ q = Replace("policy", j.id)
    BY <1>3 DEF After, AfterPolicy
  <2> QED
    BY <1>2, <2>1, KeepsNone, KeepsReplace
<1>4. CASE n = "sources"
  <2>1. q \in AfterSources(j, v) /\ j.kind \in {"add", "enable", "disable", "remove", "refresh"}
    BY <1>4 DEF After, ReadBy
  <2>2. \/ q = Refused \/ \E T : q = Replace("sources", T)
        \/ q = <<Task("read", "snapshot", SourcesOf(v))>>
    <3> DEFINE with(T) == IF ValidSources(T) THEN {Replace("sources", T)} ELSE {Refused}
    <3>1. \A T : q \in with(T) => q = Refused \/ q = Replace("sources", T)
      OBVIOUS
    <3>2. q = Refused \/ q = <<Task("read", "snapshot", SourcesOf(v))>> \/ \E T : q \in with(T)
      <4> DEFINE S0 == SourcesOf(v)
      <4>1. CASE j.kind = "refresh"
        BY <2>1, <4>1 DEF AfterSources
      <4>2. CASE j.kind = "add"
        <5>1. q = Refused \/ q \in with([S0 EXCEPT ![j.arg] = [on |-> FALSE, by |-> {j.id}]])
          BY <2>1, <4>2 DEF AfterSources
        <5> HIDE DEF with, S0
        <5> QED
          BY <5>1
      <4>3. CASE j.kind \in {"enable", "disable"}
        <5>1. q = Refused \/ q \in with([S0 EXCEPT ![j.arg] = [on |-> j.kind = "enable", by |-> @.by \cup {j.id}]])
          BY <2>1, <4>3 DEF AfterSources
        <5> HIDE DEF with, S0
        <5> QED
          BY <5>1
      <4>4. CASE j.kind = "remove"
        <5>1. q = Refused \/ q \in with([S0 EXCEPT ![j.arg] = Absent])
          BY <2>1, <4>4 DEF AfterSources
        <5> HIDE DEF with, S0
        <5> QED
          BY <5>1
      <4> QED
        BY <2>1, <4>1, <4>2, <4>3, <4>4
    <3> HIDE DEF with
    <3> QED
      BY <3>1, <3>2
  <2>3. Task("read", "snapshot", SourcesOf(v)).do \notin Replacing
    BY DEF Task, Replacing
  <2> QED
    BY <1>2, <2>2, <2>3, KeepsNone, KeepsReplace, KeepsOne
<1>5. CASE n = "snapshot"
  <2>1. \E w : q = Replace("snapshot", w)
    BY <1>5 DEF After, AfterSnapshot
  <2> QED
    BY <1>2, <2>1, KeepsReplace
<1>6. CASE n = "latest"
  <2> DEFINE P == IF v \notin {Absent, j.arg} THEN Replace("previous", v) ELSE <<>>
  <2>1. q = (P \o Replace("latest", j.arg)) \o ReadOf("index")
    BY <1>6 DEF After, AfterLatest
  <2>2. j.kind = "scan" /\ j.arg \in Report
    BY <1>6 DEF ReadBy
  <2>3. v # Absent => Fits("previous", v)
    BY <1>6, ValueOf DEF Was, Fits
  <2>4. Fits("latest", j.arg)
    BY <2>2, ValueOf DEF Fits
  <2>5. Keeps(P, n, S) /\ P \in Seq(TaskType)
    <3>1. CASE v \notin {Absent, j.arg}
      BY <1>2, <2>2, <2>3, <3>1, ScanNames, Replacement, KeepsReplace DEF Runs
    <3>2. CASE v \in {Absent, j.arg}
      BY <3>2, Nothing, KeepsNone DEF Runs
    <3> QED
      BY <3>1, <3>2
  <2>6. Replace("latest", j.arg) \in Seq(TaskType) /\ Keeps(Replace("latest", j.arg), n, S)
    BY <1>2, <2>2, <2>4, ScanNames, Replacement, KeepsReplace DEF Runs
  <2>7. ReadOf("index") \in Seq(TaskType)
    <3>1. j.kind \in ReadBy("index")
      BY <2>2 DEF ReadBy
    <3> QED
      BY <3>1, ScanNames, Reading DEF Runs
  <2> HIDE DEF P
  <2>8. P \o Replace("latest", j.arg) \in Seq(TaskType) /\ Keeps(P \o Replace("latest", j.arg), n, S)
    BY <2>5, <2>6, KeepsJoined
  <2> QED
    BY <2>1, <2>7, <2>8, KeepsJoined, KeepsNone
<1>7. CASE n = "index"
  <2> DEFINE next == <<j.arg>> \o List(v)
  <2>1. j.kind = "scan" /\ j.arg \in Report
    BY <1>7 DEF ReadBy
  <2>2. List(v) \in Seq(Report)
    BY <1>7, ValueOf DEF Was, Fits, List
  <2>3. next \in Seq(Report)
    BY <2>1, <2>2
  <2>4. First(next) \in Seq(Report) /\ Len(First(next)) <= Kept
    <3> HIDE DEF next
    <3> QED
      BY <2>3, FirstOf
  <2>5. Fits("index", First(next)) /\ Fits(j.arg, j.arg) /\ j.arg # "salt" /\ j.arg \notin {"sources", "preflights", "index"}
    BY <2>1, <2>4, ValueOf, StoreConstants DEF Fits, Stored
  <2>6. Replace(j.arg, j.arg) \in Seq(TaskType) /\ Keeps(Replace(j.arg, j.arg), n, S)
    BY <1>2, <2>1, <2>5, ScanNames, Replacement, KeepsReplace DEF Runs
  <2>7. Replace("index", First(next)) \in Seq(TaskType) /\ Keeps(Replace("index", First(next)), n, S)
    BY <1>2, <2>1, <2>5, ScanNames, Replacement, KeepsReplace DEF Runs
  <2>8. Pruned(next) \in Seq(TaskType) /\ Keeps(Pruned(next), n, S)
    <3>1. /\ Runs(j, Pruned(next)) /\ \A i \in 1..Len(Pruned(next)) : Pruned(next)[i].do = "drop"
      BY <2>1, <2>3, PrunedOf
    <3> QED
      BY <3>1 DEF Runs, Keeps, Replacing
  <2>9. \/ q = <<>>
        \/ q = (Replace(j.arg, j.arg) \o Replace("index", First(next))) \o Pruned(next)
    BY <1>7 DEF After, AfterIndex
  <2> HIDE DEF next
  <2>10. /\ Replace(j.arg, j.arg) \o Replace("index", First(next)) \in Seq(TaskType)
         /\ Keeps(Replace(j.arg, j.arg) \o Replace("index", First(next)), n, S)
    BY <2>6, <2>7, KeepsJoined
  <2> QED
    BY <2>8, <2>9, <2>10, KeepsJoined, KeepsNone
<1> QED
  BY <1>3, <1>4, <1>5, <1>6, <1>7

LEMMA ReadKeeps ==
  ASSUME Shape, NEW c \in Caller, CallDoes(c, "read"), Held(On(c)) # Torn, NEW q \in After(job[c], On(c), Held(On(c)))
  PROVE  Keeps(q, On(c), Tokens(On(c), Held(On(c))) \cup {job[c].id}) /\ job[c].kind # "erase"
<1> DEFINE j == job[c]
           n == On(c)
           v == Held(n)
<1>1. ~Free(c) /\ Current(j).do = "read" /\ Current(j).on = n
  BY DEF CallDoes, On
<1>2. CallOK(j) /\ j \in Call /\ n \in Names /\ StepOK(j, Current(j)) /\ PlaceOf(n) \in Place
  BY <1>1, AtWork
<1>3. Was(n, v)
  <2>1. v \notin {Absent, Torn} => Fits(PlaceOf(n)[1], v)
    BY <1>2 DEF Shape, Contents, Held
  <2> QED
    BY <1>2, <2>1, Places DEF Was
<1>4. j.kind \in ReadBy(n) /\ j.kind # "erase"
  BY <1>1, <1>2 DEF StepOK, ReadBy
<1>5. n \in {"preflights", "events", "policy", "sources", "snapshot", "latest", "index"}
  BY <1>4 DEF ReadBy
<1>6. (j.key # Absent => j.kind \in {"prompt", "stop"}) /\ (j.kind = "scan" => j.arg \in Report)
  BY <1>2 DEF CallOK
<1>7. q \in After(j, n, v)
  OBVIOUS
<1> HIDE DEF j, n, v
<1>8. CASE n = "preflights"
  <2>1. q \in AfterPreflights(j, v)
    BY <1>7, <1>8 DEF After
  <2> QED
    BY <1>2, <1>3, <1>4, <1>6, <1>8, <2>1, AfterPreflightsKeeps DEF j, n, v
<1>9. CASE n = "events"
  <2>1. q \in AfterEvents(j, v)
    BY <1>7, <1>9 DEF After
  <2> QED
    BY <1>2, <1>3, <1>4, <1>9, <2>1, AfterEventsKeeps DEF j, n, v
<1>10. CASE n \in {"policy", "sources", "snapshot", "latest", "index"}
  <2>1. Keeps(q, n, Tokens(n, v) \cup {j.id})
    BY <1>2, <1>3, <1>4, <1>6, <1>7, <1>10, AfterOthersKeep
  <2> QED
    BY <1>4, <2>1 DEF j, n, v
<1> QED
  BY <1>5, <1>8, <1>9, <1>10

(* The work a call may write is not work that was erased.                    *)
LEMMA OwnClean ==
  ASSUME Shape, Erased, NEW c \in Caller, ~Free(c), job[c].kind # "erase", NEW n \in Listed, NEW v,
         Tokens(n, v) \subseteq Tokens(n, Held(n)) \cup {job[c].id}
  PROVE  Clean(n, v)
<1>1. job[c].id \in 0..calls /\ <<"erased", n, job[c].id>> \notin notes /\ Clean(n, Held(n))
  BY DEF Shape, Jobs, Erased
<1> QED
  BY <1>1 DEF Clean

LEMMA StepsClean ==
  ASSUME Shape, Erased, NEW c \in Caller, Moving(c), job'[c] # NoJob,
         NEW i \in 1..Len(job'[c].at), job'[c].at[i].do \in Replacing, job'[c].at[i].on \in Listed
  PROVE  Clean(job'[c].at[i].on, job'[c].at[i].value)
<1> DEFINE q == job[c].at
           r == job'[c].at
<1>1. ~Free(c) /\ Moves(c)
  BY MovingMoves
<1>2. Runs(job[c], q) /\ q # <<>>
  BY <1>1, AtWork DEF CallOK, Free
<1>3. CASE r = Tail(q)
  <2>1. i + 1 \in 1..Len(q) /\ r[i] = q[i + 1]
    BY <1>2, <1>3, Rest
  <2> HIDE DEF q, r
  <2>2. q[i + 1].do \in Replacing /\ q[i + 1].on \in Listed
    BY <2>1 DEF r
  <2> QED
    BY <2>1, <2>2 DEF Erased, r, q
<1>4. ASSUME NEW S, NEW n, n \notin Listed, Keeps(r, n, S) PROVE FALSE
  BY <1>4 DEF Keeps
<1>5. "policy" \notin Listed
  BY DEF Listed
<1>6. CASE r \in {ReadOf("preflights"), ReadOf("events"), AppendSteps(0)}
  BY <1>4, <1>5, <1>6, KeepsNone
<1>7. CASE CallFails(c)
  BY <1>1, <1>6, <1>7, FailTmp
<1>8. CASE Continue(c)
  BY <1>1, <1>3, <1>8, StepsLeft
<1>9. CASE Read(c) /\ ~CallFails(c)
  <2> DEFINE v == slot[PlaceOf(On(c))]
  <2>1. CallDoes(c, "read") /\ v # Torn /\ \E s \in After(job[c], On(c), v) : GoTo(c, [job[c] EXCEPT !.read = v], s)
    BY <1>9 DEF Read
  <2>2. PICK s \in After(job[c], On(c), v) : GoTo(c, [job[c] EXCEPT !.read = v], s)
    BY <2>1
  <2>3. r = s
    <3>1. job'[c] = LET j == job[c] IN
               IF s = <<>> THEN NoJob
               ELSE [id |-> j.id, kind |-> j.kind, arg |-> j.arg, at |-> s, read |-> slot[PlaceOf(On(c))],
                     key |-> j.key, tmp |-> j.tmp, bad |-> j.bad]
      BY <2>1, <2>2, ReadMoves
    <3> QED
      BY <3>1
  <2>4. Keeps(s, On(c), Tokens(On(c), Held(On(c))) \cup {job[c].id}) /\ job[c].kind # "erase"
    BY <2>1, <2>2, ReadKeeps DEF Held
  <2>5. r[i].on = On(c) /\ Tokens(On(c), r[i].value) \subseteq Tokens(On(c), Held(On(c))) \cup {job[c].id}
    BY <2>3, <2>4 DEF Keeps
  <2> QED
    BY <1>1, <2>4, <2>5, OwnClean
<1>10. CASE Key(c) /\ ~CallFails(c)
  <2>1. CallDoes(c, "key") /\ Held("salt") \notin {Absent, Torn}
    BY <1>10 DEF Key, Held
  <2>2. PICK s \in {ReadOf("events"), ReadOf("preflights")} :
          job'[c] = [id |-> job[c].id, kind |-> job[c].kind, arg |-> job[c].arg, at |-> s, read |-> job[c].read,
                     key |-> Held("salt"), tmp |-> job[c].tmp, bad |-> job[c].bad]
    BY <1>10, <2>1, KeyMoves
  <2>3. r = s
    BY <2>2
  <2> QED
    BY <1>6, <2>2, <2>3
<1>11. CASE Salt(c)
  <2>1. r = <<Task("fill", "salt", job[c].id), Task("key", "salt", Absent)>> \/ r = <<Task("key", "salt", Absent)>>
    BY <1>11, SaltFacts
  <2> DEFINE a == Task("fill", "salt", job[c].id)
             b == Task("key", "salt", Absent)
  <2>2. a.on = "salt" /\ b.on = "salt"
    BY DEF Task
  <2> HIDE DEF a, b
  <2>3. r = <<a, b>> \/ r = <<b>>
    BY <2>1 DEF a, b
  <2>4. r[i].on = "salt"
    <3> HIDE DEF r
    <3>1. r[i] = a \/ r[i] = b
      <4>1. CASE r = <<a, b>>
        <5>1. i \in {1, 2}
          BY <4>1 DEF r
        <5> QED
          BY <4>1, <5>1
      <4>2. CASE r = <<b>>
        <5>1. i = 1
          BY <4>2 DEF r
        <5> QED
          BY <4>2, <5>1
      <4> QED
        BY <2>3, <4>1, <4>2
    <3> QED
      BY <2>2, <3>1
  <2> QED
    BY <2>4 DEF Listed
<1>12. CASE OpenTemporary(c)
  BY <1>3, <1>12, OpenFacts
<1>13. CASE Fill(c) \/ Drop(c) \/ OpenEvents(c) \/ WriteEvent(c)
  BY <1>8, <1>13 DEF Fill, Drop, OpenEvents, WriteEvent
<1>14. CASE PutInPlace(c) \/ CheckReviewed(c) \/ EraseFile(c) \/ Decline(c)
  BY <1>7, <1>8, <1>14 DEF PutInPlace, CheckReviewed, EraseFile, Decline
<1>15. CASE Cut(c)
  BY <1>7, <1>15, CutFacts
<1> QED
  BY <1>7, <1>9, <1>10, <1>11, <1>12, <1>13, <1>14, <1>15 DEF Moving, Cut

LEMMA ErasedKept ==
  ASSUME Shape, Erased, NEW c \in Caller, calls' = calls, \A d \in Caller \ {c} : job'[d] = job[d],
         \A w \in notes' : w \in notes \/ w[1] \notin {"erased", "unseen"},
         \A p \in Place \cup Scratch : p[1] \in Listed => slot'[p] = slot[p] \/ Clean(p[1], slot'[p]),
         job'[c] = NoJob \/ (job'[c].id = job[c].id /\ job'[c].kind = job[c].kind /\ ~Free(c)),
         \A i \in 1..Len(job'[c].at) : job'[c].at[i].do \in Replacing /\ job'[c].at[i].on \in Listed =>
             Clean(job'[c].at[i].on, job'[c].at[i].value),
         job'[c].tmp \in {Absent, job[c].tmp} \/ slot'[job'[c].tmp] = Torn
  PROVE  Erased'
<1>1. ASSUME NEW n, NEW v, Clean(n, v) PROVE \A x \in Tokens(n, v) : x \in 0..calls' /\ <<"erased", n, x>> \notin notes'
  <2>1. ASSUME NEW x, <<"erased", n, x>> \in notes' PROVE <<"erased", n, x>> \in notes
    BY <2>1
  <2> QED
    BY <1>1, <2>1 DEF Clean
<1>2. \A w \in notes' : w[1] = "erased" => w[2] \in Listed /\ w[3] \in 0..calls' /\ w = <<"erased", w[2], w[3]>>
  BY DEF Erased
<1>3. \A w \in notes' : w[1] # "unseen"
  BY DEF Erased
<1>4. ASSUME NEW p \in Place \cup Scratch, p[1] \in Listed, Clean(p[1], slot[p]) PROVE Clean(p[1], slot'[p])
  BY <1>4
<1>5. ASSUME NEW n \in Listed PROVE Clean(n, slot'[PlaceOf(n)])
  <2>1. n \in Names
    BY DEF Listed, Names, Stored
  <2>2. PlaceOf(n) \in Place \cup Scratch /\ PlaceOf(n)[1] = n /\ Clean(n, slot[PlaceOf(n)])
    BY <2>1, Places DEF Erased, Held
  <2> QED
    BY <1>4, <2>2
<1>6. ASSUME NEW d \in Caller, job'[d].at # <<>>, job'[d].kind # "erase", NEW n \in Listed
      PROVE  <<"erased", n, job'[d].id>> \notin notes'
  <2>1. ~Free(d) /\ job'[d].kind = job[d].kind /\ job'[d].id = job[d].id
    BY <1>6, NoTmp DEF Free
  <2>2. <<"erased", n, job[d].id>> \notin notes
    BY <1>6, <2>1 DEF Erased
  <2>3. <<"erased", n, job[d].id>> \in notes' => <<"erased", n, job[d].id>> \in notes
    OBVIOUS
  <2> QED
    BY <2>1, <2>2, <2>3
<1>7. ASSUME NEW d \in Caller, NEW i \in 1..Len(job'[d].at), job'[d].at[i].do \in Replacing, job'[d].at[i].on \in Listed
      PROVE  Clean(job'[d].at[i].on, job'[d].at[i].value)
  <2>1. CASE d = c
    BY <1>7, <2>1
  <2>2. CASE d # c
    <3>1. job'[d] = job[d]
      BY <2>2
    <3> QED
      BY <1>7, <3>1 DEF Erased
  <2> QED
    BY <2>1, <2>2
<1>8. ASSUME NEW d \in Caller, job'[d].kind # "erase", job'[d].tmp # Absent, job'[d].tmp[1] \in Listed
      PROVE  Clean(job'[d].tmp[1], slot'[job'[d].tmp])
  <2>1. CASE job'[d].tmp = job[d].tmp /\ job[d].kind = job'[d].kind
    <3>1. Clean(job[d].tmp[1], slot[job[d].tmp])
      BY <1>8, <2>1 DEF Erased
    <3>2. job[d].tmp \in Scratch
      BY <1>8, <2>1 DEF Shape, Typed, Call
    <3> QED
      BY <1>4, <1>8, <2>1, <3>1, <3>2
  <2>2. CASE slot'[job'[d].tmp] = Torn
    BY <2>2, TokensOf DEF Clean
  <2> QED
    BY <1>8, <2>1, <2>2, NoTmp
<1> QED
  BY <1>1, <1>2, <1>3, <1>5, <1>6, <1>7, <1>8 DEF Erased, Clean, Held, Free

(* What steps other than the removal write into a listed file.               *)
LEMMA Clean0 == \A n : Clean(n, Absent) /\ Clean(n, Torn)
  BY TokensOf DEF Clean

LEMMA FillClean ==
  ASSUME Shape, Erased, NEW c \in Caller, Fill(c), NEW p \in Place \cup Scratch, p[1] \in Listed
  PROVE  slot'[p] = slot[p] \/ Clean(p[1], slot'[p])
<1>1. CASE p # opened[c]
  BY <1>1, FillFacts
<1>2. CASE p = opened[c]
  <2>1. ~Free(c) /\ CallDoes(c, "fill") /\ p[1] = On(c) /\ slot'[p] \in {Current(job[c]).value, Torn}
    <3>1. p # Absent
      BY Places
    <3> QED
      BY <1>2, <3>1, FillFacts
  <2>2. Current(job[c]) = job[c].at[1] /\ 1 \in 1..Len(job[c].at) /\ Current(job[c]).do = "fill"
    BY <2>1, AtWork DEF CallDoes
  <2>3. Clean(job[c].at[1].on, job[c].at[1].value)
    BY <2>1, <2>2 DEF Erased, Replacing, On
  <2> QED
    BY <2>1, <2>2, <2>3, Clean0 DEF On
<1> QED
  BY <1>1, <1>2

LEMMA NotErase ==
  ASSUME Shape, Erasings, NEW c \in Caller, ~Free(c), Current(job[c]).do \notin {"check", "unlink"}
  PROVE  job[c].kind # "erase"
  BY AtWork DEF Erasings, ErasePlan

LEMMA RenameClean ==
  ASSUME Shape, Erasings, Erased, NEW c \in Caller, PutInPlace(c), slot[job[c].tmp] # Absent,
         NEW p \in Place \cup Scratch, p[1] \in Listed
  PROVE  slot'[p] = slot[p] \/ Clean(p[1], slot'[p])
<1> DEFINE t == job[c].tmp
<1>1. /\ CallDoes(c, "rename") /\ ~Free(c) /\ t \in Scratch /\ t[1] = On(c) /\ slot'[PlaceOf(On(c))] = slot[t] /\ slot'[t] = Absent
      /\ \A o \in Place \cup Scratch : o \notin {PlaceOf(On(c)), t} => slot'[o] = slot[o]
      /\ On(c) \in Names
  BY RenameDone
<1>2. job[c].kind # "erase"
  BY <1>1, NotErase DEF CallDoes
<1>3. t # Absent /\ PlaceOf(On(c))[1] = On(c)
  BY <1>1, Places
<1>4. On(c) \in Listed => Clean(On(c), slot[t])
  BY <1>1, <1>2, <1>3 DEF Erased
<1> QED
  BY <1>1, <1>3, <1>4, Clean0

LEMMA EventClean ==
  ASSUME Shape, Erasings, Erased, NEW c \in Caller, OpenEvents(c) \/ WriteEvent(c),
         NEW p \in Place \cup Scratch, p[1] \in Listed
  PROVE  slot'[p] = slot[p] \/ Clean(p[1], slot'[p])
<1>1. PlaceOf("events")[1] = "events"
  BY DEF PlaceOf
<1>2. CASE p # PlaceOf("events")
  BY <1>2, EventsFacts, WriteFacts
<1>3. CASE p = PlaceOf("events") /\ OpenEvents(c)
  <2>1. slot'[p] = IF Held("events") = Absent THEN <<>> ELSE Held("events")
    BY <1>3, EventsFacts
  <2>2. Tokens("events", <<>>) = {}
    <3>1. <<>> \in Seq(Event)
      OBVIOUS
    <3>2. Items(<<>>) = {}
      BY DEF Items
    <3> QED
      BY ZenonT(60), <3>1, <3>2, TokensOf
  <2> QED
    BY <1>1, <1>3, <2>1, <2>2 DEF Clean, Held
<1>4. CASE p = PlaceOf("events") /\ WriteEvent(c)
  <2> DEFINE e == [id |-> job[c].id, kind |-> job[c].kind, of |-> Current(job[c]).value, key |-> job[c].key]
             v == Held("events")
  <2>1. ~Free(c) /\ CallDoes(c, "write")
        /\ (slot'[p] = slot[p] \/ (v \in Seq(Event) /\ e \in Event /\ slot'[p] = Append(v, e)))
    BY <1>4, WriteFacts
  <2>2. job[c].kind # "erase"
    BY <2>1, NotErase DEF CallDoes
  <2>3. ASSUME v \in Seq(Event), e \in Event PROVE Clean("events", Append(v, e))
    <3>1. e.id = job[c].id
      OBVIOUS
    <3> HIDE DEF e, v
    <3>2. Append(v, e) \in Seq(Event) /\ Items(Append(v, e)) \subseteq Items(v) \cup {e}
      <4>1. Append(v, e) \in Seq(Event) /\ Len(Append(v, e)) = Len(v) + 1 /\ Len(v) \in Nat
            /\ \A i \in 1..Len(Append(v, e)) : (i \in 1..Len(v) /\ Append(v, e)[i] = v[i]) \/ Append(v, e)[i] = e
        BY <2>3
      <4>2. ASSUME NEW x \in Items(Append(v, e)) PROVE x \in Items(v) \cup {e}
        <5>1. PICK i \in 1..Len(Append(v, e)) : x = Append(v, e)[i]
          BY <4>1, <4>2, ItemOf
        <5>2. (i \in 1..Len(v) /\ Append(v, e)[i] = v[i]) \/ Append(v, e)[i] = e
          BY <4>1, <5>1
        <5>3. \A k \in 1..Len(v) : v[k] \in Items(v)
          BY <2>3, ItemsOf
        <5> QED
          BY <5>1, <5>2, <5>3
      <4> QED
        BY <4>1, <4>2
    <3>3. Tokens("events", Append(v, e)) \subseteq Tokens("events", v) \cup {job[c].id}
      <4> DEFINE A == Append(v, e)
      <4>1. A \in Seq(Event) /\ Items(A) \subseteq Items(v) \cup {e}
        BY <3>2
      <4> HIDE DEF A
      <4>2. Tokens("events", A) = {x.id : x \in Items(A)} /\ Tokens("events", v) = {x.id : x \in Items(v)}
        BY <2>3, <4>1, TokensOf
      <4>3. Tokens("events", A) \subseteq Tokens("events", v) \cup {job[c].id}
        BY <3>1, <4>1, <4>2
      <4> QED
        BY <4>3 DEF A
    <3> QED
      BY <2>1, <2>2, <3>3, OwnClean DEF v, Listed
  <2> QED
    BY <1>1, <1>4, <2>1, <2>3
<1> QED
  BY <1>2, <1>3, <1>4

(* Every step of a call but the removal of what was erased.                  *)
LEMMA ErasedMove ==
  ASSUME Shape, Erasings, Erased, NEW c \in Caller, Moving(c), ~(EraseFile(c) /\ Held(On(c)) # Absent) PROVE Erased'
<1>1. ~Free(c) /\ Moves(c) /\ calls' = calls
  BY MovingMoves
<1>2. /\ \A d \in Caller \ {c} : job'[d] = job[d]
      /\ job'[c] = NoJob \/ (job'[c].id = job[c].id /\ job'[c].kind = job[c].kind)
  BY <1>1, MovesOthers
<1>3. \A i \in 1..Len(job'[c].at) : job'[c].at[i].do \in Replacing /\ job'[c].at[i].on \in Listed =>
             Clean(job'[c].at[i].on, job'[c].at[i].value)
  <2>1. CASE job'[c] = NoJob
    BY <2>1, NoTmp
  <2>2. CASE job'[c] # NoJob
    BY <2>2, StepsClean
  <2> QED
    BY <2>1, <2>2
<1> DEFINE Noting == \A w \in notes' : w \in notes \/ w[1] \notin {"erased", "unseen"}
           Writing == \A p \in Place \cup Scratch : p[1] \in Listed => slot'[p] = slot[p] \/ Clean(p[1], slot'[p])
           Naming == job'[c].tmp \in {Absent, job[c].tmp} \/ slot'[job'[c].tmp] = Torn
<1>4. ASSUME Noting, Writing, Naming PROVE Erased'
  BY <1>1, <1>2, <1>3, <1>4, ErasedKept
<1>5. Noting
  <2>1. CASE OpenTemporary(c)
    <3>1. notes' \subseteq notes \cup {<<"collision", 0>>}
      BY <2>1, OpenFacts
    <3> QED
      BY <3>1
  <2>2. CASE WriteEvent(c)
    <3>1. notes' \subseteq notes \cup {<<"key", job[c].key>>, <<"closed", Current(job[c]).value>>}
      BY <2>2, WriteFacts
    <3> QED
      BY <3>1
  <2>3. CASE Cut(c)
    <3>1. notes' = notes \cup {<<"trouble", 0>>}
      BY <2>3, CutFacts
    <3> QED
      BY <3>1
  <2>4. ASSUME notes' = notes PROVE Noting
    BY <2>4
  <2>5. CASE Quiet(c) \/ Fill(c) \/ PutInPlace(c) \/ Drop(c) \/ Salt(c) \/ OpenEvents(c)
    BY <2>4, <2>5, QuietFacts DEF Fill, PutInPlace, Drop, Salt, OpenEvents
  <2>6. CASE EraseFile(c)
    BY <2>4, <2>6 DEF EraseFile, Held
  <2> HIDE DEF Noting
  <2> QED
    BY <2>1, <2>2, <2>3, <2>5, <2>6 DEF Moving, Quiet, Cut
<1>6. Writing
  <2> SUFFICES ASSUME NEW p \in Place \cup Scratch, p[1] \in Listed PROVE slot'[p] = slot[p] \/ Clean(p[1], slot'[p])
    OBVIOUS
  <2>1. CASE slot' = slot
    BY <2>1
  <2>2. CASE slot'[p] \in {Absent, Torn}
    BY <2>2, Clean0
  <2>3. CASE Quiet(c)
    BY <2>1, <2>3, QuietFacts
  <2>4. CASE OpenTemporary(c)
    BY <2>2, <2>4, OpenFacts
  <2>5. CASE Fill(c)
    BY <2>5, FillClean
  <2>6. CASE PutInPlace(c) /\ slot[job[c].tmp] # Absent
    BY <2>6, RenameClean
  <2>7. CASE PutInPlace(c) /\ slot[job[c].tmp] = Absent
    BY <2>1, <2>7 DEF PutInPlace
  <2>8. CASE Drop(c)
    <3>1. Removes(c)
      BY <2>8 DEF Removes
    <3> QED
      BY <2>2, <3>1, RemoveFacts
  <2>9. CASE Salt(c)
    <3>1. PlaceOf("salt")[1] = "salt" /\ "salt" \notin Listed
      BY DEF PlaceOf, Listed
    <3> QED
      BY <2>1, <2>9, <3>1, SaltFacts
  <2>10. CASE OpenEvents(c) \/ WriteEvent(c)
    BY <2>10, EventClean
  <2>11. CASE EraseFile(c)
    BY <2>1, <2>11 DEF EraseFile, Held
  <2>12. CASE Cut(c)
    <3>1. slot' = Left(c)
      BY <2>12, CutFacts
    <3>2. job[c].tmp # Absent => job[c].tmp \in Scratch
      BY DEF Shape, Typed, Call
    <3>3. slot'[p] = slot[p] \/ slot'[p] = Absent
      BY <3>1, <3>2 DEF Left, Shape, Typed
    <3> QED
      BY <2>2, <3>3
  <2> QED
    BY <2>3, <2>4, <2>5, <2>6, <2>7, <2>8, <2>9, <2>10, <2>11, <2>12 DEF Moving, Quiet, Cut
<1>7. Naming
  <2>1. CASE Quiet(c)
    BY <2>1, QuietFacts
  <2>2. CASE OpenTemporary(c)
    BY <2>2, OpenFacts
  <2>3. CASE Fill(c)
    BY <2>3, FillFacts
  <2>4. CASE PutInPlace(c) /\ slot[job[c].tmp] # Absent
    BY <2>4, RenameDone
  <2>5. CASE CallFails(c)
    BY <1>1, <2>5, FailTmp, NoTmp
  <2>6. CASE PutInPlace(c) /\ slot[job[c].tmp] = Absent
    BY <2>5, <2>6 DEF PutInPlace
  <2>7. CASE Drop(c)
    BY <2>7, RemoveFacts DEF Removes
  <2>8. CASE Salt(c)
    BY <2>8, SaltFacts
  <2>9. CASE OpenEvents(c) \/ WriteEvent(c)
    BY <2>9, EventsFacts, WriteFacts
  <2>10. CASE EraseFile(c)
    BY <2>5, <2>10 DEF EraseFile, Held
  <2>11. CASE Cut(c)
    BY <2>11, CutFacts
  <2> HIDE DEF Naming
  <2> QED
    BY <2>1, <2>2, <2>3, <2>4, <2>6, <2>7, <2>8, <2>9, <2>10, <2>11 DEF Moving, Quiet, Cut
<1> HIDE DEF Noting, Writing, Naming
<1> QED
  BY <1>4, <1>5, <1>6, <1>7

(* The removal of a file by an erase.                                        *)
LEMMA ErasedErase ==
  ASSUME Shape, Meetings, Erasings, Erased, NEW c \in Caller, EraseFile(c), Held(On(c)) # Absent PROVE Erased'
<1> DEFINE n == On(c)
           lost == Tokens(n, Held(n))
           q == job[c].at
<1>1. Removes(c) /\ Moving(c) /\ CallDoes(c, "unlink")
  BY DEF Removes, Moving, EraseFile
<1>2. /\ ~Free(c) /\ Continue(c) /\ n \in Names /\ slot'[PlaceOf(n)] = Absent
      /\ \A o \in Place \cup Scratch : o # PlaceOf(n) => slot'[o] = slot[o]
      /\ job'[c].tmp \in {Absent, job[c].tmp} /\ calls' = calls /\ Moves(c)
  BY <1>1, RemoveFacts, MovingMoves
<1>3. /\ \A d \in Caller \ {c} : job'[d] = job[d]
      /\ job'[c] = NoJob \/ (job'[c].id = job[c].id /\ job'[c].kind = job[c].kind)
  BY <1>2, MovesOthers
<1>4. job[c].kind = "erase" /\ q[1].do = "unlink" /\ q[1].on = n /\ 1 \in 1..Len(q) /\ Current(job[c]) = q[1]
  <2>1. /\ Current(job[c]) = q[1] /\ 1 \in 1..Len(q) /\ Current(job[c]) \in TaskType /\ StepOK(job[c], Current(job[c]))
    BY <1>2, AtWork
  <2>2. Current(job[c]).do = "unlink"
    BY <1>1 DEF CallDoes
  <2> QED
    BY <2>1, <2>2 DEF StepOK, On
<1>5. ASSUME c \notin met PROVE \A d \in Caller \ {c} : job[d] = NoJob
  <2>1. \A d \in Caller \ {c} : Free(d)
    BY <1>4, <1>5, EraseAlone
  <2> QED
    BY <2>1 DEF Shape, Jobs, CallOK, Free
<1>6. c \notin met => Held(n) = q[1].value
  <2>1. Unchecks(q, 1)
    BY <1>4 DEF Erasings, ErasePlan, Unchecks
  <2> QED
    BY <1>4, <2>1 DEF Erasings
<1>7. notes' = notes \cup (IF n = "salt" THEN {<<"unsalted", job[c].id>>} ELSE {})
                     \cup (IF c \in met THEN {} ELSE ({"erased"} \X {n} \X lost) \cup ({"unseen"} \X (lost \ Tokens(n, q[1].value))))
  BY <1>4 DEF EraseFile, Held
<1>8. CASE c \in met
  <2>1. \A w \in notes' : w \in notes \/ w[1] \notin {"erased", "unseen"}
    <3>1. notes' \subseteq notes \cup {<<"unsalted", job[c].id>>}
      BY <1>7, <1>8
    <3> QED
      BY <3>1
  <2>2. \A p \in Place \cup Scratch : p[1] \in Listed => slot'[p] = slot[p] \/ Clean(p[1], slot'[p])
    BY <1>2, Clean0
  <2>3. \A i \in 1..Len(job'[c].at) : job'[c].at[i].do \in Replacing /\ job'[c].at[i].on \in Listed =>
             Clean(job'[c].at[i].on, job'[c].at[i].value)
    <3>1. CASE job'[c] = NoJob
      BY <3>1, NoTmp
    <3>2. CASE job'[c] # NoJob
      BY <1>1, <3>2, StepsClean
    <3> QED
      BY <3>1, <3>2
  <2> QED
    BY <1>2, <1>3, <2>1, <2>2, <2>3, ErasedKept
<1>9. CASE c \notin met
  <2>1. lost \ Tokens(n, q[1].value) = {}
    BY <1>6, <1>9
  <2>2. notes' = notes \cup (IF n = "salt" THEN {<<"unsalted", job[c].id>>} ELSE {}) \cup ({"erased"} \X {n} \X lost)
    BY <1>7, <1>9, <2>1
  <2>3. n \in EraseFiles
    BY <1>4 DEF Erasings, ErasePlan
  <2>4. lost # {} => n \in Listed
    <3>1. n = "salt" => Tokens(n, Held(n)) = {}
      BY DEF Tokens
    <3> QED
      BY <2>3, <3>1 DEF EraseFiles, Listed
  <2>5. \A x \in lost : n \in Listed /\ x \in 0..calls
    BY <2>4 DEF Erased, Clean
  <2> HIDE DEF lost, n
  <2>6. ASSUME NEW w \in notes'
        PROVE  w \in notes \/ w = <<"unsalted", job[c].id>> \/ \E x \in lost : w = <<"erased", n, x>>
    BY <2>2
  <2>7. \A w \in notes' : w[1] # "unseen"
    <3>1. \A w \in notes : w[1] # "unseen"
      BY DEF Erased
    <3> QED
      BY <2>6, <3>1
  <2>8. ASSUME NEW w \in notes', w[1] = "erased"
        PROVE  w[2] \in Listed /\ w[3] \in 0..calls' /\ w = <<"erased", w[2], w[3]>>
    <3>1. CASE w \in notes
      BY <1>2, <2>8, <3>1 DEF Erased
    <3>2. CASE \E x \in lost : w = <<"erased", n, x>>
      BY <1>2, <2>5, <3>2
    <3> QED
      BY <2>6, <2>8, <3>1, <3>2
  <2>9. ASSUME NEW m \in Listed
        PROVE  \A x \in Tokens(m, slot'[PlaceOf(m)]) : x \in 0..calls' /\ <<"erased", m, x>> \notin notes'
    <3>1. m \in Names
      BY DEF Listed, Names, Stored
    <3>2. CASE m = n
      <4>1. slot'[PlaceOf(m)] = Absent
        BY <1>2, <3>2 DEF n
      <4>2. Tokens(m, slot'[PlaceOf(m)]) = {}
        BY <4>1, TokensOf
      <4> QED
        BY <4>2 DEF Clean
    <3>3. CASE m # n
      <4>1. slot'[PlaceOf(m)] = slot[PlaceOf(m)]
        BY <1>2, <3>1, <3>3, Places DEF n
      <4>2. Clean(m, slot[PlaceOf(m)])
        BY DEF Erased, Held
      <4>3. ASSUME NEW x, <<"erased", m, x>> \in notes' PROVE <<"erased", m, x>> \in notes
        BY <2>6, <3>3, <4>3
      <4> QED
        BY <1>2, <4>1, <4>2, <4>3 DEF Clean
    <3> QED
      BY <3>2, <3>3
  <2>10. ASSUME NEW d \in Caller PROVE job'[d] = NoJob \/ (d = c /\ job'[d].kind = "erase" /\ job'[d].at = Tail(q))
    <3>1. d # c => job'[d] = NoJob
      BY <1>3, <1>5, <1>9
    <3>2. job'[c] = NoJob \/ (job'[c].kind = "erase" /\ job'[c].at = Tail(q))
      BY <1>2, <1>4, StepsLeft
    <3> QED
      BY <3>1, <3>2
  <2>11. ASSUME NEW i \in 1..Len(Tail(q)) PROVE Tail(q)[i].do \notin Replacing
    <3>1. Runs(job[c], q) /\ q # <<>>
      BY <1>2, AtWork DEF CallOK, Free
    <3>2. i + 1 \in 1..Len(q) /\ Tail(q)[i] = q[i + 1]
      BY <3>1, Rest
    <3>3. q[i + 1].do \in {"check", "unlink"}
      BY <1>4, <3>2 DEF Erasings, ErasePlan
    <3> QED
      BY <3>2, <3>3 DEF Replacing
  <2> HIDE DEF q
  <2>12. ASSUME NEW d \in Caller, NEW i \in 1..Len(job'[d].at), job'[d].at[i].do \in Replacing PROVE FALSE
    <3>1. CASE job'[d] = NoJob
      BY <2>12, <3>1, NoTmp
    <3>2. CASE job'[d].at = Tail(q)
      <4>1. i \in 1..Len(Tail(q)) /\ Tail(q)[i].do \in Replacing
        BY <2>12, <3>2
      <4> QED
        BY <2>11, <4>1
    <3> QED
      BY <2>10, <3>1, <3>2
  <2>13. ASSUME NEW d \in Caller PROVE job'[d].at = <<>> \/ job'[d].kind = "erase"
    BY <2>10, NoTmp
  <2>14. ASSUME NEW d \in Caller PROVE job'[d].tmp = Absent \/ job'[d].kind = "erase"
    BY <2>10, NoTmp
  <2> QED
    BY <2>7, <2>8, <2>9, <2>12, <2>13, <2>14 DEF Erased, Clean, Held, Free
<1> QED
  BY <1>8, <1>9

(* The steps a call begins with write nothing.                               *)
LEMMA OpeningWrites ==
  ASSUME Typed, NEW kind \in Kind \ {"none"}, NEW i \in 1..Len(Opening(kind))
  PROVE  Opening(kind)[i].do \notin Replacing
<1>1. CASE kind = "erase"
  BY <1>1, EraseOpening DEF ErasePlan, Replacing
<1>2. CASE kind # "erase"
  <2>1. PICK s \in {Task("salt", "salt", Absent)} \cup {Task("read", n, Absent) : n \in {"events", "preflights", "policy", "latest", "sources"}} :
          Opening(kind) = <<s>>
    BY <1>2 DEF Opening, Kind, ReadOf
  <2>2. s.do \in {"salt", "read"}
    BY <2>1 DEF Task
  <2>3. Opening(kind)[i] = s
    <3>1. i = 1
      BY <2>1
    <3> QED
      BY <2>1, <3>1
  <2> QED
    BY <2>2, <2>3 DEF Replacing
<1> QED
  BY <1>1, <1>2

LEMMA ErasedBegin == ASSUME Shape, Erased, NEW c \in Caller, BeginCall(c) PROVE Erased'
<1>1. calls' = calls + 1 /\ UNCHANGED <<topic, slot, opened>> /\ calls \in Nat
  BY BeginMoves DEF Shape, Typed
<1>2. PICK kind \in Kinds[topic], arg \in Nat \cup SourceKey \cup Report :
        /\ kind \in Kind \ {"none"}
        /\ job' = [job EXCEPT ![c] = NewCall(c, kind, arg)] /\ job'[c] = NewCall(c, kind, arg)
        /\ notes' \subseteq notes \cup {<<"scans", 0>>}
  BY BeginMoves
<1>3. \A d \in Caller \ {c} : job'[d] = job[d]
  BY <1>2 DEF Shape, Typed
<1>4. job'[c].id = calls + 1 /\ job'[c].tmp = Absent /\ job'[c].at = Opening(kind)
  BY <1>2 DEF NewCall
<1>5. \A w \in notes' : w \in notes \/ w[1] = "scans"
  BY <1>2
<1>6. ASSUME NEW n, NEW v, Clean(n, v) PROVE \A x \in Tokens(n, v) : x \in 0..calls' /\ <<"erased", n, x>> \notin notes'
  <2>1. ASSUME NEW x, <<"erased", n, x>> \in notes' PROVE <<"erased", n, x>> \in notes
    <3>1. <<"erased", n, x>>[1] # "scans"
      OBVIOUS
    <3> QED
      BY <1>5, <2>1, <3>1
  <2>2. 0..calls \subseteq 0..calls'
    BY <1>1
  <2> QED
    BY <1>6, <2>1, <2>2 DEF Clean
<1>7. /\ \A w \in notes' : w[1] = "erased" => w[2] \in Listed /\ w[3] \in 0..calls /\ w = <<"erased", w[2], w[3]>>
      /\ \A w \in notes' : w[1] # "unseen"
  BY <1>5 DEF Erased
<1>8. 0..calls \subseteq 0..calls' /\ calls + 1 \notin 0..calls
  BY <1>1
<1>9. ASSUME NEW d \in Caller, job'[d].at # <<>>, job'[d].kind # "erase", NEW n \in Listed
      PROVE  <<"erased", n, job'[d].id>> \notin notes'
  <2>1. CASE d = c
    <3>1. ASSUME <<"erased", n, calls + 1>> \in notes' PROVE FALSE
      <4>1. <<"erased", n, calls + 1>>[1] = "erased" /\ <<"erased", n, calls + 1>>[3] = calls + 1
        OBVIOUS
      <4> QED
        BY <1>7, <1>8, <3>1, <4>1
    <3> QED
      BY <1>4, <2>1, <3>1
  <2>2. CASE d # c
    <3>1. job'[d] = job[d]
      BY <1>3, <2>2
    <3>2. <<"erased", n, job[d].id>> \notin notes
      BY <1>9, <3>1 DEF Erased, Free
    <3>3. <<"erased", n, job[d].id>>[1] # "scans"
      OBVIOUS
    <3> QED
      BY <1>5, <3>1, <3>2, <3>3
  <2> QED
    BY <2>1, <2>2
<1>10. ASSUME NEW d \in Caller, NEW i \in 1..Len(job'[d].at), job'[d].at[i].do \in Replacing, job'[d].at[i].on \in Listed
       PROVE  Clean(job'[d].at[i].on, job'[d].at[i].value)
  <2>1. CASE d = c
    <3>1. i \in 1..Len(Opening(kind)) /\ Opening(kind)[i].do \in Replacing
      BY <1>4, <1>10, <2>1
    <3> QED
      BY <1>2, <3>1, OpeningWrites DEF Shape
  <2>2. CASE d # c
    <3>1. job'[d] = job[d]
      BY <1>3, <2>2
    <3> QED
      BY <1>10, <3>1 DEF Erased
  <2> QED
    BY <2>1, <2>2
<1>11. ASSUME NEW d \in Caller, job'[d].kind # "erase", job'[d].tmp # Absent, job'[d].tmp[1] \in Listed
       PROVE  Clean(job'[d].tmp[1], slot[job'[d].tmp])
  <2>1. d # c
    BY <1>4, <1>11
  <2>2. job'[d] = job[d]
    BY <1>3, <2>1
  <2> QED
    BY <1>11, <2>2 DEF Erased
<1>12. \A n \in Listed : Clean(n, slot[PlaceOf(n)])
  BY DEF Erased, Held
<1> QED
  BY <1>1, <1>6, <1>7, <1>8, <1>9, <1>10, <1>11, <1>12 DEF Erased, Clean, Held, Free

LEMMA ErasedStep == ASSUME Shape, Meetings, Erasings, Erased, [StoreNext]_storeVars PROVE Erased'
<1>1. CASE UNCHANGED storeVars \/ Review
  BY <1>1 DEF storeVars, Review, Erased, Clean, Held, Free, CallDoes
<1>2. ASSUME NEW c \in Caller, BeginCall(c) PROVE Erased'
  BY <1>2, ErasedBegin
<1>3. ASSUME NEW c \in Caller, Moving(c) PROVE Erased'
  BY <1>3, ErasedMove, ErasedErase
<1> QED
  BY <1>1, <1>2, <1>3, NextCases

LEMMA ErasedInit == StoreInit => Erased
<1> SUFFICES ASSUME StoreInit PROVE Erased
  OBVIOUS
<1>1. notes = {} /\ \A c \in Caller : job[c] = NoJob
  BY DEF StoreInit
<1>2. \A n \in Listed : Held(n) = Absent
  <2>1. \A n \in Listed : n \in Names
    BY DEF Listed, Names, Stored
  <2> QED
    BY <2>1, Places DEF StoreInit, Held
<1>3. \A n \in Listed : Clean(n, Held(n))
  BY <1>2, Clean0
<1> QED
  BY <1>1, <1>3, NoTmp DEF Erased, Free

-----------------------------------------------------------------------------
(* Salts.                                                                  *)

(* The salts somebody may still use, those that were used or may be, and   *)
(* the salts erased.                                                       *)
InUse == {job[c].key : c \in Caller} \cup {Held("salt")}
         \cup {job[c].id : c \in {d \in Caller : opened[d] = PlaceOf("salt")}}
SaltsMade == {w \in notes : w[1] = "key"} \cup {<<"key", s>> : s \in InUse \ {Absent, Torn}}
Unsalted == {w \in notes : w[1] = "unsalted"}

(* The file of the salt.                                                   *)
SaltPlace == PlaceOf("salt")

LEMMA SaltName == "salt" \in Names /\ SaltPlace \in Place /\ SaltPlace \notin Scratch /\ SaltPlace[1] = "salt" /\ SaltPlace # Absent
  BY Places DEF Names, Stored, SaltPlace

LEMMA KeyKept ==
  ASSUME Shape, NEW c \in Caller, Moving(c) PROVE job'[c].key \in {Absent, job[c].key, Held("salt")}
<1>1. ~Free(c)
  BY MovingMoves
<1>2. CASE Continue(c)
  BY <1>1, <1>2, OnWith, NoTmp
<1>3. CASE CallFails(c)
  BY <1>1, <1>3, FailTmp, NoTmp
<1>4. CASE Read(c) /\ ~CallFails(c)
  <2> DEFINE v == slot[PlaceOf(On(c))]
  <2>1. CallDoes(c, "read") /\ v # Torn /\ \E s \in After(job[c], On(c), v) : GoTo(c, [job[c] EXCEPT !.read = v], s)
    BY <1>4 DEF Read
  <2>2. PICK s \in After(job[c], On(c), v) : GoTo(c, [job[c] EXCEPT !.read = v], s)
    BY <2>1
  <2>3. job'[c] = LET j == job[c] IN
               IF s = <<>> THEN NoJob
               ELSE [id |-> j.id, kind |-> j.kind, arg |-> j.arg, at |-> s, read |-> slot[PlaceOf(On(c))],
                     key |-> j.key, tmp |-> j.tmp, bad |-> j.bad]
    BY <2>1, <2>2, ReadMoves
  <2> QED
    BY <2>3, NoTmp
<1>5. CASE Key(c) /\ ~CallFails(c)
  <2>1. CallDoes(c, "key") /\ Held("salt") \notin {Absent, Torn}
    BY <1>5 DEF Key, Held
  <2>2. PICK s \in {ReadOf("events"), ReadOf("preflights")} :
          job'[c] = [id |-> job[c].id, kind |-> job[c].kind, arg |-> job[c].arg, at |-> s, read |-> job[c].read,
                     key |-> Held("salt"), tmp |-> job[c].tmp, bad |-> job[c].bad]
    BY <1>5, <2>1, KeyMoves
  <2> QED
    BY <2>2
<1>6. CASE Salt(c)
  BY <1>6, SaltFacts
<1>7. CASE OpenTemporary(c)
  BY <1>7, OpenFacts
<1>8. CASE Fill(c) \/ Drop(c) \/ OpenEvents(c) \/ WriteEvent(c)
  BY <1>2, <1>8 DEF Fill, Drop, OpenEvents, WriteEvent
<1>9. CASE PutInPlace(c) \/ CheckReviewed(c) \/ EraseFile(c) \/ Decline(c)
  BY <1>2, <1>3, <1>9 DEF PutInPlace, CheckReviewed, EraseFile, Decline
<1>10. CASE Cut(c)
  BY <1>3, <1>10, CutFacts, NoTmp
<1> QED
  BY <1>3, <1>4, <1>5, <1>6, <1>7, <1>8, <1>9, <1>10 DEF Moving, Cut

(* The steps that neither create a salt nor erase it.                        *)
SaltMade(c)   == Salt(c) /\ Held("salt") = Absent
SaltErased(c) == EraseFile(c) /\ On(c) = "salt" /\ Held("salt") # Absent

LEMMA SaltPlain ==
  ASSUME Shape, Overtaking, NEW c \in Caller, Moving(c), ~SaltMade(c), ~SaltErased(c)
  PROVE  /\ slot'[SaltPlace] = Held("salt") \/ (opened[c] = SaltPlace /\ slot'[SaltPlace] = job[c].id)
         /\ opened'[c] # SaltPlace
         /\ \A d \in Caller \ {c} : opened'[d] = SaltPlace => opened[d] = SaltPlace
         /\ \A w \in notes' : w[1] \in {"key", "unsalted"} =>
               w \in notes \/ (w = <<"key", job[c].key>> /\ job[c].key \in Nat)
         /\ notes \subseteq notes'
<1>0. SaltPlace \in Place \cup Scratch /\ SaltPlace[1] = "salt" /\ SaltPlace # Absent
  BY SaltName
<1>1. CASE Quiet(c)
  BY <1>0, <1>1, QuietFacts DEF Held, SaltPlace
<1>2. CASE OpenTemporary(c)
  <2>1. PICK t \in Scratch :
          /\ opened'[c] = t /\ \A d \in Caller \ {c} : opened'[d] = opened[d]
          /\ \A o \in Place \cup Scratch : o # t => slot'[o] = slot[o]
          /\ notes \subseteq notes' /\ notes' \subseteq notes \cup {<<"collision", 0>>}
    BY <1>2, OpenFacts
  <2>2. t # SaltPlace
    BY SaltName
  <2> QED
    BY <1>0, <2>1, <2>2 DEF Held, SaltPlace
<1>3. CASE Fill(c)
  <2>1. /\ opened'[c] = Absent /\ \A d \in Caller \ {c} : opened'[d] = opened[d]
        /\ notes' = notes /\ \A o \in Place \cup Scratch : o # opened[c] => slot'[o] = slot[o]
        /\ On(c) = "salt" => Current(job[c]).value = job[c].id
        /\ opened[c] # Absent => /\ opened[c][1] = On(c)
                                 /\ slot'[opened[c]] = Current(job[c]).value \/ c \in overtaken
    BY <1>3, FillFacts
  <2>2. opened[c] # SaltPlace => slot'[SaltPlace] = Held("salt")
    BY <1>0, <2>1 DEF Held, SaltPlace
  <2>3. opened[c] = SaltPlace => slot'[SaltPlace] = job[c].id
    BY <1>0, <2>1 DEF Overtaking
  <2> QED
    BY <1>0, <2>1, <2>2, <2>3
<1>4. CASE PutInPlace(c) /\ slot[job[c].tmp] # Absent
  <2>1. LET n == On(c) t == job[c].tmp p == PlaceOf(n) IN
         /\ n \in Names /\ n # "salt" /\ p \in Place /\ t \in Scratch /\ opened'[c] = Absent
         /\ \A o \in Place \cup Scratch : o \notin {p, t} => slot'[o] = slot[o]
         /\ opened' = [d \in Caller |-> IF opened[d] = t THEN p ELSE IF opened[d] = p THEN Absent ELSE opened[d]]
         /\ notes' = notes
    BY <1>4, RenameDone
  <2>2. PlaceOf(On(c)) # SaltPlace /\ job[c].tmp # SaltPlace
    BY <2>1, SaltName, Places DEF SaltPlace
  <2>3. slot'[SaltPlace] = Held("salt")
    BY <1>0, <2>1, <2>2 DEF Held, SaltPlace
  <2>4. \A d \in Caller \ {c} : opened'[d] = SaltPlace => opened[d] = SaltPlace
    BY <1>0, <2>1, <2>2
  <2> QED
    BY <1>0, <2>1, <2>3, <2>4
<1>5. CASE UNCHANGED <<slot, opened, notes>> /\ opened[c] = Absent
  BY <1>0, <1>5 DEF Held, SaltPlace
<1>6. CASE PutInPlace(c) /\ slot[job[c].tmp] = Absent
  <2>1. CallDoes(c, "rename") /\ UNCHANGED <<slot, opened, notes>>
    BY <1>6 DEF PutInPlace
  <2>2. opened[c] = Absent
    BY <2>1, NothingOpen, OneThing
  <2> QED
    BY <1>5, <2>1, <2>2
<1>7. CASE Removes(c)
  <2>1. On(c) # "salt"
    <3>1. CASE Drop(c)
      <4>1. On(c) \in Report
        <5>1. ~Free(c) /\ Current(job[c]).do = "drop"
          BY <3>1 DEF Drop, CallDoes
        <5>2. StepOK(job[c], Current(job[c]))
          BY <5>1, AtWork
        <5> QED
          BY <5>1, <5>2 DEF StepOK, On
      <4> QED
        BY <4>1, ScanNames
    <3>2. CASE EraseFile(c) /\ Held(On(c)) # Absent
      BY <3>2 DEF SaltErased
    <3> QED
      BY <1>7, <3>1, <3>2 DEF Removes
  <2>2. LET p == PlaceOf(On(c)) IN
         /\ On(c) \in Names /\ opened'[c] = Absent /\ \A o \in Place \cup Scratch : o # p => slot'[o] = slot[o]
         /\ opened' = [d \in Caller |-> IF opened[d] = p THEN Absent ELSE opened[d]]
    BY <1>7, RemoveFacts
  <2>3. PlaceOf(On(c)) # SaltPlace
    BY <2>1, <2>2, SaltName, Places DEF SaltPlace
  <2>4. slot'[SaltPlace] = Held("salt")
    BY <1>0, <2>2, <2>3 DEF Held, SaltPlace
  <2>5. \A d \in Caller \ {c} : opened'[d] = SaltPlace => opened[d] = SaltPlace
    BY <1>0, <2>2
  <2>6. notes \subseteq notes' /\ \A w \in notes' : w \in notes \/ w[1] \in {"erased", "unseen"}
    <3>1. CASE Drop(c)
      BY <3>1 DEF Drop
    <3>2. CASE EraseFile(c) /\ Held(On(c)) # Absent
      <4> DEFINE A == {"erased"} \X {On(c)} \X Tokens(On(c), Held(On(c)))
                 B == {"unseen"} \X (Tokens(On(c), Held(On(c))) \ Tokens(On(c), Current(job[c]).value))
      <4>1. notes' = notes \cup {} \cup (IF c \in met THEN {} ELSE A \cup B)
        BY <2>1, <3>2 DEF EraseFile, Held
      <4>2. (\A w \in A : w[1] = "erased") /\ (\A w \in B : w[1] = "unseen")
        OBVIOUS
      <4> HIDE DEF A, B
      <4> QED
        BY <4>1, <4>2
    <3> QED
      BY <1>7, <3>1, <3>2 DEF Removes
  <2> QED
    BY <1>0, <2>2, <2>4, <2>5, <2>6
<1>8. CASE EraseFile(c) /\ ~Removes(c)
  <2>1. CallDoes(c, "unlink") /\ UNCHANGED <<slot, opened, notes>>
    BY <1>8 DEF EraseFile, Removes, Held
  <2>2. opened[c] = Absent
    BY <2>1, NothingOpen, OneThing
  <2> QED
    BY <1>5, <2>1, <2>2
<1>9. CASE Salt(c)
  <2>1. Held("salt") # Absent
    BY <1>9 DEF SaltMade
  <2> QED
    BY <1>5, <1>9, <2>1, SaltFacts
<1>10. CASE OpenEvents(c) \/ WriteEvent(c)
  <2>1. PlaceOf("events") # SaltPlace
    BY DEF PlaceOf, SaltPlace
  <2>2. slot'[SaltPlace] = Held("salt")
    BY <1>0, <1>10, <2>1, EventsFacts, WriteFacts DEF Held, SaltPlace
  <2>3. opened' = [opened EXCEPT ![c] = PlaceOf("events")] \/ opened' = [opened EXCEPT ![c] = Absent]
    BY <1>10, EventsFacts, WriteFacts
  <2>4. opened'[c] # SaltPlace /\ \A d \in Caller \ {c} : opened'[d] = opened[d]
    BY <1>0, <2>1, <2>3 DEF Shape, Typed
  <2>5. notes \subseteq notes' /\ \A w \in notes' : w[1] \in {"key", "unsalted"} =>
               w \in notes \/ (w = <<"key", job[c].key>> /\ job[c].key \in Nat)
    <3>1. CASE OpenEvents(c)
      BY <3>1, EventsFacts
    <3>2. CASE WriteEvent(c)
      <4>1. notes \subseteq notes' /\ notes' \subseteq notes \cup {<<"key", job[c].key>>, <<"closed", Current(job[c]).value>>}
            /\ job[c].key # Absent
        BY <3>2, WriteFacts
      <4>2. job[c].key \in Nat
        BY <4>1 DEF Shape, Typed, Call
      <4> QED
        BY <4>1, <4>2
    <3> QED
      BY <1>10, <3>1, <3>2
  <2> QED
    BY <2>2, <2>4, <2>5
<1>11. CASE Cut(c)
  <2>1. slot' = Left(c) /\ opened' = [opened EXCEPT ![c] = Absent] /\ notes' = notes \cup {<<"trouble", 0>>}
    BY <1>11, CutFacts
  <2>2. slot'[SaltPlace] = Held("salt")
    BY <2>1, SaltName, LeftFacts DEF Held, SaltPlace
  <2>3. opened'[c] = Absent /\ \A d \in Caller \ {c} : opened'[d] = opened[d]
    BY <2>1 DEF Shape, Typed
  <2> QED
    BY <1>0, <2>1, <2>2, <2>3
<1> QED
  BY <1>1, <1>2, <1>3, <1>4, <1>6, <1>7, <1>8, <1>9, <1>10, <1>11 DEF Moving, Quiet, Cut, Removes

LEMMA MadeKept ==
  ASSUME Shape, Overtaking, NEW c \in Caller, Moving(c), ~SaltMade(c), ~SaltErased(c)
  PROVE  SaltsMade' \subseteq SaltsMade /\ Unsalted' = Unsalted /\ (slot'[SaltPlace] = Absent => Held("salt") = Absent)
<1>1. /\ slot'[SaltPlace] = Held("salt") \/ (opened[c] = SaltPlace /\ slot'[SaltPlace] = job[c].id)
      /\ opened'[c] # SaltPlace
      /\ \A d \in Caller \ {c} : opened'[d] = SaltPlace => opened[d] = SaltPlace
      /\ \A w \in notes' : w[1] \in {"key", "unsalted"} => w \in notes \/ (w = <<"key", job[c].key>> /\ job[c].key \in Nat)
      /\ notes \subseteq notes'
  BY SaltPlain
<1>2. job'[c].key \in {Absent, job[c].key, Held("salt")} /\ \A d \in Caller \ {c} : job'[d] = job[d]
  BY KeyKept, MovingMoves, MovesOthers
<1>3. job[c].id \in Nat
  BY DEF Shape, Typed, Call
<1>4. \A d \in Caller : job[d].key \in InUse
  BY DEF InUse
<1>5. Held("salt") \in InUse /\ \A d \in Caller : opened[d] = SaltPlace => job[d].id \in InUse
  BY DEF InUse, SaltPlace
<1>6. \A x \in InUse' : x \in InUse \/ x \in {Absent, Torn}
  <2>1. \A d \in Caller : job'[d].key \in InUse \cup {Absent}
    BY <1>2, <1>4, <1>5
  <2>2. slot'[SaltPlace] \in InUse
    BY <1>1, <1>5
  <2>3. \A d \in Caller : opened'[d] = SaltPlace => job'[d].id \in InUse
    BY <1>1, <1>2, <1>5
  <2> QED
    BY <2>1, <2>2, <2>3 DEF InUse, Held, SaltPlace
<1>7. ASSUME NEW w \in SaltsMade' PROVE w \in SaltsMade
  <2>1. CASE w \in notes' /\ w[1] = "key"
    <3>1. w \in notes \/ (w = <<"key", job[c].key>> /\ job[c].key \in Nat)
      BY <1>1, <2>1
    <3>2. job[c].key \in Nat => job[c].key \notin {Absent, Torn}
      BY Numbers
    <3> QED
      BY <1>4, <2>1, <3>1, <3>2 DEF SaltsMade
  <2>2. CASE \E s \in InUse' \ {Absent, Torn} : w = <<"key", s>>
    BY <1>6, <2>2 DEF SaltsMade
  <2> QED
    BY <1>7, <2>1, <2>2 DEF SaltsMade
<1>8. Unsalted' = Unsalted
  <2>1. ASSUME NEW w \in notes', w[1] = "unsalted" PROVE w \in notes
    BY <1>1, <2>1
  <2> QED
    BY <1>1, <2>1 DEF Unsalted
<1>9. slot'[SaltPlace] = Absent => Held("salt") = Absent
  BY <1>1, <1>3, Numbers
<1> QED
  BY <1>7, <1>8, <1>9

LEMMA CountKept ==
  ASSUME NEW S, NEW T, NEW n \in Nat, IsFiniteSet(S), T \subseteq S, Cardinality(S) <= n
  PROVE  IsFiniteSet(T) /\ Cardinality(T) <= n
<1>1. IsFiniteSet(T) /\ Cardinality(T) <= Cardinality(S) /\ Cardinality(T) \in Nat /\ Cardinality(S) \in Nat
  BY FS_Subset, FS_CardinalityType
<1> QED
  BY <1>1

(* There are no more salts than erases of one, and one more while there is *)
(* a salt; and an erase counts once.                                       *)
SaltCount ==
    /\ IsFiniteSet(SaltsMade) /\ IsFiniteSet(Unsalted)
    /\ Cardinality(SaltsMade) <= Cardinality(Unsalted) + (IF Held("salt") = Absent THEN 0 ELSE 1)
SaltOnce ==
    /\ \A w \in Unsalted : w = <<"unsalted", w[2]>> /\ w[2] \in 0..calls
    /\ \A c \in Caller : (\E i \in 1..Len(job[c].at) : job[c].at[i].do = "unlink" /\ job[c].at[i].on = "salt")
         => <<"unsalted", job[c].id>> \notin notes

LEMMA SaltCountKept ==
  ASSUME SaltCount, SaltsMade' \subseteq SaltsMade, Unsalted' = Unsalted, slot'[SaltPlace] = Absent => Held("salt") = Absent
  PROVE  SaltCount'
<1>1. Cardinality(Unsalted) \in Nat /\ Cardinality(SaltsMade) \in Nat
  BY FS_CardinalityType DEF SaltCount
<1>2. IsFiniteSet(SaltsMade') /\ Cardinality(SaltsMade') <= Cardinality(Unsalted) + (IF Held("salt") = Absent THEN 0 ELSE 1)
  <2> DEFINE S == SaltsMade
             T == SaltsMade'
             n == Cardinality(Unsalted) + (IF Held("salt") = Absent THEN 0 ELSE 1)
  <2>1. n \in Nat /\ IsFiniteSet(S) /\ T \subseteq S /\ Cardinality(S) <= n
    BY <1>1 DEF SaltCount
  <2> HIDE DEF S, T, n
  <2>2. IsFiniteSet(T) /\ Cardinality(T) <= n
    BY ONLY <2>1, CountKept
  <2> QED
    BY <2>2 DEF T, n
<1>3. Held("salt")' = slot'[SaltPlace]
  BY DEF Held, SaltPlace
<1>4. Cardinality(SaltsMade') \in Nat
  BY <1>2, FS_CardinalityType
<1>5. Cardinality(SaltsMade') <= Cardinality(Unsalted) + (IF slot'[SaltPlace] = Absent THEN 0 ELSE 1)
  BY <1>1, <1>2, <1>4
<1>6. IsFiniteSet(Unsalted) /\ Cardinality(Unsalted') = Cardinality(Unsalted) /\ IsFiniteSet(Unsalted')
  BY DEF SaltCount
<1> QED
  BY <1>2, <1>3, <1>5, <1>6 DEF SaltCount

LEMMA SaltCountMade == ASSUME Shape, SaltCount, NEW c \in Caller, SaltMade(c) PROVE SaltCount'
<1>1. /\ \A d \in Caller \ {c} : job'[d] = job[d]
      /\ job'[c].key = job[c].key /\ notes' = notes /\ Held("salt") = Absent /\ slot'[SaltPlace] = Torn
      /\ opened'[c] = SaltPlace /\ \A d \in Caller \ {c} : opened'[d] = opened[d]
      /\ job'[c].id = job[c].id
  BY SaltFacts, MovesOthers DEF SaltMade, SaltPlace
<1> DEFINE x == <<"key", job[c].id>>
<1>2. \A y \in InUse' : y \in InUse \/ y = Torn \/ y = job[c].id
  BY <1>1 DEF InUse, Held, SaltPlace
<1>3. SaltsMade' \subseteq SaltsMade \cup {x}
  BY <1>1, <1>2 DEF SaltsMade
<1>4. Unsalted' = Unsalted
  BY <1>1 DEF Unsalted
<1>5. /\ IsFiniteSet(SaltsMade \cup {x}) /\ Cardinality(SaltsMade \cup {x}) <= Cardinality(SaltsMade) + 1
      /\ Cardinality(SaltsMade) \in Nat /\ Cardinality(SaltsMade \cup {x}) \in Nat /\ Cardinality(Unsalted) \in Nat
  <2> DEFINE S == SaltsMade
  <2>1. IsFiniteSet(S)
    BY DEF SaltCount
  <2> HIDE DEF S, x
  <2>2. /\ IsFiniteSet(S \cup {x}) /\ Cardinality(S \cup {x}) = IF x \in S THEN Cardinality(S) ELSE Cardinality(S) + 1
        /\ Cardinality(S) \in Nat
    BY <2>1, FS_AddElement, FS_CardinalityType
  <2>3. IsFiniteSet(S \cup {x}) /\ Cardinality(S \cup {x}) <= Cardinality(S) + 1 /\ Cardinality(S) \in Nat /\ Cardinality(S \cup {x}) \in Nat
    BY <2>2
  <2>4. Cardinality(Unsalted) \in Nat
    BY FS_CardinalityType DEF SaltCount
  <2> QED
    BY <2>3, <2>4 DEF S
<1>6. Cardinality(SaltsMade) <= Cardinality(Unsalted)
  BY <1>1, <1>5 DEF SaltCount
<1> HIDE DEF x
<1>7. IsFiniteSet(SaltsMade') /\ Cardinality(SaltsMade') <= Cardinality(Unsalted) + 1
  <2> DEFINE S == SaltsMade \cup {x}
             T == SaltsMade'
             n == Cardinality(Unsalted) + 1
  <2>1. n \in Nat /\ IsFiniteSet(S) /\ T \subseteq S /\ Cardinality(S) <= n
    BY <1>3, <1>5, <1>6
  <2> HIDE DEF S, T, n
  <2>2. IsFiniteSet(T) /\ Cardinality(T) <= n
    BY ONLY <2>1, CountKept
  <2> QED
    BY <2>2 DEF T, n
<1>8. Held("salt")' # Absent
  BY <1>1, Constants DEF Held, SaltPlace
<1>9. IsFiniteSet(Unsalted') /\ Cardinality(Unsalted') = Cardinality(Unsalted)
  BY <1>4 DEF SaltCount
<1> QED
  BY <1>7, <1>8, <1>9 DEF SaltCount

LEMMA SaltCountErased ==
  ASSUME Shape, Erasings, SaltCount, SaltOnce, NEW c \in Caller, SaltErased(c) PROVE SaltCount'
<1>1. Moving(c) /\ Removes(c)
  BY DEF SaltErased, Moving, Removes
<1>2. /\ \A d \in Caller \ {c} : job'[d] = job[d]
      /\ slot'[SaltPlace] = Absent /\ opened' = [d \in Caller |-> IF opened[d] = SaltPlace THEN Absent ELSE opened[d]]
      /\ Held("salt") # Absent /\ job'[c].key \in {Absent, job[c].key, Held("salt")}
  BY <1>1, RemoveFacts, MovesOthers, KeyKept DEF SaltErased, SaltPlace
<1> DEFINE x == <<"unsalted", job[c].id>>
           A == {"erased"} \X {"salt"} \X Tokens("salt", Held("salt"))
           B == {"unseen"} \X (Tokens("salt", Held("salt")) \ Tokens("salt", Current(job[c]).value))
<1>3. \A w \in A \cup B : w[1] \in {"erased", "unseen"}
  OBVIOUS
<1>4. notes' = notes \cup {x} \cup (IF c \in met THEN {} ELSE A \cup B)
  BY DEF SaltErased, EraseFile, Held
<1>5. x[1] = "unsalted"
  OBVIOUS
<1>6. x \notin notes
  <2>1. ~Free(c) /\ CallDoes(c, "unlink") /\ On(c) = "salt"
    BY DEF SaltErased, EraseFile, CallDoes
  <2>2. Current(job[c]) = job[c].at[1] /\ 1 \in 1..Len(job[c].at)
    BY <2>1, AtWork
  <2> QED
    BY <2>1, <2>2 DEF SaltOnce, CallDoes, On
<1> HIDE DEF x, A, B
<1>7. Unsalted' = Unsalted \cup {x} /\ x \notin Unsalted
  BY <1>3, <1>4, <1>5, <1>6 DEF Unsalted
<1>8. \A y \in InUse' : y \in InUse \/ y = Absent
  <2>1. \A d \in Caller : job'[d].key \in InUse \cup {Absent}
    BY <1>2 DEF InUse
  <2>2. \A d \in Caller : opened'[d] # SaltPlace
    BY <1>2, SaltName
  <2> QED
    BY <1>2, <2>1, <2>2 DEF InUse, Held, SaltPlace
<1>9. SaltsMade' \subseteq SaltsMade
  <2>1. \A w \in notes' : w[1] = "key" => w \in notes
    BY <1>3, <1>4, <1>5
  <2> QED
    BY <1>8, <2>1 DEF SaltsMade
<1>10. /\ IsFiniteSet(Unsalted \cup {x}) /\ Cardinality(Unsalted \cup {x}) = Cardinality(Unsalted) + 1
       /\ Cardinality(Unsalted) \in Nat /\ Cardinality(SaltsMade) \in Nat
  <2> DEFINE S == Unsalted
  <2>1. IsFiniteSet(S) /\ x \notin S
    BY <1>7 DEF SaltCount
  <2> HIDE DEF S
  <2>2. IsFiniteSet(S \cup {x}) /\ Cardinality(S \cup {x}) = Cardinality(S) + 1 /\ Cardinality(S) \in Nat
    BY <2>1, FS_AddElement, FS_CardinalityType
  <2>3. Cardinality(SaltsMade) \in Nat
    BY FS_CardinalityType DEF SaltCount
  <2> QED
    BY <2>2, <2>3 DEF S
<1>11. Cardinality(SaltsMade) <= Cardinality(Unsalted) + 1
  BY <1>2, <1>10 DEF SaltCount
<1>12. IsFiniteSet(SaltsMade') /\ Cardinality(SaltsMade') <= Cardinality(Unsalted) + 1
  <2> DEFINE S == SaltsMade
             T == SaltsMade'
             n == Cardinality(Unsalted) + 1
  <2>1. n \in Nat /\ IsFiniteSet(S) /\ T \subseteq S /\ Cardinality(S) <= n
    BY <1>9, <1>10, <1>11 DEF SaltCount
  <2> HIDE DEF S, T, n
  <2>2. IsFiniteSet(T) /\ Cardinality(T) <= n
    BY ONLY <2>1, CountKept
  <2> QED
    BY <2>2 DEF T, n
<1>13. Held("salt")' = Absent
  BY <1>2 DEF Held, SaltPlace
<1>14. IsFiniteSet(Unsalted') /\ Cardinality(Unsalted') = Cardinality(Unsalted) + 1
  BY <1>7, <1>10
<1>15. Cardinality(SaltsMade') \in Nat
  BY <1>12, FS_CardinalityType
<1>16. Cardinality(SaltsMade') <= Cardinality(Unsalted') + 0
  BY <1>10, <1>12, <1>14, <1>15
<1> QED
  BY <1>12, <1>13, <1>14, <1>16 DEF SaltCount

LEMMA SaltCountStep ==
  ASSUME Shape, Overtaking, Erasings, SaltCount, SaltOnce, [StoreNext]_storeVars PROVE SaltCount'
<1>1. CASE UNCHANGED storeVars \/ Review
  BY <1>1 DEF storeVars, Review, SaltCount, SaltsMade, Unsalted, InUse, Held
<1>2. ASSUME NEW c \in Caller, BeginCall(c) PROVE SaltCount'
  <2>1. UNCHANGED <<slot, opened>> /\ opened[c] = Absent
    BY <1>2, BeginMoves
  <2>2. PICK kind \in Kinds[topic], arg \in Nat \cup SourceKey \cup Report :
        /\ job' = [job EXCEPT ![c] = NewCall(c, kind, arg)] /\ job'[c] = NewCall(c, kind, arg)
        /\ notes \subseteq notes' /\ notes' \subseteq notes \cup {<<"scans", 0>>}
    BY <1>2, BeginMoves
  <2>3. job'[c].key = Absent /\ \A d \in Caller \ {c} : job'[d] = job[d]
    BY <2>2 DEF NewCall, Shape, Typed
  <2>4. \A w \in notes' : w \in notes \/ w[1] = "scans"
    BY <2>2
  <2>5. \A y \in InUse' : y \in InUse \/ y = Absent
    <3>1. \A d \in Caller : opened'[d] = PlaceOf("salt") => d # c /\ opened[d] = PlaceOf("salt")
      BY <2>1, SaltName DEF SaltPlace
    <3> QED
      BY <2>1, <2>3, <3>1 DEF InUse, Held
  <2>6. SaltsMade' \subseteq SaltsMade
    BY <2>4, <2>5 DEF SaltsMade
  <2>7. Unsalted' = Unsalted
    BY <2>2, <2>4 DEF Unsalted
  <2>8. slot'[SaltPlace] = Held("salt")
    BY <2>1 DEF Held, SaltPlace
  <2> QED
    BY <2>6, <2>7, <2>8, SaltCountKept
<1>3. ASSUME NEW c \in Caller, Moving(c) PROVE SaltCount'
  BY <1>3, MadeKept, SaltCountKept, SaltCountMade, SaltCountErased
<1> QED
  BY <1>1, <1>2, <1>3, NextCases

LEMMA SaltOnceMove ==
  ASSUME Shape, Overtaking, Erasings, SaltOnce, NEW c \in Caller, Moving(c) PROVE SaltOnce'
<1>1. ~Free(c) /\ Moves(c) /\ calls' = calls
  BY MovingMoves
<1>2. /\ \A d \in Caller \ {c} : job'[d] = job[d]
      /\ job'[c] = NoJob \/ (job'[c].id = job[c].id /\ job'[c].kind = job[c].kind)
  BY <1>1, MovesOthers
<1> DEFINE x == <<"unsalted", job[c].id>>
<1>3. (\A w \in notes' : w[1] = "unsalted" => w \in notes) \/ (SaltErased(c) /\ \A w \in notes' : w[1] = "unsalted" => w \in notes \cup {x})
  <2>1. CASE SaltErased(c)
    <3> DEFINE A == {"erased"} \X {"salt"} \X Tokens("salt", Held("salt"))
               B == {"unseen"} \X (Tokens("salt", Held("salt")) \ Tokens("salt", Current(job[c]).value))
    <3>1. \A w \in A \cup B : w[1] \in {"erased", "unseen"}
      OBVIOUS
    <3>2. notes' = notes \cup {x} \cup (IF c \in met THEN {} ELSE A \cup B)
      BY <2>1 DEF SaltErased, EraseFile, Held
    <3> HIDE DEF A, B, x
    <3> QED
      BY <2>1, <3>1, <3>2
  <2>2. CASE SaltMade(c)
    <3>1. notes' = notes
      BY <2>2, SaltFacts DEF SaltMade
    <3> QED
      BY <3>1
  <2>3. CASE ~SaltMade(c) /\ ~SaltErased(c)
    <3>1. \A w \in notes' : w[1] = "unsalted" => w \in notes \/ w = <<"key", job[c].key>>
      BY <2>3, SaltPlain
    <3> QED
      BY <3>1
  <2> QED
    BY <2>1, <2>2, <2>3
<1>4. job[c].id \in 0..calls /\ x[1] = "unsalted" /\ x[2] = job[c].id
  BY <1>1 DEF Shape, Jobs
<1>5. ASSUME NEW w \in Unsalted' PROVE w = <<"unsalted", w[2]>> /\ w[2] \in 0..calls'
  <2>1. w \in notes' /\ w[1] = "unsalted"
    BY <1>5 DEF Unsalted
  <2>2. w \in Unsalted \/ w = x
    BY <1>3, <2>1 DEF Unsalted
  <2> HIDE DEF x
  <2>3. w \in Unsalted => w = <<"unsalted", w[2]>> /\ w[2] \in 0..calls
    BY DEF SaltOnce
  <2>4. x = <<"unsalted", x[2]>>
    BY <1>4 DEF x
  <2> QED
    BY <1>1, <1>4, <2>2, <2>3, <2>4
<1>6. ASSUME NEW d \in Caller, NEW i \in 1..Len(job'[d].at), job'[d].at[i].do = "unlink", job'[d].at[i].on = "salt"
      PROVE  <<"unsalted", job'[d].id>> \notin notes'
  <2>1. CASE d # c
    <3>1. job'[d] = job[d] /\ <<"unsalted", job[d].id>> \notin notes
      BY <1>2, <1>6, <2>1 DEF SaltOnce
    <3>2. ~Free(d)
      BY <1>6, <3>1 DEF Free
    <3>3. job[d].id # job[c].id
      BY <1>1, <2>1, <3>2 DEF Shape, Jobs
    <3>4. <<"unsalted", job[d].id>> # x /\ <<"unsalted", job[d].id>>[1] = "unsalted"
      BY <3>3
    <3> HIDE DEF x
    <3> QED
      BY <1>3, <3>1, <3>4
  <2>2. CASE d = c
    <3>1. job'[c].kind = "erase"
      <4>1. job'[c] # NoJob
        BY <1>6, <2>2, NoTmp
      <4>2. CallOK(job'[c])
        BY <1>1 DEF Moves
      <4>3. StepOK(job'[c], job'[c].at[i])
        BY <1>6, <2>2, <4>2 DEF CallOK, Runs
      <4> QED
        BY <1>6, <2>2, <4>3 DEF StepOK
    <3>2. job[c].kind = "erase" /\ job'[c].at = Tail(job[c].at) /\ (CheckReviewed(c) \/ EraseFile(c))
      BY <3>1, EraseMoves
    <3>3. Runs(job[c], job[c].at) /\ job[c].at # <<>> /\ Current(job[c]) = job[c].at[1] /\ 1 \in 1..Len(job[c].at)
      BY <1>1, AtWork DEF CallOK, Free
    <3>4. i + 1 \in 1..Len(job[c].at) /\ Tail(job[c].at)[i] = job[c].at[i + 1] /\ i + 1 # 1
      BY <1>6, <2>2, <3>2, <3>3, Rest
    <3>5. job[c].at[i + 1].do = "unlink" /\ job[c].at[i + 1].on = "salt"
      BY <1>6, <2>2, <3>2, <3>4
    <3>6. <<"unsalted", job[c].id>> \notin notes
      BY <3>4, <3>5 DEF SaltOnce
    <3>7. ~SaltErased(c)
      <4> SUFFICES ASSUME SaltErased(c) PROVE FALSE
        OBVIOUS
      <4>1. job[c].at[1].do = "unlink" /\ job[c].at[1].on = "salt"
        BY <3>3 DEF SaltErased, EraseFile, CallDoes, On
      <4> QED
        BY <3>2, <3>3, <3>4, <3>5, <4>1 DEF Erasings, ErasePlan
    <3>8. job'[c].id = job[c].id
      BY <1>2, <3>1, NoTmp
    <3>9. <<"unsalted", job[c].id>>[1] = "unsalted"
      OBVIOUS
    <3> HIDE DEF x
    <3> QED
      BY <1>3, <2>2, <3>6, <3>7, <3>8, <3>9
  <2> QED
    BY <2>1, <2>2
<1>7. \A d \in Caller : (\E i \in 1..Len(job'[d].at) : job'[d].at[i].do = "unlink" /\ job'[d].at[i].on = "salt")
         => <<"unsalted", job'[d].id>> \notin notes'
  BY <1>6
<1> QED
  BY <1>5, <1>7 DEF SaltOnce

LEMMA SaltOnceStep ==
  ASSUME Shape, Overtaking, Erasings, SaltOnce, [StoreNext]_storeVars PROVE SaltOnce'
<1>1. CASE UNCHANGED storeVars \/ Review
  BY <1>1 DEF storeVars, Review, SaltOnce, Unsalted
<1>2. ASSUME NEW c \in Caller, BeginCall(c) PROVE SaltOnce'
  <2>1. calls' = calls + 1 /\ calls \in Nat
    BY <1>2, BeginMoves DEF Shape, Typed
  <2>2. PICK kind \in Kinds[topic], arg \in Nat \cup SourceKey \cup Report :
        /\ job' = [job EXCEPT ![c] = NewCall(c, kind, arg)] /\ job'[c] = NewCall(c, kind, arg)
        /\ notes' \subseteq notes \cup {<<"scans", 0>>}
    BY <1>2, BeginMoves
  <2>3. job'[c].id = calls + 1 /\ \A d \in Caller \ {c} : job'[d] = job[d]
    BY <2>2 DEF NewCall, Shape, Typed
  <2>4. \A w \in notes' : w[1] = "unsalted" => w \in notes
    BY <2>2
  <2>5. \A w \in Unsalted' : w = <<"unsalted", w[2]>> /\ w[2] \in 0..calls
    BY <2>4 DEF SaltOnce, Unsalted
  <2>6. 0..calls \subseteq 0..calls' /\ calls + 1 \notin 0..calls
    BY <2>1
  <2>7. <<"unsalted", calls + 1>> \notin notes'
    <3> SUFFICES ASSUME <<"unsalted", calls + 1>> \in notes' PROVE FALSE
      OBVIOUS
    <3>1. <<"unsalted", calls + 1>>[1] = "unsalted" /\ <<"unsalted", calls + 1>>[2] = calls + 1
      OBVIOUS
    <3>2. <<"unsalted", calls + 1>> \in Unsalted'
      BY <3>1 DEF Unsalted
    <3> QED
      BY <2>5, <2>6, <3>1, <3>2
  <2>8. ASSUME NEW d \in Caller, d # c, <<"unsalted", job[d].id>> \notin notes PROVE <<"unsalted", job'[d].id>> \notin notes'
    <3>1. <<"unsalted", job[d].id>>[1] = "unsalted"
      OBVIOUS
    <3> QED
      BY <2>3, <2>4, <2>8, <3>1
  <2>9. \A d \in Caller : (\E i \in 1..Len(job'[d].at) : job'[d].at[i].do = "unlink" /\ job'[d].at[i].on = "salt")
         => <<"unsalted", job'[d].id>> \notin notes'
    <3> SUFFICES ASSUME NEW d \in Caller, NEW i \in 1..Len(job'[d].at), job'[d].at[i].do = "unlink", job'[d].at[i].on = "salt"
                 PROVE  <<"unsalted", job'[d].id>> \notin notes'
      OBVIOUS
    <3>1. CASE d = c
      BY <2>3, <2>7, <3>1
    <3>2. CASE d # c
      <4>1. job'[d] = job[d]
        BY <2>3, <3>2
      <4>2. <<"unsalted", job[d].id>> \notin notes
        BY <4>1 DEF SaltOnce
      <4> QED
        BY <2>8, <3>2, <4>2
    <3> QED
      BY <3>1, <3>2
  <2> QED
    BY <2>5, <2>6, <2>9 DEF SaltOnce
<1>3. ASSUME NEW c \in Caller, Moving(c) PROVE SaltOnce'
  BY <1>3, SaltOnceMove
<1> QED
  BY <1>1, <1>2, <1>3, NextCases

LEMMA SaltsInit == StoreInit => SaltCount /\ SaltOnce
<1> SUFFICES ASSUME StoreInit PROVE SaltCount /\ SaltOnce
  OBVIOUS
<1>1. notes = {} /\ (\A c \in Caller : job[c] = NoJob /\ opened[c] = Absent) /\ Held("salt") = Absent
  BY SaltName DEF StoreInit, Held, SaltPlace
<1>2. InUse \subseteq {Absent}
  BY <1>1, NoTmp, SaltName DEF InUse, SaltPlace
<1>3. SaltsMade = {} /\ Unsalted = {}
  BY <1>1, <1>2 DEF SaltsMade, Unsalted
<1>4. IsFiniteSet({}) /\ Cardinality({}) = 0
  BY FS_EmptySet
<1>5. SaltCount
  BY <1>1, <1>3, <1>4 DEF SaltCount
<1>6. SaltOnce
  BY <1>1, <1>3 DEF SaltOnce
<1> QED
  BY <1>5, <1>6

(* All that is needed of erasing.                                          *)
ErasureInv == Shape /\ Overtaking /\ Meetings /\ Erasings /\ Erased /\ SaltCount /\ SaltOnce

LEMMA ErasureMeans == ErasureInv => ErasedForGood
<1> SUFFICES ASSUME ErasureInv PROVE ErasedForGood
  OBVIOUS
<1>1. ASSUME NEW w \in notes, w[1] = "erased" PROVE w[3] \notin Tokens(w[2], Held(w[2]))
  <2>1. w[2] \in Listed /\ w = <<"erased", w[2], w[3]>>
    BY <1>1 DEF ErasureInv, Erased
  <2>2. Clean(w[2], Held(w[2]))
    BY <2>1 DEF ErasureInv, Erased
  <2> QED
    BY <2>1, <2>2 DEF Clean
<1>2. \A w \in notes : w[1] # "unseen"
  BY DEF ErasureInv, Erased
<1> DEFINE K == {w \in notes : w[1] = "key"}
<1>3. K \subseteq SaltsMade
  BY DEF SaltsMade
<1>4. Cardinality(Unsalted) \in Nat /\ Cardinality(SaltsMade) \in Nat /\ IsFiniteSet(SaltsMade)
      /\ Cardinality(SaltsMade) <= Cardinality(Unsalted) + (IF Held("salt") = Absent THEN 0 ELSE 1)
  BY FS_CardinalityType DEF ErasureInv, SaltCount
<1>5. Cardinality(SaltsMade) <= Cardinality(Unsalted) + 1 /\ Cardinality(Unsalted) + 1 \in Nat
  BY <1>4
<1>6. Cardinality(K) <= 1 + Cardinality(Unsalted)
  <2> DEFINE S == SaltsMade
             n == Cardinality(Unsalted) + 1
  <2>1. n \in Nat /\ IsFiniteSet(S) /\ K \subseteq S /\ Cardinality(S) <= n
    BY <1>3, <1>4, <1>5
  <2> HIDE DEF S, K, n
  <2>2. IsFiniteSet(K) /\ Cardinality(K) <= n
    BY ONLY <2>1, CountKept
  <2>3. Cardinality(K) \in Nat
    BY <2>2, FS_CardinalityType
  <2> QED
    BY <1>4, <2>2, <2>3 DEF n
<1> QED
  BY <1>1, <1>2, <1>6 DEF ErasedForGood, Unsalted

(* A reviewed erase that nobody ran beside removes nothing unreviewed and  *)
(* for good, and between two erases of the salt there is only one salt     *)
(* (applyEvidenceErasePlan, createEvidencePrivacy).                        *)
THEOREM ErasedForGoodHolds == StoreSpec => []ErasedForGood
<1>1. StoreInit => ErasureInv
  BY ShapeInit, OvertakingInit, MeetingsInit, ErasingsInit, ErasedInit, SaltsInit DEF ErasureInv
<1>2. ErasureInv /\ [StoreNext]_storeVars => ErasureInv'
  <2> SUFFICES ASSUME ErasureInv, [StoreNext]_storeVars PROVE ErasureInv'
    OBVIOUS
  <2> QED
    BY ShapeStep, OvertakingStep, MeetingsStep, ErasingsStep, ErasedStep, SaltCountStep, SaltOnceStep DEF ErasureInv
<1> QED
  BY <1>1, <1>2, ErasureMeans, PTL DEF StoreSpec

-----------------------------------------------------------------------------
(* The reports and their history.                                          *)

(* No report twice.                                                        *)
Distinct(s) == \A i, k \in 1..Len(s) : s[i] = s[k] => i = k

(* What is in every file.                                                  *)
AllHeld == [n \in Names |-> Held(n)]

(* The latest report is in the index and differs from the previous one.    *)
Settled(H) ==
    IF H["latest"] = Absent THEN H["previous"] = Absent
    ELSE H["latest"] \in Items(List(H["index"])) /\ H["previous"] # H["latest"]

(* The files of the history are whole, and the index names reports that    *)
(* are there.                                                              *)
Complete(H) ==
    /\ \A n \in ScanFiles : H[n] # Torn
    /\ Distinct(List(H["index"])) /\ \A r \in Items(List(H["index"])) : H[r] = r

(* The steps q still have to do this to n.                                 *)
Pending(q, do, n) == \E i \in 1..Len(q) : q[i].do = do /\ q[i].on = n

(* The order of the steps of a scan: it reads last, replaces the previous  *)
(* report before the latest, and removes what is pruned at the end.        *)
Script(q) ==
    /\ \A i \in 1..Len(q) : q[i].do \in {"read", "drop"} \cup Replacing /\ q[i].on \in ScanFiles
    /\ \A i \in 1..Len(q) : q[i].do = "read" => i = Len(q) /\ (q[i].on = "latest" => Len(q) = 1)
    /\ (\A i \in 1..Len(q) : q[i].do # "read") => \A i \in 1..Len(q) : q[i].on \notin {"latest", "previous"}
    /\ \A i, k \in 1..Len(q) : q[i].do = "rename" /\ q[i].on = "previous" /\ q[k].do = "rename" /\ q[k].on = "latest" => i < k
    /\ \A i, k \in 1..Len(q) : q[i].do = "drop" /\ i < k => q[k].do = "drop"

(* What the remaining steps do to the index, when H is in the files: it    *)
(* will name only reports that are there by then, and none that is         *)
(* removed.                                                                *)
IndexPlan(q, H) ==
    /\ \A i \in 1..Len(q) : q[i].do = "rename" /\ q[i].on = "index" =>
          /\ Distinct(q[i].value)
          /\ \A r \in Items(q[i].value) : H[r] = r \/ \E k \in 1..(i - 1) : q[k].do = "rename" /\ q[k].on = r
    /\ \A i \in 1..Len(q) : q[i].do = "drop" =>
          /\ \A k \in 1..Len(q) : q[k].do = "rename" /\ q[k].on = "index" => q[i].on \notin Items(q[k].value)
          /\ ~Pending(q, "rename", "index") => q[i].on \notin Items(List(H["index"]))

(* What they do to the latest and the previous report.                     *)
OrderPlan(q, arg, H) ==
    IF Pending(q, "read", "latest") THEN Settled(H)
    ELSE IF Pending(q, "read", "index")
    THEN /\ \A i \in 1..Len(q) : q[i].do = "rename" /\ q[i].on = "latest" => q[i].value = arg
         /\ \A i \in 1..Len(q) : q[i].do = "rename" /\ q[i].on = "previous" =>
               Pending(q, "rename", "latest") /\ q[i].value = H["latest"] /\ q[i].value # arg
         /\ ~Pending(q, "rename", "previous") => H["previous"] # arg
         /\ ~Pending(q, "rename", "latest") => H["latest"] = arg
    ELSE /\ H["latest"] = arg /\ H["previous"] # arg
         /\ \A i \in 1..Len(q) : q[i].do = "rename" /\ q[i].on = "index" => arg \in Items(q[i].value)
         /\ ~Pending(q, "rename", "index") => arg \in Items(List(H["index"]))

(* The steps of a scan.                                                      *)
Apt(q) ==
    q \in Seq(TaskType) /\ \A i \in 1..Len(q) :
        /\ q[i].do \in Replacing => Fits(q[i].on, q[i].value)
        /\ q[i].do = "drop" => q[i].on \in Report
        /\ q[i].do = "read" => q[i].on \in {"latest", "index"}
FilesOf(H) == H \in [Names -> AnyValue] /\ H["index"] \in Seq(Report) \cup {Absent, Torn}

LEMMA TailOf ==
  ASSUME NEW q \in Seq(TaskType), q # <<>>
  PROVE  LET r == Tail(q) IN
         /\ r \in Seq(TaskType) /\ Len(r) = Len(q) - 1 /\ Len(q) \in Nat /\ 1 \in 1..Len(q)
         /\ \A i \in 1..Len(r) : i + 1 \in 1..Len(q) /\ r[i] = q[i + 1] /\ i + 1 # 1
         /\ \A k \in 1..Len(q) : k = 1 \/ (k - 1 \in 1..Len(r) /\ r[k - 1] = q[k])
<1> DEFINE r == Tail(q)
<1>1. r \in Seq(TaskType) /\ Len(r) = Len(q) - 1 /\ Len(q) \in Nat /\ 1 \in 1..Len(q)
  OBVIOUS
<1>2. \A i \in 1..Len(r) : i + 1 \in 1..Len(q) /\ r[i] = q[i + 1] /\ i + 1 # 1
  OBVIOUS
<1> HIDE DEF r
<1>3. ASSUME NEW k \in 1..Len(q), k # 1 PROVE k - 1 \in 1..Len(r) /\ r[k - 1] = q[k]
  <2>1. k - 1 \in 1..Len(r) /\ (k - 1) + 1 = k
    BY <1>1, <1>3
  <2> QED
    BY <1>2, <2>1
<1> QED
  BY <1>1, <1>2, <1>3 DEF r

LEMMA AptTail == ASSUME NEW q, Apt(q), q # <<>> PROVE Apt(Tail(q))
<1> DEFINE r == Tail(q)
<1>1. r \in Seq(TaskType) /\ \A i \in 1..Len(r) : i + 1 \in 1..Len(q) /\ r[i] = q[i + 1]
  BY TailOf DEF Apt
<1> HIDE DEF r
<1>2. Apt(r)
  BY <1>1 DEF Apt
<1> QED
  BY <1>2 DEF r

LEMMA ScriptTail == ASSUME NEW q, Apt(q), q # <<>>, Script(q) PROVE Script(Tail(q))
<1> DEFINE r == Tail(q)
<1>1. /\ r \in Seq(TaskType) /\ Len(r) = Len(q) - 1 /\ Len(q) \in Nat /\ 1 \in 1..Len(q)
      /\ \A i \in 1..Len(r) : i + 1 \in 1..Len(q) /\ r[i] = q[i + 1] /\ i + 1 # 1
      /\ \A k \in 1..Len(q) : k = 1 \/ (k - 1 \in 1..Len(r) /\ r[k - 1] = q[k])
  BY TailOf DEF Apt
<1> HIDE DEF r
<1>2. \A i \in 1..Len(r) : r[i].do \in {"read", "drop"} \cup Replacing /\ r[i].on \in ScanFiles
  BY <1>1 DEF Script
<1>3. ASSUME NEW i \in 1..Len(r), r[i].do = "read" PROVE i = Len(r) /\ r[i].on # "latest"
  <2>1. i + 1 = Len(q) /\ (r[i].on = "latest" => Len(q) = 1)
    BY <1>1, <1>3 DEF Script
  <2> QED
    BY <1>1, <2>1
<1>4. ASSUME \A i \in 1..Len(r) : r[i].do # "read", NEW i \in 1..Len(r) PROVE r[i].on \notin {"latest", "previous"}
  <2>1. q[1].do # "read"
    <3>1. q[1].do = "read" => 1 = Len(q)
      BY <1>1 DEF Script
    <3> QED
      BY <1>1, <3>1
  <2>2. \A k \in 1..Len(q) : q[k].do # "read"
    BY <1>1, <1>4, <2>1
  <2>3. i + 1 \in 1..Len(q) /\ r[i] = q[i + 1]
    BY <1>1
  <2> QED
    BY <2>2, <2>3 DEF Script
<1>5. ASSUME NEW i \in 1..Len(r), NEW k \in 1..Len(r),
             r[i].do = "rename" /\ r[i].on = "previous" /\ r[k].do = "rename" /\ r[k].on = "latest"
      PROVE  i < k
  <2>1. i + 1 \in 1..Len(q) /\ k + 1 \in 1..Len(q) /\ r[i] = q[i + 1] /\ r[k] = q[k + 1]
    BY <1>1
  <2>2. i + 1 < k + 1
    BY <1>5, <2>1 DEF Script
  <2> QED
    BY <1>1, <2>2
<1>6. ASSUME NEW i \in 1..Len(r), NEW k \in 1..Len(r), r[i].do = "drop", i < k PROVE r[k].do = "drop"
  <2>1. i + 1 \in 1..Len(q) /\ k + 1 \in 1..Len(q) /\ r[i] = q[i + 1] /\ r[k] = q[k + 1] /\ i + 1 < k + 1
    BY <1>1, <1>6
  <2> QED
    BY <1>6, <2>1 DEF Script
<1>7. Script(r)
  BY <1>2, <1>3, <1>4, <1>5, <1>6 DEF Script
<1> QED
  BY <1>7 DEF r

(* What remains pending after the first step.                                *)
LEMMA PendingTail ==
  ASSUME NEW q \in Seq(TaskType), q # <<>>, NEW do, NEW n
  PROVE  Pending(q, do, n) <=> Pending(Tail(q), do, n) \/ (q[1].do = do /\ q[1].on = n)
<1> DEFINE r == Tail(q)
<1>1. /\ Len(q) \in Nat /\ 1 \in 1..Len(q)
      /\ \A i \in 1..Len(r) : i + 1 \in 1..Len(q) /\ r[i] = q[i + 1] /\ i + 1 # 1
      /\ \A k \in 1..Len(q) : k = 1 \/ (k - 1 \in 1..Len(r) /\ r[k - 1] = q[k])
  BY TailOf
<1> HIDE DEF r
<1>2. Pending(q, do, n) <=> Pending(r, do, n) \/ (q[1].do = do /\ q[1].on = n)
  BY SMTT(30), <1>1 DEF Pending
<1> QED
  BY <1>2 DEF r

LEMMA IndexItems ==
  ASSUME NEW H, FilesOf(H), H["index"] # Torn
  PROVE  List(H["index"]) \in Seq(Report) /\ Items(List(H["index"])) \subseteq Report
<1>1. List(H["index"]) \in Seq(Report)
  BY DEF FilesOf, List
<1> QED
  BY <1>1, ItemsOf

(* A step that changes no file.                                              *)
LEMMA IndexSame ==
  ASSUME NEW q, Apt(q), q # <<>>, Script(q), NEW H, IndexPlan(q, H), q[1].do \notin {"rename"}
  PROVE  IndexPlan(Tail(q), H)
<1> DEFINE r == Tail(q)
<1>1. /\ q \in Seq(TaskType) /\ r \in Seq(TaskType) /\ Len(r) = Len(q) - 1 /\ Len(q) \in Nat /\ 1 \in 1..Len(q)
      /\ \A i \in 1..Len(r) : i + 1 \in 1..Len(q) /\ r[i] = q[i + 1] /\ i + 1 # 1
      /\ \A k \in 1..Len(q) : k = 1 \/ (k - 1 \in 1..Len(r) /\ r[k - 1] = q[k])
  BY TailOf DEF Apt
<1>2. Pending(q, "rename", "index") <=> Pending(r, "rename", "index")
  BY <1>1, PendingTail
<1> HIDE DEF r
<1>3. ASSUME NEW i \in 1..Len(r), r[i].do = "rename", r[i].on = "index"
      PROVE  /\ Distinct(r[i].value)
             /\ \A x \in Items(r[i].value) : H[x] = x \/ \E k \in 1..(i - 1) : r[k].do = "rename" /\ r[k].on = x
  <2>1. i + 1 \in 1..Len(q) /\ r[i] = q[i + 1]
    BY <1>1
  <2>2. /\ Distinct(q[i + 1].value)
        /\ \A x \in Items(q[i + 1].value) : H[x] = x \/ \E k \in 1..((i + 1) - 1) : q[k].do = "rename" /\ q[k].on = x
    BY <1>3, <2>1 DEF IndexPlan
  <2>3. ASSUME NEW x, NEW k \in 1..((i + 1) - 1), q[k].do = "rename", q[k].on = x
        PROVE  \E m \in 1..(i - 1) : r[m].do = "rename" /\ r[m].on = x
    <3>1. k \in 1..Len(q) /\ k # 1 /\ k - 1 \in 1..(i - 1)
      BY <1>1, <2>1, <2>3
    <3>2. r[k - 1] = q[k]
      BY <1>1, <3>1
    <3> QED
      BY <2>3, <3>1, <3>2
  <2> QED
    BY <2>1, <2>2, <2>3
<1>4. ASSUME NEW i \in 1..Len(r), r[i].do = "drop"
      PROVE  /\ \A k \in 1..Len(r) : r[k].do = "rename" /\ r[k].on = "index" => r[i].on \notin Items(r[k].value)
             /\ ~Pending(r, "rename", "index") => r[i].on \notin Items(List(H["index"]))
  <2>1. i + 1 \in 1..Len(q) /\ r[i] = q[i + 1]
    BY <1>1
  <2>2. \A k \in 1..Len(r) : k + 1 \in 1..Len(q) /\ r[k] = q[k + 1]
    BY <1>1
  <2>3. /\ \A k \in 1..Len(q) : q[k].do = "rename" /\ q[k].on = "index" => q[i + 1].on \notin Items(q[k].value)
        /\ ~Pending(q, "rename", "index") => q[i + 1].on \notin Items(List(H["index"]))
    <3>1. q[i + 1].do = "drop"
      BY <1>4, <2>1
    <3> QED
      BY <2>1, <3>1 DEF IndexPlan
  <2>4. ASSUME NEW k \in 1..Len(r), r[k].do = "rename", r[k].on = "index" PROVE r[i].on \notin Items(r[k].value)
    <3>1. k + 1 \in 1..Len(q) /\ r[k] = q[k + 1]
      BY <2>2
    <3>2. q[k + 1].do = "rename" /\ q[k + 1].on = "index"
      BY <2>4, <3>1
    <3>3. q[i + 1].on \notin Items(q[k + 1].value)
      BY <2>3, <3>1, <3>2
    <3> QED
      BY <2>1, <3>1, <3>3
  <2> QED
    BY <1>2, <2>1, <2>3, <2>4
<1>5. IndexPlan(r, H)
  BY <1>3, <1>4 DEF IndexPlan
<1> QED
  BY <1>5 DEF r

LEMMA IndexDrop ==
  ASSUME NEW q, Apt(q), q # <<>>, Script(q), NEW H, FilesOf(H), Complete(H), IndexPlan(q, H), q[1].do = "drop"
  PROVE  LET G == [H EXCEPT ![q[1].on] = Absent] IN Complete(G) /\ IndexPlan(Tail(q), G)
<1> DEFINE n == q[1].on
           r == Tail(q)
           G == [H EXCEPT ![n] = Absent]
<1>1. /\ q \in Seq(TaskType) /\ r \in Seq(TaskType) /\ Len(r) = Len(q) - 1 /\ Len(q) \in Nat /\ 1 \in 1..Len(q)
      /\ \A i \in 1..Len(r) : i + 1 \in 1..Len(q) /\ r[i] = q[i + 1] /\ i + 1 # 1
  BY TailOf DEF Apt
<1>2. n \in Report /\ n \in Names /\ n # "index" /\ "index" \in Names /\ ScanFiles \subseteq Names
  BY <1>1, ScanNames, StoreConstants DEF Apt, Stored
<1>3. G["index"] = H["index"] /\ G[n] = Absent /\ \A x \in Names : x # n => G[x] = H[x]
  BY <1>2 DEF FilesOf
<1>4. \A k \in 1..Len(q) : q[k].do = "drop"
  <2>1. \A k \in 1..Len(q) : 1 < k \/ k = 1
    OBVIOUS
  <2> QED
    BY <1>1, <2>1 DEF Script
<1>5. ~Pending(q, "rename", "index")
  BY <1>4 DEF Pending
<1>6. n \notin Items(List(H["index"]))
  BY <1>1, <1>5 DEF IndexPlan
<1>7. H["index"] # Torn /\ Items(List(H["index"])) \subseteq Report
  BY IndexItems DEF Complete, ScanFiles
<1>8. IndexPlan(r, H)
  BY IndexSame
<1> HIDE DEF G, r, n
<1>9. Complete(G)
  <2>1. \A x \in ScanFiles : G[x] # Torn
    BY <1>2, <1>3, Constants DEF Complete
  <2>2. \A x \in Items(List(G["index"])) : G[x] = x
    BY <1>2, <1>3, <1>6, <1>7, ScanNames DEF Complete
  <2> QED
    BY <1>3, <2>1, <2>2 DEF Complete
<1>10. \A i \in 1..Len(r) : r[i].do = "drop"
  BY <1>1, <1>4
<1>11. IndexPlan(r, G)
  BY <1>3, <1>8, <1>10 DEF IndexPlan
<1> QED
  BY <1>9, <1>11 DEF G, r, n

LEMMA FitsOf ==
  /\ \A v : Fits("index", v) => v \in Seq(Report)
  /\ \A r \in Report : \A v : Fits(r, v) => v = r
  /\ \A n \in Names : \A v : Fits(n, v) => v \notin {Absent, Torn} /\ v \in AnyValue
<1>1. \A v : Fits("index", v) => v \in Seq(Report)
  BY ValueOf DEF Fits
<1>2. \A r \in Report : \A v : Fits(r, v) => v = r
  BY ValueOf DEF Fits
<1>3. \A n \in Names : \A v : Fits(n, v) => v \notin {Absent, Torn} /\ v \in AnyValue
  BY Constants, ValueIsAny DEF Fits
<1> QED
  BY <1>1, <1>2, <1>3

LEMMA IndexRename ==
  ASSUME NEW q, Apt(q), q # <<>>, Script(q), NEW H, FilesOf(H), Complete(H), IndexPlan(q, H), q[1].do = "rename"
  PROVE  LET G == [H EXCEPT ![q[1].on] = q[1].value] IN Complete(G) /\ IndexPlan(Tail(q), G)
<1> DEFINE n == q[1].on
           v == q[1].value
           r == Tail(q)
           G == [H EXCEPT ![n] = v]
<1>1. /\ q \in Seq(TaskType) /\ r \in Seq(TaskType) /\ Len(r) = Len(q) - 1 /\ Len(q) \in Nat /\ 1 \in 1..Len(q)
      /\ \A i \in 1..Len(r) : i + 1 \in 1..Len(q) /\ r[i] = q[i + 1] /\ i + 1 # 1
      /\ \A k \in 1..Len(q) : k = 1 \/ (k - 1 \in 1..Len(r) /\ r[k - 1] = q[k])
  BY TailOf DEF Apt
<1>2. n \in ScanFiles /\ n \in Names /\ Fits(n, v) /\ ScanFiles \subseteq Names /\ "index" \in Names
  BY <1>1, ScanNames DEF Apt, Script, Replacing
<1>3. v \notin {Absent, Torn} /\ (n = "index" => v \in Seq(Report)) /\ (n \in Report => v = n)
  BY <1>2, FitsOf
<1>4. G[n] = v /\ \A x \in Names : x # n => G[x] = H[x]
  BY <1>2 DEF FilesOf
<1>5. H["index"] # Torn /\ Items(List(H["index"])) \subseteq Report
  BY IndexItems DEF Complete, ScanFiles
<1>6. "index" \notin Report /\ "latest" \notin Report /\ "previous" \notin Report /\ Report \subseteq Names /\ Report \subseteq ScanFiles
  BY StoreConstants DEF Stored, Names, ScanFiles
<1>7. Pending(q, "rename", "index") <=> Pending(r, "rename", "index") \/ n = "index"
  BY <1>1, PendingTail
<1>8. n = "index" => Distinct(v) /\ Items(v) \subseteq Report /\ \A x \in Items(v) : H[x] = x
  <2> SUFFICES ASSUME n = "index" PROVE Distinct(v) /\ Items(v) \subseteq Report /\ \A x \in Items(v) : H[x] = x
    OBVIOUS
  <2>1. /\ Distinct(q[1].value)
        /\ \A x \in Items(q[1].value) : H[x] = x \/ \E k \in 1..(1 - 1) : q[k].do = "rename" /\ q[k].on = x
    BY <1>1 DEF IndexPlan
  <2>2. \A k \in 1..(1 - 1) : FALSE
    OBVIOUS
  <2>3. Items(v) \subseteq Report
    BY <1>3, ItemsOf
  <2> QED
    BY <2>1, <2>2, <2>3
<1>9. \A x \in Report : H[x] = x => G[x] = x
  BY <1>3, <1>4, <1>6
<1>10. n # "index" => G["index"] = H["index"]
  BY <1>2, <1>4
<1>11. v \notin {Absent, Torn} => List(v) = v
  BY DEF List
<1>12. ASSUME NEW i \in 1..Len(r), r[i].do = "rename", r[i].on = "index"
       PROVE  /\ Distinct(r[i].value)
              /\ \A x \in Items(r[i].value) : G[x] = x \/ \E k \in 1..(i - 1) : r[k].do = "rename" /\ r[k].on = x
  <2>1. i + 1 \in 1..Len(q) /\ r[i] = q[i + 1]
    BY <1>1
  <2>2. /\ Distinct(q[i + 1].value)
        /\ \A x \in Items(q[i + 1].value) : H[x] = x \/ \E k \in 1..((i + 1) - 1) : q[k].do = "rename" /\ q[k].on = x
    BY <1>12, <2>1 DEF IndexPlan
  <2>3. Items(q[i + 1].value) \subseteq Report
    <3>1. Fits("index", q[i + 1].value)
      BY <1>12, <2>1 DEF Apt, Replacing
    <3> QED
      BY <3>1, FitsOf, ItemsOf
  <2>4. ASSUME NEW x \in Report, NEW k \in 1..((i + 1) - 1), q[k].do = "rename", q[k].on = x
        PROVE  G[x] = x \/ \E m \in 1..(i - 1) : r[m].do = "rename" /\ r[m].on = x
    <3>1. CASE k = 1
      <4>1. n = x
        BY <2>4, <3>1
      <4> QED
        BY <1>3, <1>4, <4>1
    <3>2. CASE k # 1
      <4>1. k \in 1..Len(q) /\ k - 1 \in 1..(i - 1)
        BY <1>1, <2>1, <2>4, <3>2
      <4>2. r[k - 1] = q[k]
        BY <1>1, <3>2, <4>1
      <4> QED
        BY <2>4, <4>1, <4>2
    <3> QED
      BY <3>1, <3>2
  <2> HIDE DEF G, r
  <2>5. ASSUME NEW x \in Items(q[i + 1].value)
        PROVE  G[x] = x \/ \E m \in 1..(i - 1) : r[m].do = "rename" /\ r[m].on = x
    <3>1. x \in Report
      BY <2>3, <2>5
    <3>2. CASE H[x] = x
      BY <1>9, <3>1, <3>2
    <3>3. CASE \E k \in 1..((i + 1) - 1) : q[k].do = "rename" /\ q[k].on = x
      BY <2>4, <3>1, <3>3
    <3> QED
      BY <2>2, <2>5, <3>2, <3>3
  <2> QED
    BY <2>1, <2>2, <2>5
<1>13. ASSUME NEW i \in 1..Len(r), r[i].do = "drop"
       PROVE  /\ \A k \in 1..Len(r) : r[k].do = "rename" /\ r[k].on = "index" => r[i].on \notin Items(r[k].value)
              /\ ~Pending(r, "rename", "index") => r[i].on \notin Items(List(G["index"]))
  <2>1. i + 1 \in 1..Len(q) /\ r[i] = q[i + 1]
    BY <1>1
  <2>2. \A k \in 1..Len(r) : k + 1 \in 1..Len(q) /\ r[k] = q[k + 1]
    BY <1>1
  <2>3. /\ \A k \in 1..Len(q) : q[k].do = "rename" /\ q[k].on = "index" => q[i + 1].on \notin Items(q[k].value)
        /\ ~Pending(q, "rename", "index") => q[i + 1].on \notin Items(List(H["index"]))
    <3>1. q[i + 1].do = "drop"
      BY <1>13, <2>1
    <3> QED
      BY <2>1, <3>1 DEF IndexPlan
  <2> HIDE DEF r, G
  <2>4. ASSUME NEW k \in 1..Len(r), r[k].do = "rename", r[k].on = "index" PROVE r[i].on \notin Items(r[k].value)
    <3>1. k + 1 \in 1..Len(q) /\ r[k] = q[k + 1]
      BY <2>2
    <3>2. q[k + 1].do = "rename" /\ q[k + 1].on = "index"
      BY <2>4, <3>1
    <3>3. q[i + 1].on \notin Items(q[k + 1].value)
      BY <2>3, <3>1, <3>2
    <3> QED
      BY <2>1, <3>1, <3>3
  <2>5. ASSUME ~Pending(r, "rename", "index") PROVE r[i].on \notin Items(List(G["index"]))
    <3>1. CASE n = "index"
      <4>1. r[i].on \notin Items(v)
        BY <1>1, <2>1, <2>3, <3>1
      <4> QED
        BY <1>3, <1>4, <1>11, <3>1, <4>1
    <3>2. CASE n # "index"
      BY <1>7, <1>10, <2>1, <2>3, <2>5, <3>2
    <3> QED
      BY <3>1, <3>2
  <2> QED
    BY <2>4, <2>5
<1> HIDE DEF G, r, n, v
<1>14. Complete(G)
  <2>1. \A x \in ScanFiles : G[x] # Torn
    BY <1>2, <1>3, <1>4 DEF Complete
  <2>2. CASE n = "index"
    <3>1. List(G["index"]) = v
      BY <1>3, <1>4, <1>11, <2>2
    <3> QED
      BY <1>8, <1>9, <2>1, <2>2, <3>1 DEF Complete
  <2>3. CASE n # "index"
    <3>1. G["index"] = H["index"]
      BY <1>10, <2>3
    <3>2. \A x \in Items(List(H["index"])) : G[x] = x
      BY <1>5, <1>9 DEF Complete
    <3> QED
      BY <2>1, <3>1, <3>2 DEF Complete
  <2> QED
    BY <2>2, <2>3
<1>15. IndexPlan(r, G)
  BY <1>12, <1>13 DEF IndexPlan
<1> QED
  BY <1>14, <1>15 DEF G, r, n, v

(* The order of the latest, the previous and the index.                      *)
LEMMA OrderRename ==
  ASSUME NEW q, Apt(q), q # <<>>, Script(q), NEW H, FilesOf(H), NEW arg, OrderPlan(q, arg, H), q[1].do = "rename"
  PROVE  OrderPlan(Tail(q), arg, [H EXCEPT ![q[1].on] = q[1].value])
<1> DEFINE n == q[1].on
           v == q[1].value
           r == Tail(q)
           G == [H EXCEPT ![n] = v]
<1>1. /\ q \in Seq(TaskType) /\ r \in Seq(TaskType) /\ Len(r) = Len(q) - 1 /\ Len(q) \in Nat /\ 1 \in 1..Len(q)
      /\ \A i \in 1..Len(r) : i + 1 \in 1..Len(q) /\ r[i] = q[i + 1] /\ i + 1 # 1
      /\ \A k \in 1..Len(q) : k = 1 \/ (k - 1 \in 1..Len(r) /\ r[k - 1] = q[k])
  BY TailOf DEF Apt
<1>2. n \in ScanFiles /\ n \in Names /\ Fits(n, v) /\ ScanFiles \subseteq Names
  BY <1>1, ScanNames DEF Apt, Script, Replacing
<1>3. v \notin {Absent, Torn}
  BY <1>2, FitsOf
<1>4. G[n] = v /\ \A x \in Names : x # n => G[x] = H[x]
  BY <1>2 DEF FilesOf
<1>5. "latest" \in Names /\ "previous" \in Names /\ "index" \in Names
  BY ScanNames
<1>6. /\ \A m : Pending(q, "read", m) <=> Pending(r, "read", m)
      /\ \A m : Pending(q, "rename", m) <=> Pending(r, "rename", m) \/ n = m
  BY <1>1, PendingTail
<1>7. ~Pending(q, "read", "latest")
  <2> SUFFICES ASSUME NEW i \in 1..Len(q), q[i].do = "read", q[i].on = "latest" PROVE FALSE
    BY DEF Pending
  <2>1. i = Len(q) /\ Len(q) = 1
    BY DEF Script
  <2> QED
    BY <2>1
<1>8. List(v) = v
  BY <1>3 DEF List
<1>9. CASE Pending(q, "read", "index")
  <2>1. /\ \A i \in 1..Len(q) : q[i].do = "rename" /\ q[i].on = "latest" => q[i].value = arg
        /\ \A i \in 1..Len(q) : q[i].do = "rename" /\ q[i].on = "previous" =>
               Pending(q, "rename", "latest") /\ q[i].value = H["latest"] /\ q[i].value # arg
        /\ ~Pending(q, "rename", "previous") => H["previous"] # arg
        /\ ~Pending(q, "rename", "latest") => H["latest"] = arg
    BY <1>7, <1>9 DEF OrderPlan
  <2>2. \A i \in 1..Len(r) : r[i].do = "rename" /\ r[i].on = "latest" => r[i].value = arg
    BY <1>1, <2>1
  <2>3. n = "latest" => ~Pending(q, "rename", "previous")
    <3> SUFFICES ASSUME n = "latest", NEW i \in 1..Len(q), q[i].do = "rename", q[i].on = "previous" PROVE FALSE
      BY DEF Pending
    <3>1. i < 1
      BY <1>1 DEF Script
    <3> QED
      BY <3>1
  <2> HIDE DEF r, G
  <2>4. ASSUME NEW i \in 1..Len(r), r[i].do = "rename", r[i].on = "previous"
        PROVE  Pending(r, "rename", "latest") /\ r[i].value = G["latest"] /\ r[i].value # arg
    <3>1. i + 1 \in 1..Len(q) /\ r[i] = q[i + 1]
      BY <1>1
    <3>2. q[i + 1].do = "rename" /\ q[i + 1].on = "previous"
      BY <2>4, <3>1
    <3>3. Pending(q, "rename", "previous")
      BY <3>1, <3>2 DEF Pending
    <3>4. n # "latest"
      BY <2>3, <3>3
    <3>5. G["latest"] = H["latest"] /\ Pending(r, "rename", "latest")
      BY <1>4, <1>5, <1>6, <2>1, <3>1, <3>2, <3>4
    <3> QED
      BY <2>1, <3>1, <3>2, <3>5
  <2>5. ~Pending(r, "rename", "previous") => G["previous"] # arg
    <3>1. CASE n = "previous"
      <4>1. v # arg
        BY <1>1, <2>1, <3>1
      <4> QED
        BY <1>4, <3>1, <4>1
    <3>2. CASE n # "previous"
      BY <1>4, <1>5, <1>6, <2>1, <3>2
    <3> QED
      BY <3>1, <3>2
  <2>6. ~Pending(r, "rename", "latest") => G["latest"] = arg
    <3>1. CASE n = "latest"
      <4>1. v = arg
        BY <1>1, <2>1, <3>1
      <4> QED
        BY <1>4, <3>1, <4>1
    <3>2. CASE n # "latest"
      BY <1>4, <1>5, <1>6, <2>1, <3>2
    <3> QED
      BY <3>1, <3>2
  <2>7. OrderPlan(r, arg, G)
    BY <1>6, <1>7, <1>9, <2>2, <2>4, <2>5, <2>6 DEF OrderPlan
  <2> QED
    BY <2>7 DEF r, G
<1>10. CASE ~Pending(q, "read", "index")
  <2>1. /\ H["latest"] = arg /\ H["previous"] # arg
        /\ \A i \in 1..Len(q) : q[i].do = "rename" /\ q[i].on = "index" => arg \in Items(q[i].value)
        /\ ~Pending(q, "rename", "index") => arg \in Items(List(H["index"]))
    BY <1>7, <1>10 DEF OrderPlan
  <2>2. n \notin {"latest", "previous"}
    <3>1. \A i \in 1..Len(q) : q[i].do # "read"
      BY <1>7, <1>10 DEF Apt, Pending
    <3> QED
      BY <1>1, <3>1 DEF Script
  <2>3. G["latest"] = arg /\ G["previous"] # arg
    BY <1>4, <1>5, <2>1, <2>2
  <2>4. \A i \in 1..Len(r) : r[i].do = "rename" /\ r[i].on = "index" => arg \in Items(r[i].value)
    BY <1>1, <2>1
  <2> HIDE DEF r, G
  <2>5. ~Pending(r, "rename", "index") => arg \in Items(List(G["index"]))
    <3>1. CASE n = "index"
      BY <1>1, <1>4, <1>8, <2>1, <3>1
    <3>2. CASE n # "index"
      BY <1>4, <1>5, <1>6, <2>1, <3>2
    <3> QED
      BY <3>1, <3>2
  <2>6. OrderPlan(r, arg, G)
    BY <1>6, <1>7, <1>10, <2>3, <2>4, <2>5 DEF OrderPlan
  <2> QED
    BY <2>6 DEF r, G
<1> QED
  BY <1>9, <1>10

LEMMA OrderSame ==
  ASSUME NEW q, Apt(q), q # <<>>, Script(q), NEW H, NEW G, NEW arg, OrderPlan(q, arg, H), q[1].do \notin {"rename", "read"},
         G["latest"] = H["latest"], G["previous"] = H["previous"], G["index"] = H["index"]
  PROVE  OrderPlan(Tail(q), arg, G)
<1> DEFINE r == Tail(q)
<1>1. /\ q \in Seq(TaskType) /\ r \in Seq(TaskType) /\ 1 \in 1..Len(q)
      /\ \A i \in 1..Len(r) : i + 1 \in 1..Len(q) /\ r[i] = q[i + 1] /\ i + 1 # 1
  BY TailOf DEF Apt
<1>2. /\ \A m : Pending(q, "read", m) <=> Pending(r, "read", m)
      /\ \A m : Pending(q, "rename", m) <=> Pending(r, "rename", m)
  BY <1>1, PendingTail
<1> HIDE DEF r
<1>3. Settled(G) <=> Settled(H)
  BY DEF Settled
<1>4. ASSUME NEW i \in 1..Len(r) PROVE i + 1 \in 1..Len(q) /\ r[i] = q[i + 1]
  BY <1>1
<1>5. CASE Pending(q, "read", "latest")
  <2>1. Settled(H)
    BY <1>5 DEF OrderPlan
  <2>2. Pending(r, "read", "latest") /\ Settled(G)
    BY <1>2, <1>3, <1>5, <2>1
  <2> QED
    BY <2>2 DEF OrderPlan, r
<1>6. CASE ~Pending(q, "read", "latest") /\ Pending(q, "read", "index")
  <2>1. /\ \A i \in 1..Len(q) : q[i].do = "rename" /\ q[i].on = "latest" => q[i].value = arg
        /\ \A i \in 1..Len(q) : q[i].do = "rename" /\ q[i].on = "previous" =>
               Pending(q, "rename", "latest") /\ q[i].value = H["latest"] /\ q[i].value # arg
        /\ ~Pending(q, "rename", "previous") => H["previous"] # arg
        /\ ~Pending(q, "rename", "latest") => H["latest"] = arg
    BY <1>6 DEF OrderPlan
  <2>2. \A i \in 1..Len(r) : r[i].do = "rename" /\ r[i].on = "latest" => r[i].value = arg
    BY <1>4, <2>1
  <2>3. \A i \in 1..Len(r) : r[i].do = "rename" /\ r[i].on = "previous" =>
               Pending(r, "rename", "latest") /\ r[i].value = G["latest"] /\ r[i].value # arg
    BY <1>2, <1>4, <2>1
  <2> QED
    BY <1>2, <1>6, <2>1, <2>2, <2>3 DEF OrderPlan, r
<1>7. CASE ~Pending(q, "read", "latest") /\ ~Pending(q, "read", "index")
  <2>1. /\ H["latest"] = arg /\ H["previous"] # arg
        /\ \A i \in 1..Len(q) : q[i].do = "rename" /\ q[i].on = "index" => arg \in Items(q[i].value)
        /\ ~Pending(q, "rename", "index") => arg \in Items(List(H["index"]))
    BY <1>7 DEF OrderPlan
  <2>2. \A i \in 1..Len(r) : r[i].do = "rename" /\ r[i].on = "index" => arg \in Items(r[i].value)
    BY <1>4, <2>1
  <2> QED
    BY <1>2, <1>7, <2>1, <2>2 DEF OrderPlan, r
<1> QED
  BY <1>5, <1>6, <1>7 DEF r

LEMMA ReportNot == /\ Absent \notin Report /\ Torn \notin Report /\ "index" \notin Report
                   /\ "latest" \notin Report /\ "previous" \notin Report
<1>1. Absent \notin Value("latest") /\ Torn \notin Value("latest")
  BY Constants, ScanNames
<1> QED
  BY <1>1, ValueOf, StoreConstants DEF Stored

LEMMA TaskOf == ASSUME NEW d, NEW n, NEW v PROVE Task(d, n, v).do = d /\ Task(d, n, v).on = n /\ Task(d, n, v).value = v
  BY DEF Task

LEMMA TasksOf ==
  ASSUME NEW n \in Names, NEW v \in AnyValue
  PROVE  /\ Replace(n, v) \in Seq(TaskType) /\ Len(Replace(n, v)) = 3
         /\ Replace(n, v)[1] = Task("open", n, v) /\ Replace(n, v)[2] = Task("fill", n, v)
         /\ Replace(n, v)[3] = Task("rename", n, v)
<1>1. \A d \in {"open", "fill", "rename"} : Task(d, n, v) \in TaskType
  BY DEF Task, TaskType, TaskKind
<1> QED
  BY <1>1 DEF Replace

LEMMA ReadTask ==
  ASSUME NEW n \in Names
  PROVE  ReadOf(n) \in Seq(TaskType) /\ Len(ReadOf(n)) = 1 /\ ReadOf(n)[1] = Task("read", n, Absent)
<1>1. Task("read", n, Absent) \in TaskType
  BY DEF Task, TaskType, TaskKind, AnyValue
<1> QED
  BY <1>1 DEF ReadOf

LEMMA JoinedAt ==
  ASSUME NEW p \in Seq(TaskType), NEW q \in Seq(TaskType), NEW r, r = p \o q
  PROVE  /\ r \in Seq(TaskType) /\ Len(r) = Len(p) + Len(q) /\ Len(p) \in Nat /\ Len(q) \in Nat
         /\ \A i \in 1..Len(p) : r[i] = p[i]
         /\ \A i \in 1..Len(q) : r[Len(p) + i] = q[i]
  OBVIOUS

(* What a scan does once it has read the latest report.                     *)
FirstSteps(q, h, arg) ==
    \/ /\ h \notin {Absent, arg} /\ Len(q) = 7
       /\ q[1] = Task("open", "previous", h) /\ q[2] = Task("fill", "previous", h)
       /\ q[3] = Task("rename", "previous", h)
       /\ q[4] = Task("open", "latest", arg) /\ q[5] = Task("fill", "latest", arg)
       /\ q[6] = Task("rename", "latest", arg) /\ q[7] = Task("read", "index", Absent)
    \/ /\ h \in {Absent, arg} /\ Len(q) = 4
       /\ q[1] = Task("open", "latest", arg) /\ q[2] = Task("fill", "latest", arg)
       /\ q[3] = Task("rename", "latest", arg) /\ q[4] = Task("read", "index", Absent)

LEMMA LatestSteps ==
  ASSUME NEW arg \in Report, NEW h \in Report \cup {Absent}, NEW q,
         q = (IF h \notin {Absent, arg} THEN Replace("previous", h) ELSE <<>>)
             \o Replace("latest", arg) \o ReadOf("index")
  PROVE  FirstSteps(q, h, arg)
<1> DEFINE A == Replace("previous", h)
           B == Replace("latest", arg)
           C == ReadOf("index")
<1>1. arg \in AnyValue /\ h \in AnyValue
  <2>1. Value("latest") \subseteq AnyValue
    BY ValueIsAny, ScanNames
  <2> QED
    BY <2>1, ValueOf DEF AnyValue
<1>2. /\ A \in Seq(TaskType) /\ Len(A) = 3 /\ A[1] = Task("open", "previous", h) /\ A[2] = Task("fill", "previous", h)
      /\ A[3] = Task("rename", "previous", h)
  BY <1>1, TasksOf, ScanNames
<1>3. /\ B \in Seq(TaskType) /\ Len(B) = 3 /\ B[1] = Task("open", "latest", arg) /\ B[2] = Task("fill", "latest", arg)
      /\ B[3] = Task("rename", "latest", arg)
  BY <1>1, TasksOf, ScanNames
<1>4. C \in Seq(TaskType) /\ Len(C) = 1 /\ C[1] = Task("read", "index", Absent)
  BY ReadTask, ScanNames
<1>5. CASE h \notin {Absent, arg}
  <2>1. q = (A \o B) \o C
    BY <1>5
  <2> HIDE DEF A, B, C
  <2> DEFINE D == A \o B
  <2>8. A \in Seq(TaskType) /\ B \in Seq(TaskType) /\ C \in Seq(TaskType)
    BY <1>2, <1>3, <1>4
  <2>9. D = A \o B
    OBVIOUS
  <2>3. q = D \o C
    BY <2>1
  <2> HIDE DEF D
  <2>2. /\ D \in Seq(TaskType) /\ Len(D) = Len(A) + Len(B) /\ (\A i \in 1..Len(A) : D[i] = A[i])
        /\ \A i \in 1..Len(B) : D[Len(A) + i] = B[i]
    BY ONLY <2>8, <2>9, JoinedAt
  <2>10. D \in Seq(TaskType)
    BY <2>2
  <2>5. 1 \in 1..3 /\ 2 \in 1..3 /\ 3 \in 1..3 /\ 1 \in 1..1 /\ 3 + 1 = 4 /\ 3 + 2 = 5 /\ 3 + 3 = 6 /\ 6 + 1 = 7
        /\ \A i \in {1, 2, 3, 4, 5, 6} : i \in 1..6
    OBVIOUS
  <2>6. Len(D) = 6 /\ D[1] = A[1] /\ D[2] = A[2] /\ D[3] = A[3] /\ D[3 + 1] = B[1] /\ D[3 + 2] = B[2] /\ D[3 + 3] = B[3]
    BY <1>2, <1>3, <2>2, <2>5
  <2>7. /\ Len(q) = Len(D) + Len(C) /\ (\A i \in 1..Len(D) : q[i] = D[i]) /\ \A i \in 1..Len(C) : q[Len(D) + i] = C[i]
    BY ONLY <2>8, <2>10, <2>3, JoinedAt
  <2>4. Len(q) = 7 /\ (\A i \in {1, 2, 3, 4, 5, 6} : q[i] = D[i]) /\ q[6 + 1] = C[1]
    BY <1>4, <2>5, <2>6, <2>7
  <2> QED
    BY <1>2, <1>3, <1>4, <1>5, <2>4, <2>5, <2>6 DEF FirstSteps
<1>6. CASE h \in {Absent, arg}
  <2>1. q = (<<>> \o B) \o C
    BY <1>6
  <2> HIDE DEF A, B, C
  <2>2. <<>> \o B = B
    BY <1>3
  <2>3. q = B \o C
    BY <2>1, <2>2
  <2>8. B \in Seq(TaskType) /\ C \in Seq(TaskType)
    BY <1>3, <1>4
  <2>5. /\ Len(q) = Len(B) + Len(C) /\ (\A i \in 1..Len(B) : q[i] = B[i]) /\ \A i \in 1..Len(C) : q[Len(B) + i] = C[i]
    BY ONLY <2>8, <2>3, JoinedAt
  <2>6. 1 \in 1..3 /\ 2 \in 1..3 /\ 3 \in 1..3 /\ 1 \in 1..1 /\ 3 + 1 = 4
    OBVIOUS
  <2>4. Len(q) = 4 /\ q[1] = B[1] /\ q[2] = B[2] /\ q[3] = B[3] /\ q[3 + 1] = C[1]
    BY <1>3, <1>4, <2>5, <2>6
  <2> QED
    BY <1>3, <1>4, <1>6, <2>4, <2>6 DEF FirstSteps
<1> QED
  BY <1>5, <1>6

LEMMA LatestScript ==
  ASSUME NEW arg \in Report, NEW H, H["latest"] \in Report \cup {Absent}, NEW q,
         q = (IF H["latest"] \notin {Absent, arg} THEN Replace("previous", H["latest"]) ELSE <<>>)
             \o Replace("latest", arg) \o ReadOf("index")
  PROVE  Script(q) /\ IndexPlan(q, H) /\ (Settled(H) => OrderPlan(q, arg, H))
<1> DEFINE h == H["latest"]
<1> DEFINE N(i) == q[i].do \in Replacing \cup {"read"} /\ q[i].on \in {"latest", "previous", "index"}
                   /\ (q[i].do = "read" <=> i = Len(q)) /\ (q[i].do = "read" <=> q[i].on = "index")
                   /\ (q[i].on = "previous" => i < 4 /\ h \notin {Absent, arg} /\ q[i].value = h)
                   /\ (q[i].on = "latest" => (i > 3 \/ h \in {Absent, arg}) /\ q[i].value = arg)
<1>9. \/ /\ h \notin {Absent, arg} /\ Len(q) = 7
         /\ q[1] = Task("open", "previous", h) /\ q[2] = Task("fill", "previous", h)
         /\ q[3] = Task("rename", "previous", h)
         /\ q[4] = Task("open", "latest", arg) /\ q[5] = Task("fill", "latest", arg)
         /\ q[6] = Task("rename", "latest", arg) /\ q[7] = Task("read", "index", Absent)
      \/ /\ h \in {Absent, arg} /\ Len(q) = 4
         /\ q[1] = Task("open", "latest", arg) /\ q[2] = Task("fill", "latest", arg)
         /\ q[3] = Task("rename", "latest", arg) /\ q[4] = Task("read", "index", Absent)
  <2>1. h \in Report \cup {Absent}
    OBVIOUS
  <2>2. q = (IF h \notin {Absent, arg} THEN Replace("previous", h) ELSE <<>>) \o Replace("latest", arg) \o ReadOf("index")
    OBVIOUS
  <2> HIDE DEF h
  <2>3. arg \in Report
    OBVIOUS
  <2>4. FirstSteps(q, h, arg)
    BY ONLY <2>1, <2>2, <2>3, LatestSteps
  <2> QED
    BY ONLY <2>4 DEF FirstSteps
<1> HIDE DEF h
<1>1. Len(q) \in {4, 7} /\ \A i \in 1..Len(q) : N(i)
  <2>1. CASE Len(q) = 7
    <3>20. /\ h \notin {Absent, arg}
           /\ q[1] = Task("open", "previous", h) /\ q[2] = Task("fill", "previous", h)
           /\ q[3] = Task("rename", "previous", h)
           /\ q[4] = Task("open", "latest", arg) /\ q[5] = Task("fill", "latest", arg)
           /\ q[6] = Task("rename", "latest", arg) /\ q[7] = Task("read", "index", Absent)
      BY SMTT(30), <1>9, <2>1
    <3>1. \A i \in 1..Len(q) : i \in {1, 2, 3, 4, 5, 6, 7}
      BY <2>1
    <3>2. h \notin {Absent, arg}
      BY <1>9, <2>1
    <3>3. N(1)
      <4>2. q[1] = Task("open", "previous", h)
        BY <3>20
      <4>1. q[1].do = "open" /\ q[1].on = "previous" /\ q[1].value = h
        BY ONLY <4>2, TaskOf
      <4> QED
        BY <2>1, <3>2, <4>1 DEF Replacing
    <3>4. N(2)
      <4>2. q[2] = Task("fill", "previous", h)
        BY <3>20
      <4>1. q[2].do = "fill" /\ q[2].on = "previous" /\ q[2].value = h
        BY ONLY <4>2, TaskOf
      <4> QED
        BY <2>1, <3>2, <4>1 DEF Replacing
    <3>5. N(3)
      <4>2. q[3] = Task("rename", "previous", h)
        BY <3>20
      <4>1. q[3].do = "rename" /\ q[3].on = "previous" /\ q[3].value = h
        BY ONLY <4>2, TaskOf
      <4> QED
        BY <2>1, <3>2, <4>1 DEF Replacing
    <3>6. N(4)
      <4>2. q[4] = Task("open", "latest", arg)
        BY <3>20
      <4>1. q[4].do = "open" /\ q[4].on = "latest" /\ q[4].value = arg
        BY ONLY <4>2, TaskOf
      <4> QED
        BY <2>1, <3>2, <4>1 DEF Replacing
    <3>7. N(5)
      <4>2. q[5] = Task("fill", "latest", arg)
        BY <3>20
      <4>1. q[5].do = "fill" /\ q[5].on = "latest" /\ q[5].value = arg
        BY ONLY <4>2, TaskOf
      <4> QED
        BY <2>1, <3>2, <4>1 DEF Replacing
    <3>8. N(6)
      <4>2. q[6] = Task("rename", "latest", arg)
        BY <3>20
      <4>1. q[6].do = "rename" /\ q[6].on = "latest" /\ q[6].value = arg
        BY ONLY <4>2, TaskOf
      <4> QED
        BY <2>1, <3>2, <4>1 DEF Replacing
    <3>9. N(7)
      <4>2. q[7] = Task("read", "index", Absent)
        BY <3>20
      <4>1. q[7].do = "read" /\ q[7].on = "index"
        BY ONLY <4>2, TaskOf
      <4> QED
        BY <2>1, <3>2, <4>1 DEF Replacing
    <3> HIDE DEF N
    <3> QED
      BY <2>1, <3>1, <3>3, <3>4, <3>5, <3>6, <3>7, <3>8, <3>9
  <2>2. CASE Len(q) = 4
    <3>1. \A i \in 1..Len(q) : i \in {1, 2, 3, 4}
      BY <2>2
    <3>2. h \in {Absent, arg}
      BY SMTT(30), <1>9, <2>2
    <3>20. /\ q[1] = Task("open", "latest", arg) /\ q[2] = Task("fill", "latest", arg)
           /\ q[3] = Task("rename", "latest", arg) /\ q[4] = Task("read", "index", Absent)
      BY SMTT(30), <1>9, <2>2
    <3>3. N(1)
      <4>2. q[1] = Task("open", "latest", arg)
        BY <3>20
      <4>1. q[1].do = "open" /\ q[1].on = "latest" /\ q[1].value = arg
        BY ONLY <4>2, TaskOf
      <4> QED
        BY <2>2, <3>2, <4>1 DEF Replacing
    <3>4. N(2)
      <4>2. q[2] = Task("fill", "latest", arg)
        BY <3>20
      <4>1. q[2].do = "fill" /\ q[2].on = "latest" /\ q[2].value = arg
        BY ONLY <4>2, TaskOf
      <4> QED
        BY <2>2, <3>2, <4>1 DEF Replacing
    <3>5. N(3)
      <4>2. q[3] = Task("rename", "latest", arg)
        BY <3>20
      <4>1. q[3].do = "rename" /\ q[3].on = "latest" /\ q[3].value = arg
        BY ONLY <4>2, TaskOf
      <4> QED
        BY <2>2, <3>2, <4>1 DEF Replacing
    <3>6. N(4)
      <4>2. q[4] = Task("read", "index", Absent)
        BY <3>20
      <4>1. q[4].do = "read" /\ q[4].on = "index"
        BY ONLY <4>2, TaskOf
      <4> QED
        BY <2>2, <3>2, <4>1 DEF Replacing
    <3> HIDE DEF N
    <3> QED
      BY <2>2, <3>1, <3>3, <3>4, <3>5, <3>6
  <2> QED
    BY <1>9, <2>1, <2>2
<1>2. \E i \in 1..Len(q) : q[i].do = "rename" /\ q[i].on = "latest"
  <2>1. \/ Len(q) = 7 /\ q[6] = Task("rename", "latest", arg)
        \/ Len(q) = 4 /\ q[3] = Task("rename", "latest", arg)
    BY <1>9
  <2> QED
    BY SMTT(30), <2>1, TaskOf
<1>3. h \notin {Absent, arg} => \E i \in 1..Len(q) : q[i].do = "rename" /\ q[i].on = "previous"
  <2>1. h \notin {Absent, arg} => Len(q) = 7 /\ q[3] = Task("rename", "previous", h)
    BY <1>9
  <2> QED
    BY SMTT(30), <2>1, TaskOf
<1>4. Len(q) \in 1..Len(q)
  BY <1>1
<1>5. \A i \in 1..Len(q) : q[i].do # "drop" /\ (q[i].do = "rename" => q[i].on # "index") /\ (q[i].do = "read" => q[i].on = "index")
  BY <1>1 DEF Replacing
<1>6. Script(q)
  <2>1. \A i \in 1..Len(q) : q[i].do \in {"read", "drop"} \cup Replacing /\ q[i].on \in ScanFiles
    BY <1>1 DEF ScanFiles
  <2>2. \A i \in 1..Len(q) : q[i].do = "read" => i = Len(q) /\ (q[i].on = "latest" => Len(q) = 1)
    BY <1>1
  <2>3. ~(\A i \in 1..Len(q) : q[i].do # "read")
    BY <1>1, <1>4
  <2>4. \A i, k \in 1..Len(q) : q[i].do = "rename" /\ q[i].on = "previous" /\ q[k].do = "rename" /\ q[k].on = "latest" => i < k
    BY SMTT(30), <1>1
  <2> HIDE DEF N
  <2> QED
    BY <1>5, <2>1, <2>2, <2>3, <2>4 DEF Script
<1>7. IndexPlan(q, H)
  BY <1>5 DEF IndexPlan
<1>8. ASSUME Settled(H) PROVE OrderPlan(q, arg, H)
  <2>1. ~Pending(q, "read", "latest")
    BY <1>5 DEF Pending
  <2>2. Pending(q, "read", "index") /\ Pending(q, "rename", "latest")
    BY <1>1, <1>2, <1>4 DEF Pending
  <2>3. \A i \in 1..Len(q) : q[i].do = "rename" /\ q[i].on = "latest" => q[i].value = arg
    BY <1>1
  <2>4. \A i \in 1..Len(q) : q[i].do = "rename" /\ q[i].on = "previous" => q[i].value = H["latest"] /\ q[i].value # arg
    BY <1>1 DEF h
  <2>5. ~Pending(q, "rename", "previous") => H["previous"] # arg
    <3>1. CASE h \notin {Absent, arg}
      BY <1>3, <3>1 DEF Pending
    <3>2. CASE h \in {Absent, arg}
      BY <1>8, <3>2, ReportNot DEF Settled, h
    <3> QED
      BY <3>1, <3>2
  <2> HIDE DEF N
  <2> QED
    BY <2>1, <2>2, <2>3, <2>4, <2>5 DEF OrderPlan
<1> QED
  BY <1>6, <1>7, <1>8

(* A scan begins by reading the latest report.                              *)
LEMMA OpeningScript ==
  ASSUME NEW H, NEW arg
  PROVE  Script(ReadOf("latest")) /\ IndexPlan(ReadOf("latest"), H) /\ (Settled(H) => OrderPlan(ReadOf("latest"), arg, H))
<1> DEFINE q == ReadOf("latest")
<1>1. Len(q) = 1 /\ q[1].do = "read" /\ q[1].on = "latest"
  BY ReadTask, ScanNames, TaskOf
<1> HIDE DEF q
<1>2. 1 \in 1..Len(q) /\ \A i \in 1..Len(q) : i = 1
  BY <1>1
<1>3. Script(q)
  BY <1>1, <1>2 DEF Script, ScanFiles
<1>4. IndexPlan(q, H)
  BY <1>1, <1>2 DEF IndexPlan
<1>5. Pending(q, "read", "latest")
  BY <1>1, <1>2 DEF Pending
<1> QED
  BY <1>3, <1>4, <1>5 DEF OrderPlan, q

LEMMA NothingScript ==
  ASSUME NEW H, NEW arg \in Report
  PROVE  Script(<<>>) /\ IndexPlan(<<>>, H) /\ (OrderPlan(<<>>, arg, H) => Settled(H))
<1> DEFINE q == <<>>
<1>1. Len(q) = 0
  OBVIOUS
<1> HIDE DEF q
<1>2. \A i \in 1..Len(q) : FALSE
  BY <1>1
<1>3. Script(q)
  BY <1>2 DEF Script
<1>4. IndexPlan(q, H)
  BY <1>2 DEF IndexPlan
<1>5. \A d, n : ~Pending(q, d, n)
  BY <1>2 DEF Pending
<1>6. ASSUME OrderPlan(q, arg, H) PROVE Settled(H)
  <2>1. H["latest"] = arg /\ H["previous"] # arg /\ arg \in Items(List(H["index"]))
    BY <1>5, <1>6 DEF OrderPlan
  <2> QED
    BY <2>1, ReportNot DEF Settled
<1> QED
  BY <1>3, <1>4, <1>6 DEF q

LEMMA NextList ==
  ASSUME NEW arg \in Report, NEW l \in Seq(Report), Distinct(l), arg \notin Items(l), NEW next, next = <<arg>> \o l
  PROVE  /\ next \in Seq(Report) /\ Len(next) = Len(l) + 1 /\ next[1] = arg /\ Distinct(next) /\ Len(l) \in Nat
         /\ \A i \in 1..Len(next) : next[i] \in {arg} \cup Items(l)
<1>1. next \in Seq(Report) /\ Len(next) = Len(l) + 1 /\ next[1] = arg /\ Len(l) \in Nat
  OBVIOUS
<1>2. \A i \in 1..Len(next) : i = 1 \/ (i - 1 \in 1..Len(l) /\ next[i] = l[i - 1])
  OBVIOUS
<1>3. \A i \in 1..Len(l) : l[i] \in Items(l) /\ l[i] # arg
  BY ItemsOf
<1>4. ASSUME NEW i \in 1..Len(next), NEW k \in 1..Len(next), next[i] = next[k] PROVE i = k
  <2>1. CASE i = 1 /\ k = 1
    BY <2>1
  <2>2. CASE i = 1 /\ k # 1
    BY <1>1, <1>2, <1>3, <1>4, <2>2
  <2>3. CASE i # 1 /\ k = 1
    BY <1>1, <1>2, <1>3, <1>4, <2>3
  <2>4. CASE i # 1 /\ k # 1
    <3>1. i - 1 \in 1..Len(l) /\ k - 1 \in 1..Len(l) /\ l[i - 1] = l[k - 1]
      BY <1>2, <1>4, <2>4
    <3>2. i - 1 = k - 1
      BY <3>1 DEF Distinct
    <3> QED
      BY <3>2
  <2> QED
    BY <2>1, <2>2, <2>3, <2>4
<1>5. \A i \in 1..Len(next) : next[i] \in {arg} \cup Items(l)
  BY <1>1, <1>2, <1>3
<1> QED
  BY <1>1, <1>4, <1>5 DEF Distinct

NextSteps(q, arg, next) ==
    /\ Len(q) \in Nat /\ Len(q) >= 6
    /\ q[1] = Task("open", arg, arg) /\ q[2] = Task("fill", arg, arg) /\ q[3] = Task("rename", arg, arg)
    /\ q[4] = Task("open", "index", First(next)) /\ q[5] = Task("fill", "index", First(next))
    /\ q[6] = Task("rename", "index", First(next))
    /\ \A i \in 1..Len(q) : i > 6 =>
         /\ q[i].do = "drop" /\ Kept + (i - 6) \in 1..Len(next) /\ q[i].on = next[Kept + (i - 6)]
         /\ Kept = Len(First(next))

(* What a scan does once it has read an index without its report.           *)
LEMMA IndexSteps ==
  ASSUME NEW arg \in Report, NEW next \in Seq(Report), NEW q,
         q = Replace(arg, arg) \o Replace("index", First(next)) \o Pruned(next)
  PROVE  NextSteps(q, arg, next)
<1> DEFINE A == Replace(arg, arg)
           B == Replace("index", First(next))
           C == Pruned(next)
           D == A \o B
           j == [kind |-> "scan"]
<1>1. arg \in AnyValue /\ First(next) \in AnyValue
  <2>1. Value("latest") \subseteq AnyValue /\ Value("index") \subseteq AnyValue
    BY ValueIsAny, ScanNames
  <2>2. First(next) \in Seq(Report)
    BY FirstOf
  <2> QED
    BY <2>1, <2>2, ValueOf
<1>2. arg \in Names /\ "index" \in Names
  BY ScanNames
<1>3. A \in Seq(TaskType) /\ Len(A) = 3 /\ A[1] = Task("open", arg, arg) /\ A[2] = Task("fill", arg, arg) /\ A[3] = Task("rename", arg, arg)
  BY <1>1, <1>2, TasksOf
<1>4. /\ B \in Seq(TaskType) /\ Len(B) = 3 /\ B[1] = Task("open", "index", First(next))
      /\ B[2] = Task("fill", "index", First(next)) /\ B[3] = Task("rename", "index", First(next))
  BY <1>1, <1>2, TasksOf
<1>5. /\ C \in Seq(TaskType)
      /\ \A i \in 1..Len(C) : /\ Kept + i \in 1..Len(next) /\ Kept = Len(First(next))
                              /\ C[i].do = "drop" /\ C[i].on = next[Kept + i]
  <2>1. j.kind = "scan"
    OBVIOUS
  <2> HIDE DEF j
  <2> QED
    BY <2>1, PrunedOf DEF Runs
<1>6. D = A \o B /\ q = D \o C
  OBVIOUS
<1> HIDE DEF A, B, C, D
<1>7. A \in Seq(TaskType) /\ B \in Seq(TaskType)
  BY <1>3, <1>4
<1>8. D = A \o B
  BY <1>6
<1>9. /\ D \in Seq(TaskType) /\ Len(D) = Len(A) + Len(B) /\ (\A i \in 1..Len(A) : D[i] = A[i])
      /\ \A i \in 1..Len(B) : D[Len(A) + i] = B[i]
  BY ONLY <1>7, <1>8, JoinedAt
<1>10. D \in Seq(TaskType) /\ C \in Seq(TaskType)
  BY <1>5, <1>9
<1>11. q = D \o C
  BY <1>6
<1>12. /\ Len(q) = Len(D) + Len(C) /\ (\A i \in 1..Len(D) : q[i] = D[i]) /\ \A i \in 1..Len(C) : q[Len(D) + i] = C[i]
       /\ Len(C) \in Nat
  BY ONLY <1>10, <1>11, JoinedAt
<1>13. 1 \in 1..3 /\ 2 \in 1..3 /\ 3 \in 1..3 /\ 3 + 1 = 4 /\ 3 + 2 = 5 /\ 3 + 3 = 6
       /\ \A i \in {1, 2, 3, 4, 5, 6} : i \in 1..6
  OBVIOUS
<1>14. Len(D) = 6 /\ D[1] = A[1] /\ D[2] = A[2] /\ D[3] = A[3] /\ D[3 + 1] = B[1] /\ D[3 + 2] = B[2] /\ D[3 + 3] = B[3]
  BY <1>3, <1>4, <1>9, <1>13
<1>15. \A i \in {1, 2, 3, 4, 5, 6} : q[i] = D[i]
  BY <1>12, <1>13, <1>14
<1>16. ASSUME NEW i \in 1..Len(q), i > 6
       PROVE  /\ q[i].do = "drop" /\ Kept + (i - 6) \in 1..Len(next) /\ q[i].on = next[Kept + (i - 6)]
              /\ Kept = Len(First(next))
  <2>1. i - 6 \in 1..Len(C) /\ 6 + (i - 6) = i
    BY <1>12, <1>14, <1>16
  <2>2. q[6 + (i - 6)] = C[i - 6]
    BY <1>12, <1>14, <2>1
  <2>3. q[i] = C[i - 6]
    BY <2>1, <2>2
  <2> QED
    BY <1>5, <2>1, <2>3
<1>17. Len(q) \in Nat /\ Len(q) >= 6
  BY <1>12, <1>14
<1>18. /\ q[1] = A[1] /\ q[2] = A[2] /\ q[3] = A[3] /\ q[4] = B[1] /\ q[5] = B[2] /\ q[6] = B[3]
  BY <1>13, <1>14, <1>15
<1> QED
  BY <1>3, <1>4, <1>16, <1>17, <1>18 DEF NextSteps

LEMMA IndexScript ==
  ASSUME NEW arg \in Report, NEW H, FilesOf(H), Complete(H), arg \notin Items(List(H["index"])), NEW next,
         next = <<arg>> \o List(H["index"]), NEW q,
         q = Replace(arg, arg) \o Replace("index", First(next)) \o Pruned(next)
  PROVE  /\ Script(q) /\ IndexPlan(q, H) /\ (H["latest"] = arg /\ H["previous"] # arg => OrderPlan(q, arg, H))
<1> DEFINE l == List(H["index"])
<1>1. H["index"] # Torn /\ l \in Seq(Report) /\ Items(l) \subseteq Report /\ Distinct(l) /\ \A r \in Items(l) : H[r] = r
  BY IndexItems DEF Complete, ScanFiles
<1>2. next = <<arg>> \o l /\ arg \notin Items(l)
  OBVIOUS
<1> HIDE DEF l
<1>3. /\ next \in Seq(Report) /\ Len(next) = Len(l) + 1 /\ next[1] = arg /\ Distinct(next) /\ Len(l) \in Nat
      /\ \A i \in 1..Len(next) : next[i] \in {arg} \cup Items(l)
  BY <1>1, <1>2, NextList
<1>4. next # <<>> /\ next \in Seq(Report)
  BY <1>3
<1> DEFINE f == First(next)
<1>5. /\ f \in Seq(Report) /\ Len(f) <= Len(next) /\ Len(f) >= 1 /\ Len(f) \in Nat
      /\ \A i \in 1..Len(f) : i \in 1..Len(next) /\ f[i] = next[i]
  <2>1. /\ First(next) \in Seq(Report) /\ Len(First(next)) <= Len(next)
        /\ \A i \in 1..Len(First(next)) : i \in 1..Len(next) /\ First(next)[i] = next[i]
    BY ONLY <1>4, FirstOf
  <2>2. next # <<>> => Len(First(next)) >= 1
    BY ONLY <1>4, FirstOf
  <2> QED
    BY <1>4, <2>1, <2>2
<1>6. /\ Len(q) \in Nat /\ Len(q) >= 6
      /\ q[1] = Task("open", arg, arg) /\ q[2] = Task("fill", arg, arg) /\ q[3] = Task("rename", arg, arg)
      /\ q[4] = Task("open", "index", f) /\ q[5] = Task("fill", "index", f) /\ q[6] = Task("rename", "index", f)
      /\ \A i \in 1..Len(q) : i > 6 =>
           /\ q[i].do = "drop" /\ Kept + (i - 6) \in 1..Len(next) /\ q[i].on = next[Kept + (i - 6)]
           /\ Kept = Len(f)
  <2>1. arg \in Report /\ q = Replace(arg, arg) \o Replace("index", First(next)) \o Pruned(next)
    OBVIOUS
  <2>2. NextSteps(q, arg, next)
    BY ONLY <1>4, <2>1, IndexSteps
  <2> QED
    BY <2>2 DEF NextSteps
<1> HIDE DEF f
<1>7. /\ q[1].do = "open" /\ q[2].do = "fill" /\ q[3].do = "rename" /\ q[4].do = "open" /\ q[5].do = "fill" /\ q[6].do = "rename"
      /\ q[1].on = arg /\ q[2].on = arg /\ q[3].on = arg /\ q[4].on = "index" /\ q[5].on = "index" /\ q[6].on = "index"
      /\ q[6].value = f
  BY ONLY <1>6, TaskOf
<1>8. \A i \in 1..Len(q) : i \in {1, 2, 3, 4, 5, 6} \/ i > 6
  BY <1>6
<1>9. \A i \in 1..Len(q) :
         /\ q[i].do \in {"drop"} \cup Replacing /\ q[i].on \in {"index"} \cup Report
         /\ q[i].do = "drop" <=> i > 6
         /\ q[i].do = "rename" /\ q[i].on = "index" => i = 6
  <2>1. ASSUME NEW i \in 1..Len(q), i > 6
        PROVE  q[i].do = "drop" /\ q[i].on \in Report
    <3>1. q[i].do = "drop" /\ Kept + (i - 6) \in 1..Len(next) /\ q[i].on = next[Kept + (i - 6)]
      BY ONLY <1>6, <2>1
    <3>2. next[Kept + (i - 6)] \in Report
      BY ONLY <1>3, <3>1
    <3> QED
      BY ONLY <3>1, <3>2
  <2>2. \A i \in {1, 2, 3, 4, 5, 6} :
         /\ q[i].do \in Replacing /\ q[i].on \in {"index"} \cup Report
         /\ ~(i > 6) /\ q[i].do # "drop"
         /\ q[i].do = "rename" /\ q[i].on = "index" => i = 6
    <3>1. arg \in Report /\ arg # "index"
      BY ReportNot
    <3> QED
      BY ONLY <1>7, <3>1 DEF Replacing
  <2> QED
    BY ONLY <1>8, <2>1, <2>2, ReportNot
<1>10. 3 \in 1..Len(q) /\ 6 \in 1..Len(q) /\ 3 \in 1..(6 - 1)
  BY <1>6
<1>11. Script(q)
  <2>1. \A i \in 1..Len(q) : q[i].do \in {"read", "drop"} \cup Replacing /\ q[i].on \in ScanFiles
    BY <1>9 DEF ScanFiles
  <2>2. \A i \in 1..Len(q) : q[i].do # "read" /\ q[i].on \notin {"latest", "previous"}
    BY ZenonT(60), <1>9, ReportNot DEF Replacing
  <2>3. ASSUME NEW i \in 1..Len(q), NEW k \in 1..Len(q), q[i].do = "drop", i < k PROVE q[k].do = "drop"
    <3>1. k > 6
      BY ONLY <1>6, <1>9, <2>3
    <3> QED
      BY ONLY <1>9, <2>3, <3>1
  <2> QED
    BY ONLY <2>1, <2>2, <2>3 DEF Script
<1>12. Distinct(f)
  <2>1. ASSUME NEW i \in 1..Len(f), NEW k \in 1..Len(f), f[i] = f[k] PROVE i = k
    <3>1. i \in 1..Len(next) /\ k \in 1..Len(next) /\ next[i] = next[k]
      BY ONLY <1>5, <2>1
    <3> QED
      BY ONLY <1>3, <3>1 DEF Distinct
  <2> QED
    BY ONLY <2>1 DEF Distinct
<1>13. IndexPlan(q, H)
  <2>1. ASSUME NEW r \in Items(f) PROVE H[r] = r \/ \E k \in 1..(6 - 1) : q[k].do = "rename" /\ q[k].on = r
    <3>1. PICK i \in 1..Len(f) : r = f[i]
      BY <1>5, ItemOf
    <3>2. r \in {arg} \cup Items(l)
      BY <1>3, <1>5, <3>1
    <3> QED
      BY <1>1, <1>7, <1>10, <3>2
  <2>2. ASSUME NEW i \in 1..Len(q), q[i].do = "drop" PROVE q[i].on \notin Items(f)
    <3>1. i > 6 /\ Kept + (i - 6) \in 1..Len(next) /\ q[i].on = next[Kept + (i - 6)] /\ Kept = Len(f)
      BY <1>6, <1>9, <2>2
    <3>2. SUFFICES ASSUME q[i].on \in Items(f) PROVE FALSE
      OBVIOUS
    <3>3. PICK m \in 1..Len(f) : q[i].on = f[m]
      BY <1>5, <3>2, ItemOf
    <3>4. m \in 1..Len(next) /\ next[m] = next[Kept + (i - 6)]
      BY <1>5, <3>1, <3>3
    <3>5. m = Kept + (i - 6)
      BY <1>3, <3>1, <3>4 DEF Distinct
    <3> QED
      BY <1>5, <3>1, <3>5
  <2>3. Pending(q, "rename", "index")
    BY <1>7, <1>10 DEF Pending
  <2> QED
    BY ONLY <1>7, <1>9, <1>12, <2>1, <2>2, <2>3 DEF IndexPlan
<1>14. ASSUME H["latest"] = arg /\ H["previous"] # arg PROVE OrderPlan(q, arg, H)
  <2>1. \A n : ~Pending(q, "read", n)
    BY <1>9 DEF Pending, Replacing
  <2>2. Pending(q, "rename", "index")
    BY <1>7, <1>10 DEF Pending
  <2>3. arg \in Items(f)
    <3>1. 1 \in 1..Len(f) /\ f[1] = arg
      BY ONLY <1>3, <1>5
    <3> QED
      BY <1>5, <3>1, ItemsOf
  <2> QED
    BY ONLY <1>7, <1>9, <1>14, <2>1, <2>2, <2>3 DEF OrderPlan
<1> QED
  BY <1>11, <1>13, <1>14

(* The plan of a scan about to read the index.                              *)
LEMMA IndexRead ==
  ASSUME NEW arg, NEW H, NEW q, Len(q) = 1, q[1].do = "read", q[1].on = "index", OrderPlan(q, arg, H)
  PROVE  H["latest"] = arg /\ H["previous"] # arg
<1>1. 1 \in 1..Len(q) /\ \A i \in 1..Len(q) : i = 1
  OBVIOUS
<1>2. ~Pending(q, "read", "latest") /\ Pending(q, "read", "index") /\ \A n : ~Pending(q, "rename", n)
  BY <1>1 DEF Pending
<1> QED
  BY <1>2 DEF OrderPlan

LEMMA IndexDone ==
  ASSUME NEW arg, NEW H, H["latest"] = arg, H["previous"] # arg, arg \in Items(List(H["index"]))
  PROVE  OrderPlan(<<>>, arg, H)
<1> DEFINE q == <<>>
<1>1. Len(q) = 0
  OBVIOUS
<1> HIDE DEF q
<1>2. \A i \in 1..Len(q) : FALSE
  BY <1>1
<1>3. OrderPlan(q, arg, H)
  BY <1>2 DEF OrderPlan, Pending
<1> QED
  BY <1>3 DEF q

-----------------------------------------------------------------------------
(* One scan at a time.                                                     *)

(* No two scans have met; then one scan runs, its temporary file is its    *)
(* own, and its steps keep the plan.                                       *)
ScansApart == topic = "reports" /\ ~Noted("scans")
Scans ==
    ScansApart =>
        /\ \A c, d \in Caller : c # d => Free(c) \/ Free(d)
        /\ Complete(AllHeld)
        /\ \A c \in Caller :
             /\ CallDoes(c, "fill") => opened[c] = job[c].tmp
             /\ CallDoes(c, "rename") => slot[job[c].tmp] = Current(job[c]).value
             /\ Script(job[c].at) /\ IndexPlan(job[c].at, AllHeld)

(* Nobody writes to the temporary file of a scan that no other has met.    *)
Unshared == ScansApart => overtaken = {}

(* And without failures the files are, or will be, in order.               *)
Orderly ==
    ScansApart /\ ~Noted("trouble") =>
        /\ (\A c \in Caller : Free(c)) => Settled(AllHeld)
        /\ \A c \in Caller : ~Free(c) => OrderPlan(job[c].at, job[c].arg, AllHeld)

(* What the files are, when a scan runs and no other has met it.            *)
LEMMA HeldFiles ==
  ASSUME Shape
  PROVE  FilesOf(AllHeld) /\ \A n \in Names : AllHeld[n] = Held(n)
<1>1. \A n \in Names : AllHeld[n] = Held(n) /\ PlaceOf(n) \in Place /\ PlaceOf(n)[1] = n
  BY Places DEF AllHeld
<1>2. slot \in [Place \cup Scratch -> AnyValue] /\ Contents
  BY DEF Shape, Typed
<1>3. AllHeld \in [Names -> AnyValue]
  BY <1>1, <1>2 DEF AllHeld, Held
<1>4. AllHeld["index"] \in Seq(Report) \cup {Absent, Torn}
  <2>1. slot[PlaceOf("index")] \notin {Absent, Torn} => Fits("index", slot[PlaceOf("index")])
    BY <1>1, <1>2, ScanNames DEF Contents
  <2> QED
    BY <1>1, <2>1, ScanNames, ValueOf DEF Fits, Held
<1> QED
  BY <1>1, <1>3, <1>4 DEF FilesOf

LEMMA SameHeld ==
  ASSUME \A n \in Names : slot'[PlaceOf(n)] = slot[PlaceOf(n)] PROVE AllHeld' = AllHeld
  BY DEF AllHeld, Held

LEMMA PutHeld ==
  ASSUME Shape, NEW m \in Names, NEW v, slot'[PlaceOf(m)] = v,
         \A n \in Names : n # m => slot'[PlaceOf(n)] = slot[PlaceOf(n)]
  PROVE  AllHeld' = [AllHeld EXCEPT ![m] = v]
<1>1. AllHeld' = [n \in Names |-> slot'[PlaceOf(n)]]
  BY DEF AllHeld, Held
<1>2. AllHeld = [n \in Names |-> slot[PlaceOf(n)]]
  BY DEF AllHeld, Held
<1> QED
  BY <1>1, <1>2

LEMMA ScanJob ==
  ASSUME NEW j, j.kind = "scan", NEW q, Runs(j, q)
  PROVE  Apt(q)
<1>1. q \in Seq(TaskType) /\ \A i \in 1..Len(q) : StepOK(j, q[i])
  BY DEF Runs
<1>2. \A n : j.kind \in ReadBy(n) => n \in {"latest", "index"}
  BY DEF ReadBy
<1> QED
  BY <1>1, <1>2 DEF Apt, StepOK

LEMMA ScanAt ==
  ASSUME Shape, Scans, ScansApart, NEW c \in Caller, ~Free(c)
  PROVE  LET q == job[c].at IN
         /\ Apt(q) /\ q # <<>> /\ Script(q) /\ IndexPlan(q, AllHeld) /\ Complete(AllHeld)
         /\ job[c].kind = "scan" /\ job[c].arg \in Report /\ Runs(job[c], q)
         /\ Current(job[c]) = q[1] /\ On(c) = q[1].on /\ On(c) \in ScanFiles
         /\ q[1].do \in {"read", "drop"} \cup Replacing /\ \A x : CallDoes(c, x) <=> q[1].do = x
         /\ \A d \in Caller \ {c} : Free(d)
<1>1. /\ CallOK(job[c]) /\ job[c].at \in Seq(TaskType) /\ Current(job[c]) = job[c].at[1] /\ 1 \in 1..Len(job[c].at)
  BY AtWork
<1>2. topic = "reports" /\ topic \in DOMAIN Kinds /\ job[c].kind \in Kinds[topic]
  BY DEF Shape, Typed, Jobs, ScansApart
<1>3. job[c].kind = "scan"
  BY <1>2, KindsOf
<1>4. Runs(job[c], job[c].at) /\ job[c].arg \in Report
  BY <1>1, <1>3 DEF CallOK
<1>5. Apt(job[c].at)
  BY <1>3, <1>4, ScanJob
<1>6. Script(job[c].at) /\ IndexPlan(job[c].at, AllHeld) /\ Complete(AllHeld) /\ \A d \in Caller \ {c} : Free(d)
  BY DEF Scans
<1>7. job[c].at[1].do \in {"read", "drop"} \cup Replacing /\ job[c].at[1].on \in ScanFiles
  BY <1>1, <1>6 DEF Script
<1> QED
  BY <1>1, <1>3, <1>4, <1>5, <1>6, <1>7 DEF CallDoes, On, Free

(* Only a scan writes the index.                                            *)
Elsewhere == topic # "reports" => Held("index") = Absent

LEMMA ElsewhereMove ==
  ASSUME Shape, Elsewhere, NEW c \in Caller, Moving(c) PROVE Elsewhere'
<1> DEFINE p == PlaceOf("index")
<1> SUFFICES ASSUME topic # "reports" PROVE slot'[p] = Absent
  BY MovingMoves DEF Elsewhere, Held
<1>1. slot[p] = Absent /\ p \in Place /\ p \notin Scratch /\ p # PlaceOf("salt") /\ p # PlaceOf("events")
      /\ \A n \in Names : p = PlaceOf(n) => n = "index"
  BY Places, ScanNames, SaltName DEF Elsewhere, Held, PlaceOf
<1>2. ~Free(c)
  BY MovingMoves
<1>3. job[c].kind \in Kinds[topic] /\ topic \in DOMAIN Kinds
  BY <1>2 DEF Shape, Typed, Jobs
<1>4. job[c].kind # "scan"
  BY <1>3, KindsOf
<1>5. /\ StepOK(job[c], Current(job[c])) /\ On(c) = Current(job[c]).on
      /\ \A x : CallDoes(c, x) <=> Current(job[c]).do = x
  BY <1>2, AtWork DEF CallDoes, On
<1>6. (\E x \in Replacing \cup {"drop"} : CallDoes(c, x)) => On(c) # "index"
  BY <1>4, <1>5 DEF StepOK, ScanFiles
<1> HIDE DEF p
<1>7. CASE Quiet(c)
  BY <1>1, <1>7, QuietFacts
<1>8. CASE OpenTemporary(c)
  <2>1. PICK t \in Scratch : \A o \in Place \cup Scratch : o # t => slot'[o] = slot[o]
    BY <1>8, OpenFacts
  <2> QED
    BY <1>1, <2>1
<1>9. CASE Fill(c)
  <2>1. /\ CallDoes(c, "fill") /\ (opened[c] # Absent => opened[c][1] = On(c))
        /\ \A o \in Place \cup Scratch : o # opened[c] => slot'[o] = slot[o]
    BY <1>9, FillFacts
  <2>2. p[1] = "index" /\ p # Absent
    BY Places, ScanNames DEF p
  <2>3. On(c) # "index"
    BY <1>6, <2>1 DEF Replacing
  <2>4. opened[c] # p
    BY <2>1, <2>2, <2>3
  <2> QED
    BY <1>1, <2>1, <2>4
<1>10. CASE PutInPlace(c)
  <2>1. CASE slot[job[c].tmp] # Absent
    <3>1. /\ CallDoes(c, "rename") /\ On(c) \in Names /\ job[c].tmp \in Scratch
          /\ \A o \in Place \cup Scratch : o \notin {PlaceOf(On(c)), job[c].tmp} => slot'[o] = slot[o]
      BY <1>10, <2>1, RenameDone
    <3>2. p \notin {PlaceOf(On(c)), job[c].tmp}
      BY <1>1, <1>6, <3>1 DEF Replacing
    <3> QED
      BY <1>1, <3>1, <3>2
  <2>2. CASE slot[job[c].tmp] = Absent
    BY <1>1, <1>10, <2>2 DEF PutInPlace
  <2> QED
    BY <2>1, <2>2
<1>11. CASE Drop(c) \/ EraseFile(c)
  <2>1. CASE Removes(c)
    <3>1. slot'[PlaceOf(On(c))] = Absent /\ \A o \in Place \cup Scratch : o # PlaceOf(On(c)) => slot'[o] = slot[o]
      BY <2>1, RemoveFacts
    <3> QED
      BY <1>1, <3>1
  <2>2. CASE ~Removes(c)
    BY <1>1, <1>11, <2>2 DEF Removes, EraseFile, Held
  <2> QED
    BY <2>1, <2>2
<1>12. CASE Salt(c)
  BY <1>1, <1>12, SaltFacts
<1>13. CASE OpenEvents(c)
  BY <1>1, <1>13, EventsFacts
<1>14. CASE WriteEvent(c)
  BY <1>1, <1>14, WriteFacts
<1>15. CASE Cut(c)
  BY <1>1, <1>15, CutFacts, LeftFacts
<1> QED
  BY <1>7, <1>8, <1>9, <1>10, <1>11, <1>12, <1>13, <1>14, <1>15 DEF Moving, Quiet, Cut

(* One step of the only scan: what it goes on with fits what the files      *)
(* become.                                                                  *)
LEMMA ScansGo ==
  ASSUME Shape, Scans, Orderly, ScansApart, NEW c \in Caller, ~Free(c), Moves(c), topic' = topic,
         NEW q, job'[c].at = q, Script(q), NEW G, AllHeld' = G, Complete(G), IndexPlan(q, G),
         CallDoes(c, "fill")' => opened'[c] = job'[c].tmp,
         CallDoes(c, "rename")' => slot'[job'[c].tmp] = Current(job[c])'.value,
         <<"trouble", 0>> \notin notes' => OrderPlan(q, job[c].arg, G)
  PROVE  Scans' /\ Orderly'
<1>1. /\ \A d \in Caller \ {c} : job'[d] = job[d] /\ Free(d)
      /\ job'[c] = NoJob \/ (~Free(c)' /\ job'[c].arg = job[c].arg)
  BY MovesOthers DEF Scans
<1>2. \A d \in Caller \ {c} : Free(d)' /\ job'[d].at = <<>>
  BY <1>1 DEF Free
<1>3. topic' = "reports" /\ job[c].arg \in Report
  BY ScanAt DEF ScansApart
<1>4. \A d, e \in Caller : d # e => Free(d)' \/ Free(e)'
  BY <1>2
<1>5. ASSUME NEW d \in Caller PROVE
        /\ CallDoes(d, "fill")' => opened'[d] = job'[d].tmp
        /\ CallDoes(d, "rename")' => slot'[job'[d].tmp] = Current(job[d])'.value
        /\ Script(job'[d].at) /\ IndexPlan(job'[d].at, G)
  <2>1. CASE d = c
    BY <2>1
  <2>2. CASE d # c
    <3>1. job'[d].at = <<>> /\ Script(<<>>) /\ IndexPlan(<<>>, G)
      BY <1>2, <1>3, <2>2, NothingScript
    <3> QED
      BY <1>2, <2>2, <3>1 DEF CallDoes
  <2> QED
    BY <2>1, <2>2
<1>6. Scans'
  BY <1>3, <1>4, <1>5 DEF Scans
<1>7. <<"trouble", 0>> \notin notes' /\ Free(c)' => Settled(G)
  <2> SUFFICES ASSUME <<"trouble", 0>> \notin notes', Free(c)' PROVE Settled(G)
    OBVIOUS
  <2>1. q = <<>> /\ OrderPlan(q, job[c].arg, G)
    BY DEF Free
  <2> QED
    BY <1>3, <2>1, NothingScript
<1>8. ~Free(c)' => job'[c].arg = job[c].arg
  BY <1>1, NoTmp DEF Free
<1>9. ASSUME <<"trouble", 0>> \notin notes'
      PROVE  /\ (\A d \in Caller : Free(d)') => Settled(G)
             /\ \A d \in Caller : ~Free(d)' => OrderPlan(job'[d].at, job'[d].arg, G)
  BY <1>2, <1>7, <1>8, <1>9
<1>10. Orderly'
  BY <1>9 DEF Orderly, Noted
<1> QED
  BY <1>6, <1>10

(* A scan that reads the latest report, or the index.                       *)
LEMMA ScansRead ==
  ASSUME Shape, Scans, Orderly, ScansApart, NEW c \in Caller, Read(c) PROVE Scans' /\ Orderly'
<1> DEFINE p == job[c].at
           n == On(c)
           H == AllHeld
           arg == job[c].arg
<1>1. CallDoes(c, "read") /\ ~Free(c) /\ UNCHANGED <<slot, opened, notes, topic>>
  BY DEF Read, CallDoes, Calm
<1>2. /\ Apt(p) /\ p # <<>> /\ Script(p) /\ IndexPlan(p, H) /\ Complete(H)
      /\ job[c].kind = "scan" /\ arg \in Report /\ n = p[1].on /\ p[1].do = "read" /\ n \in ScanFiles
  BY <1>1, ScanAt
<1>3. FilesOf(H) /\ H[n] = slot[PlaceOf(n)] /\ n \in Names /\ "latest" \in Names
  BY <1>2, HeldFiles, ScanNames DEF Held
<1>4. H[n] # Torn /\ H["latest"] # Torn /\ "latest" \in ScanFiles
  BY <1>2 DEF Complete, ScanFiles
<1>5. 1 \in 1..Len(p) /\ Len(p) = 1 /\ n \in {"latest", "index"}
  <2>1. 1 \in 1..Len(p) /\ Len(p) \in Nat
    BY <1>2, TailOf DEF Apt
  <2> QED
    BY <1>2, <2>1 DEF Apt, Script
<1>6. PICK q \in After(job[c], n, H[n]) : GoTo(c, [job[c] EXCEPT !.read = H[n]], q)
  BY <1>3, <1>4 DEF Read
<1>7. Moves(c) /\ Starts(q) /\ job'[c].at = q
  <2> DEFINE j == job[c]
             k == [id |-> j.id, kind |-> j.kind, arg |-> j.arg, at |-> q, read |-> slot[PlaceOf(n)],
                   key |-> j.key, tmp |-> j.tmp, bad |-> j.bad]
  <2>1. Moves(c) /\ Starts(q) /\ job'[c] = IF q = <<>> THEN NoJob ELSE k
    BY <1>1, <1>3, <1>4, <1>6, ReadMoves
  <2>2. k.at = q
    OBVIOUS
  <2> HIDE DEF k
  <2> QED
    BY <2>1, <2>2, NoTmp
<1>8. ~CallDoes(c, "fill")' /\ ~CallDoes(c, "rename")'
  BY <1>7, Started
<1>9. AllHeld' = H
  BY <1>1, SameHeld
<1>10. <<"trouble", 0>> \notin notes' => OrderPlan(p, arg, H)
  BY <1>1 DEF Orderly, Noted
<1> HIDE DEF H, n, p, arg
<1>11. Script(q) /\ IndexPlan(q, H) /\ (<<"trouble", 0>> \notin notes' => OrderPlan(q, arg, H))
  <2>1. CASE n = "latest"
    <3>1. q \in AfterLatest(job[c], H["latest"])
      BY <1>6, <2>1 DEF After
    <3>2. q = (IF H["latest"] \notin {Absent, arg} THEN Replace("previous", H["latest"]) ELSE <<>>)
             \o Replace("latest", arg) \o ReadOf("index")
      BY <3>1 DEF AfterLatest, arg
    <3>3. H["latest"] \in Report \cup {Absent}
      <4>1. H["latest"] = Held("latest") /\ PlaceOf("latest") \in Place /\ PlaceOf("latest")[1] = "latest"
        BY HeldFiles, ScanNames, Places DEF H
      <4>2. H["latest"] \notin {Absent, Torn} => Fits("latest", H["latest"])
        BY <4>1 DEF Shape, Contents, Held
      <4> QED
        BY <1>4, <4>2, ValueOf DEF Fits
    <3>4. Script(q) /\ IndexPlan(q, H) /\ (Settled(H) => OrderPlan(q, arg, H))
      BY <1>2, <3>2, <3>3, LatestScript
    <3>5. Pending(p, "read", "latest")
      BY <1>2, <1>5, <2>1 DEF Pending
    <3> QED
      BY <1>10, <3>4, <3>5 DEF OrderPlan
  <2>2. CASE n = "index"
    <3> DEFINE l == List(H["index"])
               next == <<arg>> \o l
    <3>1. q \in AfterIndex(job[c], H["index"])
      BY <1>6, <2>2 DEF After
    <3>2. <<"trouble", 0>> \notin notes' => H["latest"] = arg /\ H["previous"] # arg
      BY <1>2, <1>5, <1>10, <2>2, IndexRead
    <3>3. CASE arg \in Items(l)
      <4>1. q = <<>>
        BY <3>1, <3>3 DEF AfterIndex, arg
      <4>2. Script(<<>>) /\ IndexPlan(<<>>, H)
        BY <1>2, NothingScript
      <4>3. <<"trouble", 0>> \notin notes' => OrderPlan(<<>>, arg, H)
        BY <3>2, <3>3, IndexDone
      <4> QED
        BY <4>1, <4>2, <4>3
    <3>4. CASE arg \notin Items(l)
      <4>1. q = Replace(arg, arg) \o Replace("index", First(next)) \o Pruned(next)
        BY <3>1, <3>4 DEF AfterIndex, arg
      <4>2. arg \in Report /\ FilesOf(H) /\ Complete(H) /\ arg \notin Items(List(H["index"])) /\ next = <<arg>> \o List(H["index"])
        BY <1>2, <1>3, <3>4
      <4> HIDE DEF next, l
      <4>3. Script(q) /\ IndexPlan(q, H) /\ (H["latest"] = arg /\ H["previous"] # arg => OrderPlan(q, arg, H))
        BY ONLY <4>1, <4>2, IndexScript
      <4> QED
        BY <3>2, <4>3
    <3> QED
      BY <3>3, <3>4
  <2> QED
    BY <1>5, <2>1, <2>2
<1>12. Complete(H) /\ topic' = topic
  BY <1>1, <1>2
<1>13. <<"trouble", 0>> \notin notes' => OrderPlan(q, job[c].arg, H)
  BY <1>11 DEF arg
<1> QED
  BY <1>1, <1>7, <1>8, <1>9, <1>11, <1>12, <1>13, ScansGo

(* What goes on with the next step.                                         *)
LEMMA NextAt ==
  ASSUME Shape, NEW c \in Caller, ~Free(c), Continue(c) PROVE Moves(c) /\ job'[c].at = Tail(job[c].at)
  BY OnWith, NoTmp

LEMMA ScansOpen ==
  ASSUME Shape, Scans, Orderly, ScansApart, NEW c \in Caller, OpenTemporary(c) PROVE Scans' /\ Orderly'
<1> DEFINE p == job[c].at
           q == Tail(p)
           H == AllHeld
<1>1. PICK t \in Scratch :
         /\ CallDoes(c, "open") /\ ~Free(c) /\ Moves(c)
         /\ job'[c].tmp = t /\ job'[c].at = q
         /\ CallDoes(c, "fill")'
         /\ opened'[c] = t /\ topic' = topic
         /\ \A o \in Place \cup Scratch : o # t => slot'[o] = slot[o]
         /\ notes \subseteq notes'
  BY OpenFacts
<1>2. /\ Apt(p) /\ p # <<>> /\ Script(p) /\ IndexPlan(p, H) /\ Complete(H) /\ p[1].do = "open"
  BY <1>1, ScanAt
<1>3. ~CallDoes(c, "rename")'
  BY <1>1 DEF CallDoes
<1>4. AllHeld' = H
  <2>1. \A n \in Names : PlaceOf(n) \in Place /\ PlaceOf(n) \notin Scratch
    BY Places
  <2> QED
    BY <1>1, <2>1, SameHeld
<1>5. Script(q) /\ IndexPlan(q, H)
  BY <1>2, ScriptTail, IndexSame
<1>6. <<"trouble", 0>> \notin notes' => OrderPlan(p, job[c].arg, H)
  BY <1>1 DEF Orderly, Noted
<1>7. <<"trouble", 0>> \notin notes' => OrderPlan(q, job[c].arg, H)
  BY <1>2, <1>6, OrderSame
<1>8. job'[c].at = q /\ (CallDoes(c, "fill")' => opened'[c] = job'[c].tmp) /\ topic' = topic /\ Moves(c) /\ ~Free(c)
  BY <1>1
<1> HIDE DEF q, p, H
<1>9. Complete(H)
  BY <1>2
<1> QED
  BY <1>3, <1>4, <1>5, <1>7, <1>8, <1>9, ScansGo

LEMMA ScansFill ==
  ASSUME Shape, Scans, Orderly, ScansApart, overtaken = {}, NEW c \in Caller, Fill(c) PROVE Scans' /\ Orderly'
<1> DEFINE p == job[c].at
           q == Tail(p)
           H == AllHeld
<1>1. CallDoes(c, "fill") /\ ~Free(c) /\ Continue(c) /\ topic' = topic /\ notes' = notes
  BY FillFacts DEF Calm
<1>2. /\ Apt(p) /\ p # <<>> /\ Script(p) /\ IndexPlan(p, H) /\ Complete(H) /\ p[1].do = "fill" /\ On(c) \in ScanFiles
  BY <1>1, ScanAt
<1>3. On(c) # "salt" /\ opened[c] = job[c].tmp
  BY <1>1, <1>2, ScanNames DEF Scans, ScanFiles
<1>4. /\ CallDoes(c, "rename")' /\ Current(job[c])'.value = Current(job[c]).value /\ job'[c].tmp = job[c].tmp
      /\ job[c].tmp \in Scratch
      /\ opened[c] # Absent => slot'[opened[c]] = Current(job[c]).value \/ c \in overtaken
      /\ \A o \in Place \cup Scratch : o # opened[c] => slot'[o] = slot[o]
  BY <1>3, FillFacts
<1>5. /\ ~CallDoes(c, "fill")' /\ (CallDoes(c, "rename")' => slot'[job'[c].tmp] = Current(job[c])'.value)
  <2>1. job[c].tmp # Absent
    BY <1>4, Places
  <2> QED
    BY <1>3, <1>4, <2>1 DEF CallDoes
<1>6. AllHeld' = H
  <2>1. \A n \in Names : PlaceOf(n) \in Place /\ PlaceOf(n) \notin Scratch
    BY Places
  <2> QED
    BY <1>3, <1>4, <2>1, SameHeld
<1>7. Script(q) /\ IndexPlan(q, H)
  BY <1>2, ScriptTail, IndexSame
<1>8. <<"trouble", 0>> \notin notes' => OrderPlan(p, job[c].arg, H)
  BY <1>1 DEF Orderly, Noted
<1>9. <<"trouble", 0>> \notin notes' => OrderPlan(q, job[c].arg, H)
  BY <1>2, <1>8, OrderSame
<1>10. job'[c].at = q /\ Moves(c)
  BY <1>1, NextAt
<1> HIDE DEF q, p, H
<1>11. Complete(H)
  BY <1>2
<1> QED
  BY <1>1, <1>5, <1>6, <1>7, <1>9, <1>10, <1>11, ScansGo

LEMMA ScansPut ==
  ASSUME Shape, Scans, Orderly, ScansApart, NEW c \in Caller, PutInPlace(c) PROVE Scans' /\ Orderly'
<1> DEFINE p == job[c].at
           q == Tail(p)
           H == AllHeld
           n == p[1].on
           v == p[1].value
           G == [H EXCEPT ![n] = v]
<1>1. CallDoes(c, "rename") /\ ~Free(c)
  BY DEF PutInPlace, CallDoes
<1>2. /\ Apt(p) /\ p # <<>> /\ Script(p) /\ IndexPlan(p, H) /\ Complete(H) /\ p[1].do = "rename" /\ On(c) = n
      /\ Current(job[c]) = p[1] /\ n \in ScanFiles
  BY <1>1, ScanAt
<1>3. slot[job[c].tmp] = v /\ n \in Names
  BY <1>1, <1>2, ScanNames DEF Scans
<1>4. v # Absent
  <2>1. 1 \in 1..Len(p)
    BY <1>2, TailOf DEF Apt
  <2>2. Fits(n, v)
    BY <1>2, <2>1 DEF Apt, Replacing
  <2> QED
    BY <1>3, <2>2, FitsOf
<1>5. /\ Continue(c) /\ Calm /\ slot'[PlaceOf(n)] = v /\ job[c].tmp \in Scratch /\ notes' = notes /\ Starts(job'[c].at)
      /\ \A o \in Place \cup Scratch : o \notin {PlaceOf(n), job[c].tmp} => slot'[o] = slot[o]
  BY <1>2, <1>3, <1>4, RenameDone
<1>6. \A m \in Names : m # n => slot'[PlaceOf(m)] = slot[PlaceOf(m)]
  <2>1. \A m \in Names : PlaceOf(m) \in Place /\ PlaceOf(m) \notin Scratch
    BY Places
  <2>2. \A m \in Names : m # n => PlaceOf(m) # PlaceOf(n)
    BY <1>3, Places
  <2> QED
    BY <1>5, <2>1, <2>2
<1>7. FilesOf(H)
  BY HeldFiles
<1>8. <<"trouble", 0>> \notin notes' => OrderPlan(p, job[c].arg, H)
  BY <1>1, <1>5 DEF Orderly, Noted
<1>9. job'[c].at = q /\ Moves(c) /\ topic' = topic
  BY <1>1, <1>5, NextAt DEF Calm
<1>10. ~CallDoes(c, "fill")' /\ ~CallDoes(c, "rename")'
  BY <1>5, Started
<1>11. Script(q)
  BY <1>2, ScriptTail
<1>12. AllHeld' = G
  <2> HIDE DEF n, v
  <2> QED
    BY <1>3, <1>5, <1>6, PutHeld
<1> HIDE DEF H, p
<1>13. Complete(G) /\ IndexPlan(q, G)
  BY <1>2, <1>7, IndexRename
<1>14. <<"trouble", 0>> \notin notes' => OrderPlan(q, job[c].arg, G)
  BY <1>2, <1>7, <1>8, OrderRename
<1> HIDE DEF q, G, n, v
<1> QED
  BY <1>1, <1>9, <1>10, <1>11, <1>12, <1>13, <1>14, ScansGo

LEMMA ScansDrop ==
  ASSUME Shape, Scans, Orderly, ScansApart, NEW c \in Caller, Drop(c) PROVE Scans' /\ Orderly'
<1> DEFINE p == job[c].at
           q == Tail(p)
           H == AllHeld
           n == p[1].on
           G == [H EXCEPT ![n] = Absent]
<1>1. CallDoes(c, "drop") /\ ~Free(c) /\ notes' = notes /\ Removes(c)
  BY DEF Drop, CallDoes, Removes
<1>2. /\ Apt(p) /\ p # <<>> /\ Script(p) /\ IndexPlan(p, H) /\ Complete(H) /\ p[1].do = "drop" /\ On(c) = n
  BY <1>1, ScanAt
<1>3. n \in Report /\ n \in Names
  <2>1. 1 \in 1..Len(p)
    BY <1>2, TailOf DEF Apt
  <2> QED
    BY <1>2, <2>1, ScanNames DEF Apt
<1>4. /\ Continue(c) /\ Calm /\ Starts(job'[c].at) /\ slot'[PlaceOf(n)] = Absent
      /\ \A o \in Place \cup Scratch : o # PlaceOf(n) => slot'[o] = slot[o]
  BY <1>1, <1>2, RemoveFacts
<1>5. \A m \in Names : m # n => slot'[PlaceOf(m)] = slot[PlaceOf(m)]
  <2>1. \A m \in Names : PlaceOf(m) \in Place
    BY Places
  <2>2. \A m \in Names : m # n => PlaceOf(m) # PlaceOf(n)
    BY <1>3, Places
  <2> QED
    BY <1>4, <2>1, <2>2
<1>6. FilesOf(H)
  BY HeldFiles
<1>7. <<"trouble", 0>> \notin notes' => OrderPlan(p, job[c].arg, H)
  BY <1>1 DEF Orderly, Noted
<1>8. job'[c].at = q /\ Moves(c) /\ topic' = topic
  BY <1>1, <1>4, NextAt DEF Calm
<1>9. ~CallDoes(c, "fill")' /\ ~CallDoes(c, "rename")'
  BY <1>4, Started
<1>10. Script(q)
  BY <1>2, ScriptTail
<1>11. AllHeld' = G
  <2> HIDE DEF n
  <2> QED
    BY <1>3, <1>4, <1>5, PutHeld
<1> HIDE DEF H, p
<1>12. Complete(G) /\ IndexPlan(q, G)
  BY <1>2, <1>6, IndexDrop
<1>13. G["latest"] = H["latest"] /\ G["previous"] = H["previous"] /\ G["index"] = H["index"]
  BY <1>3, <1>6, ReportNot DEF FilesOf
<1> HIDE DEF G
<1>14. <<"trouble", 0>> \notin notes' => OrderPlan(q, job[c].arg, G)
  BY <1>2, <1>7, <1>13, OrderSame
<1> HIDE DEF q, n
<1> QED
  BY <1>1, <1>8, <1>9, <1>10, <1>11, <1>12, <1>14, ScansGo

LEMMA ScansCut ==
  ASSUME Shape, Scans, Orderly, ScansApart, NEW c \in Caller, Cut(c) PROVE Scans' /\ Orderly'
<1> DEFINE H == AllHeld
           q == <<>>
<1>1. /\ ~Free(c) /\ Moves(c) /\ Starts(job'[c].at) /\ slot' = Left(c) /\ opened' = [opened EXCEPT ![c] = Absent]
      /\ notes' = notes \cup {<<"trouble", 0>>} /\ topic' = topic
      /\ job'[c] = NoJob \/ CallFails(c)
  BY CutFacts
<1>2. Complete(H) /\ job[c].kind = "scan" /\ job[c].arg \in Report
  BY <1>1, ScanAt
<1>3. job'[c] = NoJob
  BY <1>1, <1>2, FailTmp
<1>4. job'[c].at = q
  BY <1>3, NoTmp
<1>5. AllHeld' = H
  <2>1. \A n \in Names : PlaceOf(n) \in Place
    BY Places
  <2>2. \A o \in Place : slot'[o] = slot[o]
    BY <1>1, LeftFacts
  <2> QED
    BY <2>1, <2>2, SameHeld
<1>6. Script(q) /\ IndexPlan(q, H)
  BY <1>2, NothingScript
<1>7. ~CallDoes(c, "fill")' /\ ~CallDoes(c, "rename")' /\ <<"trouble", 0>> \in notes'
  BY <1>1, Started
<1> HIDE DEF q, H
<1> QED
  BY <1>1, <1>2, <1>4, <1>5, <1>6, <1>7, ScansGo

(* A scan begins.                                                           *)
LEMMA ScansBegin ==
  ASSUME Shape, Scans, Orderly, NEW c \in Caller, BeginCall(c), ScansApart' PROVE Scans' /\ Orderly'
<1>1. PICK kind \in Kinds[topic], arg \in Nat \cup SourceKey \cup Report :
         LET beside == {d \in Caller \ {c} : ~Free(d) /\ Files(job[d].kind) \cap Files(kind) # {}} IN
         /\ job' = [job EXCEPT ![c] = NewCall(c, kind, arg)] /\ job'[c] = NewCall(c, kind, arg)
         /\ CallOK(job'[c]) /\ Starts(job'[c].at)
         /\ notes' = IF kind = "scan" /\ beside # {} THEN notes \cup {<<"scans", 0>>} ELSE notes
  BY BeginMoves
<1>2. topic' = topic /\ slot' = slot /\ opened' = opened /\ Free(c)
  BY BeginMoves
<1>3. topic = "reports" /\ topic \in DOMAIN Kinds /\ kind = "scan"
  <2>1. topic = "reports" /\ topic \in DOMAIN Kinds
    BY <1>2 DEF ScansApart, Shape, Typed
  <2> QED
    BY <2>1, KindsOf
<1>4. notes' = notes \/ <<"scans", 0>> \in notes'
  BY <1>1
<1>5. <<"scans", 0>> \notin notes' /\ notes' = notes
  BY <1>4 DEF ScansApart, Noted
<1>6. ScansApart
  BY <1>3, <1>5 DEF ScansApart, Noted
<1>7. \A d \in Caller \ {c} : Free(d)
  <2> SUFFICES ASSUME NEW d \in Caller \ {c}, ~Free(d) PROVE FALSE
    OBVIOUS
  <2>1. job[d].kind \in Kinds[topic]
    BY DEF Shape, Jobs
  <2>2. job[d].kind = "scan"
    BY <1>3, <2>1, KindsOf
  <2>3. Files("scan") = {"latest", "previous", "index"}
    BY DEF Files
  <2>4. Files(job[d].kind) \cap Files(kind) # {}
    BY <1>3, <2>2, <2>3
  <2>5. {e \in Caller \ {c} : ~Free(e) /\ Files(job[e].kind) \cap Files(kind) # {}} # {}
    BY <2>4
  <2>6. <<"scans", 0>> \in notes'
    BY <1>1, <1>3, <2>5
  <2> QED
    BY <1>5, <2>6
<1>8. /\ job'[c].at = ReadOf("latest") /\ job'[c].arg = arg /\ job'[c].kind = "scan"
      /\ \A d \in Caller \ {c} : job'[d] = job[d]
  BY <1>1, <1>3 DEF NewCall, Opening, Shape, Typed
<1>9. \A d \in Caller \ {c} : Free(d)' /\ job'[d].at = <<>>
  BY <1>7, <1>8 DEF Free
<1>10. AllHeld' = AllHeld
  BY <1>2, SameHeld
<1> DEFINE H == AllHeld
<1>11. Complete(H)
  BY <1>6 DEF Scans
<1>12. <<"trouble", 0>> \notin notes => Settled(H)
  <2>1. \A d \in Caller : Free(d)
    BY <1>2, <1>7
  <2> QED
    BY <1>6, <2>1 DEF Orderly, Noted
<1>13. arg \in Report
  BY <1>1, <1>8 DEF CallOK
<1>14. ~CallDoes(c, "fill")' /\ ~CallDoes(c, "rename")'
  BY <1>1, Started
<1> HIDE DEF H
<1>15. ASSUME NEW d \in Caller PROVE
         /\ ~CallDoes(d, "fill")' /\ ~CallDoes(d, "rename")' /\ Script(job'[d].at) /\ IndexPlan(job'[d].at, H)
         /\ <<"trouble", 0>> \notin notes' /\ ~Free(d)' => OrderPlan(job'[d].at, job'[d].arg, H)
  <2>1. CASE d = c
    BY <1>5, <1>8, <1>12, <1>14, <2>1, OpeningScript
  <2>2. CASE d # c
    <3>1. job'[d].at = <<>> /\ Script(<<>>) /\ IndexPlan(<<>>, H)
      BY <1>9, <1>13, <2>2, NothingScript
    <3> QED
      BY <1>9, <2>2, <3>1 DEF CallDoes
  <2> QED
    BY <2>1, <2>2
<1>16. Scans'
  <2>1. topic' = "reports" /\ \A d, e \in Caller : d # e => Free(d)' \/ Free(e)'
    BY <1>2, <1>3, <1>9
  <2>2. AllHeld' = H
    BY <1>10 DEF H
  <2> QED
    BY <1>11, <1>15, <2>1, <2>2 DEF Scans
<1>17. Orderly'
  <2>1. ~Free(c)'
    BY <1>8, ReadTask, ScanNames DEF Free
  <2>2. AllHeld' = H
    BY <1>10 DEF H
  <2> QED
    BY <1>15, <2>1, <2>2 DEF Orderly, Noted
<1> QED
  BY <1>16, <1>17

LEMMA ScansMove ==
  ASSUME Shape, Unshared, Scans, Orderly, NEW c \in Caller, Moving(c) PROVE Scans' /\ Orderly'
<1>1. ~Free(c) /\ topic' = topic /\ notes \subseteq notes'
  BY MovingMoves, NotesKept
<1>2. CASE ~ScansApart
  <2>1. ~ScansApart'
    BY <1>1, <1>2 DEF ScansApart, Noted
  <2> QED
    BY <2>1 DEF Scans, Orderly
<1>3. CASE ScansApart
  <2>1. /\ job[c].at[1].do \in {"read", "drop"} \cup Replacing /\ \A x : CallDoes(c, x) <=> job[c].at[1].do = x
    BY <1>1, <1>3, ScanAt
  <2>2. Read(c) \/ OpenTemporary(c) \/ Fill(c) \/ PutInPlace(c) \/ Drop(c) \/ Cut(c)
    BY <2>1 DEF Moving, Cut, Replacing, Decline, Salt, Key, OpenEvents, WriteEvent, CheckReviewed, EraseFile
  <2>3. overtaken = {}
    BY <1>3 DEF Unshared
  <2> QED
    BY <1>3, <2>2, <2>3, ScansRead, ScansOpen, ScansFill, ScansPut, ScansDrop, ScansCut
<1> QED
  BY <1>2, <1>3

LEMMA ScansStep ==
  ASSUME Shape, Elsewhere, Unshared, Scans, Orderly, [StoreNext]_storeVars PROVE Elsewhere' /\ Scans' /\ Orderly'
<1>1. CASE UNCHANGED storeVars \/ Review
  <2>1. UNCHANGED <<topic, slot, job, opened, notes>>
    BY <1>1 DEF storeVars, Review
  <2>2. AllHeld' = AllHeld
    BY <2>1, SameHeld
  <2>3. /\ ScansApart' <=> ScansApart
        /\ \A d \in Caller : \A x : CallDoes(d, x)' <=> CallDoes(d, x)
        /\ \A d \in Caller : (Free(d)' <=> Free(d)) /\ Current(job[d])' = Current(job[d])
        /\ Noted("trouble")' <=> Noted("trouble")
    BY <2>1 DEF ScansApart, CallDoes, Free, Current, Noted
  <2>4. Elsewhere'
    BY <2>1 DEF Elsewhere, Held
  <2>5. Scans'
    BY <2>1, <2>2, <2>3 DEF Scans
  <2>6. Orderly'
    BY <2>1, <2>2, <2>3 DEF Orderly
  <2> QED
    BY <2>4, <2>5, <2>6
<1>2. ASSUME NEW c \in Caller, BeginCall(c) PROVE Elsewhere' /\ Scans' /\ Orderly'
  <2>1. Elsewhere'
    BY <1>2, BeginMoves DEF Elsewhere, Held
  <2>2. CASE ScansApart'
    BY <1>2, <2>1, <2>2, ScansBegin
  <2>3. CASE ~ScansApart'
    BY <2>1, <2>3 DEF Scans, Orderly
  <2> QED
    BY <2>2, <2>3
<1>3. ASSUME NEW c \in Caller, Moving(c) PROVE Elsewhere' /\ Scans' /\ Orderly'
  BY <1>3, ElsewhereMove, ScansMove
<1> QED
  BY <1>1, <1>2, <1>3, NextCases

LEMMA UnsharedStep == ASSUME Shape, Unshared, Scans, [StoreNext]_storeVars PROVE Unshared'
<1> SUFFICES ASSUME ScansApart' PROVE overtaken' = {}
  BY DEF Unshared
<1>1. CASE UNCHANGED storeVars \/ Review
  BY <1>1 DEF storeVars, Review, Unshared, ScansApart, Noted
<1>2. ASSUME NEW c \in Caller, BeginCall(c) PROVE overtaken' = {}
  BY <1>2 DEF BeginCall, Unshared, ScansApart, Noted
<1>3. ASSUME NEW c \in Caller, Moving(c) PROVE overtaken' = {}
  <2>1. ~Free(c) /\ topic' = topic /\ notes \subseteq notes'
    BY <1>3, MovingMoves, NotesKept
  <2>2. ScansApart
    BY <2>1 DEF ScansApart, Noted
  <2>3. overtaken = {}
    BY <2>2 DEF Unshared
  <2>4. Behind(c) = {}
    <3>1. \A d \in Caller \ {c} : ~CallDoes(d, "fill")
      BY <2>1, <2>2 DEF Scans, CallDoes
    <3> QED
      BY <3>1 DEF Behind
  <2>5. Overtaking
    BY <2>3 DEF Overtaking
  <2> QED
    BY <1>3, <2>3, <2>4, <2>5, OvertakenMove
<1> QED
  BY <1>1, <1>2, <1>3, NextCases

LEMMA ScansInit == StoreInit => Elsewhere /\ Scans /\ Orderly /\ Unshared
<1> SUFFICES ASSUME StoreInit PROVE Elsewhere /\ Scans /\ Orderly /\ Unshared
  OBVIOUS
<1>1. (\A c \in Caller : job[c] = NoJob) /\ \A n \in Names : Held(n) = Absent
  BY Places DEF StoreInit, Held
<1>2. \A c \in Caller : Free(c) /\ job[c].at = <<>> /\ \A x : ~CallDoes(c, x)
  BY <1>1, NoTmp DEF Free, CallDoes
<1> DEFINE H == AllHeld
<1>3. \A n \in Names : H[n] = Absent
  BY <1>1 DEF AllHeld
<1> HIDE DEF H
<1>4. List(H["index"]) = <<>>
  BY <1>3, ScanNames DEF List
<1>5. \A i \in 1..Len(<<>>) : FALSE
  OBVIOUS
<1>6. Complete(H)
  <2>1. \A n \in ScanFiles : H[n] # Torn
    BY <1>3, ScanNames, Constants
  <2>2. Distinct(<<>>) /\ Items(<<>>) = {}
    BY <1>5 DEF Distinct, Items
  <2> QED
    BY <1>4, <2>1, <2>2 DEF Complete
<1>7. Settled(H)
  BY <1>3, ScanNames DEF Settled
<1>8. \A c \in Caller : Script(job[c].at) /\ IndexPlan(job[c].at, H)
  <2>1. Script(<<>>)
    BY <1>5 DEF Script
  <2>2. IndexPlan(<<>>, H)
    BY <1>5 DEF IndexPlan
  <2> QED
    BY <1>2, <2>1, <2>2
<1>9. Elsewhere
  BY <1>1, ScanNames DEF Elsewhere
<1>10. Scans
  BY <1>2, <1>6, <1>8 DEF Scans, H
<1>11. Orderly
  BY <1>2, <1>7 DEF Orderly, H
<1>12. Unshared
  BY DEF StoreInit, Unshared
<1> QED
  BY <1>9, <1>10, <1>11, <1>12

(* All that is needed of reading.                                          *)
ReadableInv ==
    /\ Shape /\ Overtaking /\ Collided /\ Torns
    /\ Elsewhere /\ Unshared /\ Scans /\ Orderly

LEMMA ReadableMeans == ReadableInv => FilesReadable
<1> SUFFICES ASSUME ReadableInv PROVE FilesReadable
  OBVIOUS
<1>1. Shape /\ Torns /\ Elsewhere /\ Scans /\ Orderly
  BY DEF ReadableInv
<1>2. ASSUME NEW n \in Names, Held(n) = Torn
      PROVE  IF n = "salt" THEN Noted("trouble") \/ \E c \in Caller : opened[c] = PlaceOf(n)
             ELSE Noted("collision")
  <2>1. PlaceOf(n) \in Place
    BY Places
  <2>2. CASE n = "salt"
    BY <1>1, <1>2, <2>1, <2>2 DEF Torns, Held
  <2>3. CASE n # "salt"
    BY <1>1, <1>2, <2>3 DEF Torns
  <2> QED
    BY <2>2, <2>3
<1>3. \A n \in Names : AllHeld[n] = Held(n)
  BY DEF AllHeld
<1>4. ASSUME ~Noted("scans"), Held("index") \notin {Absent, Torn}, NEW r \in Items(Held("index")) PROVE Held(r) = r
  <2>1. Complete(AllHeld)
    BY <1>1, <1>4 DEF Scans, Elsewhere, ScansApart
  <2>2. List(AllHeld["index"]) = Held("index")
    BY <1>3, <1>4, ScanNames DEF List
  <2>3. Items(Held("index")) \subseteq Report
    BY <1>1, <1>3, <1>4, <2>2, HeldFiles, IndexItems, ScanNames
  <2> QED
    BY <1>3, <1>4, <2>1, <2>2, <2>3, ScanNames DEF Complete
<1>5. ASSUME topic = "reports", ~Noted("scans"), ~Noted("trouble"), \A c \in Caller : Free(c), Held("latest") # Absent
      PROVE  Held("latest") \in Items(Held("index")) /\ Held("previous") # Held("latest")
  <2>1. Settled(AllHeld)
    BY <1>1, <1>5 DEF Orderly, ScansApart
  <2>2. Held("latest") \in Items(List(Held("index"))) /\ Held("previous") # Held("latest")
    BY <1>3, <1>5, <2>1, ScanNames DEF Settled
  <2>3. Items(<<>>) = {}
    BY DEF Items
  <2> QED
    BY <2>2, <2>3 DEF List
<1> QED
  BY <1>2, <1>4, <1>5 DEF FilesReadable, Names

(* Files can be read: a salt that is not being created, or was interrupted *)
(* while it was, and every other file unless two writes shared a temporary *)
(* file.  The index of the history names only reports that are there       *)
(* unless two scans have met; and without failures the latest report is in *)
(* it and differs from the previous one (writeLatestReport,                *)
(* appendReportHistory).                                                   *)
THEOREM FilesReadableHolds == StoreSpec => []FilesReadable
<1>1. StoreInit => ReadableInv
  BY ShapeInit, OvertakingInit, TornsInit, ScansInit DEF ReadableInv
<1>2. ReadableInv /\ [StoreNext]_storeVars => ReadableInv'
  <2> SUFFICES ASSUME ReadableInv, [StoreNext]_storeVars PROVE ReadableInv'
    OBVIOUS
  <2> QED
    BY ShapeStep, OvertakingStep, CollidedStep, TornsStep, UnsharedStep, ScansStep DEF ReadableInv
<1> QED
  BY <1>1, <1>2, ReadableMeans, PTL DEF StoreSpec
=============================================================================

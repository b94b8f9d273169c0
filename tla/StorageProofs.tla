---------------------------- MODULE StorageProofs ----------------------------
(***************************************************************************)
(* That no caller of the stores loses what another wrote (LocalStores), in *)
(* every order in which the callers work, fail and die; and what           *)
(* PublicationProofs and LocalStoresProofs show of each part, of the parts *)
(* side by side as they are checked (MCStorage).                           *)
(***************************************************************************)
EXTENDS MCStorage, LocalStoresProofs, PublicationProofs

-----------------------------------------------------------------------------
(* Work that survives (LocalStores).                                       *)

(* The files with work in them; the calls that replace each as a whole;    *)
(* the calls whose failure leaves nothing in a file.                       *)
WorkFiles == {"preflights", "events", "policy", "sources"}
Writers(n) ==
    CASE n = "preflights" -> {"prompt", "preflight", "feedback"}
      [] n = "events"     -> {"compact"}
      [] n = "policy"     -> {"policy"}
      [] n = "sources"    -> {"add", "enable", "disable", "remove"}
      [] OTHER            -> {}
Failing == {"preflight", "feedback", "policy", "add", "enable", "disable"}

(* The calls nobody ran beside that answered as done, and as failed, and   *)
(* the deliveries that such a stop has closed.                             *)
OwedIn(n, ended) == {d.id : d \in {d \in ended : d.alone /\ d.answer = "ok" /\ n \in Work(d.kind)}}
VoidIn(n, ended) == {d.id : d \in {d \in ended : d.alone /\ d.answer = "failed" /\ d.kind \in Failing /\ n \in Work(d.kind)}}
Owed(n) == OwedIn(n, done)
Void(n) == VoidIn(n, done)
Shut    == {w[2] : w \in {w \in notes : w[1] = "closed"}}

(* A value is fine for a file: its work is of calls that began, of none    *)
(* that failed; and of a delivery that is closed it has the stop.          *)
Closing(v, shut) ==
    \A e \in Items(v) : /\ e.id # 0
                        /\ e.kind = "prompt" /\ e.id \in shut =>
                             \E f \in Items(v) : f.kind = "stop" /\ f.of = e.id /\ f.id > e.id
FineIn(n, v, begun, void, shut) ==
    /\ \A x \in Tokens(n, v) : x \in 0..begun /\ x \notin void
    /\ n = "events" /\ v \notin {Absent, Torn} => Closing(v, shut)
Fine(n, v) == FineIn(n, v, calls, Void(n), Shut)
Good(n, x, v) == x \in Tokens(n, v) \/ <<n, x>> \in retired
Entire(n, v) == \A x \in Owed(n) : Good(n, x, v)

(* The steps q will still have to do with the work in n.                   *)
Due(q, n) ==
    \E i \in 1..Len(q) : \/ q[i].do \in {"salt", "key", "read", "refuse"}
                         \/ q[i].do \in {"rename", "write"} /\ q[i].on = n

(* What has happened is known: the calls that ended, and the deliveries    *)
(* that were closed, are none that still runs.                             *)
Past ==
    /\ \A d \in done : d.id \in 1..calls /\ \A c \in Caller : job[c].id # d.id
    /\ \A p \in Shut : p \in 0..calls /\ \A c \in Caller : job[c].kind = "prompt" => job[c].id # p

(* The order of the steps.                                                 *)
Plan(j, q, bad) ==
    /\ bad => j.kind = "prompt"
    /\ \A i \in 1..Len(q) :
         /\ q[i].do = "read" /\ j.kind = "prompt" => bad \/ j.key # Absent
         /\ q[i].do \in {"append", "write"} /\ j.kind = "prompt" => q[i].value = 0
         /\ q[i].do = "rename" /\ j.kind \in Failing => i = Len(q)
         /\ q[i].do = "write" => i = Len(q)
Plans == \A c \in Caller : Plan(job[c], job[c].at, job[c].bad)

(* What the calls are about to write: their own work too, and all that is  *)
(* owed, but for what they read and leave out.                             *)
Writing(j, n, v) ==
    /\ j.kind \in Writers(n) /\ (n \in Work(j.kind) => j.id \in Tokens(n, v)) /\ Fine(n, v)
    /\ \A x \in Owed(n) : Good(n, x, v) \/ x \in Tokens(n, j.read)
WritesFine ==
    \A c \in Caller : \A i \in 1..Len(job[c].at) :
        LET s == job[c].at[i] IN s.do \in Replacing /\ s.on \in WorkFiles => Writing(job[c], s.on, s.value)

(* The temporary files of the calls that go on.                            *)
TempsFine ==
    \A c \in Caller : job[c].tmp # Absent /\ job[c].tmp[1] \in WorkFiles =>
        job[c].kind \in Writers(job[c].tmp[1]) /\ Fine(job[c].tmp[1], slot[job[c].tmp])
Filled ==
    \A c \in Caller : (CallDoes(c, "fill") \/ CallDoes(c, "rename")) /\ On(c) \in WorkFiles
                      /\ slot[job[c].tmp] \notin {Absent, Torn} =>
        \/ CallDoes(c, "rename") /\ slot[job[c].tmp] = Current(job[c]).value
        \/ Entire(On(c), slot[job[c].tmp])

(* The files.                                                              *)
InFiles == \A n \in WorkFiles : Fine(n, Held(n)) /\ (Held(n) = Torn \/ Entire(n, Held(n)))

(* A call that nobody has run beside.                                      *)
Lone(c) ==
    LET j == job[c] IN
    /\ CallDoes(c, "fill") /\ On(c) \in WorkFiles => opened[c] = j.tmp
    /\ CallDoes(c, "rename") /\ On(c) \in WorkFiles => slot[j.tmp] = Current(j).value
    /\ CallDoes(c, "write") => opened[c] = PlaceOf("events")
    /\ ~j.bad => \A n \in Work(j.kind) : Due(j.at, n) \/ Held(n) = Torn \/ j.id \in Tokens(n, Held(n))
    /\ j.kind \in Failing => \A n \in Work(j.kind) : j.id \notin Tokens(n, Held(n))
    /\ j.kind = "stop" =>
         /\ \A x \in Tokens("events", Held("events")) : x < j.id
         /\ \A i \in 1..Len(j.at) : j.at[i].do \in {"append", "write"} => j.at[i].value < j.id
Alones == \A c \in Caller : ~Free(c) /\ c \notin met => Lone(c)

(* Only who has met another finds that the other has written to its file.  *)
Crossing == \A c \in overtaken : On(c) \in WorkFiles => c \in met

SurviveInv ==
    /\ Shape /\ Overtaking /\ Meetings /\ Erasings /\ Crossing
    /\ Past /\ Plans /\ WritesFine /\ TempsFine /\ Filled /\ InFiles /\ Alones

(* The names and the kinds.                                                *)
LEMMA WorkNames ==
  /\ \A n \in WorkFiles : /\ n \in Names /\ n \in Stored /\ n # "salt" /\ PlaceOf(n) \in Place /\ PlaceOf(n)[1] = n
                          /\ n \notin Report /\ n \notin ScanFiles
  /\ \A k : Work(k) \subseteq WorkFiles
<1>1. \A n \in WorkFiles : n \in Names /\ n \in Stored /\ n # "salt" /\ n \notin Report /\ n \notin ScanFiles
  BY StoreConstants DEF WorkFiles, Names, Stored, ScanFiles
<1>2. ASSUME NEW k PROVE Work(k) \subseteq WorkFiles
  BY DEF Work, WorkFiles
<1> QED
  BY <1>1, <1>2, Places

LEMMA KindFiles ==
  /\ \A k \in Kind \ {"none"} : \A n \in Work(k) : n \in Files(k)
  /\ \A k, n : k \in Writers(n) => k \in Kind \ {"none"} /\ n \in Files(k) /\ k # "erase" /\ k # "stop"
  /\ "events" \in Files("prompt") /\ "events" \in Files("stop")
  /\ Work("none") = {} /\ Work("erase") = {} /\ Work("scan") = {} /\ Work("compact") = {} /\ Work("refresh") = {}
  /\ \A k \in Failing : k \notin {"prompt", "stop", "none", "erase", "compact", "refresh", "scan"}
  /\ \A k \in Failing : \A n \in Work(k) : k \in Writers(n)
<1>1. ASSUME NEW k \in Kind \ {"none"}, NEW n \in Work(k) PROVE n \in Files(k)
  BY DEF Kind, Work, Files
<1>2. ASSUME NEW k, NEW n, k \in Writers(n) PROVE k \in Kind \ {"none"} /\ n \in Files(k) /\ k # "erase" /\ k # "stop"
  <2>1. n \in WorkFiles
    BY <1>2 DEF Writers, WorkFiles
  <2> QED
    BY <1>2, <2>1 DEF Kind, Writers, Files, WorkFiles
<1>3. "events" \in Files("prompt") /\ "events" \in Files("stop")
  BY DEF Files
<1>4. Work("none") = {} /\ Work("erase") = {} /\ Work("scan") = {} /\ Work("compact") = {} /\ Work("refresh") = {}
  BY DEF Work
<1>5. \A k \in Failing : k \notin {"prompt", "stop", "none", "erase", "compact", "refresh", "scan"}
  BY DEF Failing
<1>6. ASSUME NEW k \in Failing, NEW n \in Work(k) PROVE k \in Writers(n)
  BY DEF Failing, Work, Writers
<1> QED
  BY <1>1, <1>2, <1>3, <1>4, <1>5, <1>6
-----------------------------------------------------------------------------
(* What follows from reading a file, once more: what is written has the    *)
(* work of the call, of what was read all or part, and of the events the   *)
(* latest.                                                                 *)

Latest(w, v) ==
    v # Absent /\ Items(w) \subseteq Items(v) /\ \A e \in Items(w), f \in Items(v) : f.id > e.id => f \in Items(w)
OwnWork(j, n, v, w) ==
    /\ j.kind \in Writers(n) /\ (n \in Work(j.kind) => j.id \in Tokens(n, w))
    /\ Tokens(n, w) \subseteq Tokens(n, v) \cup {j.id}
    /\ n = "events" /\ w \notin {Absent, Torn} => Latest(w, v)
Puts(q, j, n, v) ==
    \A i \in 1..Len(q) : q[i].do \in Replacing /\ q[i].on \in WorkFiles =>
        q[i].on = n /\ OwnWork(j, n, v, q[i].value)
(* The steps q fit, after n was read and held v.                           *)
Ensues(q, j, n, v) ==
    /\ Puts(q, j, n, v) /\ Plan(j, q, j.bad)
    /\ ~j.bad => \A m \in Work(j.kind) : Due(q, m)
    /\ \A i \in 1..Len(q) : q[i].do \in {"append", "write"} =>
          q[i].value = 0 \/ (n = "events" /\ q[i].value \in Tokens(n, v))

(* The pieces, step by step.                                               *)
LEMMA ThreeSteps ==
  ASSUME NEW n, NEW w, NEW q, q = Replace(n, w)
  PROVE  /\ Len(q) = 3 /\ \A i \in 1..Len(q) : q[i].on = n /\ q[i].value = w /\ q[i].do \in Replacing
                                                 /\ (q[i].do = "rename" <=> i = 3)
         /\ Due(q, n)
<1> DEFINE a == Task("open", n, w)
           b == Task("fill", n, w)
           c == Task("rename", n, w)
<1>1. /\ a.do = "open" /\ b.do = "fill" /\ c.do = "rename" /\ a.on = n /\ b.on = n /\ c.on = n
      /\ a.value = w /\ b.value = w /\ c.value = w
  BY DEF Task
<1>2. q = <<a, b, c>>
  BY DEF Replace
<1> HIDE DEF a, b, c
<1>3. Len(q) = 3 /\ q[1] = a /\ q[2] = b /\ q[3] = c
  BY <1>2
<1>4. \A i \in 1..3 : i = 1 \/ i = 2 \/ i = 3
  OBVIOUS
<1>5. \A i \in 1..Len(q) : q[i].on = n /\ q[i].value = w /\ q[i].do \in Replacing /\ (q[i].do = "rename" <=> i = 3)
  BY <1>1, <1>3, <1>4 DEF Replacing
<1>6. 3 \in 1..Len(q)
  BY <1>3
<1> QED
  BY <1>1, <1>3, <1>5, <1>6 DEF Due

Recorded(q, w) ==
    /\ Len(q) = 5
    /\ \A i \in 1..Len(q) :
         /\ q[i].do \in Replacing \cup {"append", "write"}
         /\ q[i].do \in Replacing => q[i].on = "preflights" /\ q[i].value = w
         /\ q[i].do \in {"append", "write"} => q[i].value = 0
         /\ q[i].do = "write" => i = 5
    /\ Due(q, "preflights") /\ Due(q, "events")

LEMMA JoinedIn ==
  ASSUME NEW S, NEW p \in Seq(S), NEW q \in Seq(S), NEW r, r = p \o q
  PROVE  /\ Len(r) = Len(p) + Len(q)
         /\ \A i \in 1..Len(p) : r[i] = p[i]
         /\ \A i \in 1..Len(q) : r[Len(p) + i] = q[i]
  OBVIOUS

LEMMA FiveSteps ==
  ASSUME NEW w, NEW q, q = Replace("preflights", w) \o AppendSteps(0)
  PROVE  Recorded(q, w)
<1> DEFINE a == Task("open", "preflights", w)
           b == Task("fill", "preflights", w)
           c == Task("rename", "preflights", w)
           d == Task("append", "events", 0)
           e == Task("write", "events", 0)
<1>1. /\ a.do = "open" /\ b.do = "fill" /\ c.do = "rename" /\ d.do = "append" /\ e.do = "write"
      /\ a.on = "preflights" /\ b.on = "preflights" /\ c.on = "preflights" /\ d.on = "events" /\ e.on = "events"
      /\ a.value = w /\ b.value = w /\ c.value = w /\ d.value = 0 /\ e.value = 0
  BY DEF Task
<1>2. q = <<a, b, c>> \o <<d, e>>
  BY DEF Replace, AppendSteps
<1> HIDE DEF a, b, c, d, e
<1>3. Len(q) = 5 /\ q[1] = a /\ q[2] = b /\ q[3] = c /\ q[4] = d /\ q[5] = e
  <2> DEFINE S == {a, b, c, d, e}
             x == <<a, b, c>>
             y == <<d, e>>
  <2>1. x \in Seq(S) /\ Len(x) = 3 /\ x[1] = a /\ x[2] = b /\ x[3] = c
    OBVIOUS
  <2>2. y \in Seq(S) /\ Len(y) = 2 /\ y[1] = d /\ y[2] = e
    OBVIOUS
  <2>3. q = x \o y
    BY <1>2
  <2> HIDE DEF S, x, y
  <2>4. /\ Len(q) = Len(x) + Len(y)
        /\ \A i \in 1..Len(x) : q[i] = x[i]
        /\ \A i \in 1..Len(y) : q[Len(x) + i] = y[i]
    <3>1. x \in Seq(S) /\ y \in Seq(S)
      BY <2>1, <2>2
    <3> QED
      BY ONLY <2>3, <3>1, JoinedIn
  <2>5. /\ Len(q) = 5 /\ \A i \in 1..3 : q[i] = x[i]
        /\ \A i \in 1..2 : q[3 + i] = y[i]
    BY <2>1, <2>2, <2>4
  <2>6. q[1] = x[1] /\ q[2] = x[2] /\ q[3] = x[3] /\ q[4] = y[1] /\ q[5] = y[2]
    <3>1. q[3 + 1] = y[1] /\ q[3 + 2] = y[2]
      BY <2>5
    <3> QED
      BY <2>5, <3>1
  <2> QED
    BY <2>1, <2>2, <2>5, <2>6
<1>4. \A i \in 1..5 : i = 1 \/ i = 2 \/ i = 3 \/ i = 4 \/ i = 5
  OBVIOUS
<1>5. ASSUME NEW i \in 1..Len(q)
      PROVE  /\ q[i].do \in Replacing \cup {"append", "write"}
             /\ q[i].do \in Replacing => q[i].on = "preflights" /\ q[i].value = w
             /\ q[i].do \in {"append", "write"} => q[i].value = 0
             /\ q[i].do = "write" => i = 5
  BY ZenonT(60), <1>1, <1>3, <1>4 DEF Replacing
<1>6. 3 \in 1..Len(q) /\ 5 \in 1..Len(q)
  BY <1>3
<1>7. Due(q, "preflights") /\ Due(q, "events")
  BY <1>1, <1>3, <1>6 DEF Due
<1> QED
  BY <1>3, <1>5, <1>7 DEF Recorded

LEMMA OneStep ==
  ASSUME NEW s, NEW q, q = <<s>>
  PROVE  Len(q) = 1 /\ \A i \in 1..Len(q) : q[i] = s
  OBVIOUS

LEMMA RefusedFollows ==
  ASSUME NEW j, NEW n, NEW v, j.bad => j.kind = "prompt" PROVE Ensues(Refused, j, n, v)
<1> DEFINE s == Task("refuse", "policy", Absent)
           q == Refused
<1>1. s.do = "refuse"
  BY DEF Task
<1>2. q = <<s>>
  BY DEF Refused
<1> HIDE DEF s, q
<1>3. Len(q) = 1 /\ \A i \in 1..Len(q) : q[i] = s
  BY <1>2, OneStep
<1>4. Puts(q, j, n, v)
  BY <1>1, <1>3 DEF Puts, Replacing
<1>5. Plan(j, q, j.bad)
  BY <1>1, <1>3 DEF Plan
<1>6. 1 \in 1..Len(q)
  BY <1>3
<1>7. \A m : Due(q, m)
  BY <1>1, <1>3, <1>6 DEF Due
<1>8. Ensues(q, j, n, v)
  BY <1>1, <1>3, <1>4, <1>5, <1>7 DEF Ensues
<1> QED
  BY <1>8 DEF q

(* A file is replaced, and the call ends.                                  *)
LEMMA ReplaceFollows ==
  ASSUME NEW j, NEW n, NEW v, NEW w, NEW m, m \in WorkFiles => m = n /\ OwnWork(j, n, v, w),
         j.bad => j.kind = "prompt", ~j.bad => Work(j.kind) \subseteq {m}
  PROVE  Ensues(Replace(m, w), j, n, v)
<1> DEFINE q == Replace(m, w)
<1>1. /\ Len(q) = 3 /\ \A i \in 1..Len(q) : q[i].on = m /\ q[i].value = w /\ q[i].do \in Replacing
                                              /\ (q[i].do = "rename" <=> i = 3)
      /\ Due(q, m)
  BY ThreeSteps
<1> HIDE DEF q
<1>2. Puts(q, j, n, v)
  BY <1>1 DEF Puts
<1>3. Plan(j, q, j.bad)
  BY <1>1 DEF Plan, Replacing
<1>4. Ensues(q, j, n, v)
  BY <1>1, <1>2, <1>3 DEF Ensues, Replacing
<1> QED
  BY <1>4 DEF q

LEMMA RecordFollows ==
  ASSUME NEW j, NEW v, NEW w, OwnWork(j, "preflights", v, w), j.kind = "prompt", j.key # Absent
  PROVE  Ensues(Replace("preflights", w) \o AppendSteps(0), j, "preflights", v)
<1> DEFINE q == Replace("preflights", w) \o AppendSteps(0)
<1>0. Recorded(q, w)
  BY FiveSteps
<1> HIDE DEF q
<1>1. /\ Len(q) = 5
      /\ \A i \in 1..Len(q) :
           /\ q[i].do \in Replacing \cup {"append", "write"}
           /\ q[i].do \in Replacing => q[i].on = "preflights" /\ q[i].value = w
           /\ q[i].do \in {"append", "write"} => q[i].value = 0
           /\ q[i].do = "write" => i = 5
      /\ Due(q, "preflights") /\ Due(q, "events")
  BY <1>0 DEF Recorded
<1>2. ASSUME NEW i \in 1..Len(q), q[i].do \in Replacing
      PROVE  q[i].on = "preflights" /\ OwnWork(j, "preflights", v, q[i].value)
  BY <1>1, <1>2
<1>3. ASSUME NEW i \in 1..Len(q)
      PROVE  /\ q[i].do # "read" /\ (q[i].do \in {"append", "write"} => q[i].value = 0)
             /\ q[i].do = "write" => i = Len(q)
  BY <1>1, <1>3 DEF Replacing
<1>4. Work(j.kind) = {"preflights", "events"} /\ j.kind \notin Failing
  BY DEF Work, Failing
<1>5. Ensues(q, j, "preflights", v)
  <2>1. Puts(q, j, "preflights", v)
    BY <1>2 DEF Puts
  <2>2. Plan(j, q, j.bad)
    BY <1>3, <1>4 DEF Plan
  <2>3. \A m \in Work(j.kind) : Due(q, m)
    BY <1>1, <1>4
  <2> QED
    BY <1>3, <2>1, <2>2, <2>3 DEF Ensues
<1> QED
  BY <1>5 DEF q
(* The calls that read n, as they may read it.                             *)
Reads(j, n) ==
    /\ j \in Call /\ j.kind \in ReadBy(n) /\ j.id # 0
    /\ j.key # Absent => j.kind \in {"prompt", "stop"}
    /\ j.bad => j.kind = "prompt"
    /\ j.kind = "prompt" => j.bad \/ j.key # Absent

LEMMA AfterPreflightsFollow ==
  ASSUME NEW j, NEW v, Was("preflights", v), NEW q \in AfterPreflights(j, v), Reads(j, "preflights")
  PROVE  Ensues(q, j, "preflights", v)
<1> DEFINE S == Tokens("preflights", v) \cup {j.id}
<1>1. /\ v \in Seq(Preflight) \/ v = Absent
      /\ j \in Call /\ j.id \in Nat /\ j.id # 0 /\ j.kind \in Writers("preflights") /\ j.kind \in {"prompt", "preflight", "feedback"}
      /\ j.bad => j.kind = "prompt"
      /\ j.key # Absent => j.kind = "prompt"
      /\ j.kind = "prompt" => j.bad \/ j.key # Absent
  BY ValueOf DEF Was, Fits, Call, Reads, ReadBy, Writers
<1>2. Keeps(q, "preflights", S)
  BY <1>1, AfterPreflightsKeeps DEF Reads
<1>3. List(v) \in Seq(Preflight)
  BY <1>1 DEF List
<1>4. j.kind \in {"preflight", "feedback"} => Work(j.kind) \subseteq {"preflights"}
  BY DEF Work
<1>5. ASSUME NEW w, j.id \in Tokens("preflights", w), Tokens("preflights", w) \subseteq S
      PROVE  OwnWork(j, "preflights", v, w)
  BY <1>1, <1>5 DEF OwnWork
<1>6. CASE j.kind # "feedback"
  <2> DEFINE e == [id |-> j.id, feedback |-> 0]
             l == List(v)
             w == <<e>> \o l
             f == First(w)
  <2>1. e \in Preflight /\ e.id = j.id
    BY <1>1 DEF Preflight
  <2> HIDE DEF e
  <2>2. w \in Seq(Preflight) /\ w # <<>> /\ w[1] = e
    BY <2>1, <1>3
  <2>3. f \in Seq(Preflight) /\ 1 \in 1..Len(f) /\ f[1] = w[1]
    <3> HIDE DEF w
    <3> QED
      BY <2>2, FirstOf
  <2>4. q = Replace("preflights", f) \o (IF j.key # Absent THEN AppendSteps(0) ELSE <<>>)
    BY <1>6 DEF AfterPreflights, f, w, e, l
  <2> HIDE DEF w, f, l
  <2>5. j.id \in Tokens("preflights", f)
    <3>1. f[1] \in Items(f)
      BY <2>3, ItemsOf
    <3> QED
      BY <2>1, <2>2, <2>3, <3>1, TokensOf
  <2>6. CASE j.key # Absent
    <3>1. q = Replace("preflights", f) \o AppendSteps(0)
      BY <2>4, <2>6
    <3>2. Recorded(q, f)
      BY <3>1, FiveSteps
    <3>3. PICK i \in 1..Len(q) : (q[i].do = "rename" /\ q[i].on = "preflights") \/ q[i].do \in {"salt", "key", "read", "refuse"}
      BY <3>2 DEF Due, Recorded
    <3>4. q[i].do \in Replacing /\ q[i].on = "preflights" /\ q[i].value = f
      BY <3>2, <3>3 DEF Replacing, Recorded
    <3>5. Tokens("preflights", f) \subseteq S
      BY <1>2, <3>4 DEF Keeps, Listed
    <3>6. OwnWork(j, "preflights", v, f)
      BY <1>5, <2>5, <3>5
    <3> QED
      BY <1>1, <2>6, <3>1, <3>6, RecordFollows
  <2>7. CASE j.key = Absent
    <3>1. q = Replace("preflights", f)
      BY <2>4, <2>7 DEF Replace
    <3>2. Len(q) = 3 /\ \A i \in 1..Len(q) : q[i].on = "preflights" /\ q[i].value = f /\ q[i].do \in Replacing
      BY <3>1, ThreeSteps
    <3>3. 1 \in 1..Len(q)
      BY <3>2
    <3>4. Tokens("preflights", f) \subseteq S
      BY <1>2, <3>2, <3>3 DEF Keeps, Listed
    <3>5. OwnWork(j, "preflights", v, f)
      BY <1>5, <2>5, <3>4
    <3>6. ~j.bad => Work(j.kind) \subseteq {"preflights"}
      BY <1>1, <1>4, <2>7
    <3> QED
      BY <1>1, <3>1, <3>5, <3>6, ReplaceFollows
  <2> QED
    BY <2>6, <2>7
<1>7. CASE j.kind = "feedback" /\ \A i \in DOMAIN List(v) : List(v)[i].id # j.arg
  <2>1. q = Refused
    BY <1>7 DEF AfterPreflights
  <2> QED
    BY <1>1, <2>1, RefusedFollows
<1>8. CASE j.kind = "feedback" /\ ~ \A i \in DOMAIN List(v) : List(v)[i].id # j.arg
  <2> DEFINE w == [i \in DOMAIN v |-> IF v[i].id = j.arg THEN [v[i] EXCEPT !.feedback = j.id] ELSE v[i]]
  <2>1. q = Replace("preflights", w)
    BY <1>8 DEF AfterPreflights
  <2>2. v # Absent
    BY <1>8 DEF List
  <2>3. DOMAIN v = 1..Len(v) /\ Len(v) \in Nat /\ \A i \in 1..Len(v) : v[i] \in Preflight
    BY <1>1, <2>2
  <2>4. \A e \in Preflight : LET x == [e EXCEPT !.feedback = j.id] IN x \in Preflight /\ x.feedback = j.id
    BY <1>1 DEF Preflight
  <2>5. PICK i \in 1..Len(v) : v[i].id = j.arg
    BY <1>8, <2>2, <2>3 DEF List
  <2>60. w \in Seq(Preflight) /\ Len(w) = Len(v) /\ w[i] = [v[i] EXCEPT !.feedback = j.id]
    BY <2>3, <2>4, <2>5
  <2> HIDE DEF w
  <2>6. w \in Seq(Preflight) /\ i \in 1..Len(w) /\ w[i].feedback = j.id
    BY <2>3, <2>4, <2>5, <2>60
  <2>7. j.id \in Tokens("preflights", w)
    <3>1. w[i] \in Items(w)
      BY <2>6, ItemsOf
    <3> QED
      BY <1>1, <2>6, <3>1, TokensOf
  <2>8. Len(q) = 3 /\ \A k \in 1..Len(q) : q[k].on = "preflights" /\ q[k].value = w /\ q[k].do \in Replacing
    BY <2>1, ThreeSteps
  <2>9. 1 \in 1..Len(q)
    BY <2>8
  <2>10. Tokens("preflights", w) \subseteq S
    BY <1>2, <2>8, <2>9 DEF Keeps, Listed
  <2>11. OwnWork(j, "preflights", v, w)
    BY <1>5, <2>7, <2>10
  <2> QED
    BY <1>1, <1>4, <1>8, <2>1, <2>11, ReplaceFollows
<1> QED
  BY <1>6, <1>7, <1>8
LEMMA NothingFollows ==
  ASSUME NEW j, NEW n, NEW v, j.bad => j.kind = "prompt", Work(j.kind) = {}
  PROVE  Ensues(<<>>, j, n, v)
  BY DEF Ensues, Puts, Plan

(* A compaction keeps the latest of what there was.                        *)
LEMMA CompactUp ==
  ASSUME NEW v \in Seq(Event), NEW s \in InOrder(v), NEW k \in 1..(Len(LastOf(s)) + 1),
         NEW r, r = SubSeq(LastOf(s), k, Len(LastOf(s)))
  PROVE  r \in Seq(Event) /\ Latest(r, v)
<1>1. Kept \in Nat /\ Kept >= 1 /\ Items(v) \subseteq Event
  BY Constants, ItemsOf
<1>2. /\ s \in Seq(Event) /\ Items(s) = Items(v) /\ Len(s) \in Nat
      /\ \A a, b \in 1..Len(s) : a < b => s[a].id <= s[b].id
  <2>1. /\ s \in [1..Len(v) -> Items(v)] /\ Items(s) = Items(v)
        /\ \A i, j \in 1..Len(v) : i < j => s[i].id <= s[j].id
    BY DEF InOrder
  <2>2. s \in [1..Len(v) -> Event] /\ Len(v) \in Nat
    BY <1>1, <2>1
  <2>3. s \in Seq(Event) /\ Len(s) = Len(v)
    BY ONLY <2>2
  <2> QED
    BY <2>1, <2>2, <2>3
<1>3. \A a \in 1..Len(s) : s[a].id \in Nat
  <2>1. \A a \in 1..Len(s) : s[a] \in Event
    BY <1>2
  <2> QED
    BY <2>1 DEF Event
<1> DEFINE m == IF Len(s) < Kept THEN 1 ELSE Len(s) - Kept + 1
           l == LastOf(s)
<1>4. m \in 1..(Len(s) + 1)
  BY <1>1, <1>2
<1>5. l = SubSeq(s, m, Len(s))
  BY DEF LastOf
<1>6. l \in Seq(Event) /\ Len(l) = Len(s) - m + 1 /\ \A i \in 1..Len(l) : i + m - 1 \in 1..Len(s) /\ l[i] = s[i + m - 1]
  <2> HIDE DEF m, l
  <2>1. s \in Seq(Event)
    BY <1>2
  <2> QED
    BY ONLY <1>4, <1>5, <2>1, SuffixIs
<1> HIDE DEF m, l
<1>7. r \in Seq(Event) /\ Len(r) = Len(l) - k + 1 /\ \A i \in 1..Len(r) : i + k - 1 \in 1..Len(l) /\ r[i] = l[i + k - 1]
  <2>1. k \in 1..(Len(l) + 1) /\ r = SubSeq(l, k, Len(l))
    BY DEF l
  <2>2. l \in Seq(Event)
    BY <1>6
  <2> QED
    BY ONLY <2>1, <2>2, SuffixIs
<1>8. Items(r) \subseteq Items(v)
  BY <1>2, SuffixOfLast
<1>9. ASSUME NEW e \in Items(r), NEW f \in Items(v), f.id > e.id PROVE f \in Items(r)
  <2>1. PICK i \in 1..Len(r) : e = r[i]
    BY <1>7, ItemOf
  <2>2. f \in Items(s)
    BY <1>2
  <2>3. PICK b \in 1..Len(s) : f = s[b]
    BY <1>2, <2>2, ItemOf
  <2> DEFINE a == (i + k - 1) + m - 1
  <2>4. a \in 1..Len(s) /\ e = s[a]
    BY <1>6, <1>7, <2>1
  <2>5. a \in Nat /\ b \in Nat /\ i \in Nat /\ k \in Nat /\ m \in Nat
    BY <1>4, <2>1, <2>4
  <2>6. b > a
    <3>1. s[a].id \in Nat /\ s[b].id \in Nat /\ s[b].id > s[a].id
      BY <1>3, <1>9, <2>3, <2>4
    <3>2. b < a => s[b].id <= s[a].id
      BY <1>2, <2>3, <2>4
    <3>3. b # a
      BY <3>1
    <3> HIDE DEF a
    <3> QED
      BY <2>5, <3>1, <3>2, <3>3
  <2> DEFINE h == b - m - k + 2
  <2>7. h \in 1..Len(r) /\ (h + k - 1) + m - 1 = b
    BY <1>4, <1>6, <1>7, <2>3, <2>5, <2>6
  <2> HIDE DEF h
  <2>8. r[h] = s[b]
    <3>1. h + k - 1 \in 1..Len(l) /\ r[h] = l[h + k - 1]
      BY <1>7, <2>7
    <3>2. l[h + k - 1] = s[(h + k - 1) + m - 1]
      BY <1>6, <3>1
    <3> QED
      BY <2>7, <3>1, <3>2
  <2>9. r[h] \in Items(r)
    <3>1. r \in Seq(Event)
      BY <1>7
    <3>2. Items(r) = {r[x] : x \in 1..Len(r)}
      BY ONLY <3>1, ItemsOf
    <3> QED
      BY <2>7, <3>2
  <2> QED
    BY <2>3, <2>8, <2>9
<1>10. v # Absent
  <2>1. "events" \in Names
    BY DEF Names, Stored
  <2> QED
    BY <2>1, ValueOf, Constants
<1> QED
  BY <1>7, <1>8, <1>9, <1>10 DEF Latest

LEMMA AppendFollows ==
  ASSUME NEW j, NEW v, NEW of, j.kind = "stop", ~j.bad, of = 0 \/ of \in Tokens("events", v)
  PROVE  Ensues(AppendSteps(of), j, "events", v)
<1> DEFINE a == Task("append", "events", of)
           b == Task("write", "events", of)
           q == AppendSteps(of)
<1>1. a.do = "append" /\ b.do = "write" /\ a.on = "events" /\ b.on = "events" /\ a.value = of /\ b.value = of
  BY DEF Task
<1>2. q = <<a, b>>
  BY DEF AppendSteps
<1> HIDE DEF a, b, q
<1>3. Len(q) = 2 /\ q[1] = a /\ q[2] = b
  BY <1>2
<1>4. \A i \in 1..2 : i = 1 \/ i = 2
  OBVIOUS
<1>5. ASSUME NEW i \in 1..Len(q)
      PROVE  q[i].do \notin Replacing /\ q[i].do # "read" /\ q[i].do # "rename" /\ (q[i].do = "write" => i = 2) /\ q[i].value = of
  BY <1>1, <1>3, <1>4 DEF Replacing
<1>6. 2 \in 1..Len(q)
  BY <1>3
<1>7. Due(q, "events")
  BY <1>1, <1>3, <1>6 DEF Due
<1>8. Work(j.kind) = {"events"}
  BY DEF Work
<1>9. Puts(q, j, "events", v)
  BY <1>5 DEF Puts
<1>10. Plan(j, q, j.bad)
  BY <1>3, <1>5 DEF Plan
<1>11. Ensues(q, j, "events", v)
  BY <1>5, <1>7, <1>8, <1>9, <1>10 DEF Ensues
<1> QED
  BY <1>11 DEF q

LEMMA AfterEventsFollow ==
  ASSUME NEW j, NEW v, Was("events", v), NEW q \in AfterEvents(j, v), Reads(j, "events")
  PROVE  Ensues(q, j, "events", v)
<1>1. /\ v \in Seq(Event) \/ v = Absent
      /\ j \in Call /\ j.id \in Nat /\ j.kind \in {"stop", "compact"} /\ ~j.bad
  BY ValueOf DEF Was, Fits, Call, Reads, ReadBy
<1>2. CASE j.kind = "compact" /\ List(v) # <<>>
  <2> DEFINE Suffixes(s) == {Replace("events", SubSeq(LastOf(s), k, Len(LastOf(s)))) : k \in 1..(Len(LastOf(s)) + 1)}
  <2>0. PICK s \in InOrder(v) : q \in Suffixes(s)
    BY <1>2 DEF Compacted, AfterEvents
  <2>1. PICK k \in 1..(Len(LastOf(s)) + 1) : q = Replace("events", SubSeq(LastOf(s), k, Len(LastOf(s))))
    BY <2>0
  <2>2. v \in Seq(Event)
    BY <1>1, <1>2 DEF List
  <2> DEFINE r == SubSeq(LastOf(s), k, Len(LastOf(s)))
  <2>3. q = Replace("events", r)
    BY <2>1
  <2>4. r \in Seq(Event) /\ Latest(r, v)
    BY <2>1, <2>2, CompactUp
  <2> HIDE DEF r
  <2>5. Tokens("events", r) \subseteq Tokens("events", v)
    BY <2>2, <2>4, TokensOf DEF Latest
  <2>6. Work(j.kind) = {} /\ j.kind \in Writers("events")
    BY <1>2 DEF Work, Writers
  <2>7. OwnWork(j, "events", v, r)
    BY <2>4, <2>5, <2>6 DEF OwnWork
  <2> QED
    BY <1>1, <2>3, <2>6, <2>7, ReplaceFollows
<1>3. CASE j.kind = "compact" /\ List(v) = <<>>
  <2>1. q = <<>>
    BY <1>3 DEF AfterEvents, Compacted
  <2>2. Work(j.kind) = {}
    BY <1>3 DEF Work
  <2> QED
    BY <1>1, <2>1, <2>2, NothingFollows
<1>4. CASE j.kind = "stop"
  <2>1. PICK of \in {0} \cup LatestOpen(List(v), j.key) : q = AppendSteps(of)
    BY <1>4 DEF AfterEvents
  <2>2. ASSUME of # 0 PROVE of \in Tokens("events", v)
    <3>1. \E i \in DOMAIN List(v) : of = List(v)[i].id
      BY <2>1, <2>2 DEF LatestOpen, Open, Deliveries
    <3>2. v \in Seq(Event) /\ List(v) = v
      <4>1. v = Absent => DOMAIN List(v) = {}
        BY DEF List
      <4> QED
        BY <1>1, <3>1, <4>1 DEF List
    <3>3. PICK i \in 1..Len(v) : of = v[i].id
      BY <3>1, <3>2
    <3>4. v[i] \in Items(v)
      BY <3>2, ItemsOf
    <3> QED
      BY <3>2, <3>3, <3>4, TokensOf
  <2> QED
    BY <1>1, <1>4, <2>1, <2>2, AppendFollows
<1> QED
  BY <1>1, <1>2, <1>3, <1>4
LEMMA AfterPolicyFollow ==
  ASSUME NEW j, NEW v, NEW q \in AfterPolicy(j, v), Reads(j, "policy")
  PROVE  Ensues(q, j, "policy", v)
<1>1. j.kind = "policy" /\ j.id \in Nat /\ ~j.bad /\ j.kind \in Writers("policy") /\ Work(j.kind) = {"policy"}
  BY DEF Reads, ReadBy, Call, Writers, Work
<1>2. j.id \notin {Absent, Torn}
  BY <1>1, Numbers
<1>3. Tokens("policy", j.id) = {j.id}
  BY <1>2 DEF Tokens
<1>4. OwnWork(j, "policy", v, j.id)
  BY <1>1, <1>3 DEF OwnWork
<1>5. q = Refused \/ q = Replace("policy", j.id)
  BY DEF AfterPolicy
<1> QED
  BY <1>1, <1>4, <1>5, RefusedFollows, ReplaceFollows

(* The work in the sources.                                                *)
SourceMap == [SourceKey -> Source \cup {Absent}]

LEMMA SourcesIn ==
  /\ \A T \in SourceMap : T \notin {Absent, Torn} /\ Tokens("sources", T) = UNION {T[k].by : k \in Told(T)}
  /\ \A v : Was("sources", v) => /\ SourcesOf(v) \in SourceMap
                                 /\ Tokens("sources", SourcesOf(v)) \subseteq Tokens("sources", v)
<1>1. "sources" \in Names
  BY DEF Names, Stored
<1>2. ASSUME NEW T \in SourceMap
      PROVE  T \notin {Absent, Torn} /\ Tokens("sources", T) = UNION {T[k].by : k \in Told(T)}
  <2>1. T \notin {Absent, Torn}
    BY <1>1, Constants, ValueOf DEF SourceMap
  <2> QED
    BY <2>1 DEF Tokens
<1>3. Presets \in SourceMap /\ \A k \in Told(Presets) : Presets[k].by = {}
  BY DEF Presets, Source, SourceMap, Told
<1>4. Tokens("sources", Presets) = {}
  BY <1>2, <1>3
<1>5. ASSUME NEW v, Was("sources", v)
      PROVE  SourcesOf(v) \in SourceMap /\ Tokens("sources", SourcesOf(v)) \subseteq Tokens("sources", v)
  <2>1. CASE v = Absent
    BY <1>3, <1>4, <2>1 DEF SourcesOf
  <2>2. CASE v # Absent
    <3>1. v \in SourceMap /\ SourcesOf(v) = v
      BY <1>5, <2>2, ValueOf DEF SourcesOf, Was, Fits, SourceMap
    <3> QED
      BY <3>1
  <2> QED
    BY <2>1, <2>2
<1> QED
  BY <1>2, <1>5

(* One source gets new work, or is removed.                                *)
LEMMA SourceChanged ==
  ASSUME NEW S \in SourceMap, NEW key \in SourceKey, NEW a \in Source \cup {Absent}, NEW T, T = [S EXCEPT ![key] = a],
         NEW id \in Nat, a # Absent => a.by \subseteq Tokens("sources", S) \cup {id}
  PROVE  /\ T \in SourceMap /\ Tokens("sources", T) \subseteq Tokens("sources", S) \cup {id}
         /\ a # Absent /\ id \in a.by => id \in Tokens("sources", T)
<1>1. T \in SourceMap /\ T[key] = a /\ \A k \in SourceKey \ {key} : T[k] = S[k]
  BY DEF SourceMap
<1>2. /\ Tokens("sources", T) = UNION {T[k].by : k \in Told(T)}
      /\ Tokens("sources", S) = UNION {S[k].by : k \in Told(S)}
  BY <1>1, SourcesIn
<1>3. ASSUME NEW x \in Tokens("sources", T) PROVE x \in Tokens("sources", S) \cup {id}
  <2>1. PICK k \in Told(T) : x \in T[k].by
    BY <1>2, <1>3
  <2>2. CASE k = key
    BY <1>1, <2>1, <2>2 DEF Told
  <2>3. CASE k # key
    <3>1. k \in Told(S) /\ x \in S[k].by
      BY <1>1, <2>1, <2>3 DEF Told
    <3> QED
      BY <1>2, <3>1
  <2> QED
    BY <2>2, <2>3
<1>4. ASSUME a # Absent, id \in a.by PROVE id \in Tokens("sources", T)
  <2>1. key \in Told(T) /\ id \in T[key].by
    BY <1>1, <1>4 DEF Told
  <2> QED
    BY ZenonT(60), <1>2, <2>1
<1> QED
  BY <1>1, <1>3, <1>4

LEMMA AfterSourcesFollow ==
  ASSUME NEW j, NEW v, Was("sources", v), NEW q \in AfterSources(j, v), Reads(j, "sources"),
         j.kind \in {"add", "enable", "disable", "remove"} => j.arg \in SourceKey
  PROVE  Ensues(q, j, "sources", v)
<1> DEFINE S == SourcesOf(v)
           with(T) == IF ValidSources(T) THEN {Replace("sources", T)} ELSE {Refused}
<1>1. /\ j.kind \in {"add", "enable", "disable", "remove", "refresh"} /\ j.id \in Nat /\ ~j.bad
      /\ j.kind # "refresh" => j.kind \in Writers("sources")
      /\ Work(j.kind) \subseteq {"sources"}
      /\ j.kind \in {"remove", "refresh"} => Work(j.kind) = {}
  BY DEF Reads, ReadBy, Call, Writers, Work
<1>2. S \in SourceMap /\ Tokens("sources", S) \subseteq Tokens("sources", v)
  BY SourcesIn
<1>3. ASSUME NEW T, q \in with(T), j.kind # "refresh",
             Tokens("sources", T) \subseteq Tokens("sources", S) \cup {j.id},
             j.kind # "remove" => j.id \in Tokens("sources", T)
      PROVE  Ensues(q, j, "sources", v)
  <2>1. q = Replace("sources", T) \/ q = Refused
    BY <1>3
  <2>2. OwnWork(j, "sources", v, T)
    BY <1>1, <1>2, <1>3 DEF OwnWork
  <2> QED
    BY <1>1, <2>1, <2>2, RefusedFollows, ReplaceFollows
<1>4. CASE j.kind = "refresh"
  <2> DEFINE s == Task("read", "snapshot", S)
  <2>1. q = <<s>> /\ s.do = "read"
    BY <1>4 DEF AfterSources, Task
  <2> HIDE DEF s
  <2>2. Len(q) = 1 /\ \A i \in 1..Len(q) : q[i] = s
    BY <2>1, OneStep
  <2>3. Puts(q, j, "sources", v)
    BY <2>1, <2>2 DEF Puts, Replacing
  <2>4. Plan(j, q, j.bad)
    BY <1>1, <1>4, <2>1, <2>2 DEF Plan
  <2> QED
    BY <1>1, <1>4, <2>1, <2>2, <2>3, <2>4 DEF Ensues
<1>5. CASE j.kind = "add"
  <2> DEFINE a == [on |-> FALSE, by |-> {j.id}]
             T == [S EXCEPT ![j.arg] = a]
  <2>1. q = Refused \/ q \in with(T)
    BY <1>5 DEF AfterSources
  <2>2. a \in Source /\ a # Absent /\ a.by = {j.id}
    <3>1. {j.id} \in SUBSET Nat /\ FALSE \in BOOLEAN
      BY <1>1
    <3>2. a \in Source /\ a.by = {j.id}
      BY <3>1 DEF Source
    <3> QED
      BY <3>2, StoreConstants
  <2> HIDE DEF with, S, a
  <2>3. Tokens("sources", T) \subseteq Tokens("sources", S) \cup {j.id} /\ j.id \in Tokens("sources", T)
    BY <1>1, <1>2, <1>5, <2>2, SourceChanged
  <2> HIDE DEF T
  <2> QED
    BY <1>1, <1>3, <1>5, <2>1, <2>3, RefusedFollows
<1>6. CASE j.kind \in {"enable", "disable"}
  <2> DEFINE a == [on |-> j.kind = "enable", by |-> S[j.arg].by \cup {j.id}]
             T == [S EXCEPT ![j.arg] = a]
  <2>1. q = Refused \/ (q \in with(T) /\ j.arg \in Told(S))
    BY <1>6 DEF AfterSources
  <2>2. ASSUME j.arg \in Told(S)
        PROVE  a \in Source /\ a # Absent /\ j.id \in a.by /\ a.by \subseteq Tokens("sources", S) \cup {j.id}
    <3>1. S[j.arg] \in Source
      BY <1>2, <1>6, <2>2 DEF Told, SourceMap
    <3>2. (j.kind = "enable") \in BOOLEAN /\ S[j.arg].by \cup {j.id} \subseteq Nat
      BY <1>1, <3>1 DEF Source
    <3>3. a \in Source
      BY <3>2 DEF Source
    <3>4. S[j.arg].by \subseteq Tokens("sources", S)
      BY <1>2, <2>2, SourcesIn
    <3> QED
      BY <3>3, <3>4, StoreConstants
  <2> HIDE DEF with, S, a
  <2>3. j.arg \in Told(S) => Tokens("sources", T) \subseteq Tokens("sources", S) \cup {j.id} /\ j.id \in Tokens("sources", T)
    BY <1>1, <1>2, <1>6, <2>2, SourceChanged
  <2> HIDE DEF T
  <2> QED
    BY <1>1, <1>3, <1>6, <2>1, <2>3, RefusedFollows
<1>7. CASE j.kind = "remove"
  <2> DEFINE T == [S EXCEPT ![j.arg] = Absent]
  <2>1. q = Refused \/ q \in with(T)
    BY <1>7 DEF AfterSources
  <2> HIDE DEF with, S
  <2>2. Tokens("sources", T) \subseteq Tokens("sources", S) \cup {j.id}
    BY <1>1, <1>2, <1>7, SourceChanged
  <2> HIDE DEF T
  <2> QED
    BY <1>1, <1>3, <1>7, <2>1, <2>2, RefusedFollows
<1> QED
  BY <1>1, <1>4, <1>5, <1>6, <1>7
LEMMA ScanFollows ==
  ASSUME NEW j, j.kind = "scan", ~j.bad, NEW q, NEW n, NEW v,
         \A i \in 1..Len(q) : q[i].do \in {"read", "drop"} \cup Replacing /\ (q[i].do \in Replacing => q[i].on \notin WorkFiles)
  PROVE  Ensues(q, j, n, v)
<1>1. Puts(q, j, n, v)
  BY DEF Puts
<1>2. \A i \in 1..Len(q) : q[i].do \notin {"append", "write"}
  BY DEF Replacing
<1>3. Plan(j, q, j.bad)
  BY <1>2, KindFiles DEF Plan
<1>4. Work(j.kind) = {}
  BY KindFiles
<1> QED
  BY <1>1, <1>2, <1>3, <1>4 DEF Ensues

LEMMA AfterScanFollow ==
  ASSUME NEW j, NEW n \in {"latest", "index"}, NEW v, Was(n, v), NEW q \in After(j, n, v), Reads(j, n), j.arg \in Report
  PROVE  Ensues(q, j, n, v)
<1>1. j.kind = "scan" /\ ~j.bad
  BY DEF Reads, ReadBy
<1>2. "latest" \notin WorkFiles /\ "previous" \notin WorkFiles /\ "index" \notin WorkFiles /\ j.arg \notin WorkFiles
  BY WorkNames, ScanNames DEF WorkFiles
<1>3. \A d, m, w : Task(d, m, w).do = d /\ Task(d, m, w).on = m
  BY DEF Task
<1>4. CASE n = "latest"
  <2>1. q = (IF v \notin {Absent, j.arg} THEN Replace("previous", v) ELSE <<>>) \o Replace("latest", j.arg) \o ReadOf("index")
    BY <1>4 DEF After, AfterLatest
  <2>2. v \in Report \cup {Absent}
    BY <1>4, ValueOf DEF Was, Fits
  <2>3. FirstSteps(q, v, j.arg)
    BY <2>1, <2>2, LatestSteps
  <2>4. \A i \in 1..7 : i = 1 \/ i = 2 \/ i = 3 \/ i = 4 \/ i = 5 \/ i = 6 \/ i = 7
    OBVIOUS
  <2>5. \A i \in 1..4 : i = 1 \/ i = 2 \/ i = 3 \/ i = 4
    OBVIOUS
  <2>6. ASSUME NEW i \in 1..Len(q)
        PROVE  q[i].do \in {"read", "drop"} \cup Replacing /\ q[i].on \in {"previous", "latest", "index"}
    <3>1. CASE Len(q) = 7
      BY <1>3, <2>3, <2>4, <3>1 DEF FirstSteps, Replacing
    <3>2. CASE Len(q) # 7
      BY <1>3, <2>3, <2>5, <3>2 DEF FirstSteps, Replacing
    <3> QED
      BY <3>1, <3>2
  <2> QED
    BY <1>1, <1>2, <2>6, ScanFollows
<1>5. CASE n = "index"
  <2> DEFINE next == <<j.arg>> \o List(v)
  <2>1. List(v) \in Seq(Report)
    BY <1>5, ValueOf DEF Was, Fits, List
  <2>2. next \in Seq(Report)
    BY <2>1
  <2>3. \/ q = <<>>
        \/ q = Replace(j.arg, j.arg) \o Replace("index", First(next)) \o Pruned(next)
    BY <1>5 DEF After, AfterIndex
  <2> HIDE DEF next
  <2>4. CASE q = <<>>
    BY <1>1, <2>4, KindFiles, NothingFollows
  <2>5. CASE q = Replace(j.arg, j.arg) \o Replace("index", First(next)) \o Pruned(next)
    <3>1. NextSteps(q, j.arg, next)
      BY <2>2, <2>5, IndexSteps
    <3>2. \A i \in 1..Len(q) : i = 1 \/ i = 2 \/ i = 3 \/ i = 4 \/ i = 5 \/ i = 6 \/ i > 6
      BY <3>1 DEF NextSteps
    <3>3. ASSUME NEW i \in 1..Len(q)
          PROVE  q[i].do \in {"read", "drop"} \cup Replacing /\ (q[i].do \in Replacing => q[i].on \in {j.arg, "index"})
      BY SMTT(30), <1>3, <3>1, <3>2 DEF NextSteps, Replacing
    <3> QED
      BY <1>1, <1>2, <3>3, ScanFollows
  <2> QED
    BY <2>3, <2>4, <2>5
<1> QED
  BY <1>4, <1>5

(* What follows from reading fits what was read.                           *)
LEMMA AfterFollows ==
  ASSUME NEW j, NEW n, NEW v, Was(n, v), NEW q \in After(j, n, v), Reads(j, n),
         j.kind = "scan" => j.arg \in Report,
         j.kind \in {"add", "enable", "disable", "remove"} => j.arg \in SourceKey
  PROVE  Ensues(q, j, n, v)
<1>1. n \in {"preflights", "events", "policy", "sources", "snapshot", "latest", "index"}
  BY DEF Reads, ReadBy
<1>2. CASE n = "preflights"
  <2>1. q \in AfterPreflights(j, v)
    BY <1>2 DEF After
  <2> QED
    BY <1>2, <2>1, AfterPreflightsFollow
<1>3. CASE n = "events"
  <2>1. q \in AfterEvents(j, v)
    BY <1>3 DEF After
  <2> QED
    BY <1>3, <2>1, AfterEventsFollow
<1>4. CASE n = "policy"
  <2>1. q \in AfterPolicy(j, v)
    BY <1>4 DEF After
  <2> QED
    BY <1>4, <2>1, AfterPolicyFollow
<1>5. CASE n = "sources"
  <2>1. q \in AfterSources(j, v)
    BY <1>5 DEF After
  <2> QED
    BY <1>5, <2>1, AfterSourcesFollow
<1>6. CASE n = "snapshot"
  <2>1. \E w : q = Replace("snapshot", w)
    BY <1>6 DEF After, AfterSnapshot
  <2>2. j.kind = "refresh" /\ ~j.bad /\ Work(j.kind) = {} /\ "snapshot" \notin WorkFiles
    BY <1>6, KindFiles DEF Reads, ReadBy, WorkFiles
  <2> QED
    BY <2>1, <2>2, ReplaceFollows
<1>7. CASE n \in {"latest", "index"}
  <2>1. j.kind = "scan"
    BY <1>7 DEF Reads, ReadBy
  <2> QED
    BY <1>7, <2>1, AfterScanFollow
<1> QED
  BY <1>1, <1>2, <1>3, <1>4, <1>5, <1>6, <1>7
-----------------------------------------------------------------------------
(* How a call goes on, or ends.                                            *)

(* It goes on with the steps q; b says that something failed.              *)
Went(c, q, b) ==
    IF q = <<>>
    THEN /\ job'[c] = NoJob /\ met' = met \ {c}
         /\ done' = done \cup {[id |-> job[c].id, kind |-> job[c].kind, answer |-> IF b THEN "failed" ELSE "ok", alone |-> c \notin met]}
    ELSE /\ job'[c] # NoJob /\ met' = met /\ done' = done /\ job'[c].at = q /\ job'[c].bad = b
         /\ job'[c].id = job[c].id /\ job'[c].kind = job[c].kind

LEMMA GoToWent ==
  ASSUME Typed, NEW c \in Caller, CallOK(job[c]), NEW j \in Call, NEW q, Runs(j, q), GoTo(c, j, q),
         j.id = job[c].id, j.kind = job[c].kind, j.arg = job[c].arg,
         j.key # Absent => j.kind \in {"prompt", "stop"}
  PROVE  Went(c, q, j.bad) /\ (q # <<>> => job'[c].read = j.read /\ job'[c].key = j.key)
<1> DEFINE k == [id |-> j.id, kind |-> j.kind, arg |-> j.arg, at |-> q, read |-> j.read,
                 key |-> j.key, tmp |-> j.tmp, bad |-> j.bad]
<1>1. job'[c] = IF q = <<>> THEN NoJob ELSE k
  BY GoToMoves
<1>2. k.id = j.id /\ k.kind = j.kind /\ k.at = q /\ k.read = j.read /\ k.key = j.key /\ k.bad = j.bad
  OBVIOUS
<1>3. NoJob.at = <<>>
  BY NoTmp
<1> HIDE DEF k
<1>4. CASE q = <<>>
  <2>1. /\ met' = met \ {c}
        /\ done' = done \cup {CallEnded(c, j, IF j.bad THEN "failed" ELSE "ok")}
    BY <1>4 DEF GoTo
  <2> QED
    BY <1>1, <1>4, <2>1 DEF Went, CallEnded
<1>5. CASE q # <<>>
  <2>1. met' = met /\ done' = done
    BY <1>5 DEF GoTo
  <2>2. job'[c] # NoJob
    BY <1>1, <1>2, <1>3, <1>5
  <2> QED
    BY <1>1, <1>2, <1>5, <2>1, <2>2 DEF Went
<1> QED
  BY <1>4, <1>5

LEMMA ContinueWent ==
  ASSUME Shape, NEW c \in Caller, ~Free(c), Continue(c)
  PROVE  /\ Went(c, Tail(job[c].at), job[c].bad)
         /\ job'[c] # NoJob => job'[c].read = job[c].read /\ job'[c].key = job[c].key
<1> DEFINE j == job[c]
           q == Tail(j.at)
<1>1. CallOK(j) /\ j \in Call /\ Typed /\ Runs(j, j.at) /\ j.at # <<>>
  BY AtWork DEF Shape, CallOK, Free
<1>2. Runs(j, q) /\ (j.key # Absent => j.kind \in {"prompt", "stop"})
  BY <1>1, Rest DEF CallOK
<1>3. GoTo(c, j, q)
  BY DEF Continue
<1>4. j.id = job[c].id /\ j.kind = job[c].kind /\ j.arg = job[c].arg /\ CallOK(job[c])
  BY <1>1
<1> HIDE DEF j, q
<1>5. Went(c, q, j.bad) /\ (q # <<>> => job'[c].read = j.read /\ job'[c].key = j.key)
  BY <1>1, <1>2, <1>3, <1>4, GoToWent
<1>6. job'[c] # NoJob => q # <<>>
  BY <1>5 DEF Went
<1> QED
  BY <1>5, <1>6 DEF j, q

LEMMA OpenWent ==
  ASSUME Shape, NEW c \in Caller, OpenTemporary(c)
  PROVE  /\ Went(c, Tail(job[c].at), job[c].bad)
         /\ job'[c] # NoJob => job'[c].read = job[c].read /\ job'[c].key = job[c].key
<1>0. ~Free(c) /\ CallDoes(c, "open") /\ \E use \in Caller : GoTo(c, [job[c] EXCEPT !.tmp = <<On(c), use>>], Tail(job[c].at))
  BY DEF OpenTemporary, CallDoes
<1>1. PICK use \in Caller : GoTo(c, [job[c] EXCEPT !.tmp = <<On(c), use>>], Tail(job[c].at))
  BY <1>0
<1> DEFINE j == job[c]
           t == <<On(c), use>>
           k == [j EXCEPT !.tmp = t]
           q == Tail(j.at)
<1>2. CallOK(j) /\ j \in Call /\ Typed /\ Runs(j, j.at) /\ j.at # <<>> /\ On(c) \in Names
  BY <1>0, AtWork DEF Shape, CallOK, Free
<1>3. t \in Scratch
  BY <1>2, Places
<1>4. Runs(j, q) /\ (j.key # Absent => j.kind \in {"prompt", "stop"})
  BY <1>2, Rest DEF CallOK
<1>5. GoTo(c, k, q)
  BY <1>1
<1> HIDE DEF t
<1>6. k \in Call /\ k = [id |-> j.id, kind |-> j.kind, arg |-> j.arg, at |-> j.at, read |-> j.read,
                   key |-> j.key, tmp |-> t, bad |-> j.bad]
  BY <1>2, <1>3, FieldsOf
<1> HIDE DEF k
<1>7. k.id = j.id /\ k.kind = j.kind /\ k.arg = j.arg /\ k.read = j.read /\ k.key = j.key /\ k.bad = j.bad
  BY <1>6
<1>8. Runs(k, q)
  BY <1>4, <1>7, SameRuns
<1> HIDE DEF q
<1>9. Went(c, q, k.bad) /\ (q # <<>> => job'[c].read = k.read /\ job'[c].key = k.key)
  BY <1>2, <1>4, <1>5, <1>6, <1>7, <1>8, GoToWent
<1>10. job'[c] # NoJob => q # <<>>
  BY <1>9 DEF Went
<1> QED
  BY <1>7, <1>9, <1>10 DEF q

LEMMA FailWent ==
  ASSUME Shape, NEW c \in Caller, ~Free(c), CallFails(c)
  PROVE  \E q : /\ Went(c, q, TRUE)
                /\ q # <<>> => /\ job[c].kind = "prompt" /\ q \in {ReadOf("preflights"), AppendSteps(0)}
                               /\ job'[c].read = job[c].read /\ job'[c].key = job[c].key
<1> DEFINE j == job[c]
           k == [j EXCEPT !.bad = TRUE]
           n == [id |-> j.id, kind |-> j.kind, arg |-> j.arg, at |-> j.at, read |-> j.read,
                 key |-> j.key, tmp |-> j.tmp, bad |-> TRUE]
<1>1. CallOK(j) /\ j \in Call /\ Typed /\ (j.key # Absent => j.kind \in {"prompt", "stop"})
  BY AtWork DEF Shape, CallOK
<1>2. k \in Call /\ k = n
  BY <1>1, FieldsOf
<1>3. k.id = j.id /\ k.kind = j.kind /\ k.arg = j.arg /\ k.key = j.key /\ k.read = j.read /\ k.tmp = j.tmp /\ k.bad = TRUE
  BY <1>2
<1>4. PICK q \in {ReadOf("preflights"), AppendSteps(0), <<>>} :
         /\ GoTo(c, k, q)
         /\ q # <<>> => j.kind = "prompt"
         /\ q = AppendSteps(0) /\ q # ReadOf("preflights") => j.kind = "prompt" /\ j.key # Absent
  <2>1. CASE j.kind = "prompt" /\ On(c) = "salt"
    BY <2>1, <1>3 DEF CallFails
  <2>2. CASE ~(j.kind = "prompt" /\ On(c) = "salt") /\ j.kind = "prompt" /\ On(c) = "preflights" /\ j.key # Absent
    BY <2>2, <1>3 DEF CallFails
  <2>3. CASE ~(j.kind = "prompt" /\ On(c) = "salt") /\ ~(j.kind = "prompt" /\ On(c) = "preflights" /\ j.key # Absent)
    <3>1. GoTo(c, k, <<>>)
      BY <2>3, <1>3 DEF CallFails
    <3>2. AppendSteps(0) # <<>>
      BY DEF AppendSteps
    <3> QED
      BY <3>1, <3>2
  <2> QED
    BY <2>1, <2>2, <2>3
<1>5. Runs(k, q)
  <2>1. CASE q = <<>>
    BY <2>1, Nothing
  <2>2. CASE q = ReadOf("preflights") /\ q # <<>>
    <3>1. k.kind \in ReadBy("preflights") /\ "preflights" \in Names
      BY <1>3, <1>4, <2>2 DEF ReadBy, Names, Stored
    <3> QED
      BY <2>2, <3>1, Reading
  <2>3. CASE q = AppendSteps(0) /\ q # ReadOf("preflights") /\ q # <<>>
    BY <1>3, <1>4, <2>3, Appending
  <2> QED
    BY <1>4, <2>1, <2>2, <2>3
<1> HIDE DEF k, n
<1>6. Went(c, q, k.bad) /\ (q # <<>> => job'[c].read = k.read /\ job'[c].key = k.key)
  BY <1>1, <1>2, <1>3, <1>4, <1>5, GoToWent
<1> QED
  BY <1>3, <1>4, <1>6
LEMMA ReadWent ==
  ASSUME Shape, Plans, NEW c \in Caller, Read(c), Held(On(c)) # Torn
  PROVE  \E q : /\ Went(c, q, job[c].bad) /\ Ensues(q, job[c], On(c), Held(On(c)))
                /\ job'[c] # NoJob => job'[c].read = Held(On(c)) /\ job'[c].key = job[c].key
<1> DEFINE j == job[c]
           n == On(c)
           v == Held(n)
           k == [j EXCEPT !.read = v]
<1>1. ~Free(c) /\ CallDoes(c, "read")
  BY DEF Read, CallDoes
<1>2. PICK q \in After(j, n, v) : GoTo(c, k, q)
  BY DEF Read, Held
<1>3. /\ CallOK(j) /\ j \in Call /\ Typed /\ n \in Names /\ j.id # 0 /\ StepOK(j, Current(j))
      /\ j.at[1].do = "read" /\ 1 \in 1..Len(j.at) /\ v \in AnyValue /\ PlaceOf(n) \in Place
  <2>1. j.id \in 1..calls /\ CallOK(j) /\ Typed
    BY <1>1, AtWork DEF Shape, Jobs, CallOK
  <2>2. n \in Names /\ PlaceOf(n) \in Place /\ StepOK(j, Current(j)) /\ Current(j) = j.at[1] /\ 1 \in 1..Len(j.at)
    BY <1>1, AtWork
  <2>3. v \in AnyValue
    BY <2>1, <2>2 DEF Typed, Held
  <2> QED
    BY <1>1, <2>1, <2>2, <2>3 DEF CallOK, CallDoes
<1>4. Was(n, v)
  BY <1>3, Places DEF Shape, Contents, Was, Held
<1>5. Reads(j, n)
  <2>1. j.kind \in ReadBy(n)
    BY <1>1, <1>3 DEF StepOK, CallDoes, On
  <2>2. Plan(j, j.at, j.bad)
    BY DEF Plans
  <2>3. (j.bad => j.kind = "prompt") /\ (j.kind = "prompt" => j.bad \/ j.key # Absent)
    BY <1>3, <2>2 DEF Plan
  <2> QED
    BY <1>3, <2>1, <2>3 DEF Reads, CallOK
<1>6. Ensues(q, j, n, v)
  BY <1>2, <1>3, <1>4, <1>5, AfterFollows DEF CallOK
<1>7. Runs(j, q)
  BY <1>1, <1>2, ReadMoves DEF Held
<1>8. k \in Call /\ k = [id |-> j.id, kind |-> j.kind, arg |-> j.arg, at |-> j.at, read |-> v,
                         key |-> j.key, tmp |-> j.tmp, bad |-> j.bad]
  BY <1>3, FieldsOf
<1> HIDE DEF k, j, n, v
<1>9. k.id = j.id /\ k.kind = j.kind /\ k.arg = j.arg /\ k.read = v /\ k.key = j.key /\ k.bad = j.bad
  BY <1>8
<1>10. Runs(k, q)
  BY <1>7, <1>9, SameRuns
<1>11. /\ CallOK(job[c]) /\ k.id = job[c].id /\ k.kind = job[c].kind /\ k.arg = job[c].arg /\ k.bad = job[c].bad
       /\ k.key = job[c].key /\ (k.key # Absent => k.kind \in {"prompt", "stop"})
  BY <1>3, <1>9 DEF j, CallOK
<1>14. k \in Call /\ Typed
  BY <1>3, <1>8
<1>12. Went(c, q, k.bad) /\ (q # <<>> => job'[c].read = k.read /\ job'[c].key = k.key)
  BY <1>2, <1>10, <1>11, <1>14, GoToWent
<1>13. job'[c] # NoJob => q # <<>>
  BY <1>12 DEF Went
<1> QED
  <2>1. Ensues(q, job[c], On(c), Held(On(c)))
    BY <1>6 DEF n, v, j
  <2>2. k.read = Held(On(c))
    BY <1>9 DEF n, v
  <2> QED
    BY <1>11, <1>12, <1>13, <2>1, <2>2

LEMMA KeyWent ==
  ASSUME Shape, NEW c \in Caller, Key(c), Held("salt") \notin {Absent, Torn}
  PROVE  /\ \E q \in {ReadOf("events"), ReadOf("preflights")} : Went(c, q, job[c].bad)
         /\ job'[c].key # Absent /\ job[c].kind \in {"prompt", "stop"}
<1>1. CallDoes(c, "key") /\ ~Free(c)
  BY DEF Key, CallDoes
<1>2. Held("salt") \in Nat
  BY <1>1, KeyMoves
<1>3. PICK q \in {ReadOf("events"), ReadOf("preflights")} :
              LET j == job[c] IN
              /\ Runs(job'[c], q)
              /\ job'[c] = [id |-> j.id, kind |-> j.kind, arg |-> j.arg, at |-> q, read |-> j.read,
                           key |-> Held("salt"), tmp |-> j.tmp, bad |-> j.bad]
  BY <1>1, KeyMoves
<1>4. job'[c].at = q /\ job'[c].key = Held("salt") /\ job'[c].bad = job[c].bad /\ job'[c].id = job[c].id /\ job'[c].kind = job[c].kind
  BY <1>3
<1>5. q # <<>> /\ NoJob.at = <<>>
  <2>1. \A n : ReadOf(n) # <<>>
    BY DEF ReadOf
  <2> QED
    BY <2>1, NoTmp
<1>6. met' = met /\ done' = done
  <2>1. PICK k, r : GoTo(c, k, r) /\ r # <<>>
    <3>1. GoTo(c, [job[c] EXCEPT !.key = Held("salt")], ReadOf(IF job[c].kind = "stop" THEN "events" ELSE "preflights"))
      BY DEF Key, Held
    <3>2. \A n : ReadOf(n) # <<>>
      BY DEF ReadOf
    <3> QED
      BY <3>1, <3>2
  <2> QED
    BY <2>1 DEF GoTo
<1>7. job[c].kind \in {"prompt", "stop"}
  <2>1. StepOK(job[c], Current(job[c]))
    BY <1>1, AtWork
  <2> QED
    BY <1>1, <2>1 DEF StepOK, CallDoes
<1>8. Went(c, q, job[c].bad)
  BY <1>4, <1>5, <1>6 DEF Went
<1> QED
  BY <1>2, <1>3, <1>4, <1>7, <1>8, Numbers

LEMMA SaltWent ==
  ASSUME Shape, NEW c \in Caller, Salt(c)
  PROVE  /\ \E q \in {<<Task("fill", "salt", job[c].id), Task("key", "salt", Absent)>>, <<Task("key", "salt", Absent)>>} :
               Went(c, q, job[c].bad)
         /\ job[c].kind \in {"prompt", "stop"}
<1>1. /\ CallDoes(c, "salt") /\ ~Free(c) /\ job'[c] # NoJob
      /\ job'[c].at \in {<<Task("fill", "salt", job[c].id), Task("key", "salt", Absent)>>, <<Task("key", "salt", Absent)>>}
  BY SaltFacts
<1>2. job'[c].at # <<>>
  <2>1. \A a, b : <<a, b>> # <<>> /\ <<a>> # <<>>
    OBVIOUS
  <2> QED
    BY <1>1, <2>1
<1>3. PICK q : GoTo(c, job[c], q) /\ q # <<>>
  BY DEF Salt
<1>4. met' = met /\ done' = done /\ job' = [job EXCEPT ![c] = [job[c] EXCEPT !.at = q]]
  BY <1>3 DEF GoTo
<1>5. job \in [Caller -> Call] /\ job[c] \in Call
  BY DEF Shape, Typed
<1>6. job'[c] = [job[c] EXCEPT !.at = q]
  BY <1>4, <1>5
<1>7. job'[c].id = job[c].id /\ job'[c].kind = job[c].kind /\ job'[c].bad = job[c].bad
  BY <1>5, <1>6 DEF Call
<1>8. job[c].kind \in {"prompt", "stop"}
  <2>1. StepOK(job[c], Current(job[c]))
    BY <1>1, AtWork
  <2> QED
    BY <1>1, <2>1 DEF StepOK, CallDoes
<1>9. Went(c, job'[c].at, job[c].bad)
  BY <1>1, <1>2, <1>4, <1>7 DEF Went
<1> QED
  BY <1>1, <1>8, <1>9
(* The ways a call goes on: it does its next step; something fails; it has *)
(* read a file; it has found, or made, the salt.                           *)
Unmoved == \A n \in WorkFiles : slot'[PlaceOf(n)] = slot[PlaceOf(n)]
AsRead(c) == job'[c] # NoJob => job'[c].read = job[c].read /\ job'[c].key = job[c].key

Onward(c) ==
    \/ OpenTemporary(c) \/ Fill(c) \/ OpenEvents(c) \/ WriteEvent(c) \/ Removes(c)
    \/ PutInPlace(c) /\ slot[job[c].tmp] # Absent
    \/ CheckReviewed(c) /\ Held(On(c)) = Current(job[c]).value
WentOn(c) == Onward(c) /\ Went(c, Tail(job[c].at), job[c].bad) /\ AsRead(c)
WentWrong(c) ==
    /\ Unmoved
    /\ \E q : /\ Went(c, q, TRUE) /\ AsRead(c)
              /\ q # <<>> => job[c].kind = "prompt" /\ q \in {ReadOf("preflights"), AppendSteps(0)}
HasRead(c) ==
    /\ CallDoes(c, "read") /\ Held(On(c)) # Torn /\ Unmoved
    /\ \E q : /\ Went(c, q, job[c].bad) /\ Ensues(q, job[c], On(c), Held(On(c)))
              /\ job'[c] # NoJob => job'[c].read = Held(On(c)) /\ job'[c].key = job[c].key
HasKey(c) ==
    /\ Unmoved /\ job[c].kind \in {"prompt", "stop"} /\ job'[c].key # Absent
    /\ \E q \in {ReadOf("events"), ReadOf("preflights")} : Went(c, q, job[c].bad)
HasSalt(c) ==
    /\ Unmoved /\ job[c].kind \in {"prompt", "stop"}
    /\ \E q \in {<<Task("fill", "salt", job[c].id), Task("key", "salt", Absent)>>, <<Task("key", "salt", Absent)>>} :
         Went(c, q, job[c].bad)

LEMMA WentWrongWhen ==
  ASSUME Shape, NEW c \in Caller, ~Free(c), CallFails(c), Unmoved
  PROVE  WentWrong(c)
<1>1. PICK q : /\ Went(c, q, TRUE)
               /\ q # <<>> => /\ job[c].kind = "prompt" /\ q \in {ReadOf("preflights"), AppendSteps(0)}
                              /\ job'[c].read = job[c].read /\ job'[c].key = job[c].key
  BY FailWent
<1>2. job'[c] # NoJob => q # <<>>
  BY <1>1 DEF Went
<1> QED
  BY <1>1, <1>2 DEF WentWrong, AsRead

LEMMA StillWhen == ASSUME slot' = slot PROVE Unmoved
  BY DEF Unmoved

LEMMA Ways ==
  ASSUME Shape, Plans, NEW c \in Caller, Moving(c), ~CallerDies(c)
  PROVE  WentOn(c) \/ WentWrong(c) \/ HasRead(c) \/ HasKey(c) \/ HasSalt(c)
<1>0. ~Free(c)
  BY MovingMoves
<1>1. ASSUME Onward(c), Continue(c) PROVE WentOn(c)
  BY <1>0, <1>1, ContinueWent DEF WentOn, AsRead
<1>2. ASSUME CallFails(c), slot' = slot PROVE WentWrong(c)
  BY <1>0, <1>2, WentWrongWhen, StillWhen
<1>3. CASE Read(c)
  <2>1. slot' = slot
    BY <1>3 DEF Read
  <2>2. CASE Held(On(c)) = Torn
    <3>1. CallFails(c)
      BY <1>3, <2>2 DEF Read, Held
    <3> QED
      BY <1>2, <2>1, <3>1
  <2>3. CASE Held(On(c)) # Torn
    <3>1. CallDoes(c, "read") /\ Unmoved
      BY <1>3, <2>1, StillWhen DEF Read
    <3>2. \E q : /\ Went(c, q, job[c].bad) /\ Ensues(q, job[c], On(c), Held(On(c)))
                 /\ job'[c] # NoJob => job'[c].read = Held(On(c)) /\ job'[c].key = job[c].key
      BY <1>3, <2>3, ReadWent
    <3> QED
      BY <2>3, <3>1, <3>2 DEF HasRead
  <2> QED
    BY <2>2, <2>3
<1>4. CASE Decline(c)
  BY <1>2, <1>4 DEF Decline
<1>5. CASE OpenTemporary(c)
  BY <1>5, OpenWent DEF WentOn, Onward, AsRead
<1>6. CASE Fill(c)
  BY <1>1, <1>6 DEF Onward, Fill
<1>7. CASE PutInPlace(c)
  <2>1. CASE slot[job[c].tmp] = Absent
    BY <1>2, <1>7, <2>1 DEF PutInPlace
  <2>2. CASE slot[job[c].tmp] # Absent
    BY <1>1, <1>7, <2>2 DEF PutInPlace, Onward
  <2> QED
    BY <2>1, <2>2
<1>8. CASE Removes(c)
  <2>1. Continue(c)
    BY <1>8, RemoveFacts
  <2> QED
    BY <1>1, <1>8, <2>1 DEF Onward
<1>9. CASE EraseFile(c) /\ ~Removes(c)
  <2>1. slot[PlaceOf(On(c))] = Absent
    BY <1>9 DEF Removes, Held
  <2>2. CallFails(c) /\ slot' = slot
    BY <1>9, <2>1 DEF EraseFile
  <2> QED
    BY <1>2, <2>2
<1>10. CASE Salt(c)
  <2>1. Unmoved
    <3>1. \A n \in WorkFiles : PlaceOf(n) \in Place /\ PlaceOf(n) # PlaceOf("salt")
      <4>1. ASSUME NEW n \in WorkFiles PROVE PlaceOf(n) \in Place /\ PlaceOf(n) # PlaceOf("salt")
        BY WorkNames, SaltThere
      <4> QED
        BY <4>1
    <3>2. slot' = slot \/ \A o \in Place \cup Scratch : o # PlaceOf("salt") => slot'[o] = slot[o]
      BY <1>10, SaltFacts
    <3> QED
      BY <3>1, <3>2 DEF Unmoved
  <2>2. \E q \in {<<Task("fill", "salt", job[c].id), Task("key", "salt", Absent)>>, <<Task("key", "salt", Absent)>>} :
               Went(c, q, job[c].bad)
    BY <1>10, SaltWent
  <2>3. job[c].kind \in {"prompt", "stop"}
    BY <1>10, SaltWent
  <2> QED
    BY <2>1, <2>2, <2>3 DEF HasSalt
<1>11. CASE Key(c)
  <2>1. slot' = slot
    BY <1>11 DEF Key
  <2>2. CASE Held("salt") \in {Absent, Torn}
    BY <1>2, <1>11, <2>1, <2>2 DEF Key, Held
  <2>3. CASE Held("salt") \notin {Absent, Torn}
    BY <1>11, <2>1, <2>3, KeyWent, StillWhen DEF HasKey
  <2> QED
    BY <2>2, <2>3
<1>12. CASE OpenEvents(c)
  BY <1>1, <1>12 DEF Onward, OpenEvents
<1>13. CASE WriteEvent(c)
  BY <1>1, <1>13 DEF Onward, WriteEvent
<1>14. CASE CheckReviewed(c)
  <2>1. CASE Held(On(c)) = Current(job[c]).value
    BY <1>1, <1>14, <2>1 DEF Onward, CheckReviewed, Held
  <2>2. CASE Held(On(c)) # Current(job[c]).value
    BY <1>2, <1>14, <2>2 DEF CheckReviewed, Held
  <2> QED
    BY <2>1, <2>2
<1>15. CASE Trouble(c)
  <2>1. CallFails(c) /\ slot' = Left(c) /\ opened' = [opened EXCEPT ![c] = Absent]
    BY <1>15 DEF Trouble
  <2>2. \A p \in Place : slot'[p] = slot[p]
    BY <2>1, LeftFacts
  <2>3. Unmoved
    BY <2>2, WorkNames DEF Unmoved
  <2> QED
    BY <1>0, <2>1, <2>3, WentWrongWhen
<1> QED
  BY <1>3, <1>4, <1>5, <1>6, <1>7, <1>8, <1>9, <1>10, <1>11, <1>12, <1>13, <1>14, <1>15 DEF Moving, Removes
-----------------------------------------------------------------------------
(* The steps that are left.                                                *)

LEMMA PlanTail ==
  ASSUME NEW j, NEW q \in Seq(TaskType), q # <<>>, NEW b, Plan(j, q, b), NEW k, k.kind = j.kind, k.key = j.key
  PROVE  Plan(k, Tail(q), b)
<1> DEFINE r == Tail(q)
<1>1. /\ Len(r) = Len(q) - 1 /\ Len(q) \in Nat
      /\ \A i \in 1..Len(r) : i + 1 \in 1..Len(q) /\ r[i] = q[i + 1]
  BY TailOf
<1> HIDE DEF r
<1>2. ASSUME NEW i \in 1..Len(r)
      PROVE  /\ r[i].do = "read" /\ k.kind = "prompt" => b \/ k.key # Absent
             /\ r[i].do \in {"append", "write"} /\ k.kind = "prompt" => r[i].value = 0
             /\ r[i].do = "rename" /\ k.kind \in Failing => i = Len(r)
             /\ r[i].do = "write" => i = Len(r)
  <2>1. i + 1 \in 1..Len(q) /\ r[i] = q[i + 1] /\ (i + 1 = Len(q) => i = Len(r))
    BY <1>1
  <2> QED
    BY <2>1 DEF Plan
<1>3. b => k.kind = "prompt"
  BY DEF Plan
<1>4. Plan(k, r, b)
  BY <1>2, <1>3 DEF Plan
<1> QED
  BY <1>4 DEF r

LEMMA DueTail ==
  ASSUME NEW q \in Seq(TaskType), q # <<>>, NEW n, Due(q, n),
         q[1].do \notin {"salt", "key", "read", "refuse"}, q[1].do \in {"rename", "write"} => q[1].on # n
  PROVE  Due(Tail(q), n)
<1> DEFINE r == Tail(q)
<1>1. PICK i \in 1..Len(q) : \/ q[i].do \in {"salt", "key", "read", "refuse"}
                             \/ q[i].do \in {"rename", "write"} /\ q[i].on = n
  BY DEF Due
<1>2. i # 1
  BY <1>1
<1>3. i - 1 \in 1..Len(r) /\ r[i - 1] = q[i]
  BY <1>2, TailOf
<1> HIDE DEF r
<1>4. Due(r, n)
  BY <1>1, <1>3 DEF Due
<1> QED
  BY <1>4 DEF r

LEMMA ShortPlans ==
  ASSUME NEW j, NEW b, b => j.kind = "prompt", j.kind = "prompt" => b \/ j.key # Absent
  PROVE  /\ \A n : Plan(j, ReadOf(n), b) /\ \A m : Due(ReadOf(n), m)
         /\ Plan(j, AppendSteps(0), b)
<1>1. ASSUME NEW n PROVE Plan(j, ReadOf(n), b) /\ \A m : Due(ReadOf(n), m)
  <2> DEFINE s == Task("read", n, Absent)
             q == ReadOf(n)
  <2>1. s.do = "read"
    BY DEF Task
  <2>2. q = <<s>>
    BY DEF ReadOf
  <2> HIDE DEF s, q
  <2>3. Len(q) = 1 /\ \A i \in 1..Len(q) : q[i] = s
    BY <2>2, OneStep
  <2>4. Plan(j, q, b)
    BY <2>1, <2>3 DEF Plan
  <2>5. 1 \in 1..Len(q)
    BY <2>3
  <2>6. \A m : Due(q, m)
    BY <2>1, <2>3, <2>5 DEF Due
  <2> QED
    BY <2>4, <2>6 DEF q
<1>2. Plan(j, AppendSteps(0), b)
  <2> DEFINE a == Task("append", "events", 0)
             w == Task("write", "events", 0)
             q == AppendSteps(0)
  <2>1. a.do = "append" /\ w.do = "write" /\ a.value = 0 /\ w.value = 0
    BY DEF Task
  <2>2. q = <<a, w>>
    BY DEF AppendSteps
  <2> HIDE DEF a, w, q
  <2>3. Len(q) = 2 /\ q[1] = a /\ q[2] = w
    BY <2>2
  <2>4. \A i \in 1..2 : i = 1 \/ i = 2
    OBVIOUS
  <2>5. \A i \in 1..Len(q) : q[i].do \in {"append", "write"} /\ q[i].value = 0 /\ (q[i].do = "write" => i = Len(q))
    BY <2>1, <2>3, <2>4
  <2>6. Plan(j, q, b)
    BY <2>5 DEF Plan
  <2> QED
    BY <2>6 DEF q
<1> QED
  BY <1>1, <1>2

LEMMA SaltSteps ==
  ASSUME NEW id, NEW q \in {<<Task("fill", "salt", id), Task("key", "salt", Absent)>>, <<Task("key", "salt", Absent)>>}
  PROVE  /\ \A i \in 1..Len(q) : q[i].do \in {"fill", "key"} /\ q[i].on = "salt"
         /\ \A n : Due(q, n)
         /\ \A j, b : (b => j.kind = "prompt") => Plan(j, q, b)
<1> DEFINE f == Task("fill", "salt", id)
           k == Task("key", "salt", Absent)
<1>1. f.do = "fill" /\ f.on = "salt" /\ k.do = "key" /\ k.on = "salt"
  BY DEF Task
<1>2. q = <<f, k>> \/ q = <<k>>
  OBVIOUS
<1> HIDE DEF f, k
<1>3. \/ Len(q) = 2 /\ q[1] = f /\ q[2] = k
      \/ Len(q) = 1 /\ q[1] = k
  BY <1>2
<1>4. /\ \A i \in 1..2 : i = 1 \/ i = 2
      /\ \A i \in 1..1 : i = 1
  OBVIOUS
<1>5. \A i \in 1..Len(q) : q[i].do \in {"fill", "key"} /\ q[i].on = "salt"
  BY <1>1, <1>3, <1>4
<1>6. Len(q) \in 1..Len(q) /\ q[Len(q)] = k
  BY <1>3
<1>7. \A n : Due(q, n)
  BY <1>1, <1>6 DEF Due
<1>8. \A j, b : (b => j.kind = "prompt") => Plan(j, q, b)
  BY <1>5 DEF Plan
<1> QED
  BY <1>5, <1>7, <1>8

LEMMA PlanMove ==
  ASSUME Shape, Plans, NEW c \in Caller, Moving(c), job'[c] # NoJob
  PROVE  Plan(job'[c], job'[c].at, job'[c].bad)
<1> DEFINE j == job[c]
           k == job'[c]
<1>1. ~Free(c) /\ ~CallerDies(c) /\ Plan(j, j.at, j.bad) /\ j.at \in Seq(TaskType) /\ j.at # <<>>
  <2>1. ~Free(c)
    BY MovingMoves
  <2>2. ~CallerDies(c)
    BY DeathMoves
  <2> QED
    BY <2>1, <2>2, AtWork DEF Plans, Free
<1>2. \A q, b : Went(c, q, b) => k.at = q /\ k.bad = b /\ k.kind = j.kind
  BY DEF Went
<1>3. j.bad => j.kind = "prompt"
  BY <1>1 DEF Plan
<1>4. CASE WentOn(c)
  <2>1. k.at = Tail(j.at) /\ k.bad = j.bad /\ k.kind = j.kind /\ k.key = j.key
    BY <1>2, <1>4 DEF WentOn, AsRead
  <2> HIDE DEF j, k
  <2>2. Plan(k, Tail(j.at), j.bad)
    BY <1>1, <2>1, PlanTail
  <2> QED
    BY <2>1, <2>2 DEF k
<1>5. CASE WentWrong(c)
  <2>1. PICK q : /\ Went(c, q, TRUE)
                 /\ q # <<>> => j.kind = "prompt" /\ q \in {ReadOf("preflights"), AppendSteps(0)}
    BY <1>5 DEF WentWrong
  <2>2. q # <<>>
    BY <2>1 DEF Went
  <2>3. k.kind = "prompt" /\ k.at = q /\ k.bad = TRUE
    BY <1>2, <2>1, <2>2
  <2> HIDE DEF j, k
  <2>4. Plan(k, ReadOf("preflights"), TRUE) /\ Plan(k, AppendSteps(0), TRUE)
    BY <2>3, ShortPlans
  <2>5. Plan(k, k.at, k.bad)
    BY <2>1, <2>2, <2>3, <2>4
  <2> QED
    BY <2>5 DEF k
<1>6. CASE HasRead(c)
  <2>1. PICK q : /\ Went(c, q, j.bad) /\ Ensues(q, j, On(c), Held(On(c))) /\ k.key = j.key
    BY <1>6 DEF HasRead
  <2>2. Plan(j, q, j.bad) /\ k.at = q /\ k.bad = j.bad /\ k.kind = j.kind
    BY <1>2, <2>1 DEF Ensues
  <2> HIDE DEF j, k
  <2>3. Plan(k, k.at, k.bad)
    BY <2>1, <2>2 DEF Plan
  <2> QED
    BY <2>3 DEF k
<1>7. CASE HasKey(c)
  <2>1. PICK q \in {ReadOf("events"), ReadOf("preflights")} : Went(c, q, j.bad) /\ k.key # Absent
    BY <1>7 DEF HasKey
  <2>2. k.at = q /\ k.bad = j.bad /\ k.kind = j.kind
    BY <1>2, <2>1
  <2> HIDE DEF j, k
  <2>3. Plan(k, ReadOf("events"), k.bad) /\ Plan(k, ReadOf("preflights"), k.bad)
    BY <1>3, <2>1, <2>2, ShortPlans
  <2>4. Plan(k, k.at, k.bad)
    BY <2>1, <2>2, <2>3
  <2> QED
    BY <2>4 DEF k
<1>8. CASE HasSalt(c)
  <2>1. PICK q \in {<<Task("fill", "salt", j.id), Task("key", "salt", Absent)>>, <<Task("key", "salt", Absent)>>} : Went(c, q, j.bad)
    BY <1>8 DEF HasSalt
  <2>2. k.at = q /\ k.bad = j.bad /\ k.kind = j.kind
    BY <1>2, <2>1
  <2> HIDE DEF j, k
  <2>3. Plan(k, q, k.bad)
    BY <1>3, <2>1, <2>2, SaltSteps
  <2>4. Plan(k, k.at, k.bad)
    BY <2>2, <2>3
  <2> QED
    BY <2>4 DEF k
<1> QED
  BY <1>1, <1>4, <1>5, <1>6, <1>7, <1>8, Ways
(* Where the steps that are left come from: they were left before, or      *)
(* follow from what was read.                                              *)
StepsFrom(c) ==
    \A i \in 1..Len(job'[c].at) :
        LET s == job'[c].at[i] IN
        /\ s.do \in Replacing /\ s.on \in WorkFiles =>
             \/ job'[c].read = job[c].read /\ \E k \in 1..Len(job[c].at) : s = job[c].at[k]
             \/ /\ job'[c].read = Held(s.on) /\ Held(s.on) # Torn
                /\ OwnWork(job[c], s.on, Held(s.on), s.value)
        /\ s.do \in {"append", "write"} =>
             \/ s.value = 0 \/ \E k \in 1..Len(job[c].at) : s = job[c].at[k]
             \/ s.value \in Tokens("events", Held("events"))

LEMMA NoWrites ==
  /\ \A n : \A i \in 1..Len(ReadOf(n)) : ReadOf(n)[i].do = "read"
  /\ \A i \in 1..Len(AppendSteps(0)) : AppendSteps(0)[i].do \in {"append", "write"} /\ AppendSteps(0)[i].value = 0
<1>1. ASSUME NEW n PROVE \A i \in 1..Len(ReadOf(n)) : ReadOf(n)[i].do = "read"
  <2> DEFINE s == Task("read", n, Absent)
             q == ReadOf(n)
  <2>1. s.do = "read"
    BY DEF Task
  <2>2. q = <<s>>
    BY DEF ReadOf
  <2> HIDE DEF s, q
  <2>3. Len(q) = 1 /\ \A i \in 1..Len(q) : q[i] = s
    BY <2>2, OneStep
  <2>4. \A i \in 1..Len(q) : q[i].do = "read"
    BY <2>1, <2>3
  <2> QED
    BY <2>4 DEF q
<1>2. \A i \in 1..Len(AppendSteps(0)) : AppendSteps(0)[i].do \in {"append", "write"} /\ AppendSteps(0)[i].value = 0
  <2> DEFINE a == Task("append", "events", 0)
             w == Task("write", "events", 0)
             q == AppendSteps(0)
  <2>1. a.do = "append" /\ w.do = "write" /\ a.value = 0 /\ w.value = 0
    BY DEF Task
  <2>2. q = <<a, w>>
    BY DEF AppendSteps
  <2> HIDE DEF a, w, q
  <2>3. Len(q) = 2 /\ q[1] = a /\ q[2] = w
    BY <2>2
  <2>4. \A i \in 1..2 : i = 1 \/ i = 2
    OBVIOUS
  <2>5. \A i \in 1..Len(q) : q[i].do \in {"append", "write"} /\ q[i].value = 0
    BY <2>1, <2>3, <2>4
  <2> QED
    BY <2>5 DEF q
<1> QED
  BY <1>1, <1>2

LEMMA StepsFromMove ==
  ASSUME Shape, Plans, NEW c \in Caller, Moving(c), job'[c] # NoJob
  PROVE  StepsFrom(c)
<1> DEFINE j == job[c]
           k == job'[c]
<1>1. ~Free(c) /\ ~CallerDies(c) /\ j.at \in Seq(TaskType) /\ j.at # <<>>
  <2>1. ~Free(c)
    BY MovingMoves
  <2>2. ~CallerDies(c)
    BY DeathMoves
  <2> QED
    BY <2>1, <2>2, AtWork DEF Free
<1>2. \A q, b : Went(c, q, b) => k.at = q
  BY DEF Went
<1>3. CASE WentOn(c)
  <2>1. k.at = Tail(j.at) /\ k.read = j.read
    BY <1>2, <1>3 DEF WentOn, AsRead
  <2>2. \A i \in 1..Len(Tail(j.at)) : i + 1 \in 1..Len(j.at) /\ Tail(j.at)[i] = j.at[i + 1]
    BY <1>1, TailOf
  <2>3. \A i \in 1..Len(k.at) : \E x \in 1..Len(j.at) : k.at[i] = j.at[x]
    BY <2>1, <2>2
  <2> QED
    BY <2>1, <2>3 DEF StepsFrom
<1>4. ASSUME NEW q, k.at = q, \A i \in 1..Len(q) : q[i].do \in {"read", "append", "write"} /\ (q[i].do = "read" \/ q[i].value = 0)
      PROVE  StepsFrom(c)
  BY <1>4 DEF StepsFrom, Replacing
<1>5. CASE WentWrong(c)
  <2>1. PICK q : /\ Went(c, q, TRUE)
                 /\ q # <<>> => j.kind = "prompt" /\ q \in {ReadOf("preflights"), AppendSteps(0)}
    BY <1>5 DEF WentWrong
  <2>2. q # <<>> /\ k.at = q
    BY <1>2, <2>1 DEF Went
  <2>3. \A i \in 1..Len(q) : q[i].do \in {"read", "append", "write"} /\ (q[i].do = "read" \/ q[i].value = 0)
    <3>1. q = ReadOf("preflights") \/ q = AppendSteps(0)
      BY <2>1, <2>2
    <3> QED
      BY <3>1, NoWrites
  <2> QED
    BY <1>4, <2>2, <2>3
<1>6. CASE HasRead(c)
  <2> DEFINE n == On(c)
             v == Held(On(c))
  <2>1. PICK q : Went(c, q, j.bad) /\ Ensues(q, j, n, v) /\ k.read = v /\ v # Torn
    BY <1>6 DEF HasRead
  <2>2. k.at = q
    BY <1>2, <2>1
  <2>3. ASSUME NEW i \in 1..Len(q), q[i].do \in Replacing, q[i].on \in WorkFiles
        PROVE  /\ k.read = Held(q[i].on) /\ Held(q[i].on) # Torn
               /\ OwnWork(j, q[i].on, Held(q[i].on), q[i].value)
    <3>1. q[i].on = n /\ OwnWork(j, n, v, q[i].value)
      BY <2>1, <2>3 DEF Ensues, Puts
    <3> QED
      BY <2>1, <3>1
  <2>4. ASSUME NEW i \in 1..Len(q), q[i].do \in {"append", "write"}
        PROVE  q[i].value = 0 \/ q[i].value \in Tokens("events", Held("events"))
    <3>1. q[i].value = 0 \/ (n = "events" /\ q[i].value \in Tokens(n, v))
      BY <2>1, <2>4 DEF Ensues
    <3> QED
      BY <3>1
  <2> HIDE DEF n, v
  <2> QED
    BY <2>2, <2>3, <2>4 DEF StepsFrom
<1>7. CASE HasKey(c)
  <2>1. PICK q \in {ReadOf("events"), ReadOf("preflights")} : Went(c, q, j.bad)
    BY <1>7 DEF HasKey
  <2>2. k.at = q
    BY <1>2, <2>1
  <2>3. \A i \in 1..Len(q) : q[i].do = "read"
    BY <2>1, NoWrites
  <2> QED
    BY <1>4, <2>2, <2>3
<1>8. CASE HasSalt(c)
  <2>1. PICK q \in {<<Task("fill", "salt", j.id), Task("key", "salt", Absent)>>, <<Task("key", "salt", Absent)>>} : Went(c, q, j.bad)
    BY <1>8 DEF HasSalt
  <2>2. k.at = q
    BY <1>2, <2>1
  <2>3. \A i \in 1..Len(q) : q[i].do \in {"fill", "key"} /\ q[i].on = "salt"
    BY <2>1, SaltSteps
  <2>4. "salt" \notin WorkFiles
    BY DEF WorkFiles
  <2> QED
    BY <2>2, <2>3, <2>4 DEF StepsFrom
<1> QED
  BY <1>1, <1>3, <1>5, <1>6, <1>7, <1>8, Ways
-----------------------------------------------------------------------------
(* What a step leaves alone.                                               *)

LEMMA WritingNow ==
  ASSUME Shape, WritesFine, NEW c \in Caller, ~Free(c), Current(job[c]).do \in Replacing, On(c) \in WorkFiles
  PROVE  /\ Writing(job[c], On(c), Current(job[c]).value)
         /\ job[c].kind \in Writers(On(c)) /\ On(c) \in Files(job[c].kind)
<1>1. Current(job[c]) = job[c].at[1] /\ 1 \in 1..Len(job[c].at) /\ On(c) = Current(job[c]).on
  BY AtWork DEF On
<1>2. Writing(job[c], On(c), Current(job[c]).value)
  BY <1>1 DEF WritesFine
<1>3. job[c].kind \in Writers(On(c))
  BY <1>2 DEF Writing
<1> QED
  BY <1>2, <1>3, KindFiles

LEMMA EraseNow ==
  ASSUME Shape, Erasings, NEW c \in Caller, EraseFile(c)
  PROVE  job[c].kind = "erase" /\ On(c) \in EraseFiles /\ EraseFiles = Files("erase")
<1>1. CallDoes(c, "unlink") /\ ~Free(c)
  BY DEF EraseFile, CallDoes
<1>2. Current(job[c]) = job[c].at[1] /\ 1 \in 1..Len(job[c].at) /\ On(c) = Current(job[c]).on /\ StepOK(job[c], Current(job[c]))
  BY <1>1, AtWork DEF On
<1>3. job[c].kind = "erase"
  BY <1>1, <1>2 DEF StepOK, CallDoes
<1>4. ErasePlan(job[c].at)
  BY <1>3 DEF Erasings
<1>5. On(c) \in EraseFiles
  BY <1>2, <1>4 DEF ErasePlan
<1> QED
  BY <1>3, <1>5 DEF EraseFiles, Files

LEMMA DropNow ==
  ASSUME Shape, NEW c \in Caller, Drop(c)
  PROVE  On(c) \in Report /\ On(c) \notin WorkFiles /\ job[c].kind = "scan"
<1>1. CallDoes(c, "drop") /\ ~Free(c)
  BY DEF Drop, CallDoes
<1>2. StepOK(job[c], Current(job[c]))
  BY <1>1, AtWork
<1>3. On(c) \in Report
  BY <1>1, <1>2 DEF StepOK, CallDoes, On
<1> QED
  BY <1>1, <1>2, <1>3, WorkNames DEF StepOK, CallDoes, On, ScanFiles

LEMMA LeftAlone ==
  ASSUME Shape, Erasings, WritesFine, TempsFine, NEW c \in Caller, Moving(c),
         NEW n \in WorkFiles, n \notin Files(job[c].kind)
  PROVE  /\ \A p \in Place \cup Scratch : p[1] = n => slot'[p] = slot[p]
         /\ \A d \in Caller \ {c} : opened[d] # Absent /\ opened[d][1] = n => opened'[d] = opened[d]
<1>1. n \in Names /\ PlaceOf(n) \in Place /\ PlaceOf(n)[1] = n /\ n # "salt" /\ n \notin Report
  BY WorkNames
<1>2. ASSUME CallDoes(c, "open") \/ CallDoes(c, "fill") \/ CallDoes(c, "rename") PROVE On(c) # n
  <2>1. ~Free(c) /\ Current(job[c]).do \in Replacing
    BY <1>2 DEF CallDoes, Replacing
  <2> QED
    BY <2>1, WritingNow
<1>3. CASE Quiet(c)
  BY <1>3, QuietFacts
<1>4. CASE OpenTemporary(c)
  <2>1. PICK t \in Scratch : /\ CallDoes(c, "open") /\ t[1] = On(c)
                             /\ \A d \in Caller \ {c} : opened'[d] = opened[d]
                             /\ \A o \in Place \cup Scratch : o # t => slot'[o] = slot[o]
    BY <1>4, OpenFacts
  <2>2. t[1] # n
    BY <1>2, <2>1
  <2> QED
    BY <2>1, <2>2
<1>5. CASE Fill(c)
  <2>1. /\ CallDoes(c, "fill") /\ \A d \in Caller \ {c} : opened'[d] = opened[d]
        /\ opened[c] # Absent => opened[c][1] = On(c)
        /\ \A o \in Place \cup Scratch : o # opened[c] => slot'[o] = slot[o]
    BY <1>5, FillFacts
  <2>2. \A p \in Place \cup Scratch : p # Absent
    BY Places
  <2>3. On(c) # n
    BY <1>2, <2>1
  <2> QED
    BY <2>1, <2>2, <2>3
<1>6. CASE PutInPlace(c) /\ slot[job[c].tmp] # Absent
  <2> DEFINE t == job[c].tmp
             p == PlaceOf(On(c))
  <2>1. /\ CallDoes(c, "rename") /\ t[1] = On(c) /\ On(c) \in Names
        /\ \A o \in Place \cup Scratch : o \notin {p, t} => slot'[o] = slot[o]
        /\ opened' = [d \in Caller |-> IF opened[d] = t THEN p ELSE IF opened[d] = p THEN Absent ELSE opened[d]]
    BY <1>6, RenameDone
  <2>2. On(c) # n /\ p[1] = On(c)
    BY <1>2, <2>1, Places
  <2> HIDE DEF t, p
  <2>3. ASSUME NEW d \in Caller \ {c}, opened[d] # Absent, opened[d][1] = n PROVE opened'[d] = opened[d]
    BY <2>1, <2>2, <2>3
  <2> QED
    BY <2>1, <2>2, <2>3
<1>7. CASE PutInPlace(c) /\ slot[job[c].tmp] = Absent
  BY <1>7 DEF PutInPlace
<1>8. CASE Removes(c)
  <2> DEFINE p == PlaceOf(On(c))
  <2>1. /\ On(c) \in Names /\ \A o \in Place \cup Scratch : o # p => slot'[o] = slot[o]
        /\ opened' = [d \in Caller |-> IF opened[d] = p THEN Absent ELSE opened[d]]
    BY <1>8, RemoveFacts
  <2>2. On(c) # n
    <3>1. CASE Drop(c)
      BY <3>1, DropNow
    <3>2. CASE EraseFile(c)
      BY <3>2, EraseNow
    <3> QED
      BY <1>8, <3>1, <3>2 DEF Removes
  <2>3. p[1] = On(c)
    BY <2>1, Places
  <2> HIDE DEF p
  <2> QED
    BY <2>1, <2>2, <2>3
<1>9. CASE EraseFile(c) /\ ~Removes(c)
  <2>1. slot[PlaceOf(On(c))] = Absent
    BY <1>9 DEF Removes, Held
  <2> QED
    BY <1>9, <2>1 DEF EraseFile
<1>10. CASE Salt(c)
  <2>1. \/ UNCHANGED <<slot, opened>>
        \/ /\ \A o \in Place \cup Scratch : o # PlaceOf("salt") => slot'[o] = slot[o]
           /\ \A d \in Caller \ {c} : opened'[d] = opened[d]
    BY <1>10, SaltFacts
  <2>2. PlaceOf("salt")[1] = "salt"
    BY SaltThere
  <2> QED
    BY <1>1, <2>1, <2>2
<1>11. CASE OpenEvents(c) \/ WriteEvent(c)
  <2>1. /\ \A o \in Place \cup Scratch : o # PlaceOf("events") => slot'[o] = slot[o]
        /\ \A d \in Caller \ {c} : opened'[d] = opened[d]
        /\ job[c].kind \in {"prompt", "stop"}
    <3>1. CASE OpenEvents(c)
      <4>1. StepOK(job[c], Current(job[c])) /\ CallDoes(c, "append")
        BY <3>1, EventsFacts, AtWork
      <4>2. job[c].kind \in {"prompt", "stop"}
        BY <4>1 DEF StepOK, CallDoes
      <4>3. \A d \in Caller \ {c} : opened'[d] = opened[d]
        <5>1. opened' = [opened EXCEPT ![c] = PlaceOf("events")] /\ opened \in [Caller -> Place \cup Scratch \cup {Absent}]
          BY <3>1, EventsFacts, OpenedTyped
        <5> QED
          BY <5>1
      <4> QED
        BY <3>1, <4>2, <4>3, EventsFacts
    <3>2. CASE WriteEvent(c)
      <4>1. opened' = [opened EXCEPT ![c] = Absent] /\ opened \in [Caller -> Place \cup Scratch \cup {Absent}]
        BY <3>2, WriteFacts, OpenedTyped
      <4>2. \A d \in Caller \ {c} : opened'[d] = opened[d]
        BY <4>1
      <4> QED
        BY <3>2, <4>2, WriteFacts
    <3> QED
      BY <1>11, <3>1, <3>2
  <2>2. n # "events"
    BY <2>1, KindFiles
  <2>3. PlaceOf("events")[1] = "events"
    BY SaltThere
  <2> QED
    BY <2>1, <2>2, <2>3
<1>12. CASE Cut(c)
  <2>1. /\ \A p \in Place : slot'[p] = slot[p]
        /\ \A t \in Scratch : slot'[t] # slot[t] => job[c].tmp = t
        /\ \A d \in Caller \ {c} : opened'[d] = opened[d]
    <3>1. slot' = Left(c) /\ opened' = [opened EXCEPT ![c] = Absent]
      BY <1>12, CutFacts
    <3> QED
      BY <3>1, LeftFacts
  <2>2. ASSUME NEW t \in Scratch, t[1] = n, job[c].tmp = t PROVE FALSE
    <3>1. t # Absent
      BY Places
    <3>2. job[c].kind \in Writers(n)
      BY <2>2, <3>1 DEF TempsFine
    <3> QED
      BY <3>2, KindFiles
  <2> QED
    BY <2>1, <2>2
<1> QED
  BY <1>3, <1>4, <1>5, <1>6, <1>7, <1>8, <1>9, <1>10, <1>11, <1>12 DEF Moving, Quiet, Cut, Removes
-----------------------------------------------------------------------------
(* How the work of a call comes into the file.                             *)

(* The call goes on, or ends: its work is in the files, or still to come;  *)
(* and where a failure must leave nothing, the last step is the one that   *)
(* puts it there.                                                          *)
Goes(c, q, b) ==
    /\ Went(c, q, b)
    /\ ~b => \A n \in Work(job[c].kind) :
                Due(q, n) \/ slot'[PlaceOf(n)] = Torn \/ job[c].id \in Tokens(n, slot'[PlaceOf(n)])
    /\ job[c].kind \in Failing /\ (b \/ q # <<>>) => Unmoved

LEMMA FillStill ==
  ASSUME Shape, NEW c \in Caller, Fill(c), On(c) \in WorkFiles => opened[c] = job[c].tmp
  PROVE  Unmoved
<1>1. /\ opened[c] # Absent => opened[c][1] = On(c)
      /\ \A o \in Place \cup Scratch : o # opened[c] => slot'[o] = slot[o]
  BY FillFacts
<1>2. On(c) # "salt" => job[c].tmp \in Scratch
  BY FillFacts
<1>3. ASSUME NEW n \in WorkFiles PROVE slot'[PlaceOf(n)] = slot[PlaceOf(n)]
  <2>1. PlaceOf(n) \in Place /\ PlaceOf(n)[1] = n /\ n # "salt" /\ PlaceOf(n) # Absent /\ PlaceOf(n) \notin Scratch
    BY WorkNames, Places
  <2>2. PlaceOf(n) # opened[c]
    <3>1. CASE On(c) \in WorkFiles
      BY <1>2, <2>1, <3>1, WorkNames
    <3>2. CASE On(c) \notin WorkFiles
      BY <1>1, <2>1, <3>2
    <3> QED
      BY <3>1, <3>2
  <2> QED
    BY <1>1, <2>1, <2>2
<1> QED
  BY <1>3 DEF Unmoved

LEMMA EventStep ==
  ASSUME Shape, NEW c \in Caller, OpenEvents(c) \/ WriteEvent(c)
  PROVE  job[c].kind \in {"prompt", "stop"} /\ On(c) = "events" /\ Current(job[c]).value \in Nat /\ job[c].key # Absent
<1>1. ~Free(c) /\ (CallDoes(c, "append") \/ CallDoes(c, "write"))
  BY EventsFacts, WriteFacts
<1>2. StepOK(job[c], Current(job[c]))
  BY <1>1, AtWork
<1> QED
  BY <1>1, <1>2 DEF StepOK, CallDoes, On

LEMMA WriteDone ==
  ASSUME Shape, NEW c \in Caller, WriteEvent(c), opened[c] = PlaceOf("events")
  PROVE  /\ Held("events") = Torn => slot'[PlaceOf("events")] = Torn
         /\ Held("events") # Torn =>
              LET e == [id |-> job[c].id, kind |-> job[c].kind, of |-> Current(job[c]).value, key |-> job[c].key] IN
              /\ Held("events") \in Seq(Event) /\ e \in Event
              /\ slot'[PlaceOf("events")] = Append(Held("events"), e)
<1>1. PlaceOf("events") \in Place /\ PlaceOf("events") # Absent
  BY SaltThere, Places
<1>2. ASSUME Held("events") = Torn PROVE slot'[PlaceOf("events")] = Torn
  BY <1>2 DEF WriteEvent, Held
<1>3. ASSUME Held("events") # Torn
      PROVE  LET e == [id |-> job[c].id, kind |-> job[c].kind, of |-> Current(job[c]).value, key |-> job[c].key] IN
              /\ Held("events") \in Seq(Event) /\ e \in Event
              /\ slot'[PlaceOf("events")] = Append(Held("events"), e)
  <2> DEFINE e == [id |-> job[c].id, kind |-> job[c].kind, of |-> Current(job[c]).value, key |-> job[c].key]
  <2>1. /\ slot[PlaceOf("events")] \in Seq(Event) /\ e \in Event
        /\ slot' = [slot EXCEPT ![PlaceOf("events")] = Append(slot[PlaceOf("events")], e)]
    BY <1>1, <1>3, EventWritten DEF Held
  <2>2. slot \in [Place \cup Scratch -> AnyValue]
    BY DEF Shape, Typed
  <2> HIDE DEF e
  <2>3. slot'[PlaceOf("events")] = Append(slot[PlaceOf("events")], e)
    BY <1>1, <2>1, <2>2
  <2> QED
    BY <2>1, <2>3 DEF Held, e
<1> QED
  BY <1>2, <1>3

LEMMA Appended ==
  ASSUME NEW v \in Seq(Event), NEW e \in Event
  PROVE  /\ Append(v, e) \in Seq(Event) /\ Items(Append(v, e)) = Items(v) \cup {e}
         /\ Tokens("events", Append(v, e)) = Tokens("events", v) \cup {e.id}
<1> DEFINE w == Append(v, e)
<1>1. w \in Seq(Event) /\ Len(w) = Len(v) + 1 /\ w[Len(v) + 1] = e /\ \A i \in 1..Len(v) : w[i] = v[i]
  OBVIOUS
<1>2. Items(v) = {v[i] : i \in 1..Len(v)}
  BY ItemsOf
<1> HIDE DEF w
<1>3. Items(w) = {w[i] : i \in 1..Len(w)}
  BY <1>1, ItemsOf
<1>4. Len(v) \in Nat
  OBVIOUS
<1>5. Items(w) = Items(v) \cup {e}
  <2>1. ASSUME NEW x \in Items(w) PROVE x \in Items(v) \cup {e}
    <3>1. PICK i \in 1..Len(w) : x = w[i]
      BY <1>3, <2>1
    <3>2. CASE i = Len(v) + 1
      BY <1>1, <3>1, <3>2
    <3>3. CASE i # Len(v) + 1
      <4>1. i \in 1..Len(v)
        BY <1>1, <1>4, <3>1, <3>3
      <4> QED
        BY <1>1, <1>2, <3>1, <4>1
    <3> QED
      BY <3>2, <3>3
  <2>2. ASSUME NEW x \in Items(v) PROVE x \in Items(w)
    <3>1. PICK i \in 1..Len(v) : x = v[i]
      BY <1>2, <2>2
    <3>2. i \in 1..Len(w) /\ w[i] = x
      BY <1>1, <1>4, <3>1
    <3> QED
      BY <1>3, <3>2
  <2>3. Len(v) + 1 \in 1..Len(w)
    BY <1>1, <1>4
  <2>4. e \in Items(w)
    BY <1>1, <1>3, <2>3
  <2> QED
    BY <2>1, <2>2, <2>4
<1>6. Tokens("events", w) = {x.id : x \in Items(w)} /\ Tokens("events", v) = {x.id : x \in Items(v)}
  BY <1>1, TokensOf
<1>7. Tokens("events", w) = Tokens("events", v) \cup {e.id}
  BY <1>5, <1>6
<1> QED
  BY <1>1, <1>5, <1>7 DEF w
(* One step of a call that nobody has run beside.                          *)
LEMMA OnwardGoes ==
  ASSUME Shape, Plans, WritesFine, Erasings, NEW c \in Caller, Lone(c), WentOn(c)
  PROVE  Goes(c, Tail(job[c].at), job[c].bad)
<1> DEFINE j == job[c]
           q == Tail(j.at)
           Then(n) == slot'[PlaceOf(n)]
<1>0. ~Free(c)
  BY DEF WentOn, Onward, OpenTemporary, Fill, OpenEvents, WriteEvent, Removes, Drop, EraseFile, PutInPlace, CheckReviewed, CallDoes
<1>1. /\ Went(c, q, j.bad) /\ j.at \in Seq(TaskType) /\ j.at # <<>> /\ Current(j) = j.at[1] /\ On(c) = j.at[1].on
      /\ StepOK(j, Current(j)) /\ 1 \in 1..Len(j.at)
  BY <1>0, AtWork DEF WentOn, Free, On
<1>2. ~j.bad => \A n \in Work(j.kind) : Due(j.at, n) \/ Held(n) = Torn \/ j.id \in Tokens(n, Held(n))
  BY DEF Lone
<1>3. Work(j.kind) \subseteq WorkFiles
  BY WorkNames
<1>4. ASSUME NEW n, Due(j.at, n), j.at[1].do \notin {"salt", "key", "read", "refuse"},
             j.at[1].do \in {"rename", "write"} => j.at[1].on # n
      PROVE  Due(q, n)
  BY <1>1, <1>4, DueTail
<1>5. ASSUME Unmoved, j.at[1].do \notin {"salt", "key", "read", "refuse", "rename", "write"} PROVE Goes(c, q, j.bad)
  <2>1. ASSUME NEW n \in Work(j.kind), ~j.bad PROVE Due(q, n) \/ Then(n) = Torn \/ j.id \in Tokens(n, Then(n))
    <3>1. Then(n) = Held(n)
      BY <1>3, <1>5 DEF Unmoved, Held
    <3>2. Due(j.at, n) => Due(q, n)
      BY <1>4, <1>5
    <3> QED
      BY <1>2, <2>1, <3>1, <3>2
  <2> QED
    BY <1>1, <1>5, <2>1 DEF Goes
<1>6. ASSUME Work(j.kind) = {}, j.kind \notin Failing PROVE Goes(c, q, j.bad)
  BY <1>1, <1>6 DEF Goes
<1>7. CASE OpenTemporary(c)
  <2>1. PICK t \in Scratch : CallDoes(c, "open") /\ \A o \in Place \cup Scratch : o # t => slot'[o] = slot[o]
    BY <1>7, OpenFacts
  <2>2. Unmoved
    <3>1. ASSUME NEW n \in WorkFiles PROVE slot'[PlaceOf(n)] = slot[PlaceOf(n)]
      BY <2>1, WorkNames, Places
    <3> QED
      BY <3>1 DEF Unmoved
  <2>3. j.at[1].do = "open"
    BY <1>1, <2>1 DEF CallDoes
  <2> QED
    BY <1>5, <2>2, <2>3
<1>8. CASE Fill(c)
  <2>1. CallDoes(c, "fill")
    BY <1>8, FillFacts
  <2>2. Unmoved
    BY <1>8, <2>1, FillStill DEF Lone
  <2>3. j.at[1].do = "fill"
    BY <1>1, <2>1 DEF CallDoes
  <2> QED
    BY <1>5, <2>2, <2>3
<1>9. CASE PutInPlace(c) /\ slot[j.tmp] # Absent
  <2> DEFINE m == On(c)
             t == j.tmp
  <2>1. /\ CallDoes(c, "rename") /\ t \in Scratch /\ m \in Names /\ Then(m) = slot[t]
        /\ \A o \in Place \cup Scratch : o \notin {PlaceOf(m), t} => slot'[o] = slot[o]
    BY <1>9, RenameDone
  <2>2. j.at[1].do = "rename" /\ j.at[1].on = m
    BY <1>1, <2>1 DEF CallDoes
  <2>3. ASSUME NEW n \in WorkFiles, n # m PROVE Then(n) = Held(n)
    <3>1. PlaceOf(n) \in Place /\ PlaceOf(n) \notin Scratch /\ PlaceOf(n) # PlaceOf(m)
      BY <2>1, <2>3, WorkNames, Places
    <3> QED
      BY <2>1, <3>1 DEF Held
  <2>4. ASSUME m \in WorkFiles, m \in Work(j.kind) PROVE j.id \in Tokens(m, Then(m))
    <3>1. slot[t] = Current(j).value
      BY <2>1, <2>4 DEF Lone
    <3>2. Current(j).do \in Replacing
      BY <1>1, <2>2 DEF Replacing
    <3>3. Writing(j, m, Current(j).value)
      BY <1>0, <2>4, <3>2, WritingNow
    <3> QED
      BY <2>1, <2>4, <3>1, <3>3 DEF Writing
  <2>5. ASSUME NEW n \in Work(j.kind), ~j.bad PROVE Due(q, n) \/ Then(n) = Torn \/ j.id \in Tokens(n, Then(n))
    <3>1. CASE n = m
      BY <1>3, <2>4, <3>1
    <3>2. CASE n # m
      <4>1. Then(n) = Held(n)
        BY <1>3, <2>3, <3>2
      <4>2. Due(j.at, n) => Due(q, n)
        BY <1>4, <2>2, <3>2
      <4> QED
        BY <1>2, <2>5, <4>1, <4>2
    <3> QED
      BY <3>1, <3>2
  <2>6. ASSUME j.kind \in Failing, j.bad \/ q # <<>> PROVE Unmoved
    <3>1. Plan(j, j.at, j.bad)
      BY DEF Plans
    <3>2. ~j.bad
      BY <2>6, <3>1, KindFiles DEF Plan
    <3>3. 1 = Len(j.at)
      BY <1>1, <2>2, <2>6, <3>1 DEF Plan
    <3>4. q = <<>>
      <4>1. q \in Seq(TaskType) /\ Len(q) = 0
        BY <1>1, <3>3, TailOf
      <4> HIDE DEF q
      <4> QED
        BY <4>1
    <3> QED
      BY <2>6, <3>2, <3>4
  <2> QED
    BY <1>1, <2>5, <2>6 DEF Goes
<1>10. CASE Removes(c)
  <2>1. j.kind \in {"scan", "erase"}
    BY <1>10, DropNow, EraseNow DEF Removes
  <2> QED
    BY <1>6, <2>1, KindFiles
<1>11. CASE CheckReviewed(c)
  <2>1. CallDoes(c, "check")
    BY <1>11 DEF CheckReviewed
  <2>2. j.kind = "erase"
    BY <1>1, <2>1 DEF StepOK, CallDoes
  <2> QED
    BY <1>6, <2>2, KindFiles
<1>12. CASE OpenEvents(c)
  <2>1. /\ CallDoes(c, "append") /\ Then("events") = (IF Held("events") = Absent THEN <<>> ELSE Held("events"))
        /\ \A o \in Place \cup Scratch : o # PlaceOf("events") => slot'[o] = slot[o]
    BY <1>12, EventsFacts
  <2>2. j.at[1].do = "append" /\ j.kind \notin Failing
    BY <1>1, <1>12, <2>1, EventStep, KindFiles DEF CallDoes
  <2>3. ASSUME NEW n \in Work(j.kind), ~j.bad PROVE Due(q, n) \/ Then(n) = Torn \/ j.id \in Tokens(n, Then(n))
    <3>1. Then(n) = Held(n) \/ Held(n) = Absent
      <4>1. CASE n = "events"
        BY <2>1, <4>1
      <4>2. CASE n # "events"
        <5>1. PlaceOf(n) \in Place /\ PlaceOf(n) # PlaceOf("events")
          BY <1>3, <4>2, WorkNames, Places, SaltThere
        <5> QED
          BY <2>1, <5>1 DEF Held
      <4> QED
        BY <4>1, <4>2
    <3>2. Due(j.at, n) => Due(q, n)
      BY <1>4, <2>2
    <3>3. Held(n) = Absent => Held(n) # Torn /\ Tokens(n, Held(n)) = {}
      BY TokensOf, Constants
    <3> QED
      BY <1>2, <2>3, <3>1, <3>2, <3>3
  <2> QED
    BY <1>1, <2>2, <2>3 DEF Goes
<1>13. CASE WriteEvent(c)
  <2>1. /\ CallDoes(c, "write") /\ \A o \in Place \cup Scratch : o # PlaceOf("events") => slot'[o] = slot[o]
    BY <1>13, WriteFacts
  <2>2. j.at[1].do = "write" /\ j.at[1].on = "events" /\ j.kind \notin Failing
    BY <1>1, <1>13, <2>1, EventStep, KindFiles DEF CallDoes
  <2>3. opened[c] = PlaceOf("events")
    BY <2>1 DEF Lone
  <2>4. ASSUME NEW n \in Work(j.kind), ~j.bad PROVE Due(q, n) \/ Then(n) = Torn \/ j.id \in Tokens(n, Then(n))
    <3>1. CASE n = "events"
      <4>1. CASE Held("events") = Torn
        BY <1>13, <2>3, <3>1, <4>1, WriteDone
      <4>2. CASE Held("events") # Torn
        <5> DEFINE e == [id |-> j.id, kind |-> j.kind, of |-> Current(j).value, key |-> j.key]
        <5>1. Held("events") \in Seq(Event) /\ e \in Event /\ Then("events") = Append(Held("events"), e) /\ e.id = j.id
          BY <1>13, <2>3, <4>2, WriteDone
        <5> HIDE DEF e
        <5>2. j.id \in Tokens("events", Then("events"))
          BY <5>1, Appended
        <5> QED
          BY <3>1, <5>2
      <4> QED
        BY <4>1, <4>2
    <3>2. CASE n # "events"
      <4>1. PlaceOf(n) \in Place /\ PlaceOf(n) # PlaceOf("events")
        BY <1>3, <3>2, WorkNames, Places, SaltThere
      <4>2. Then(n) = Held(n)
        BY <2>1, <4>1 DEF Held
      <4>3. Due(j.at, n) => Due(q, n)
        BY <1>4, <2>2, <3>2
      <4> QED
        BY <1>2, <2>4, <4>2, <4>3
    <3> QED
      BY <3>1, <3>2
  <2> QED
    BY <1>1, <2>2, <2>4 DEF Goes
<1> QED
  BY <1>7, <1>8, <1>9, <1>10, <1>11, <1>12, <1>13 DEF WentOn, Onward

LEMMA GoesMove ==
  ASSUME Shape, Plans, WritesFine, Erasings, NEW c \in Caller, Moving(c), ~CallerDies(c), Lone(c)
  PROVE  \E q, b : Goes(c, q, b)
<1> DEFINE j == job[c]
<1>1. CASE WentOn(c)
  BY <1>1, OnwardGoes
<1>2. CASE WentWrong(c)
  <2>1. PICK q : Went(c, q, TRUE)
    BY <1>2 DEF WentWrong
  <2>2. Goes(c, q, TRUE)
    BY <1>2, <2>1 DEF WentWrong, Goes
  <2> QED
    BY <2>2
<1>3. CASE HasRead(c)
  <2>1. PICK q : Went(c, q, j.bad) /\ Ensues(q, j, On(c), Held(On(c)))
    BY <1>3 DEF HasRead
  <2>2. Unmoved /\ (~j.bad => \A n \in Work(j.kind) : Due(q, n))
    BY <1>3, <2>1 DEF HasRead, Ensues
  <2>3. Goes(c, q, j.bad)
    BY <2>1, <2>2 DEF Goes
  <2> QED
    BY <2>3
<1>4. CASE HasKey(c)
  <2>1. PICK q \in {ReadOf("events"), ReadOf("preflights")} : Went(c, q, j.bad)
    BY <1>4 DEF HasKey
  <2>2. \A n : Due(q, n)
    <3>1. \A m : Due(ReadOf("events"), m) /\ Due(ReadOf("preflights"), m)
      <4> DEFINE k == [NoJob EXCEPT !.kind = "stop"]
      <4>1. k.kind = "stop"
        BY DEF NoJob
      <4> HIDE DEF k
      <4>2. \A n : \A m : Due(ReadOf(n), m)
        BY <4>1, ShortPlans
      <4> QED
        BY <4>2
    <3> QED
      BY <2>1, <3>1
  <2>3. Goes(c, q, j.bad)
    BY <1>4, <2>1, <2>2 DEF Goes, HasKey
  <2> QED
    BY <2>3
<1>5. CASE HasSalt(c)
  <2>1. PICK q \in {<<Task("fill", "salt", j.id), Task("key", "salt", Absent)>>, <<Task("key", "salt", Absent)>>} : Went(c, q, j.bad)
    BY <1>5 DEF HasSalt
  <2>2. \A n : Due(q, n)
    BY <2>1, SaltSteps
  <2>3. Goes(c, q, j.bad)
    BY <1>5, <2>1, <2>2 DEF Goes, HasSalt
  <2> QED
    BY <2>3
<1> QED
  BY <1>1, <1>2, <1>3, <1>4, <1>5, Ways
-----------------------------------------------------------------------------
(* What is known of the calls that ended.                                  *)

LEMMA DoneMove ==
  ASSUME Shape, Plans, NEW c \in Caller, Moving(c)
  PROVE  \/ done' = done
         \/ /\ job'[c] = NoJob
            /\ \E a \in {"ok", "failed"} :
                 done' = done \cup {[id |-> job[c].id, kind |-> job[c].kind, answer |-> a, alone |-> c \notin met]}
<1>1. CASE CallerDies(c)
  BY <1>1 DEF CallerDies
<1>2. CASE ~CallerDies(c)
  <2>1. PICK q, b : Went(c, q, b)
    BY <1>2, Ways DEF WentOn, WentWrong, HasRead, HasKey, HasSalt
  <2> QED
    BY <2>1 DEF Went
<1> QED
  BY <1>1, <1>2

(* A delivery is closed by the step that writes the stop, and no other.    *)
LEMMA ShutMove ==
  ASSUME Shape, Plans, NEW c \in Caller, Moving(c)
  PROVE  \/ Shut' = Shut
         \/ /\ WriteEvent(c) /\ c \notin met /\ job'[c] = NoJob /\ opened[c] = PlaceOf("events")
            /\ Held("events") # Torn /\ Shut' = Shut \cup {Current(job[c]).value}
<1>1. ASSUME \A w : w[1] = "closed" => (w \in notes' <=> w \in notes) PROVE Shut' = Shut
  BY <1>1 DEF Shut
<1>2. ASSUME NEW S, notes' = notes \cup S, \A w \in S : w[1] # "closed" PROVE Shut' = Shut
  BY <1>1, <1>2
<1>3. CASE Quiet(c) \/ Fill(c) \/ PutInPlace(c) \/ Drop(c) \/ Salt(c) \/ OpenEvents(c)
  <2>1. notes' = notes
    BY <1>3, QuietFacts DEF Fill, PutInPlace, Drop, Salt, OpenEvents
  <2> QED
    BY <1>1, <2>1
<1>4. CASE OpenTemporary(c)
  <2> DEFINE T == {<<"collision", 0>>}
  <2>1. notes' = notes \/ notes' = notes \cup T
    BY <1>4 DEF OpenTemporary
  <2>2. \A w \in T : w[1] # "closed"
    OBVIOUS
  <2> HIDE DEF T
  <2>3. CASE notes' = notes
    BY <1>1, <2>3
  <2>4. CASE notes' = notes \cup T
    BY <1>2, <2>2, <2>4
  <2> QED
    BY <2>1, <2>3, <2>4
<1>5. CASE Cut(c)
  <2> DEFINE T == {<<"trouble", 0>>}
  <2>1. notes' = notes \cup T
    BY <1>5, CutFacts
  <2>2. \A w \in T : w[1] # "closed"
    OBVIOUS
  <2> HIDE DEF T
  <2> QED
    BY <1>2, <2>1, <2>2
<1>6. CASE EraseFile(c)
  <2> DEFINE n == On(c)
             lost == Tokens(n, slot[PlaceOf(n)])
             viewed == Tokens(n, Current(job[c]).value)
             A == IF n = "salt" THEN {<<"unsalted", job[c].id>>} ELSE {}
             B == {"erased"} \X {n} \X lost
             D == {"unseen"} \X (lost \ viewed)
             S == A \cup (IF c \in met THEN {} ELSE B \cup D)
  <2>1. notes' = notes \/ notes' = notes \cup A \cup (IF c \in met THEN {} ELSE B \cup D)
    BY <1>6 DEF EraseFile
  <2>2. \A w \in A : w[1] # "closed"
    OBVIOUS
  <2>3. \A w \in B : w[1] # "closed"
    OBVIOUS
  <2>4. \A w \in D : w[1] # "closed"
    OBVIOUS
  <2> HIDE DEF A, B, D
  <2>5. \A w \in S : w[1] # "closed"
    BY <2>2, <2>3, <2>4
  <2>6. notes' = notes \/ notes' = notes \cup S
    BY <2>1
  <2> HIDE DEF S
  <2> QED
    BY <1>1, <1>2, <2>5, <2>6
<1>7. CASE WriteEvent(c)
  <2> DEFINE j == job[c]
             of == Current(j).value
             lost == opened[c] = Absent \/ slot[opened[c]] = Torn
             K == {<<"key", j.key>>}
  <2>1. notes' = notes \cup K \cup (IF lost \/ c \in met THEN {} ELSE {<<"closed", of>>})
    BY <1>7 DEF WriteEvent
  <2>2. \A w \in K : w[1] # "closed"
    OBVIOUS
  <2> HIDE DEF K
  <2>3. CASE lost \/ c \in met
    <3>1. notes' = notes \cup K
      BY <2>1, <2>3
    <3> QED
      BY <1>2, <2>2, <3>1
  <2>4. CASE ~(lost \/ c \in met)
    <3>1. notes' = notes \cup K \cup {<<"closed", of>>}
      BY <2>1, <2>4
    <3>2. Shut' = Shut \cup {of}
      <4>1. ASSUME NEW x \in Shut' PROVE x \in Shut \cup {of}
        <5>1. PICK w \in notes' : w[1] = "closed" /\ x = w[2]
          BY <4>1 DEF Shut
        <5>2. w \in notes \/ w = <<"closed", of>>
          BY <2>2, <3>1, <5>1
        <5> QED
          BY <5>1, <5>2 DEF Shut
      <4>2. ASSUME NEW x \in Shut PROVE x \in Shut'
        <5>1. PICK w \in notes : w[1] = "closed" /\ x = w[2]
          BY <4>2 DEF Shut
        <5>2. w \in notes'
          BY <3>1, <5>1
        <5> QED
          BY <5>1, <5>2 DEF Shut
      <4>3. of \in Shut'
        <5> DEFINE w == <<"closed", of>>
        <5>1. w \in notes' /\ w[1] = "closed" /\ w[2] = of
          BY <3>1
        <5> HIDE DEF w, of
        <5> QED
          BY <5>1 DEF Shut
      <4> QED
        BY <4>1, <4>2, <4>3
    <3>3. opened[c] = PlaceOf("events")
      BY <1>7, <2>4, EventWritten
    <3>4. job'[c] = NoJob
      <4>1. CallDoes(c, "write") /\ Continue(c) /\ ~Free(c)
        BY <1>7, WriteFacts
      <4>2. Current(j) = j.at[1] /\ 1 \in 1..Len(j.at) /\ j.at \in Seq(TaskType) /\ j.at # <<>>
        BY <4>1, AtWork DEF Free
      <4>3. Plan(j, j.at, j.bad)
        BY DEF Plans
      <4>4. 1 = Len(j.at)
        BY <4>1, <4>2, <4>3 DEF Plan, CallDoes
      <4> DEFINE q == Tail(j.at)
      <4>5. q \in Seq(TaskType) /\ Len(q) = 0
        BY <4>2, <4>4, TailOf
      <4>6. Went(c, q, j.bad)
        BY <4>1, ContinueWent
      <4> HIDE DEF q
      <4>7. q = <<>>
        BY <4>5
      <4> QED
        BY <4>6, <4>7 DEF Went
    <3> QED
      BY <1>7, <2>4, <3>2, <3>3, <3>4 DEF Held
  <2> QED
    BY <2>3, <2>4
<1> QED
  BY <1>3, <1>4, <1>5, <1>6, <1>7 DEF Moving, Quiet, Cut

LEMMA NewsSame ==
  ASSUME Shape, Plans, NEW c \in Caller, Moving(c), NEW n \in WorkFiles,
         job'[c] # NoJob \/ c \in met \/ n \notin Files(job[c].kind)
  PROVE  Owed(n)' = Owed(n) /\ Void(n)' = Void(n) /\ (n = "events" => Shut' = Shut)
<1>0. job[c].kind \in Kind \ {"none"} /\ ~Free(c)
  <2>1. ~Free(c) /\ topic \in DOMAIN Kinds
    BY MovingMoves DEF Shape, Typed
  <2>2. job[c].kind \in Kinds[topic]
    BY <2>1 DEF Shape, Jobs
  <2> QED
    BY <2>1, <2>2, KindsOf
<1>1. Owed(n)' = Owed(n) /\ Void(n)' = Void(n)
  <2>1. CASE done' = done
    BY <2>1 DEF Owed, OwedIn, Void, VoidIn
  <2>2. CASE done' # done
    <3>1. PICK a \in {"ok", "failed"} :
             done' = done \cup {[id |-> job[c].id, kind |-> job[c].kind, answer |-> a, alone |-> c \notin met]}
      BY <2>2, DoneMove
    <3>2. job'[c] = NoJob
      BY <2>2, DoneMove
    <3> DEFINE d == [id |-> job[c].id, kind |-> job[c].kind, answer |-> a, alone |-> c \notin met]
    <3>3. ~d.alone \/ n \notin Work(d.kind)
      BY <1>0, <3>2, KindFiles
    <3>4. done' = done \cup {d}
      BY <3>1
    <3> HIDE DEF d
    <3> QED
      BY <3>3, <3>4 DEF Owed, OwedIn, Void, VoidIn
  <2> QED
    BY <2>1, <2>2
<1>2. ASSUME n = "events" PROVE Shut' = Shut
  <2>1. SUFFICES ASSUME Shut' # Shut PROVE FALSE
    OBVIOUS
  <2>2. WriteEvent(c) /\ c \notin met /\ job'[c] = NoJob
    BY <2>1, ShutMove
  <2> QED
    BY <1>2, <2>2, EventStep, KindFiles
<1> QED
  BY <1>1, <1>2
(* What ends with the step of a call that nobody ran beside.               *)
LEMMA NewsLast ==
  ASSUME Shape, Plans, WritesFine, Erasings, Alones, NEW c \in Caller, Moving(c), c \notin met, NEW n \in WorkFiles
  PROVE  /\ \A x \in Owed(n)' : x \in Owed(n) \/ slot'[PlaceOf(n)] = Torn \/ x \in Tokens(n, slot'[PlaceOf(n)])
         /\ \A x \in Void(n)' : x \in Void(n) \/ (x = job[c].id /\ job[c].kind \in Failing /\ n \in Work(job[c].kind) /\ Unmoved)
<1>1. CASE done' = done
  BY <1>1 DEF Owed, OwedIn, Void, VoidIn
<1>2. CASE done' # done
  <2>1. ~CallerDies(c) /\ ~Free(c) /\ Lone(c)
    <3>1. ~Free(c)
      BY MovingMoves
    <3> QED
      BY <1>2, <3>1 DEF CallerDies, Alones
  <2>2. PICK q, b : Goes(c, q, b)
    BY <2>1, GoesMove
  <2> DEFINE d == [id |-> job[c].id, kind |-> job[c].kind, answer |-> IF b THEN "failed" ELSE "ok", alone |-> c \notin met]
  <2>3. q = <<>> /\ done' = done \cup {d}
    BY <1>2, <2>2 DEF Goes, Went
  <2>4. d.id = job[c].id /\ d.kind = job[c].kind /\ d.answer = IF b THEN "failed" ELSE "ok"
    OBVIOUS
  <2> HIDE DEF d
  <2>5. ASSUME NEW x \in Owed(n)' PROVE x \in Owed(n) \/ slot'[PlaceOf(n)] = Torn \/ x \in Tokens(n, slot'[PlaceOf(n)])
    <3>1. PICK a \in done' : a.alone /\ a.answer = "ok" /\ n \in Work(a.kind) /\ x = a.id
      BY <2>5 DEF Owed, OwedIn
    <3>2. CASE a \in done
      BY <3>1, <3>2 DEF Owed, OwedIn
    <3>3. CASE a = d
      <4>1. ~b /\ n \in Work(job[c].kind) /\ x = job[c].id
        BY <2>4, <3>1, <3>3
      <4>2. ~Due(q, n)
        BY <2>3 DEF Due
      <4> QED
        BY <2>2, <4>1, <4>2 DEF Goes
    <3> QED
      BY <2>3, <3>1, <3>2, <3>3
  <2>6. ASSUME NEW x \in Void(n)' 
        PROVE  x \in Void(n) \/ (x = job[c].id /\ job[c].kind \in Failing /\ n \in Work(job[c].kind) /\ Unmoved)
    <3>1. PICK a \in done' : a.alone /\ a.answer = "failed" /\ a.kind \in Failing /\ n \in Work(a.kind) /\ x = a.id
      BY <2>6 DEF Void, VoidIn
    <3>2. CASE a \in done
      BY <3>1, <3>2 DEF Void, VoidIn
    <3>3. CASE a = d
      <4>1. b /\ job[c].kind \in Failing /\ n \in Work(job[c].kind) /\ x = job[c].id
        BY <2>4, <3>1, <3>3
      <4> QED
        BY <2>2, <4>1 DEF Goes
    <3> QED
      BY <2>3, <3>1, <3>2, <3>3
  <2> QED
    BY <2>5, <2>6
<1> QED
  BY <1>1, <1>2

LEMMA RetiredGrows ==
  ASSUME Shape, NEW c \in Caller, Moving(c) PROVE retired \subseteq retired'
<1>1. CASE Quiet(c) \/ OpenTemporary(c) \/ Drop(c) \/ Salt(c) \/ OpenEvents(c) \/ WriteEvent(c) \/ Cut(c)
  <2>1. retired' = retired
    BY <1>1, QuietFacts, CutFacts DEF OpenTemporary, Drop, Salt, OpenEvents, WriteEvent
  <2> QED
    BY <2>1
<1>2. CASE Fill(c)
  BY <1>2 DEF Fill
<1>3. CASE PutInPlace(c)
  BY <1>3 DEF PutInPlace
<1>4. CASE EraseFile(c)
  BY <1>4 DEF EraseFile
<1> QED
  BY <1>1, <1>2, <1>3, <1>4 DEF Moving, Quiet, Cut

(* What a call leaves out of what it puts in place was retired.            *)
LEMMA OwedLeft ==
  ASSUME Shape, WritesFine, NEW c \in Caller, ~Free(c), Current(job[c]).do \in Replacing, On(c) \in WorkFiles,
         retired \cup LeftOut(c) \subseteq retired', NEW x \in Owed(On(c))
  PROVE  x \in Tokens(On(c), Current(job[c]).value) \/ <<On(c), x>> \in retired'
<1> DEFINE n == On(c)
           w == Current(job[c]).value
<1>1. Good(n, x, w) \/ x \in Tokens(n, job[c].read)
  BY WritingNow DEF Writing
<1>2. x \notin Tokens(n, w) /\ x \in Tokens(n, job[c].read) => <<n, x>> \in LeftOut(c)
  BY DEF LeftOut
<1> QED
  BY <1>1, <1>2 DEF Good

(* A value is still fine when little has happened since.                   *)
FineAfter(n, w) ==
    /\ FineIn(n, w, calls, Void(n), Shut)
    /\ w = Torn \/ \A x \in Owed(n) : x \in Tokens(n, w) \/ <<n, x>> \in retired'

LEMMA ContentFine ==
  ASSUME Shape, Erasings, Past, Plans, WritesFine, TempsFine, Filled, InFiles,
         NEW c \in Caller, Moving(c), NEW n \in WorkFiles
  PROVE  FineAfter(n, slot'[PlaceOf(n)])
<1> DEFINE p == PlaceOf(n)
           w == slot'[p]
           j == job[c]
<1>1. n \in Names /\ p \in Place /\ p[1] = n /\ n # "salt" /\ p \notin Scratch /\ p # Absent /\ ~Free(c)
  BY WorkNames, Places, MovingMoves
<1>2. retired \subseteq retired'
  BY RetiredGrows
<1>3. /\ FineIn(n, Held(n), calls, Void(n), Shut)
      /\ Held(n) = Torn \/ \A x \in Owed(n) : Good(n, x, Held(n))
  BY DEF InFiles, Fine, Entire
<1>4. ASSUME w = Held(n) PROVE FineAfter(n, w)
  <2> HIDE DEF w
  <2> QED
    BY <1>2, <1>3, <1>4 DEF FineAfter, Good
<1>5. FineAfter(n, Torn) /\ FineIn(n, Absent, calls, Void(n), Shut)
  BY TokensOf DEF FineAfter, FineIn
<1>6. CASE Quiet(c) \/ OpenTemporary(c) \/ Salt(c) \/ Cut(c) \/ Drop(c)
  <2>1. w = Held(n)
    <3>1. CASE Quiet(c)
      BY <3>1, QuietFacts DEF Held
    <3>2. CASE OpenTemporary(c)
      BY <1>1, <3>2, OpenFacts DEF Held
    <3>3. CASE Salt(c)
      <4>1. p # PlaceOf("salt")
        BY <1>1, SaltThere
      <4> QED
        BY <1>1, <3>3, <4>1, SaltFacts DEF Held
    <3>4. CASE Cut(c)
      <4>1. slot' = Left(c) /\ opened' = [opened EXCEPT ![c] = Absent]
        BY <3>4, CutFacts
      <4> QED
        BY <1>1, <4>1, LeftFacts DEF Held
    <3>5. CASE Drop(c)
      <4>1. On(c) # n /\ On(c) \in Names
        BY <1>1, <3>5, DropNow DEF Names
      <4>2. p # PlaceOf(On(c))
        BY <1>1, <4>1, Places
      <4> QED
        BY <1>1, <3>5, <4>2, RemoveFacts DEF Held, Removes
    <3> QED
      BY <1>6, <3>1, <3>2, <3>3, <3>4, <3>5
  <2> QED
    BY <1>4, <2>1
<1>7. CASE Fill(c)
  <2>1. /\ CallDoes(c, "fill") /\ \A o \in Place \cup Scratch : o # opened[c] => slot'[o] = slot[o]
    BY <1>7, FillFacts
  <2>2. CASE opened[c] # p
    BY <1>1, <1>4, <2>1, <2>2 DEF Held
  <2>3. CASE opened[c] = p
    <3>1. On(c) = n /\ (w = Current(j).value \/ w = Torn)
      BY <1>1, <1>7, <2>3, FillFacts
    <3>2. Current(j).do \in Replacing
      BY <2>1 DEF CallDoes, Replacing
    <3>3. Writing(j, n, Current(j).value)
      BY <1>1, <3>1, <3>2, WritingNow
    <3>4. retired' = retired \cup LeftOut(c)
      BY <1>1, <1>7, <2>3 DEF Fill
    <3>5. CASE w = Current(j).value
      <4>1. \A x \in Owed(n) : x \in Tokens(n, w) \/ <<n, x>> \in retired'
        BY <1>1, <3>1, <3>2, <3>4, <3>5, OwedLeft
      <4> QED
        BY <3>3, <3>5, <4>1 DEF FineAfter, Writing, Fine
    <3>6. CASE w = Torn
      BY <1>5, <3>6
    <3> QED
      BY <3>1, <3>5, <3>6
  <2> QED
    BY <2>2, <2>3
<1>8. CASE PutInPlace(c) /\ slot[j.tmp] = Absent
  BY <1>4, <1>8 DEF PutInPlace, Held
<1>9. CASE PutInPlace(c) /\ slot[j.tmp] # Absent
  <2> DEFINE t == j.tmp
  <2>1. /\ CallDoes(c, "rename") /\ On(c) \in Names /\ t \in Scratch /\ t[1] = On(c) /\ slot'[PlaceOf(On(c))] = slot[t]
        /\ \A o \in Place \cup Scratch : o \notin {PlaceOf(On(c)), t} => slot'[o] = slot[o]
        /\ retired' = retired \cup LeftOut(c)
    BY <1>9, RenameDone
  <2>2. CASE On(c) # n
    <3>1. p # PlaceOf(On(c)) /\ p # t
      BY <1>1, <2>1, <2>2, Places
    <3> QED
      BY <1>1, <1>4, <2>1, <3>1 DEF Held
  <2>3. CASE On(c) = n /\ slot[t] = Torn
    BY <1>5, <2>1, <2>3
  <2>4. CASE On(c) = n /\ slot[t] # Torn
    <3>1. w = slot[t] /\ t # Absent /\ t[1] = n /\ slot[t] \notin {Absent, Torn}
      BY <1>9, <2>1, <2>4, Places
    <3>2. FineIn(n, w, calls, Void(n), Shut)
      <4>1. Fine(n, slot[t])
        BY <3>1 DEF TempsFine
      <4> HIDE DEF w
      <4> QED
        BY <3>1, <4>1 DEF Fine
    <3>3. slot[t] = Current(j).value \/ Entire(n, slot[t])
      BY <2>1, <2>4, <3>1 DEF Filled
    <3>4. Current(j).do \in Replacing
      BY <2>1 DEF CallDoes, Replacing
    <3>5. \A x \in Owed(n) : x \in Tokens(n, w) \/ <<n, x>> \in retired'
      <4>1. CASE slot[t] = Current(j).value
        BY <1>1, <2>1, <2>4, <3>1, <3>4, <4>1, OwedLeft
      <4>2. CASE Entire(n, slot[t])
        <5> HIDE DEF w
        <5> QED
          BY <1>2, <3>1, <4>2 DEF Entire, Good
      <4> QED
        BY <3>3, <4>1, <4>2
    <3> QED
      BY <3>2, <3>5 DEF FineAfter
  <2> QED
    BY <2>2, <2>3, <2>4
<1>10. CASE EraseFile(c)
  <2>1. CASE Held(On(c)) = Absent
    <3>1. slot' = slot
      BY <1>10, <2>1 DEF EraseFile, Held
    <3> QED
      BY <1>4, <3>1 DEF Held
  <2>2. CASE Held(On(c)) # Absent
    <3>1. /\ On(c) \in Names /\ slot'[PlaceOf(On(c))] = Absent
          /\ \A o \in Place \cup Scratch : o # PlaceOf(On(c)) => slot'[o] = slot[o]
      BY <1>10, <2>2, RemoveFacts DEF Removes
    <3>2. CASE On(c) # n
      <4>1. p # PlaceOf(On(c))
        BY <1>1, <3>1, <3>2, Places
      <4> QED
        BY <1>1, <1>4, <3>1, <4>1 DEF Held
    <3>3. CASE On(c) = n
      <4> DEFINE lost == Tokens(n, Held(n))
                 gone == IF Held(n) = Torn THEN 1..calls ELSE lost
      <4>1. retired' = retired \cup ({n} \X gone)
        BY <1>10, <2>2, <3>3 DEF EraseFile, Held
      <4>2. ASSUME NEW x \in Owed(n) PROVE <<n, x>> \in retired'
        <5>1. CASE Held(n) = Torn
          <6>1. PICK d \in done : x = d.id
            BY <4>2 DEF Owed, OwedIn
          <6>2. x \in gone
            BY <5>1, <6>1 DEF Past
          <6> HIDE DEF gone
          <6> QED
            BY <4>1, <6>2
        <5>2. CASE Held(n) # Torn
          <6>1. x \in lost \/ <<n, x>> \in retired
            BY <1>3, <4>2, <5>2 DEF Good
          <6>2. gone = lost
            BY <5>2
          <6> HIDE DEF gone, lost
          <6> QED
            BY <4>1, <6>1, <6>2
        <5> QED
          BY <5>1, <5>2
      <4>3. w = Absent
        BY <3>1, <3>3
      <4> HIDE DEF w
      <4>4. FineAfter(n, w)
        BY <1>5, <4>2, <4>3 DEF FineAfter
      <4> QED
        BY <4>4 DEF w
    <3> QED
      BY <3>2, <3>3
  <2> QED
    BY <2>1, <2>2
<1>11. CASE OpenEvents(c)
  <2>1. /\ slot'[PlaceOf("events")] = (IF Held("events") = Absent THEN <<>> ELSE Held("events"))
        /\ \A o \in Place \cup Scratch : o # PlaceOf("events") => slot'[o] = slot[o]
    BY <1>11, EventsFacts
  <2>2. CASE n # "events"
    <3>1. p # PlaceOf("events")
      BY <1>1, <2>2, SaltThere
    <3> QED
      BY <1>1, <1>4, <2>1, <3>1 DEF Held
  <2>3. CASE n = "events" /\ Held(n) # Absent
    BY <1>4, <2>1, <2>3
  <2>4. CASE n = "events" /\ Held(n) = Absent
    <3>1. w = <<>>
      BY <2>1, <2>4
    <3>2. <<>> \in Seq(Event) /\ Items(<<>>) = {} /\ Tokens("events", <<>>) = {}
      <4>1. <<>> \in Seq(Event)
        OBVIOUS
      <4>2. Items(<<>>) = {}
        BY DEF Items
      <4> QED
        BY <4>1, <4>2, TokensOf
    <3>3. \A x \in Owed(n) : <<n, x>> \in retired
      <4>1. Tokens(n, Held(n)) = {} /\ Held(n) # Torn
        BY <2>4, TokensOf, Constants
      <4> QED
        BY <1>3, <4>1 DEF Good
    <3> HIDE DEF w
    <3>4. FineIn(n, w, calls, Void(n), Shut)
      BY <2>4, <3>1, <3>2 DEF FineIn, Closing
    <3>5. FineAfter(n, w)
      BY <1>2, <3>3, <3>4 DEF FineAfter
    <3> QED
      BY <3>5 DEF w
  <2> QED
    BY <2>2, <2>3, <2>4
<1>12. CASE WriteEvent(c)
  <2> DEFINE e == [id |-> j.id, kind |-> j.kind, of |-> Current(j).value, key |-> j.key]
  <2>1. /\ \A o \in Place \cup Scratch : o # PlaceOf("events") => slot'[o] = slot[o]
        /\ \/ slot'[PlaceOf("events")] = slot[PlaceOf("events")]
           \/ /\ Held("events") \in Seq(Event) /\ e \in Event
              /\ slot'[PlaceOf("events")] = Append(Held("events"), e)
    BY <1>12, WriteFacts
  <2>2. e.id = j.id /\ e.kind = j.kind
    OBVIOUS
  <2> HIDE DEF e
  <2>3. CASE n # "events"
    <3>1. p # PlaceOf("events")
      BY <1>1, <2>3, SaltThere
    <3> QED
      BY <1>1, <1>4, <2>1, <3>1 DEF Held
  <2>4. CASE n = "events" /\ w = Held(n)
    BY <1>4, <2>4
  <2>5. CASE n = "events" /\ w # Held(n)
    <3>1. Held(n) \in Seq(Event) /\ e \in Event /\ w = Append(Held(n), e)
      BY <2>1, <2>5 DEF Held
    <3> HIDE DEF w
    <3>2. w \in Seq(Event) /\ Items(w) = Items(Held(n)) \cup {e} /\ Tokens(n, w) = Tokens(n, Held(n)) \cup {j.id}
      BY <2>2, <2>5, <3>1, Appended
    <3>3. j.id \in 1..calls /\ j.id # 0
      BY <1>1 DEF Shape, Jobs
    <3>4. j.id \notin Void(n) /\ (j.kind = "prompt" => j.id \notin Shut)
      <4>1. j.id \notin Void(n)
        BY DEF Void, VoidIn, Past
      <4> QED
        BY <4>1 DEF Past
    <3>5. Held(n) \notin {Absent, Torn}
      BY <3>1, <2>5, ValueOf, Constants, WorkNames
    <3>6. ASSUME NEW x \in Tokens(n, w) PROVE x \in 0..calls /\ x \notin Void(n)
      <4>1. x \in Tokens(n, Held(n)) \/ x = j.id
        BY <3>2, <3>6
      <4>2. j.id \in 0..calls
        BY <3>3
      <4> QED
        BY <1>3, <3>4, <4>1, <4>2 DEF FineIn
    <3>7. Closing(Held(n), Shut)
      BY <1>3, <2>5, <3>5 DEF FineIn
    <3>8. ASSUME NEW a \in Items(w)
          PROVE  /\ a.id # 0
                 /\ a.kind = "prompt" /\ a.id \in Shut => \E f \in Items(w) : f.kind = "stop" /\ f.of = a.id /\ f.id > a.id
      <4>1. CASE a \in Items(Held(n))
        BY <3>2, <3>7, <4>1 DEF Closing
      <4>2. CASE a = e
        BY <2>2, <3>3, <3>4, <4>2
      <4> QED
        BY <3>2, <4>1, <4>2
    <3>9. Closing(w, Shut)
      BY <3>8 DEF Closing
    <3>10. \A x \in Owed(n) : x \in Tokens(n, w) \/ <<n, x>> \in retired'
      BY <1>2, <1>3, <3>2, <3>5 DEF Good
    <3>11. FineAfter(n, w)
      BY <3>6, <3>9, <3>10 DEF FineAfter, FineIn
    <3> QED
      BY <3>11 DEF w
  <2> QED
    BY <2>3, <2>4, <2>5
<1> QED
  BY <1>6, <1>7, <1>8, <1>9, <1>10, <1>11, <1>12 DEF Moving, Quiet, Cut
-----------------------------------------------------------------------------
(* One step of a call keeps it all.                                        *)

LEMMA JobsAfter ==
  ASSUME Shape, NEW c \in Caller, Moving(c)
  PROVE  /\ \A a \in Caller : Free(a) => job[a] = NoJob /\ job[a].id = 0 /\ job[a].kind = "none"
         /\ \A a \in Caller : ~Free(a) => job[a].id \in 1..calls /\ job[a].id # 0 /\ job[a].kind \in Kind \ {"none"}
         /\ \A a \in Caller \ {c} : job'[a] = job[a]
         /\ job'[c] = NoJob => job'[c].id = 0 /\ job'[c].kind = "none"
         /\ \/ job'[c] = NoJob /\ job'[c].id = 0 /\ job'[c].kind = "none"
            \/ ~Free(c)' /\ job'[c].id = job[c].id /\ job'[c].kind = job[c].kind /\ met' = met
         /\ ~Free(c) /\ calls' = calls
<1>1. NoJob.id = 0 /\ NoJob.kind = "none"
  BY DEF NoJob
<1>2. \A a \in Caller : Free(a) => job[a] = NoJob
  BY DEF Shape, Jobs, CallOK, Free
<1>3. ASSUME NEW a \in Caller, ~Free(a) PROVE job[a].id \in 1..calls /\ job[a].id # 0 /\ job[a].kind \in Kind \ {"none"}
  <2>1. job[a].id \in 1..calls /\ job[a].kind \in Kinds[topic] /\ topic \in DOMAIN Kinds
    BY <1>3 DEF Shape, Jobs, Typed
  <2>2. job[a].id # 0
    BY <2>1
  <2> QED
    BY <2>1, <2>2, KindsOf
<1>4. ~Free(c) /\ Moves(c) /\ calls' = calls
  BY MovingMoves
<1>5. /\ \A d \in Caller \ {c} : job'[d] = job[d]
      /\ job'[c] = NoJob \/ (~Free(c)' /\ job'[c].id = job[c].id /\ job'[c].kind = job[c].kind /\ met' = met)
  BY <1>4, MovesOthers
<1> QED
  BY <1>1, <1>2, <1>3, <1>4, <1>5

(* Whoever shares a file with c has met it.                                *)
LEMMA MetBeside ==
  ASSUME Meetings, NEW c \in Caller, ~Free(c), NEW d \in Caller, d # c, ~Free(d), NEW n, n \in Files(job[d].kind)
  PROVE  c \in met \/ n \notin Files(job[c].kind)
  BY DEF Meetings

LEMMA PastMove ==
  ASSUME Shape, Meetings, Past, Plans, Alones, NEW c \in Caller, Moving(c)
  PROVE  Past'
<1>1. /\ \A a \in Caller : Free(a) => job[a] = NoJob /\ job[a].id = 0 /\ job[a].kind = "none"
      /\ \A a \in Caller : ~Free(a) => job[a].id \in 1..calls /\ job[a].id # 0 /\ job[a].kind \in Kind \ {"none"}
      /\ \A a \in Caller \ {c} : job'[a] = job[a]
      /\ job'[c] = NoJob => job'[c].id = 0 /\ job'[c].kind = "none"
      /\ \/ job'[c] = NoJob /\ job'[c].id = 0 /\ job'[c].kind = "none"
         \/ ~Free(c)' /\ job'[c].id = job[c].id /\ job'[c].kind = job[c].kind /\ met' = met
      /\ ~Free(c) /\ calls' = calls
  BY JobsAfter
<1>2. ASSUME NEW a \in Caller PROVE /\ job'[a].id \in {0, job[a].id}
                                    /\ job'[a].kind = "prompt" => job[a].kind = "prompt" /\ job'[a].id = job[a].id
  BY <1>1
<1>3. ASSUME NEW d \in done' PROVE d.id \in 1..calls' /\ \A a \in Caller : job'[a].id # d.id
  <2>1. CASE d \in done
    <3>1. d.id \in 1..calls /\ \A a \in Caller : job[a].id # d.id
      BY <2>1 DEF Past
    <3>2. d.id # 0
      BY <3>1
    <3> QED
      BY <1>1, <1>2, <3>1, <3>2
  <2>2. CASE d \notin done
    <3>1. job'[c] = NoJob /\ d.id = job[c].id
      BY <2>2, DoneMove
    <3>2. ASSUME NEW a \in Caller PROVE job'[a].id # d.id
      <4>1. CASE a = c
        BY <1>1, <3>1, <4>1
      <4>2. CASE a # c /\ Free(a)
        BY <1>1, <3>1, <4>2
      <4>3. CASE a # c /\ ~Free(a)
        BY <1>1, <3>1, <4>3 DEF Shape, Jobs
      <4> QED
        BY <4>1, <4>2, <4>3
    <3> QED
      BY <1>1, <3>1, <3>2
  <2> QED
    BY <2>1, <2>2
<1>4. ASSUME NEW p \in Shut' PROVE p \in 0..calls' /\ \A a \in Caller : job'[a].kind = "prompt" => job'[a].id # p
  <2>1. CASE p \in Shut
    BY <1>1, <1>2, <2>1 DEF Past
  <2>2. CASE p \notin Shut
    <3>1. WriteEvent(c) /\ c \notin met /\ job'[c] = NoJob /\ p = Current(job[c]).value
      BY <2>2, ShutMove
    <3>2. job[c].kind \in {"prompt", "stop"}
      BY <3>1, EventStep
    <3>3. CASE job[c].kind = "prompt"
      <4>1. Plan(job[c], job[c].at, job[c].bad)
        BY DEF Plans
      <4>2. Current(job[c]) = job[c].at[1] /\ 1 \in 1..Len(job[c].at) /\ CallDoes(c, "write")
        BY <1>1, <3>1, AtWork DEF WriteEvent
      <4>3. p = 0
        BY <3>1, <3>3, <4>1, <4>2 DEF Plan, CallDoes
      <4>4. calls \in Nat
        BY DEF Shape, Typed
      <4>5. \A a \in Caller : job'[a].kind = "prompt" => job'[a].id # 0
        BY <1>1, <1>2
      <4> QED
        BY <1>1, <4>3, <4>4, <4>5
    <3>4. CASE job[c].kind = "stop"
      <4>1. Lone(c)
        BY <1>1, <3>1 DEF Alones
      <4>2. Current(job[c]) = job[c].at[1] /\ 1 \in 1..Len(job[c].at) /\ CallDoes(c, "write")
        BY <1>1, <3>1, AtWork DEF WriteEvent
      <4>3. p < job[c].id
        BY <3>1, <3>4, <4>1, <4>2 DEF Lone, CallDoes
      <4>4. p \in Nat
        BY <3>1, EventStep
      <4>5. job[c].id \in 1..calls /\ calls \in Nat
        BY <1>1 DEF Shape, Typed
      <4>6. p \in 0..calls
        BY <4>3, <4>4, <4>5
      <4>7. ASSUME NEW a \in Caller, job'[a].kind = "prompt" PROVE FALSE
        <5>1. a # c /\ ~Free(a) /\ job[a].kind = "prompt"
          BY <1>1, <1>2, <3>1, <4>7
        <5>2. "events" \in Files(job[a].kind) /\ "events" \in Files(job[c].kind)
          BY <3>4, <5>1, KindFiles
        <5> QED
          BY <1>1, <3>1, <5>1, <5>2, MetBeside
      <4> QED
        BY <1>1, <4>6, <4>7
    <3> QED
      BY <3>2, <3>3, <3>4
  <2> QED
    BY <2>1, <2>2
<1> QED
  BY <1>3, <1>4 DEF Past

LEMMA PlansMove ==
  ASSUME Shape, Plans, NEW c \in Caller, Moving(c)
  PROVE  Plans'
<1>1. ASSUME NEW d \in Caller PROVE Plan(job'[d], job'[d].at, job'[d].bad)
  <2>1. CASE d # c
    BY <2>1, JobsAfter DEF Plans
  <2>2. CASE d = c /\ job'[c] # NoJob
    BY <2>2, PlanMove
  <2>3. CASE d = c /\ job'[c] = NoJob
    <3>1. NoJob.bad = FALSE /\ NoJob.at = <<>>
      BY DEF NoJob
    <3>2. Plan(NoJob, <<>>, FALSE)
      BY DEF Plan
    <3> QED
      BY <2>3, <3>1, <3>2
  <2> QED
    BY <2>1, <2>2, <2>3
<1> QED
  BY <1>1 DEF Plans

(* What a caller that goes on may write is as fine as it was.              *)
LEMMA FineStill ==
  ASSUME Shape, Plans, Meetings, NEW c \in Caller, Moving(c), NEW n \in WorkFiles,
         NEW d \in Caller, job'[d] # NoJob, n \in Files(job'[d].kind)
  PROVE  /\ Owed(n)' = Owed(n) /\ Void(n)' = Void(n) /\ (n = "events" => Shut' = Shut) /\ calls' = calls
         /\ \A v : FineIn(n, v, calls, Void(n), Shut) => FineIn(n, v, calls', Void(n)', Shut')
<1>1. Owed(n)' = Owed(n) /\ Void(n)' = Void(n) /\ (n = "events" => Shut' = Shut)
  <2>1. CASE d = c
    BY <2>1, NewsSame
  <2>2. CASE d # c
    <3>1. job'[d] = job[d] /\ ~Free(c)
      BY <2>2, JobsAfter
    <3>2. ~Free(d)
      BY <2>2, <3>1, JobsAfter
    <3>3. c \in met \/ n \notin Files(job[c].kind)
      BY <2>2, <3>1, <3>2, MetBeside
    <3> QED
      BY <3>3, NewsSame
  <2> QED
    BY <2>1, <2>2
<1>2. calls' = calls
  BY MovingMoves
<1> QED
  BY <1>1, <1>2 DEF FineIn

LEMMA OwnFine ==
  ASSUME Shape, Past, InFiles, NEW c \in Caller, ~Free(c), NEW n \in WorkFiles, NEW v,
         OwnWork(job[c], n, Held(n), v), Held(n) # Torn
  PROVE  /\ FineIn(n, v, calls, Void(n), Shut)
         /\ \A x \in Owed(n) : x \in Tokens(n, Held(n)) \/ <<n, x>> \in retired
<1> DEFINE j == job[c]
           h == Held(n)
<1>1. j.id \in 1..calls /\ j.id \notin Void(n)
  <2>1. j.id \in 1..calls
    BY DEF Shape, Jobs
  <2> QED
    BY <2>1 DEF Void, VoidIn, Past
<1>2. /\ FineIn(n, h, calls, Void(n), Shut)
      /\ \A x \in Owed(n) : Good(n, x, h)
  BY DEF InFiles, Fine, Entire
<1>3. /\ Tokens(n, v) \subseteq Tokens(n, h) \cup {j.id}
      /\ n = "events" /\ v \notin {Absent, Torn} => Latest(v, h)
  BY DEF OwnWork
<1> HIDE DEF j, h
<1>4. ASSUME NEW x \in Tokens(n, v) PROVE x \in 0..calls /\ x \notin Void(n)
  <2>1. x \in Tokens(n, h) \/ x = j.id
    BY <1>3, <1>4
  <2>2. j.id \in 0..calls
    BY <1>1
  <2> QED
    BY <1>1, <1>2, <2>1, <2>2 DEF FineIn
<1>5. ASSUME n = "events", v \notin {Absent, Torn} PROVE Closing(v, Shut)
  <2>1. Items(v) \subseteq Items(h) /\ \A e \in Items(v), f \in Items(h) : f.id > e.id => f \in Items(v)
    BY <1>3, <1>5 DEF Latest
  <2>2. h \notin {Absent, Torn}
    BY <1>3, <1>5 DEF Latest, h
  <2> QED
    BY <1>2, <1>5, <2>1, <2>2 DEF FineIn, Closing
<1>6. FineIn(n, v, calls, Void(n), Shut)
  BY <1>4, <1>5 DEF FineIn
<1> QED
  BY <1>2, <1>6 DEF Good, h
(* What is under a temporary name after a step: what was, nothing, what    *)
(* was just opened, or what its call wrote.                                *)
LEMMA ScratchChange ==
  ASSUME Shape, NEW c \in Caller, Moving(c), NEW t \in Scratch, slot'[t] \notin {slot[t], Absent, Torn}
  PROVE  Fill(c) /\ t = opened[c]
<1>0. t \notin Place /\ t # Absent
  BY Places
<1>1. CASE Quiet(c)
  BY <1>1, QuietFacts
<1>2. CASE OpenTemporary(c)
  BY <1>2, OpenFacts
<1>3. CASE Fill(c)
  BY <1>3, FillFacts
<1>4. CASE PutInPlace(c)
  <2>1. CASE slot[job[c].tmp] = Absent
    BY <1>4, <2>1 DEF PutInPlace
  <2>2. CASE slot[job[c].tmp] # Absent
    BY <1>0, <1>4, <2>2, RenameDone
  <2> QED
    BY <2>1, <2>2
<1>5. CASE Removes(c)
  BY <1>0, <1>5, RemoveFacts
<1>6. CASE EraseFile(c) /\ ~Removes(c)
  <2>1. slot' = slot
    BY <1>6 DEF EraseFile, Removes, Held
  <2> QED
    BY <2>1
<1>7. CASE Salt(c)
  BY <1>0, <1>7, SaltFacts, SaltThere
<1>8. CASE OpenEvents(c)
  BY <1>0, <1>8, EventsFacts, SaltThere
<1>9. CASE WriteEvent(c)
  BY <1>0, <1>9, WriteFacts, SaltThere
<1>10. CASE Cut(c)
  <2>1. slot' = Left(c) /\ opened' = [opened EXCEPT ![c] = Absent]
    BY <1>10, CutFacts
  <2> QED
    BY <2>1, LeftFacts
<1> QED
  BY <1>1, <1>2, <1>3, <1>4, <1>5, <1>6, <1>7, <1>8, <1>9, <1>10 DEF Moving, Quiet, Cut, Removes

LEMMA WritesFineMove ==
  ASSUME Shape, Meetings, Past, Plans, WritesFine, InFiles, NEW c \in Caller, Moving(c)
  PROVE  WritesFine'
<1>1. ASSUME NEW d \in Caller, NEW i \in 1..Len(job'[d].at), NEW s, s = job'[d].at[i], s.do \in Replacing, s.on \in WorkFiles
      PROVE  /\ job'[d].kind \in Writers(s.on) /\ (s.on \in Work(job'[d].kind) => job'[d].id \in Tokens(s.on, s.value))
             /\ FineIn(s.on, s.value, calls', VoidIn(s.on, done'), Shut')
             /\ \A x \in OwedIn(s.on, done') :
                  x \in Tokens(s.on, s.value) \/ <<s.on, x>> \in retired' \/ x \in Tokens(s.on, job'[d].read)
  <2> DEFINE n == s.on
             v == s.value
  <2>1. job'[d] # NoJob
    <3>1. NoJob.at = <<>>
      BY NoTmp
    <3> QED
      BY <1>1, <3>1
  <2>2. retired \subseteq retired'
    BY RetiredGrows
  <2>3. ASSUME NEW k \in Caller, ~Free(k), NEW x \in 1..Len(job[k].at), s = job[k].at[x]
        PROVE  /\ job[k].kind \in Writers(n) /\ (n \in Work(job[k].kind) => job[k].id \in Tokens(n, v))
               /\ FineIn(n, v, calls, Void(n), Shut)
               /\ \A y \in Owed(n) : y \in Tokens(n, v) \/ <<n, y>> \in retired \/ y \in Tokens(n, job[k].read)
    BY <1>1, <2>3 DEF WritesFine, Writing, Fine, Good
  <2>4. CASE d # c
    <3>1. job'[d] = job[d] /\ ~Free(d)
      BY <2>1, <2>4, JobsAfter
    <3>2. /\ job[d].kind \in Writers(n) /\ (n \in Work(job[d].kind) => job[d].id \in Tokens(n, v))
          /\ FineIn(n, v, calls, Void(n), Shut)
          /\ \A y \in Owed(n) : y \in Tokens(n, v) \/ <<n, y>> \in retired \/ y \in Tokens(n, job[d].read)
      BY <1>1, <2>3, <3>1
    <3>3. n \in Files(job'[d].kind)
      BY <3>1, <3>2, KindFiles
    <3>4. /\ Owed(n)' = Owed(n)
          /\ \A u : FineIn(n, u, calls, Void(n), Shut) => FineIn(n, u, calls', Void(n)', Shut')
      BY <1>1, <2>1, <3>3, FineStill
    <3> QED
      BY <2>2, <3>1, <3>2, <3>4 DEF Owed, Void
  <2>5. CASE d = c
    <3>1. job'[c] # NoJob /\ ~Free(c) /\ job'[c].kind = job[c].kind /\ job'[c].id = job[c].id
      BY <2>1, <2>5, JobsAfter
    <3>2. StepsFrom(c)
      BY <3>1, StepsFromMove
    <3>3. \/ job'[c].read = job[c].read /\ \E k \in 1..Len(job[c].at) : s = job[c].at[k]
          \/ /\ job'[c].read = Held(n) /\ Held(n) # Torn
             /\ OwnWork(job[c], n, Held(n), v)
      BY <1>1, <2>5, <3>2 DEF StepsFrom
    <3>4. /\ job[c].kind \in Writers(n) /\ (n \in Work(job[c].kind) => job[c].id \in Tokens(n, v))
          /\ FineIn(n, v, calls, Void(n), Shut)
          /\ \A y \in Owed(n) : y \in Tokens(n, v) \/ <<n, y>> \in retired \/ y \in Tokens(n, job'[c].read)
      <4>1. CASE job'[c].read = job[c].read /\ \E k \in 1..Len(job[c].at) : s = job[c].at[k]
        BY <2>3, <3>1, <4>1
      <4>2. CASE job'[c].read = Held(n) /\ Held(n) # Torn /\ OwnWork(job[c], n, Held(n), v)
        <5>1. /\ FineIn(n, v, calls, Void(n), Shut)
              /\ \A x \in Owed(n) : x \in Tokens(n, Held(n)) \/ <<n, x>> \in retired
          BY <1>1, <3>1, <4>2, OwnFine
        <5>2. job[c].kind \in Writers(n) /\ (n \in Work(job[c].kind) => job[c].id \in Tokens(n, v))
          BY <4>2 DEF OwnWork
        <5> QED
          BY <4>2, <5>1, <5>2
      <4> QED
        BY <3>3, <4>1, <4>2
    <3>5. n \in Files(job'[c].kind)
      BY <3>1, <3>4, KindFiles
    <3>6. /\ Owed(n)' = Owed(n)
          /\ \A u : FineIn(n, u, calls, Void(n), Shut) => FineIn(n, u, calls', Void(n)', Shut')
      BY <1>1, <3>1, <3>5, FineStill
    <3> QED
      BY <2>2, <2>5, <3>1, <3>4, <3>6 DEF Owed, Void
  <2> QED
    BY <2>4, <2>5
<1> QED
  BY <1>1 DEF WritesFine, Writing, Fine, Good, Owed, Void

LEMMA TempsFineMove ==
  ASSUME Shape, Meetings, Past, Plans, WritesFine, TempsFine, NEW c \in Caller, Moving(c)
  PROVE  TempsFine'
<1>1. ASSUME NEW d \in Caller, NEW t, t = job'[d].tmp, t # Absent, t[1] \in WorkFiles
      PROVE  job'[d].kind \in Writers(t[1]) /\ FineIn(t[1], slot'[t], calls', VoidIn(t[1], done'), Shut')
  <2> DEFINE n == t[1]
  <2>1. job'[d] # NoJob
    BY <1>1, NoTmp
  <2>2. ~Free(c) /\ ~Free(d) /\ job'[d].kind = job[d].kind /\ (d # c => job'[d] = job[d])
    BY <2>1, JobsAfter
  <2>3. FineIn(n, Absent, calls, Void(n), Shut) /\ FineIn(n, Torn, calls, Void(n), Shut)
    BY TokensOf DEF FineIn
  <2>4. t \in Scratch
    <3>1. job' \in [Caller -> Call]
      <4>1. Shape'
        <5>1. [StoreNext]_storeVars
          BY DEF StoreNext, Moving
        <5> QED
          BY <5>1, ShapeStep
      <4> QED
        BY <4>1 DEF Shape, Typed
    <3> QED
      BY <1>1, <3>1 DEF Call
  <2>5. \/ t = job[d].tmp
        \/ d = c /\ OpenTemporary(c) /\ slot'[t] = Torn /\ On(c) = n /\ CallDoes(c, "open")
    <3>1. CASE d # c
      BY <1>1, <2>2, <3>1
    <3>2. CASE d = c
      <4>1. CASE OpenTemporary(c)
        <5>1. PICK u \in Scratch : CallDoes(c, "open") /\ u[1] = On(c) /\ job'[c].tmp = u /\ slot'[u] = Torn
          BY <4>1, OpenFacts
        <5> QED
          BY <1>1, <3>2, <4>1, <5>1
      <4>2. CASE ~OpenTemporary(c)
        <5>1. job'[c].tmp \in {Absent, job[c].tmp}
          <6>1. CASE Quiet(c)
            BY <6>1, QuietFacts
          <6>2. CASE Fill(c)
            BY <6>2, FillFacts
          <6>3. CASE PutInPlace(c)
            <7>1. CASE slot[job[c].tmp] = Absent
              <8>1. CallFails(c)
                BY <6>3, <7>1 DEF PutInPlace
              <8> QED
                BY <2>2, <8>1, FailTmp, NoTmp
            <7>2. CASE slot[job[c].tmp] # Absent
              BY <6>3, <7>2, RenameDone
            <7> QED
              BY <7>1, <7>2
          <6>4. CASE Removes(c)
            BY <6>4, RemoveFacts
          <6>5. CASE EraseFile(c) /\ ~Removes(c)
            <7>1. CallFails(c)
              BY <6>5 DEF EraseFile, Removes, Held
            <7> QED
              BY <2>2, <7>1, FailTmp, NoTmp
          <6>6. CASE Salt(c)
            BY <6>6, SaltFacts
          <6>7. CASE OpenEvents(c)
            BY <6>7, EventsFacts
          <6>8. CASE WriteEvent(c)
            BY <6>8, WriteFacts
          <6>9. CASE Cut(c)
            BY <6>9, CutFacts
          <6> QED
            BY <4>2, <6>1, <6>2, <6>3, <6>4, <6>5, <6>6, <6>7, <6>8, <6>9 DEF Moving, Quiet, Cut, Removes
        <5> QED
          BY <1>1, <3>2, <5>1
      <4> QED
        BY <4>1, <4>2
    <3> QED
      BY <3>1, <3>2
  <2>6. job[d].kind \in Writers(n)
    <3>1. CASE t = job[d].tmp
      BY <1>1, <3>1 DEF TempsFine
    <3>2. CASE t # job[d].tmp
      <4>1. d = c /\ On(c) = n /\ Current(job[c]).do \in Replacing
        BY <2>5, <3>2 DEF CallDoes, Replacing
      <4> QED
        BY <1>1, <2>2, <4>1, WritingNow
    <3> QED
      BY <3>1, <3>2
  <2>7. FineIn(n, slot'[t], calls, Void(n), Shut)
    <3>1. CASE t # job[d].tmp
      BY <2>3, <2>5, <3>1
    <3>2. CASE t = job[d].tmp /\ slot'[t] \in {slot[t], Absent, Torn}
      <4>1. FineIn(n, slot[t], calls, Void(n), Shut)
        BY <1>1, <3>2 DEF TempsFine, Fine
      <4> QED
        BY <2>3, <3>2, <4>1
    <3>3. CASE slot'[t] \notin {slot[t], Absent, Torn}
      <4>1. Fill(c) /\ t = opened[c]
        BY <2>4, <3>3, ScratchChange
      <4>2. On(c) = n /\ slot'[t] = Current(job[c]).value /\ CallDoes(c, "fill")
        BY <2>4, <3>3, <4>1, FillFacts, Places
      <4>3. Writing(job[c], n, Current(job[c]).value)
        BY <1>1, <2>2, <4>2, WritingNow DEF CallDoes, Replacing
      <4> QED
        BY <4>2, <4>3 DEF Writing, Fine
    <3> QED
      BY <3>1, <3>2, <3>3
  <2>8. \A v : FineIn(n, v, calls, Void(n), Shut) => FineIn(n, v, calls', Void(n)', Shut')
    <3>1. n \in Files(job'[d].kind)
      BY <2>2, <2>6, KindFiles
    <3> QED
      BY <1>1, <2>1, <3>1, FineStill
  <2> QED
    BY <2>2, <2>6, <2>7, <2>8 DEF Void
<1> QED
  BY <1>1 DEF TempsFine, Fine, Void
LEMMA FilledMove ==
  ASSUME Shape, Meetings, Plans, WritesFine, Filled, NEW c \in Caller, Moving(c)
  PROVE  Filled'
<1>1. ASSUME NEW d \in Caller, NEW t, t = job'[d].tmp, job'[d].at # <<>>, NEW s, s = Current(job'[d]),
             s.do \in {"fill", "rename"}, s.on \in WorkFiles, NEW w, w = slot'[t], w \notin {Absent, Torn}
      PROVE  \/ s.do = "rename" /\ w = s.value
             \/ \A x \in OwedIn(s.on, done') : x \in Tokens(s.on, w) \/ <<s.on, x>> \in retired'
  <2> DEFINE n == s.on
  <2>1. job'[d] # NoJob /\ n # "salt"
    BY <1>1, NoTmp, WorkNames
  <2>2. ~Free(c) /\ ~Free(d) /\ job'[d].kind = job[d].kind /\ (d # c => job'[d] = job[d])
    BY <2>1, JobsAfter
  <2>3. retired \subseteq retired'
    BY RetiredGrows
  <2>4. ASSUME n \in Files(job[d].kind) PROVE Owed(n)' = Owed(n)
    BY <1>1, <2>1, <2>2, <2>4, FineStill
  <2>5. CASE d # c
    <3>1. job'[d] = job[d] /\ s = Current(job[d]) /\ t = job[d].tmp /\ On(d) = n
      BY <1>1, <2>2, <2>5 DEF On
    <3>2. n \in Files(job[d].kind)
      BY <1>1, <2>2, <3>1, WritingNow DEF Replacing
    <3>3. CallDoes(d, "fill") \/ CallDoes(d, "rename")
      BY <1>1, <2>2, <3>1 DEF CallDoes
    <3>4. t \in Scratch /\ t[1] = n
      BY <2>1, <2>2, <3>1, <3>3, AtWork DEF HandsOK
    <3>5. CASE w = slot[t]
      <4>1. (CallDoes(d, "rename") /\ slot[t] = s.value) \/ Entire(n, slot[t])
        BY <1>1, <3>1, <3>3, <3>5 DEF Filled
      <4>2. CallDoes(d, "rename") => s.do = "rename"
        BY <3>1 DEF CallDoes
      <4> QED
        BY <2>3, <2>4, <3>2, <3>5, <4>1, <4>2 DEF Entire, Good, Owed
    <3>6. CASE w # slot[t]
      <4>1. Fill(c) /\ t = opened[c]
        BY <1>1, <3>4, <3>6, ScratchChange
      <4>2. t # Absent
        BY <3>4, Places
      <4>3. On(c) = n /\ w = Current(job[c]).value /\ CallDoes(c, "fill")
        BY <1>1, <3>4, <4>1, <4>2, FillFacts
      <4>4. retired' = retired \cup LeftOut(c)
        BY <2>5, <3>1, <4>1, <4>2 DEF Fill
      <4>5. \A x \in Owed(n) : x \in Tokens(n, w) \/ <<n, x>> \in retired'
        <5>1. Current(job[c]).do \in Replacing /\ retired \cup LeftOut(c) \subseteq retired'
          BY <4>3, <4>4 DEF CallDoes, Replacing
        <5> QED
          BY <1>1, <2>2, <4>3, <5>1, OwedLeft
      <4> QED
        BY <2>4, <3>2, <4>5 DEF Owed
    <3> QED
      BY <3>5, <3>6
  <2>6. CASE d = c
    <3>1. ~Starts(job'[c].at)
      BY <1>1, <2>6 DEF Starts, Current
    <3>2. ~OpenTemporary(c)
      <4>1. SUFFICES ASSUME OpenTemporary(c) PROVE FALSE
        OBVIOUS
      <4> QED
        BY <1>1, <2>6, <4>1, OpenFacts
    <3>3. ~Salt(c)
      <4>1. SUFFICES ASSUME Salt(c) PROVE FALSE
        OBVIOUS
      <4>2. Held("salt") = Absent /\ On(c)' = "salt"
        BY <3>1, <4>1, SaltFacts
      <4> QED
        BY <1>1, <2>1, <2>6, <4>2 DEF On
    <3>4. ~OpenEvents(c)
      <4>1. SUFFICES ASSUME OpenEvents(c) PROVE FALSE
        OBVIOUS
      <4>2. CallDoes(c, "write")'
        BY <4>1, EventsFacts
      <4> QED
        BY <1>1, <2>6, <4>2 DEF CallDoes
    <3>5. ~CallFails(c)
      <4>1. SUFFICES ASSUME CallFails(c) PROVE FALSE
        OBVIOUS
      <4> QED
        BY <2>2, <3>1, <4>1, FailStarts
    <3>6. Fill(c)
      <4>1. CASE PutInPlace(c)
        <5>1. slot[job[c].tmp] # Absent
          BY <3>5, <4>1 DEF PutInPlace
        <5> QED
          BY <3>1, <4>1, <5>1, RenameDone
      <4>2. CASE EraseFile(c) /\ ~Removes(c)
        BY <3>5, <4>2 DEF EraseFile, Removes, Held
      <4> QED
        BY <3>1, <3>2, <3>3, <3>4, <4>1, <4>2, QuietFacts, RemoveFacts, WriteFacts, CutFacts DEF Moving, Quiet, Cut, Removes
    <3>7. On(c) # "salt"
      BY <3>1, <3>6, FillFacts
    <3>8. /\ CallDoes(c, "fill") /\ On(c) = n /\ s.do = "rename" /\ s.value = Current(job[c]).value
          /\ t = job[c].tmp /\ t \in Scratch
      <4>1. /\ CallDoes(c, "fill") /\ CallDoes(c, "rename")' /\ On(c)' = On(c)
            /\ Current(job[c])'.value = Current(job[c]).value
            /\ job'[c].tmp = job[c].tmp /\ job[c].tmp \in Scratch
        BY <3>6, <3>7, FillFacts
      <4> QED
        BY <1>1, <2>6, <4>1 DEF On, CallDoes
    <3>9. n \in Files(job[c].kind)
      BY <1>1, <2>2, <3>8, WritingNow DEF CallDoes, Replacing
    <3>10. CASE opened[c] = t
      <4>1. t # Absent
        BY <3>8, Places
      <4>2. w = s.value
        BY <1>1, <3>6, <3>8, <3>10, <4>1, FillFacts
      <4> QED
        BY <3>8, <4>2
    <3>11. CASE opened[c] # t
      <4>1. w = slot[t]
        BY <1>1, <3>6, <3>8, <3>11, FillFacts
      <4>2. ~CallDoes(c, "rename")
        BY <3>8 DEF CallDoes
      <4>3. Entire(n, w)
        BY <1>1, <3>8, <4>1, <4>2 DEF Filled
      <4> QED
        BY <2>3, <2>4, <2>6, <3>9, <4>3 DEF Entire, Good, Owed
    <3> QED
      BY <3>10, <3>11
  <2> QED
    BY <2>5, <2>6
<1> QED
  BY <1>1 DEF Filled, CallDoes, On, Free, Entire, Good, Owed
(* What is closed by this step has its stop in the file.                   *)
LEMMA ClosingMove ==
  ASSUME Shape, Plans, Alones, NEW c \in Caller, Moving(c),
         NEW w, w = slot'[PlaceOf("events")], w \notin {Absent, Torn}, Closing(w, Shut)
  PROVE  Closing(w, Shut')
<1>1. CASE Shut' = Shut
  BY <1>1
<1>2. CASE Shut' # Shut
  <2> DEFINE j == job[c]
             e == [id |-> job[c].id, kind |-> job[c].kind, of |-> Current(job[c]).value, key |-> job[c].key]
  <2>1. /\ WriteEvent(c) /\ c \notin met /\ opened[c] = PlaceOf("events") /\ Held("events") # Torn
        /\ Shut' = Shut \cup {Current(j).value}
    BY <1>2, ShutMove
  <2>2. Held("events") \in Seq(Event) /\ e \in Event /\ w = Append(Held("events"), e)
    BY <2>1, WriteDone
  <2>3. e.id = j.id /\ e.kind = j.kind /\ e.of = Current(j).value
    OBVIOUS
  <2>4. CallDoes(c, "write") /\ ~Free(c)
    BY <2>1, WriteFacts
  <2>5. Current(j) = j.at[1] /\ 1 \in 1..Len(j.at)
    BY <2>4, AtWork
  <2>6. j.kind \in {"prompt", "stop"}
    BY <2>1, EventStep
  <2>7. j.kind = "prompt" => Current(j).value = 0
    BY <2>4, <2>5 DEF Plans, Plan, CallDoes
  <2>8. j.kind = "stop" => Current(j).value < j.id
    BY <2>1, <2>4, <2>5 DEF Alones, Lone, CallDoes
  <2> HIDE DEF e
  <2>9. e \in Items(w)
    BY <2>2, Appended
  <2> HIDE DEF j
  <2>10. ASSUME NEW d \in Items(w), d.kind = "prompt", d.id \in Shut'
         PROVE  \E f \in Items(w) : f.kind = "stop" /\ f.of = d.id /\ f.id > d.id
    <3>1. d.id # 0
      BY DEF Closing
    <3>2. CASE d.id \in Shut
      BY <2>10, <3>2 DEF Closing
    <3>3. CASE d.id = Current(j).value
      <4>1. j.kind = "stop" /\ d.id < j.id
        BY <2>6, <2>7, <2>8, <3>1, <3>3
      <4>2. d.id \in Nat /\ j.id \in Nat
        <5>1. d.id \in Nat
          <6>1. Current(j).value \in Nat
            BY <2>1, EventStep DEF j
          <6> QED
            BY <3>3, <6>1
        <5>2. j.id \in Nat
          BY <2>2, <2>3 DEF Event
        <5> QED
          BY <5>1, <5>2
      <4>3. e.kind = "stop" /\ e.of = d.id /\ e.id > d.id
        BY <2>3, <3>3, <4>1, <4>2
      <4> QED
        BY <2>9, <4>3
    <3> QED
      BY <2>1, <2>10, <3>2, <3>3
  <2> QED
    BY <2>10 DEF Closing
<1> QED
  BY <1>1, <1>2

LEMMA InFilesMove ==
  ASSUME Shape, Meetings, Erasings, Past, Plans, WritesFine, TempsFine, Filled, InFiles, Alones,
         NEW c \in Caller, Moving(c)
  PROVE  InFiles'
<1>1. ASSUME NEW n \in WorkFiles, NEW w, w = slot'[PlaceOf(n)]
      PROVE  /\ FineIn(n, w, calls', VoidIn(n, done'), Shut')
             /\ w = Torn \/ \A x \in OwedIn(n, done') : x \in Tokens(n, w) \/ <<n, x>> \in retired'
  <2>1. /\ FineIn(n, w, calls, Void(n), Shut)
        /\ w = Torn \/ \A x \in Owed(n) : x \in Tokens(n, w) \/ <<n, x>> \in retired'
    <3>1. FineAfter(n, slot'[PlaceOf(n)])
      BY ContentFine
    <3> QED
      BY <1>1, <3>1 DEF FineAfter
  <2>2. calls' = calls /\ ~Free(c)
    BY MovingMoves
  <2>3. CASE job'[c] # NoJob \/ c \in met \/ n \notin Files(job[c].kind)
    <3>1. Owed(n)' = Owed(n) /\ Void(n)' = Void(n) /\ (n = "events" => Shut' = Shut)
      BY <2>3, NewsSame
    <3> QED
      BY <2>1, <2>2, <3>1 DEF FineIn, Owed, Void
  <2>4. CASE c \notin met
    <3>1. /\ \A x \in Owed(n)' : x \in Owed(n) \/ w = Torn \/ x \in Tokens(n, w)
          /\ \A x \in Void(n)' : x \in Void(n) \/ (x = job[c].id /\ job[c].kind \in Failing /\ n \in Work(job[c].kind) /\ Unmoved)
      BY <1>1, <2>4, NewsLast
    <3>2. Lone(c)
      BY <2>2, <2>4 DEF Alones
    <3>3. ASSUME NEW x \in Tokens(n, w) PROVE x \in 0..calls' /\ x \notin Void(n)'
      <4>1. x \in 0..calls /\ x \notin Void(n)
        BY <2>1, <3>3 DEF FineIn
      <4>2. ASSUME x = job[c].id, job[c].kind \in Failing, n \in Work(job[c].kind), Unmoved PROVE FALSE
        <5>1. w = Held(n)
          BY <1>1, <4>2 DEF Unmoved, Held
        <5> QED
          BY <3>2, <3>3, <4>2, <5>1 DEF Lone
      <4> QED
        BY <2>2, <3>1, <4>1, <4>2
    <3>4. ASSUME n = "events", w \notin {Absent, Torn} PROVE Closing(w, Shut')
      <4>1. Closing(w, Shut) /\ w = slot'[PlaceOf("events")]
        BY <1>1, <2>1, <3>4 DEF FineIn
      <4> QED
        BY <3>4, <4>1, ClosingMove
    <3> QED
      BY <2>1, <3>1, <3>3, <3>4 DEF FineIn, Owed, Void
  <2> QED
    BY <2>3, <2>4
<1> QED
  BY <1>1 DEF InFiles, Fine, Entire, Good, Held, Owed, Void
(* The steps that open a file for the next.                                *)
LEMMA HowStarted ==
  ASSUME Shape, NEW c \in Caller, Moving(c), ~Starts(job'[c].at)
  PROVE  OpenTemporary(c) \/ (Salt(c) /\ Held("salt") = Absent) \/ OpenEvents(c) \/ (Fill(c) /\ On(c) # "salt")
<1>1. ~CallFails(c)
  <2>1. ~Free(c)
    BY MovingMoves
  <2> QED
    BY <2>1, FailStarts
<1>2. ~PutInPlace(c)
  <2>1. SUFFICES ASSUME PutInPlace(c) PROVE FALSE
    OBVIOUS
  <2>2. slot[job[c].tmp] # Absent
    BY <1>1, <2>1 DEF PutInPlace
  <2> QED
    BY <2>1, <2>2, RenameDone
<1>3. ~(EraseFile(c) /\ ~Removes(c))
  BY <1>1 DEF EraseFile, Removes, Held
<1> QED
  BY <1>2, <1>3, QuietFacts, RemoveFacts, WriteFacts, CutFacts, SaltFacts, FillFacts DEF Moving, Quiet, Cut, Removes

(* A stop adds to the events only with its last step.                      *)
LEMMA StopKeeps ==
  ASSUME Shape, Erasings, Plans, WritesFine, NEW c \in Caller, Moving(c), job'[c] # NoJob, job[c].kind = "stop", Lone(c)
  PROVE  slot'[PlaceOf("events")] = Held("events") \/ slot'[PlaceOf("events")] = <<>>
<1>0. ~Free(c) /\ ~CallerDies(c)
  <2>1. ~Free(c)
    BY MovingMoves
  <2>2. ~CallerDies(c)
    BY DeathMoves
  <2> QED
    BY <2>1, <2>2
<1>1. Unmoved => slot'[PlaceOf("events")] = Held("events")
  BY DEF Unmoved, Held, WorkFiles
<1>2. PlaceOf("events") \in Place /\ PlaceOf("events") \notin Scratch
  BY SaltThere, Places
<1>3. CASE WentOn(c)
  <2>1. CASE OpenTemporary(c)
    BY <1>2, <2>1, OpenFacts DEF Held
  <2>2. CASE Fill(c)
    <3>1. On(c) \in WorkFiles => opened[c] = job[c].tmp
      BY <2>2 DEF Lone, Fill
    <3> QED
      BY <1>1, <2>2, <3>1, FillStill
  <2>3. CASE OpenEvents(c)
    BY <2>3, EventsFacts
  <2>4. CASE WriteEvent(c)
    <3>1. CallDoes(c, "write") /\ Continue(c)
      BY <2>4, WriteFacts
    <3>2. job[c].at \in Seq(TaskType) /\ job[c].at # <<>> /\ 1 \in 1..Len(job[c].at) /\ job[c].at[1].do = "write"
      BY <1>0, <3>1, AtWork DEF CallDoes, Free
    <3>3. Len(job[c].at) = 1
      BY <3>2 DEF Plans, Plan
    <3> DEFINE q == Tail(job[c].at)
    <3>4. q \in Seq(TaskType) /\ Len(q) = 0
      BY <3>2, <3>3, TailOf
    <3>5. Went(c, q, job[c].bad)
      BY <1>3 DEF WentOn
    <3> HIDE DEF q
    <3>6. q = <<>>
      BY <3>4
    <3> QED
      BY <3>5, <3>6 DEF Went
  <2>5. CASE Removes(c)
    BY <2>5, DropNow, EraseNow DEF Removes
  <2>6. CASE PutInPlace(c) /\ slot[job[c].tmp] # Absent
    <3>1. On(c) # "events"
      <4>1. SUFFICES ASSUME On(c) = "events" PROVE FALSE
        OBVIOUS
      <4>2. job[c].kind \in Writers("events")
        <5>1. CallDoes(c, "rename")
          BY <2>6, RenameDone
        <5> QED
          BY <1>0, <4>1, <5>1, WritingNow DEF CallDoes, Replacing, WorkFiles
      <4> QED
        BY <4>2, KindFiles
    <3>2. On(c) \in Names /\ PlaceOf("events") # PlaceOf(On(c)) /\ job[c].tmp \in Scratch
      BY <2>6, <3>1, RenameDone, Places, SaltThere
    <3> QED
      BY <1>2, <2>6, <3>2, RenameDone DEF Held
  <2>7. CASE CheckReviewed(c)
    BY <2>7 DEF CheckReviewed, Held
  <2> QED
    BY <1>3, <2>1, <2>2, <2>3, <2>4, <2>5, <2>6, <2>7 DEF WentOn, Onward
<1>4. CASE WentWrong(c) \/ HasRead(c) \/ HasKey(c) \/ HasSalt(c)
  BY <1>1, <1>4 DEF WentWrong, HasRead, HasKey, HasSalt
<1> QED
  BY <1>0, <1>3, <1>4, Ways

(* A value's work that is alone, before and after a step.                  *)
LoneIn(c, j, op, sl) ==
    LET H(n) == sl[PlaceOf(n)]
        s    == Current(j) IN
    /\ j.at # <<>> /\ s.do = "fill" /\ s.on \in WorkFiles => op = j.tmp
    /\ j.at # <<>> /\ s.do = "rename" /\ s.on \in WorkFiles => sl[j.tmp] = s.value
    /\ j.at # <<>> /\ s.do = "write" => op = PlaceOf("events")
    /\ ~j.bad => \A n \in Work(j.kind) : Due(j.at, n) \/ H(n) = Torn \/ j.id \in Tokens(n, H(n))
    /\ j.kind \in Failing => \A n \in Work(j.kind) : j.id \notin Tokens(n, H(n))
    /\ j.kind = "stop" =>
         /\ \A x \in Tokens("events", H("events")) : x < j.id
         /\ \A i \in 1..Len(j.at) : j.at[i].do \in {"append", "write"} => j.at[i].value < j.id

LEMMA LoneAs == \A c \in Caller : /\ Lone(c) <=> LoneIn(c, job[c], opened[c], slot)
<1> QED
  BY DEF Lone, LoneIn, CallDoes, On, Held, Free

LEMMA OthersAlone ==
  ASSUME Shape, Meetings, Erasings, WritesFine, TempsFine, NEW c \in Caller, Moving(c),
         NEW d \in Caller, d # c, ~Free(d), d \notin met, Lone(d)
  PROVE  LoneIn(d, job'[d], opened'[d], slot')
<1> DEFINE j == job[d]
<1>1. job'[d] = j /\ ~Free(c) /\ j.kind \in Kind \ {"none"}
  BY JobsAfter
<1>2. ASSUME NEW n \in WorkFiles, n \in Files(j.kind)
      PROVE  /\ slot'[PlaceOf(n)] = Held(n)
             /\ \A p \in Place \cup Scratch : p[1] = n => slot'[p] = slot[p]
             /\ opened[d] # Absent /\ opened[d][1] = n => opened'[d] = opened[d]
  <2>1. n \notin Files(job[c].kind)
    BY <1>1, <1>2 DEF Meetings
  <2>2. PlaceOf(n) \in Place /\ PlaceOf(n)[1] = n
    BY WorkNames
  <2> QED
    BY <2>1, <2>2, LeftAlone DEF Held
<1>3. \A n \in Work(j.kind) : slot'[PlaceOf(n)] = Held(n)
  <2>1. ASSUME NEW n \in Work(j.kind) PROVE n \in WorkFiles /\ n \in Files(j.kind)
    BY <1>1, WorkNames, KindFiles
  <2> QED
    BY <1>2, <2>1
<1>4. ASSUME CallDoes(d, "fill") \/ CallDoes(d, "rename"), On(d) \in WorkFiles
      PROVE  On(d) \in Files(j.kind) /\ j.tmp \in Scratch /\ j.tmp[1] = On(d)
  <2>1. Current(j).do \in Replacing
    BY <1>4 DEF CallDoes, Replacing
  <2>2. On(d) \in Files(j.kind)
    BY <1>4, <2>1, WritingNow
  <2>3. On(d) # "salt"
    BY <1>4, WorkNames
  <2> QED
    BY <1>4, <2>2, <2>3, AtWork DEF HandsOK
<1>5. ASSUME CallDoes(d, "fill"), On(d) \in WorkFiles PROVE opened'[d] = j.tmp
  <2>1. opened[d] = j.tmp
    BY <1>5 DEF Lone
  <2>2. j.tmp # Absent /\ j.tmp[1] = On(d) /\ On(d) \in Files(j.kind)
    BY <1>4, <1>5, Places
  <2> QED
    BY <1>2, <1>5, <2>1, <2>2
<1>6. ASSUME CallDoes(d, "rename"), On(d) \in WorkFiles PROVE slot'[j.tmp] = Current(j).value
  <2>1. slot[j.tmp] = Current(j).value
    BY <1>6 DEF Lone
  <2> QED
    BY <1>2, <1>4, <1>6, <2>1
<1>7. ASSUME CallDoes(d, "write") PROVE opened'[d] = PlaceOf("events")
  <2>1. opened[d] = PlaceOf("events") /\ PlaceOf("events")[1] = "events" /\ PlaceOf("events") # Absent
    BY <1>7, SaltThere, Places DEF Lone
  <2>2. j.kind \in {"prompt", "stop"}
    BY <1>7, AtWork DEF StepOK, CallDoes
  <2>3. "events" \in WorkFiles /\ "events" \in Files(j.kind)
    BY <2>2, KindFiles DEF WorkFiles
  <2> QED
    BY <1>2, <2>1, <2>3
<1>8. j.kind = "stop" => slot'[PlaceOf("events")] = Held("events")
  <2>1. "events" \in WorkFiles
    BY DEF WorkFiles
  <2> QED
    BY <1>2, <2>1, KindFiles
<1>9. LoneIn(d, j, opened'[d], slot')
  <2>1. LoneIn(d, j, opened[d], slot)
    BY LoneAs
  <2>2. /\ j.at # <<>> /\ Current(j).do = "fill" /\ Current(j).on \in WorkFiles => opened'[d] = j.tmp
        /\ j.at # <<>> /\ Current(j).do = "rename" /\ Current(j).on \in WorkFiles => slot'[j.tmp] = Current(j).value
        /\ j.at # <<>> /\ Current(j).do = "write" => opened'[d] = PlaceOf("events")
    BY <1>5, <1>6, <1>7 DEF CallDoes, On, Free
  <2> HIDE DEF j
  <2> QED
    BY <1>3, <1>8, <2>1, <2>2 DEF LoneIn, Held
<1> QED
  BY <1>1, <1>9
LEMMA OwnAlone ==
  ASSUME Shape, Meetings, Erasings, Crossing, Plans, WritesFine,
         NEW c \in Caller, Moving(c), job'[c] # NoJob, c \notin met, Lone(c)
  PROVE  LoneIn(c, job'[c], opened'[c], slot')
<1> DEFINE j == job[c]
           k == job'[c]
<1>0. /\ ~Free(c) /\ ~CallerDies(c) /\ k.id = j.id /\ k.kind = j.kind /\ j.id \in 1..calls /\ calls \in Nat
  <2>1. ~CallerDies(c)
    BY DeathMoves
  <2>2. calls \in Nat
    BY DEF Shape, Typed
  <2> QED
    BY <2>1, <2>2, JobsAfter
<1>1. /\ k.at # <<>> /\ Current(k).do = "fill" /\ Current(k).on \in WorkFiles => opened'[c] = k.tmp
      /\ k.at # <<>> /\ Current(k).do = "rename" /\ Current(k).on \in WorkFiles => slot'[k.tmp] = Current(k).value
      /\ k.at # <<>> /\ Current(k).do = "write" => opened'[c] = PlaceOf("events")
  <2>1. CASE Starts(k.at)
    BY <2>1 DEF Starts, Current
  <2>2. CASE OpenTemporary(c)
    <3>1. opened'[c] = k.tmp /\ Current(k).do = "fill"
      BY <2>2, OpenFacts DEF CallDoes
    <3> QED
      BY <3>1
  <2>3. CASE Salt(c) /\ Held("salt") = Absent
    <3>1. Current(k).do = "fill" /\ Current(k).on = "salt"
      BY <2>3, SaltFacts DEF CallDoes, On
    <3> QED
      BY <3>1 DEF WorkFiles
  <2>4. CASE OpenEvents(c)
    <3>1. opened'[c] = PlaceOf("events") /\ Current(k).do = "write"
      BY <2>4, EventsFacts DEF CallDoes
    <3> QED
      BY <3>1
  <2>5. CASE Fill(c) /\ On(c) # "salt"
    <3>1. /\ Current(k).do = "rename" /\ Current(k).on = On(c) /\ Current(k).value = Current(j).value
          /\ k.tmp = j.tmp /\ j.tmp \in Scratch /\ CallDoes(c, "fill")
      BY <2>5, FillFacts DEF CallDoes, On
    <3>2. ASSUME Current(k).on \in WorkFiles PROVE slot'[k.tmp] = Current(k).value
      <4>1. opened[c] = j.tmp /\ j.tmp # Absent
        BY <3>1, <3>2, Places DEF Lone
      <4>2. c \notin overtaken
        BY <3>1, <3>2 DEF Crossing
      <4>3. slot'[opened[c]] = Current(j).value
        BY <2>5, <4>1, <4>2, FillFacts
      <4> QED
        BY <3>1, <4>1, <4>3
    <3> QED
      BY <3>1, <3>2
  <2> QED
    BY <2>1, <2>2, <2>3, <2>4, <2>5, HowStarted
<1>2. PICK q, b : Goes(c, q, b)
  BY <1>0, GoesMove
<1>3. k.at = q /\ k.bad = b /\ q # <<>>
  BY <1>2 DEF Goes, Went
<1>4. ~k.bad => \A n \in Work(k.kind) : Due(k.at, n) \/ slot'[PlaceOf(n)] = Torn \/ k.id \in Tokens(n, slot'[PlaceOf(n)])
  BY <1>0, <1>2, <1>3 DEF Goes
<1>5. ASSUME k.kind \in Failing, NEW n \in Work(k.kind) PROVE k.id \notin Tokens(n, slot'[PlaceOf(n)])
  <2>1. Unmoved /\ n \in WorkFiles
    BY <1>0, <1>2, <1>3, <1>5, WorkNames DEF Goes
  <2>2. j.id \notin Tokens(n, Held(n))
    BY <1>0, <1>5 DEF Lone
  <2>3. slot'[PlaceOf(n)] = Held(n)
    BY <2>1 DEF Unmoved, Held
  <2> QED
    BY <1>0, <2>2, <2>3
<1>6. ASSUME k.kind = "stop"
      PROVE  /\ \A x \in Tokens("events", slot'[PlaceOf("events")]) : x < k.id
             /\ \A i \in 1..Len(k.at) : k.at[i].do \in {"append", "write"} => k.at[i].value < k.id
  <2>1. /\ \A x \in Tokens("events", Held("events")) : x < j.id
        /\ \A i \in 1..Len(j.at) : j.at[i].do \in {"append", "write"} => j.at[i].value < j.id
    BY <1>0, <1>6 DEF Lone
  <2>2. slot'[PlaceOf("events")] = Held("events") \/ slot'[PlaceOf("events")] = <<>>
    BY <1>0, <1>6, StopKeeps
  <2>3. Tokens("events", <<>>) = {}
    <3> DEFINE v == <<>>
    <3>1. v \in Seq(Event) /\ Len(v) = 0
      OBVIOUS
    <3> HIDE DEF v
    <3>2. \A x \in Items(v) : FALSE
      <4>1. \A x \in Items(v) : \E i \in 1..Len(v) : x = v[i]
        BY <3>1, ItemOf
      <4>2. 1..0 = {}
        OBVIOUS
      <4> QED
        BY <3>1, <4>1, <4>2
    <3>3. Tokens("events", v) = {x.id : x \in Items(v)}
      BY <3>1, TokensOf
    <3>4. Tokens("events", v) = {}
      BY <3>2, <3>3
    <3> QED
      BY <3>4 DEF v
  <2>4. StepsFrom(c)
    BY StepsFromMove
  <2>5. ASSUME NEW i \in 1..Len(k.at), k.at[i].do \in {"append", "write"} PROVE k.at[i].value < j.id
    <3> DEFINE s == k.at[i]
    <3>1. s.value = 0 \/ (\E x \in 1..Len(j.at) : s = j.at[x]) \/ s.value \in Tokens("events", Held("events"))
      BY <2>4, <2>5 DEF StepsFrom
    <3>2. 0 < j.id
      BY <1>0
    <3> QED
      BY <2>1, <2>5, <3>1, <3>2
  <2> QED
    BY <1>0, <2>1, <2>2, <2>3, <2>5
<1> QED
  BY <1>1, <1>4, <1>5, <1>6 DEF LoneIn

LEMMA AlonesMove ==
  ASSUME Shape, Meetings, Erasings, Crossing, Plans, WritesFine, TempsFine, Alones, NEW c \in Caller, Moving(c)
  PROVE  Alones'
<1>1. ASSUME NEW d \in Caller, job'[d].at # <<>>, d \notin met' PROVE LoneIn(d, job'[d], opened'[d], slot')
  <2>1. job'[d] # NoJob
    BY <1>1, NoTmp
  <2>2. ~Free(c) /\ ~Free(d)
    BY <2>1, JobsAfter
  <2>3. CASE d # c
    <3>1. met \ {c} \subseteq met'
      BY MovingMoves DEF Moves
    <3>2. d \notin met /\ Lone(d)
      BY <1>1, <2>2, <2>3, <3>1 DEF Alones
    <3> QED
      BY <2>2, <2>3, <3>2, OthersAlone
  <2>4. CASE d = c
    <3>1. met' = met
      BY <2>1, <2>4, JobsAfter
    <3>2. c \notin met /\ Lone(c)
      BY <1>1, <2>2, <2>4, <3>1 DEF Alones
    <3> QED
      BY <2>1, <2>4, <3>2, OwnAlone
  <2> QED
    BY <2>3, <2>4
<1> QED
  BY <1>1 DEF Alones, Lone, LoneIn, CallDoes, On, Held, Free

LEMMA CrossingMove ==
  ASSUME Shape, Overtaking, Meetings, Erasings, WritesFine, Crossing, NEW c \in Caller, Moving(c)
  PROVE  Crossing'
<1>1. ASSUME NEW d \in overtaken', On(d)' \in WorkFiles PROVE d \in met'
  <2> DEFINE n == On(d)
  <2>1. d \in Caller /\ d # c /\ (d \in overtaken \/ d \in Behind(c)) /\ CallDoes(d, "fill") /\ ~Free(d)
    BY OvertakenMove DEF Overtaking, Behind, CallDoes
  <2>2. job'[d] = job[d] /\ met \ {c} \subseteq met' /\ ~Free(c)
    BY <2>1, MovingMoves, MovesOthers DEF Moves
  <2>3. n \in WorkFiles /\ n # "salt"
    <3>1. On(d)' = n
      BY <2>1, <2>2, SameCall
    <3> QED
      BY <1>1, <3>1, WorkNames
  <2>4. CASE d \in Behind(c)
    <3>1. opened[c] = opened[d] /\ opened[d] # Absent
      BY <2>4 DEF Behind
    <3>2. opened[d][1] = n
      BY <2>1, <2>3, <3>1, AtWork, Places DEF HandsOK
    <3>3. opened[c][1] = On(c) /\ (CallDoes(c, "fill") \/ CallDoes(c, "write"))
      <4>1. /\ CallDoes(c, "fill") \/ CallDoes(c, "write")
            /\ opened[c] = PlaceOf(On(c)) \/ (opened[c] = job[c].tmp /\ CallDoes(c, "fill") /\ On(c) # "salt")
            /\ CallDoes(c, "fill") /\ On(c) # "salt" => job[c].tmp[1] = On(c)
            /\ On(c) \in Names
        BY <2>2, <3>1, AtWork DEF HandsOK
      <4> QED
        BY <4>1, Places
    <3>4. On(c) = n
      BY <3>1, <3>2, <3>3
    <3>5. n \in Files(job[d].kind)
      BY <2>1, <2>3, WritingNow DEF CallDoes, Replacing
    <3>6. n \in Files(job[c].kind)
      <4>1. CASE CallDoes(c, "fill")
        BY <2>2, <2>3, <3>4, <4>1, WritingNow DEF CallDoes, Replacing
      <4>2. CASE CallDoes(c, "write")
        <5>1. On(c) = "events" /\ job[c].kind \in {"prompt", "stop"}
          BY <2>2, <4>2, AtWork DEF StepOK, CallDoes, On
        <5> QED
          BY <3>4, <5>1, KindFiles
      <4> QED
        BY <3>3, <4>1, <4>2
    <3>7. d \in met
      BY <2>1, <2>2, <3>5, <3>6 DEF Meetings
    <3> QED
      BY <2>1, <2>2, <3>7
  <2>5. CASE d \in overtaken
    BY <2>1, <2>2, <2>3, <2>5 DEF Crossing
  <2> QED
    BY <2>1, <2>4, <2>5
<1> QED
  BY <1>1 DEF Crossing
-----------------------------------------------------------------------------
(* A call that begins, and the first state.                                *)

LEMMA OpeningSteps ==
  ASSUME Typed, NEW kind \in Kind \ {"none"}
  PROVE  /\ \A i \in 1..Len(Opening(kind)) :
              /\ Opening(kind)[i].do \in {"salt", "read", "check", "unlink"}
              /\ Opening(kind)[i].do = "read" => kind # "prompt"
         /\ \A n \in Work(kind) : Due(Opening(kind), n)
         /\ Opening(kind) # <<>> => Current([at |-> Opening(kind)]).do \in {"salt", "read", "check", "unlink"}
<1> DEFINE q == Opening(kind)
<1>1. CASE kind = "erase"
  <2>1. ErasePlan(Opening("erase"))
    BY EraseOpening
  <2>2. \A i \in 1..Len(q) : q[i].do \in {"check", "unlink"}
    BY <1>1, <2>1 DEF ErasePlan
  <2>3. q \in Seq(TaskType)
    BY <1>1, BegunErase DEF Begun
  <2> HIDE DEF q
  <2>4. q # <<>> => 1 \in 1..Len(q) /\ Head(q) = q[1]
    BY <2>3
  <2>5. Work(kind) = {}
    BY <1>1, KindFiles
  <2> QED
    BY <2>2, <2>4, <2>5 DEF Current, q
<1>2. CASE kind # "erase"
  <2>1. PICK s \in {Task("salt", "salt", Absent)} \cup {Task("read", n, Absent) : n \in {"events", "preflights", "policy", "latest", "sources"}} :
          q = <<s>> /\ (kind = "prompt" => s = Task("salt", "salt", Absent))
    BY <1>2 DEF Opening, Kind, ReadOf
  <2>2. s.do \in {"salt", "read"} /\ (kind = "prompt" => s.do = "salt")
    BY <2>1 DEF Task
  <2> HIDE DEF q
  <2>3. Len(q) = 1 /\ (\A i \in 1..Len(q) : q[i] = s) /\ Head(q) = s
    BY <2>1, OneStep
  <2>4. 1 \in 1..Len(q)
    BY <2>3
  <2>5. \A n : Due(q, n)
    BY <2>2, <2>3, <2>4 DEF Due
  <2> QED
    BY <2>2, <2>3, <2>5 DEF Current, q
<1> QED
  BY <1>1, <1>2

LEMMA FineLater ==
  ASSUME NEW n, NEW v, NEW void, NEW shut, NEW k \in Nat, FineIn(n, v, k, void, shut) PROVE FineIn(n, v, k + 1, void, shut)
<1>1. 0..k \subseteq 0..(k + 1)
  OBVIOUS
<1> QED
  BY <1>1 DEF FineIn

LEMMA SurviveBegin ==
  ASSUME Shape, Overtaking, Crossing, Past, Plans, WritesFine, TempsFine, Filled, InFiles, Alones,
         NEW c \in Caller, BeginCall(c)
  PROVE  (Crossing /\ Past /\ Plans /\ WritesFine /\ TempsFine /\ Filled /\ InFiles /\ Alones)'
<1>1. /\ Free(c) /\ calls' = calls + 1 /\ UNCHANGED <<topic, slot, opened, done, retired>> /\ calls \in Nat
  BY BeginMoves DEF Shape, Typed
<1>2. PICK kind \in Kinds[topic], arg \in Nat \cup SourceKey \cup Report :
        LET beside == {d \in Caller \ {c} : ~Free(d) /\ Files(job[d].kind) \cap Files(kind) # {}} IN
        /\ kind \in Kind \ {"none"}
        /\ job' = [job EXCEPT ![c] = NewCall(c, kind, arg)] /\ job'[c] = NewCall(c, kind, arg)
        /\ met' = IF beside = {} THEN met ELSE met \cup beside \cup {c}
        /\ notes' = IF kind = "scan" /\ beside # {} THEN notes \cup {<<"scans", 0>>} ELSE notes
  BY BeginMoves
<1> DEFINE k == job'[c]
           q == Opening(kind)
<1>3. /\ \A d \in Caller \ {c} : job'[d] = job[d]
      /\ met \subseteq met'
  BY <1>2 DEF Shape, Typed
<1>4. k.id = calls + 1 /\ k.tmp = Absent /\ k.at = q /\ k.bad = FALSE /\ k.kind = kind
  BY <1>2 DEF NewCall
<1>5. Shut' = Shut
  <2> DEFINE T == {<<"scans", 0>>}
  <2>1. notes' = notes \/ notes' = notes \cup T
    BY <1>2
  <2>2. \A w \in T : w[1] # "closed"
    OBVIOUS
  <2> HIDE DEF T
  <2> QED
    BY <2>1, <2>2 DEF Shut
<1>6. /\ \A i \in 1..Len(q) : /\ q[i].do \in {"salt", "read", "check", "unlink"}
                              /\ q[i].do = "read" => kind # "prompt"
      /\ \A n \in Work(kind) : Due(q, n)
      /\ q # <<>> => Head(q).do \in {"salt", "read", "check", "unlink"}
  BY <1>2, OpeningSteps DEF Shape, Current
<1> HIDE DEF k, q
<1>7. \A n, v : Fine(n, v) => FineIn(n, v, calls', Void(n), Shut)
  BY <1>1, FineLater DEF Fine
<1>8. \A n : Void(n)' = Void(n) /\ Owed(n)' = Owed(n)
  BY <1>1 DEF Void, VoidIn, Owed, OwedIn
<1>9. Past'
  <2>1. ASSUME NEW d \in done PROVE d.id \in 1..calls' /\ \A a \in Caller : job'[a].id # d.id
    <3>1. d.id \in 1..calls /\ \A a \in Caller : job[a].id # d.id
      BY DEF Past
    <3>2. d.id \in 1..(calls + 1) /\ d.id # calls + 1
      BY <1>1, <3>1
    <3> QED
      BY <1>1, <1>3, <1>4, <3>1, <3>2 DEF k
  <2>2. ASSUME NEW p \in Shut PROVE p \in 0..calls' /\ \A a \in Caller : job'[a].kind = "prompt" => job'[a].id # p
    <3>1. p \in 0..calls /\ \A a \in Caller : job[a].kind = "prompt" => job[a].id # p
      BY DEF Past
    <3>2. p \in 0..(calls + 1) /\ p # calls + 1
      BY <1>1, <3>1
    <3> QED
      BY <1>1, <1>3, <1>4, <3>1, <3>2 DEF k
  <2> QED
    BY <1>1, <1>5, <2>1, <2>2 DEF Past
<1>10. Plans'
  <2>1. ASSUME NEW d \in Caller PROVE Plan(job'[d], job'[d].at, job'[d].bad)
    <3>1. CASE d # c
      BY <1>3, <3>1 DEF Plans
    <3>2. CASE d = c
      <4>1. Plan(k, q, FALSE)
        BY <1>4, <1>6 DEF Plan
      <4> QED
        BY <1>4, <3>2, <4>1 DEF k
    <3> QED
      BY <3>1, <3>2
  <2> QED
    BY <2>1 DEF Plans
<1>11. WritesFine'
  <2>1. ASSUME NEW d \in Caller, NEW i \in 1..Len(job'[d].at), NEW s, s = job'[d].at[i], s.do \in Replacing, s.on \in WorkFiles
        PROVE  /\ job'[d].kind \in Writers(s.on) /\ (s.on \in Work(job'[d].kind) => job'[d].id \in Tokens(s.on, s.value))
               /\ FineIn(s.on, s.value, calls', VoidIn(s.on, done'), Shut')
               /\ \A x \in OwedIn(s.on, done') :
                    x \in Tokens(s.on, s.value) \/ <<s.on, x>> \in retired' \/ x \in Tokens(s.on, job'[d].read)
    <3>1. d # c
      <4>1. SUFFICES ASSUME d = c PROVE FALSE
        OBVIOUS
      <4>2. i \in 1..Len(q) /\ s = q[i]
        BY <1>4, <2>1, <4>1 DEF k
      <4> QED
        BY <1>6, <2>1, <4>2 DEF Replacing
    <3>2. job'[d] = job[d]
      BY <1>3, <3>1
    <3>3. Writing(job[d], s.on, s.value)
      BY <2>1, <3>2 DEF WritesFine
    <3> QED
      BY <1>1, <1>5, <1>7, <1>8, <3>2, <3>3 DEF Writing, Good, Owed, Void
  <2> QED
    BY <2>1 DEF WritesFine, Writing, Fine, Good, Owed, Void
<1>12. TempsFine'
  <2>1. ASSUME NEW d \in Caller, job'[d].tmp # Absent, job'[d].tmp[1] \in WorkFiles
        PROVE  /\ job'[d].kind \in Writers(job'[d].tmp[1])
               /\ FineIn(job'[d].tmp[1], slot[job'[d].tmp], calls', VoidIn(job'[d].tmp[1], done'), Shut')
    <3>1. job'[d] = job[d]
      BY <1>3, <1>4, <2>1 DEF k
    <3>2. job[d].kind \in Writers(job[d].tmp[1]) /\ Fine(job[d].tmp[1], slot[job[d].tmp])
      BY <2>1, <3>1 DEF TempsFine
    <3> QED
      BY <1>1, <1>5, <1>7, <3>1, <3>2 DEF Void
  <2> QED
    BY <1>1, <2>1 DEF TempsFine, Fine, Void
<1>13. Filled'
  <2>1. ASSUME NEW d \in Caller, job'[d].at # <<>>, Current(job'[d]).do \in {"fill", "rename"} PROVE d # c
    <3>1. SUFFICES ASSUME d = c PROVE FALSE
      OBVIOUS
    <3> QED
      BY <1>4, <1>6, <2>1, <3>1 DEF Current, k
  <2> QED
    BY <1>1, <1>3, <1>8, <2>1 DEF Filled, CallDoes, On, Free, Entire, Good
<1>14. InFiles'
  <2>1. ASSUME NEW n \in WorkFiles
        PROVE  /\ FineIn(n, slot[PlaceOf(n)], calls', VoidIn(n, done'), Shut')
               /\ slot[PlaceOf(n)] = Torn \/ \A x \in OwedIn(n, done') : x \in Tokens(n, slot[PlaceOf(n)]) \/ <<n, x>> \in retired'
    BY <1>1, <1>5, <1>7 DEF InFiles, Held, Entire, Good, Owed, Void
  <2> QED
    BY <1>1, <2>1 DEF InFiles, Fine, Entire, Good, Held, Owed, Void
<1>15. Alones'
  <2>1. \A n \in WorkFiles : calls + 1 \notin Tokens(n, slot[PlaceOf(n)]) /\ \A x \in Tokens(n, slot[PlaceOf(n)]) : x < calls + 1
    <3>1. ASSUME NEW n \in WorkFiles, NEW x \in Tokens(n, slot[PlaceOf(n)]) PROVE x < calls + 1 /\ x # calls + 1
      <4>1. x \in 0..calls
        BY DEF InFiles, Fine, FineIn, Held
      <4> QED
        BY <1>1, <4>1
    <3> QED
      BY <3>1
  <2>2. ASSUME NEW d \in Caller, job'[d].at # <<>>, d \notin met' PROVE LoneIn(d, job'[d], opened[d], slot)
    <3>1. CASE d # c
      <4>1. job'[d] = job[d] /\ Lone(d)
        BY <1>3, <2>2, <3>1 DEF Alones, Free
      <4> QED
        BY <4>1, LoneAs
    <3>2. CASE d = c
      <4>1. LoneIn(c, k, opened[c], slot)
        <5>1. Work(kind) \subseteq WorkFiles /\ "events" \in WorkFiles
          BY WorkNames DEF WorkFiles
        <5>2. Current(k) = Head(q)
          BY <1>4 DEF Current
        <5> QED
          BY <1>4, <1>6, <2>1, <5>1, <5>2 DEF LoneIn
      <4> QED
        BY <3>2, <4>1 DEF k
    <3> QED
      BY <3>1, <3>2
  <2> QED
    BY <1>1, <2>2 DEF Alones, Lone, LoneIn, CallDoes, On, Held, Free
<1>16. Crossing'
  <2>1. overtaken' = overtaken /\ met \subseteq met'
    BY DEF BeginCall
  <2>2. ASSUME NEW d \in overtaken, On(d)' \in WorkFiles PROVE d \in met
    <3>1. d \in Caller /\ ~Free(d)
      BY DEF Overtaking, CallDoes
    <3>2. On(d)' = On(d)
      <4>1. job'[d] = job[d]
        BY <1>1, <1>3, <3>1
      <4> QED
        BY <4>1 DEF On
    <3> QED
      BY <2>2, <3>2 DEF Crossing
  <2> QED
    BY <2>1, <2>2 DEF Crossing
<1> QED
  BY <1>9, <1>10, <1>11, <1>12, <1>13, <1>14, <1>15, <1>16
LEMMA SurviveInit == StoreInit => SurviveInv
<1> SUFFICES ASSUME StoreInit PROVE SurviveInv
  OBVIOUS
<1>1. /\ slot = [p \in Place \cup Scratch |-> Absent] /\ \A c \in Caller : job[c] = NoJob /\ Free(c)
      /\ calls = 0 /\ done = {} /\ notes = {} /\ retired = {}
  BY NoTmp DEF StoreInit, Free
<1>2. Shape /\ Overtaking /\ Meetings /\ Erasings /\ Crossing
  <2>1. overtaken = {}
    BY DEF StoreInit
  <2> QED
    BY <2>1, ShapeInit, OvertakingInit, MeetingsInit, ErasingsInit DEF Crossing
<1>3. Shut = {} /\ \A n : Owed(n) = {} /\ Void(n) = {}
  BY <1>1 DEF Shut, Owed, OwedIn, Void, VoidIn
<1>4. Past
  BY <1>1, <1>3 DEF Past
<1>5. Plans
  <2>1. NoJob.bad = FALSE
    BY DEF NoJob
  <2>2. Plan(NoJob, <<>>, FALSE)
    BY DEF Plan
  <2> QED
    BY <1>1, <2>1, <2>2, NoTmp DEF Plans
<1>6. WritesFine /\ TempsFine /\ Filled /\ Alones
  BY <1>1, NoTmp DEF WritesFine, TempsFine, Filled, Alones, CallDoes
<1>7. InFiles
  <2>1. ASSUME NEW n \in WorkFiles PROVE Held(n) = Absent
    BY <1>1, WorkNames DEF Held
  <2> QED
    BY <1>3, <2>1, TokensOf DEF InFiles, Fine, FineIn, Entire
<1> QED
  BY <1>2, <1>4, <1>5, <1>6, <1>7 DEF SurviveInv

(* The invariant behind WorkSurvives is kept by every step of every        *)
(* operation of the stores.                                                *)
LEMMA SurviveStep == ASSUME SurviveInv, [StoreNext]_storeVars PROVE SurviveInv'
<1>1. /\ Shape /\ Overtaking /\ Meetings /\ Erasings /\ Crossing
      /\ Past /\ Plans /\ WritesFine /\ TempsFine /\ Filled /\ InFiles /\ Alones
  BY DEF SurviveInv
<1>2. (Shape /\ Overtaking /\ Meetings /\ Erasings)'
  BY <1>1, ShapeStep, OvertakingStep, MeetingsStep, ErasingsStep
<1>3. CASE UNCHANGED storeVars \/ Review
  <2>1. UNCHANGED <<slot, job, opened, overtaken, calls, done, met, retired, notes>>
    BY <1>3 DEF storeVars, Review
  <2>2. (Past /\ Plans)'
    BY <1>1, <2>1 DEF Past, Plans, Shut
  <2>3. Shut' = Shut /\ \A n : Owed(n)' = Owed(n) /\ Void(n)' = Void(n)
    BY <2>1 DEF Shut, Owed, OwedIn, Void, VoidIn
  <2>4. (WritesFine /\ TempsFine /\ Filled /\ InFiles)'
    BY <1>1, <2>1, <2>3 DEF WritesFine, TempsFine, Filled, InFiles, Writing, Fine, Entire, Good, CallDoes, On, Free, Held
  <2>5. Alones'
    BY <1>1, <2>1 DEF Alones, Lone, CallDoes, On, Free, Held
  <2>6. Crossing'
    BY <1>1, <2>1 DEF Crossing, On
  <2> QED
    BY <1>2, <2>2, <2>4, <2>5, <2>6 DEF SurviveInv
<1>4. ASSUME NEW c \in Caller, BeginCall(c) PROVE SurviveInv'
  BY <1>1, <1>2, <1>4, SurviveBegin DEF SurviveInv
<1>5. ASSUME NEW c \in Caller, Moving(c) PROVE SurviveInv'
  <2>1. Past' /\ Plans'
    BY <1>1, <1>5, PastMove, PlansMove
  <2>2. WritesFine' /\ TempsFine' /\ Filled'
    BY <1>1, <1>5, WritesFineMove, TempsFineMove, FilledMove
  <2>3. InFiles'
    BY <1>1, <1>5, InFilesMove
  <2>4. Alones'
    BY <1>1, <1>5, AlonesMove
  <2>5. Crossing'
    BY <1>1, <1>5, CrossingMove
  <2> QED
    BY <1>2, <2>1, <2>2, <2>3, <2>4, <2>5 DEF SurviveInv
<1> QED
  BY <1>3, <1>4, <1>5, NextCases

LEMMA SurviveMeans == SurviveInv => WorkSurvives
<1> SUFFICES ASSUME SurviveInv PROVE WorkSurvives
  OBVIOUS
<1>1. Shape /\ InFiles
  BY DEF SurviveInv
<1>2. ASSUME NEW d \in done, d.alone, NEW n \in Work(d.kind)
      PROVE  /\ d.answer = "ok" => Held(n) = Torn \/ d.id \in Tokens(n, Held(n)) \/ <<n, d.id>> \in retired
             /\ d.answer = "failed" /\ d.kind \notin {"prompt", "stop"} => d.id \notin Tokens(n, Held(n))
  <2>1. n \in WorkFiles
    BY WorkNames
  <2>2. Fine(n, Held(n)) /\ (Held(n) = Torn \/ Entire(n, Held(n)))
    BY <1>1, <2>1 DEF InFiles
  <2>3. d.answer = "ok" => d.id \in Owed(n)
    BY <1>2 DEF Owed, OwedIn
  <2>4. d.kind \in Failing \cup {"prompt", "stop"}
    BY <1>2 DEF Work, Failing
  <2>5. d.answer = "failed" /\ d.kind \in Failing => d.id \in Void(n)
    BY <1>2 DEF Void, VoidIn
  <2> QED
    BY <2>2, <2>3, <2>4, <2>5 DEF Fine, FineIn, Entire, Good
<1>3. ASSUME Held("events") # Torn, NEW i \in Open(List(Held("events"))), <<"closed", Held("events")[i].id>> \in notes
      PROVE  FALSE
  <2> DEFINE v == Held("events")
  <2>1. PlaceOf("events") \in Place \cup Scratch /\ PlaceOf("events")[1] = "events" /\ "events" \in WorkFiles
    BY SaltThere DEF WorkFiles
  <2>2. v # Absent
    <3>1. SUFFICES ASSUME v = Absent PROVE FALSE
      OBVIOUS
    <3>2. List(v) = <<>>
      BY <3>1 DEF List
    <3> DEFINE e == <<>>
    <3>3. DOMAIN e = {}
      OBVIOUS
    <3>4. i \in DOMAIN e
      BY <1>3, <3>2 DEF Open, Deliveries
    <3> QED
      BY <3>3, <3>4
  <2>3. v \in Seq(Event) /\ List(v) = v
    <3>1. Fits("events", v)
      BY <1>1, <1>3, <2>1, <2>2 DEF Shape, Contents, Held
    <3> QED
      BY <2>2, <3>1, ValueOf DEF Fits, List
  <2>4. Closing(v, Shut)
    BY <1>1, <1>3, <2>1, <2>2 DEF InFiles, Fine, FineIn
  <2>5. /\ i \in DOMAIN v /\ v[i].kind = "prompt"
        /\ \A j \in DOMAIN v : v[j].kind = "stop" /\ v[j].of = v[i].id => v[j].id < v[i].id
    BY <1>3, <2>3 DEF Open, Deliveries
  <2>6. v[i].id \in Shut
    <3> DEFINE w == <<"closed", v[i].id>>
    <3>1. w[1] = "closed" /\ w[2] = v[i].id /\ w \in notes
      BY <1>3
    <3> HIDE DEF w
    <3> QED
      BY <3>1 DEF Shut
  <2> HIDE DEF v
  <2>7. v[i] \in Items(v) /\ \A f \in Items(v) : \E j \in DOMAIN v : f = v[j]
    BY <2>5 DEF Items
  <2>8. PICK f \in Items(v) : f.kind = "stop" /\ f.of = v[i].id /\ f.id > v[i].id
    BY <2>4, <2>5, <2>6, <2>7 DEF Closing
  <2>9. PICK j \in DOMAIN v : f = v[j]
    BY <2>7
  <2>10. v[j].id \in Nat /\ v[i].id \in Nat
    <3>1. v[j] \in Event /\ v[i] \in Event
      BY <2>3, <2>5
    <3> QED
      BY <3>1 DEF Event
  <2>11. v[j].id < v[i].id /\ v[j].id > v[i].id
    BY <2>5, <2>8, <2>9
  <2> QED
    BY <2>10, <2>11
<1> QED
  BY <1>2, <1>3 DEF WorkSurvives

(* A call that nobody ran beside answers truly, and for good: what it      *)
(* answered as done stays in the file until a later call removes it on     *)
(* purpose, what it answered as failed is not there, and what a stop       *)
(* closed is not open again (appendPreflightEvidence,                      *)
(* recordPreflightFeedback, writeCatalogSources, appendEvidenceEvent,      *)
(* compactEvidenceEvents).                                                 *)
THEOREM WorkSurvivesHolds == StoreSpec => []WorkSurvives
<1>1. StoreInit => SurviveInv
  BY SurviveInit
<1>2. SurviveInv /\ [StoreNext]_storeVars => SurviveInv'
  BY SurviveStep
<1>3. SurviveInv => WorkSurvives
  BY SurviveMeans
<1> QED
  BY <1>1, <1>2, <1>3, PTL DEF StoreSpec
-----------------------------------------------------------------------------
(* The parts side by side, as they are checked (MCStorage).                *)

LEMMA EachPart == (MCSpec => JournalSpec) /\ (MCSpec => FilesSpec) /\ (MCSpec => StoreSpec)
<1>1. MCInit => JournalInit /\ FilesInit /\ StoreInit
  BY DEF MCInit
<1>2. [MCNext]_parts => [JournalNext]_journalVars
  BY DEF MCNext, parts, journalVars
<1>3. [MCNext]_parts => [FilesNext]_fileVars
  BY DEF MCNext, parts, fileVars
<1>4. [MCNext]_parts => [StoreNext]_storeVars
  BY DEF MCNext, parts, storeVars
<1>5. MCSpec => JournalSpec
  BY <1>1, <1>2, PTL DEF MCSpec, JournalSpec
<1>6. MCSpec => FilesSpec
  BY <1>1, <1>3, PTL DEF MCSpec, FilesSpec
<1>7. MCSpec => StoreSpec
  BY <1>1, <1>4, PTL DEF MCSpec, StoreSpec
<1> QED
  BY <1>5, <1>6, <1>7

(* Type correctness of the lifecycle journal, of the publication of         *)
(* configuration files and of the evidence, catalog and report files.       *)
THEOREM PartsTypeCorrect == MCSpec => []PartsTypeOK
<1>1. JournalTypeOK /\ FilesTypeOK /\ StoreTypeOK => PartsTypeOK
  BY DEF PartsTypeOK
<1> QED
  BY <1>1, EachPart, JournalTypeOKHolds, FilesTypeCorrect, StoreTypeOKHolds, PTL

(* Nobody's work is lost to somebody else's: neither what the owner of a    *)
(* configuration wrote while it was being published, nor what a caller of   *)
(* the stores changed while no other was changing the same file, nor a      *)
(* delivery that was closed in the meantime.                                *)
THEOREM OthersWorkKeptHolds == MCSpec => []OthersWorkKept
<1>1. WantedKept /\ WorkSurvives => OthersWorkKept
  BY DEF OthersWorkKept
<1> QED
  BY <1>1, EachPart, OwnersWorkStays, WorkSurvivesHolds, PTL
=============================================================================

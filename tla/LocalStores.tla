---------------------------- MODULE LocalStores ----------------------------
(***************************************************************************)
(* The plain files of the state directory: preflights, lifecycle events,   *)
(* the salt, the evidence policy, catalog sources and their snapshot, and  *)
(* the portfolio reports with their history (packages/store/src:           *)
(* preflight-store.ts, evidence-event-store.ts, evidence-policy-store.ts,  *)
(* evidence-privacy.ts, catalog-store.ts, manifest-store.ts,               *)
(* history-store.ts; and the services and Hooks that use them).            *)
(*                                                                         *)
(* Nobody takes a lock: Hooks, commands and requests to the dashboard read *)
(* a file, compute, write a temporary file and rename it, at the same      *)
(* time.  What is in a file is told by the numbers of the calls whose work *)
(* is in it (Tokens).                                                      *)
(***************************************************************************)
EXTENDS Naturals, Sequences, FiniteSets

CONSTANTS
    Caller,       \* processes, or requests to one server
    Absent,       \* no file
    Torn,         \* a file truncated and not yet written, or a mixture of two contents
    Report,       \* fingerprints of portfolios
    Kept,         \* entries a list keeps (MAX_RECORDS, maxEvents, the history's limit)
    SourceLimit,  \* catalog sources
    EnabledLimit, \* of them enabled
    CallsMade,    \* bound: calls
    TroubleLimit  \* bound: failures, deaths and temporary names that collide

(* Names in the state directory: the files, the reports of the history and *)
(* the temporary files.  A temporary name is made of the process and the   *)
(* millisecond: every caller has its own, but two requests to one server   *)
(* may use the same.                                                       *)
Stored  == {"preflights", "events", "salt", "policy", "sources", "snapshot",
            "latest", "previous", "index"}
Place   == (Stored \X {"file"}) \cup (Report \X {"file"})
Scratch == (Stored \cup Report) \X Caller
PlaceOf(n)   == <<n, "file">>

VARIABLES
    topic,   \* the files this behaviour is about: calls on others do not interact
    slot,    \* what is under each name: a value, Absent or Torn
    job,     \* what each caller is doing
    opened,  \* where the file is that a caller has open
    overtaken, \* callers whose file another has written to since it was truncated
    review,  \* the values the latest reviewed plan was made from
    calls, trouble,
    done,    \* history: the calls that ended, and their answers
    met,     \* history: callers whose call ran beside another on the same files
    retired, \* history: work that a call removed on purpose, and by erasing
    notes    \* history: "collision", "scans" that met, "unseen" work erased,
             \* salts used and erased

storeVars == <<topic, slot, job, opened, overtaken, review, calls, trouble, done, met, retired, notes>>

-----------------------------------------------------------------------------
(* Values.  Preflights and events are newest-first and oldest-first lists, *)
(* sources and a snapshot tell of each source by its key, a report is its  *)
(* fingerprint.                                                            *)
SourceKey == {"preset", "other", "third"}
Preflight == [id : Nat, feedback : Nat]
Event     == [id : Nat, kind : {"prompt", "stop"}, of : Nat, key : Nat]
Source    == [on : BOOLEAN, by : SUBSET Nat]
State     == [status : {"disabled", "ready", "stale", "error"}, by : Nat]

Value(n) ==
    CASE n = "preflights"             -> Seq(Preflight)
      [] n = "events"                 -> Seq(Event)
      [] n \in {"salt", "policy"}     -> Nat
      [] n = "sources"                -> [SourceKey -> Source \cup {Absent}]
      [] n = "snapshot"               -> [SourceKey -> State \cup {Absent}]
      [] n \in {"latest", "previous"} -> Report
      [] n = "index"                  -> Seq(Report)
      [] OTHER                        -> {n}

ASSUME StoreConstants ==
    /\ {SourceLimit, EnabledLimit, CallsMade, TroubleLimit} \subseteq Nat /\ Kept \in Nat \ {0}
    /\ Absent # Torn /\ "file" \notin Caller /\ Report \cap Stored = {}
    /\ Absent \notin Place \cup Scratch /\ Absent \notin Source
    /\ \A n \in Stored \cup Report : Absent \notin Value(n) /\ Torn \notin Value(n)

Items(v) == {v[i] : i \in DOMAIN v}
Told(v)  == {k \in SourceKey : v[k] # Absent}

Tokens(n, v) ==
    IF v \in {Absent, Torn} THEN {}
    ELSE CASE n = "preflights" -> {e.id : e \in Items(v)} \cup ({e.feedback : e \in Items(v)} \ {0})
           [] n = "events"     -> {e.id : e \in Items(v)}
           [] n = "sources"    -> UNION {v[k].by : k \in Told(v)}
           [] n = "snapshot"   -> {v[k].by : k \in Told(v)}
           [] n = "policy"     -> {v}
           [] OTHER            -> {}

List(v)    == IF v = Absent THEN <<>> ELSE v
First(s)   == SubSeq(s, 1, IF Len(s) < Kept THEN Len(s) ELSE Kept)
LastOf(s)  == SubSeq(s, IF Len(s) < Kept THEN 1 ELSE Len(s) - Kept + 1, Len(s))

Preset      == "preset"
Presets     == [k \in SourceKey |-> IF k = Preset THEN [on |-> TRUE, by |-> {}] ELSE Absent]
SourcesOf(v) == IF v = Absent THEN Presets ELSE v
ValidSources(S) ==
    /\ Cardinality(Told(S)) <= SourceLimit
    /\ Cardinality({k \in Told(S) : S[k].on}) <= EnabledLimit

(* The latest delivery of the session that nothing has closed since.       *)
Deliveries(v) == {i \in DOMAIN v : v[i].kind = "prompt"}
Open(v) == {i \in Deliveries(v) : \A j \in DOMAIN v :
              v[j].kind = "stop" /\ v[j].of = v[i].id => v[j].id < v[i].id}
LatestOpen(v, key) ==
    LET mine == {i \in Open(v) : v[i].key = key} IN
    {v[i].id : i \in {i \in mine : \A j \in mine : v[j].id <= v[i].id}}

-----------------------------------------------------------------------------
(* A call is a list of steps.                                              *)

Current(j) == Head(j.at)
Task(do, on, value) == [do |-> do, on |-> on, value |-> value]
Replace(n, v) == <<Task("open", n, v), Task("fill", n, v), Task("rename", n, v)>>
ReadOf(n)     == <<Task("read", n, Absent)>>
AppendSteps(of) == <<Task("append", "events", of), Task("write", "events", of)>>

Files(kind) ==
    CASE kind = "prompt" -> {"preflights", "events", "salt"}
      [] kind = "stop"   -> {"events", "salt"}
      [] kind \in {"preflight", "feedback"} -> {"preflights"}
      [] kind = "compact" -> {"events"}
      [] kind = "erase"   -> {"preflights", "events", "salt"}
      [] kind = "policy"  -> {"policy"}
      [] kind \in {"add", "enable", "disable", "remove"} -> {"sources"}
      [] kind = "refresh" -> {"sources", "snapshot"}
      [] kind = "scan"    -> {"latest", "previous", "index"}

Kinds == [hooks    |-> {"prompt", "stop", "compact", "erase"},
          tasks    |-> {"preflight", "feedback", "erase"},
          policy   |-> {"policy"},
          sources  |-> {"add", "enable", "disable", "remove", "refresh"},
          reports  |-> {"scan"}]

CheckOf(n)  == Task("check", n, review[n])
UnlinkOf(n) == IF review[n] = Absent THEN <<>> ELSE <<Task("unlink", n, review[n])>>

Opening(kind) ==
    CASE kind \in {"prompt", "stop"} -> <<Task("salt", "salt", Absent)>>
      [] kind = "erase" ->
            <<CheckOf("preflights"), CheckOf("events"), CheckOf("salt")>>
            \o UnlinkOf("preflights") \o UnlinkOf("events") \o UnlinkOf("salt")
      [] kind = "compact" -> ReadOf("events")
      [] kind \in {"preflight", "feedback"} -> ReadOf("preflights")
      [] kind = "policy" -> ReadOf("policy")
      [] kind = "scan" -> ReadOf("latest")
      [] OTHER -> ReadOf("sources")

Refused == <<Task("refuse", "policy", Absent)>>

(* What may follow from reading a file, for the call j.                    *)
AfterPreflights(j, v) ==
    IF j.kind # "feedback"
    THEN {Replace("preflights", First(<<[id |-> j.id, feedback |-> 0]>> \o List(v)))
          \o IF j.key # Absent THEN AppendSteps(0) ELSE <<>>}
    ELSE IF \A i \in DOMAIN List(v) : List(v)[i].id # j.arg THEN {Refused}
         ELSE {Replace("preflights", [i \in DOMAIN v |->
                  IF v[i].id = j.arg THEN [v[i] EXCEPT !.feedback = j.id] ELSE v[i]])}

\* A mutant: a compaction keeps the oldest events.
KeepOldest(v) == IF List(v) = <<>> THEN {<<>>} ELSE {Replace("events", First(v))}

(* The events in the order of their creation.                              *)
InOrder(v) == {s \in [1..Len(v) -> Items(v)] :
                 /\ Items(s) = Items(v)
                 /\ \A i, j \in 1..Len(v) : i < j => s[i].id <= s[j].id}

(* The latest are kept; and of those the ones that are not too old.        *)
Compacted(v) ==
    IF List(v) = <<>> THEN {<<>>}
    ELSE UNION {{Replace("events", SubSeq(LastOf(s), k, Len(LastOf(s)))) : k \in 1..(Len(LastOf(s)) + 1)}
                : s \in InOrder(v)}

(* A compaction; or a stop, which in Claude Code closes the latest open    *)
(* delivery of its session, and nothing elsewhere or at the session's end. *)
AfterEvents(j, v) ==
    IF j.kind = "compact" THEN Compacted(v)
    ELSE {AppendSteps(of) : of \in {0} \cup LatestOpen(List(v), j.key)}

AfterPolicy(j, v) == {IF v = review["policy"] THEN Replace("policy", j.id) ELSE Refused}

AfterSources(j, v) ==
    LET S       == SourcesOf(v)
        there   == j.arg \in Told(S)
        with(T) == IF ValidSources(T) THEN {Replace("sources", T)} ELSE {Refused} IN
    CASE j.kind = "add" /\ ~there ->
            with([S EXCEPT ![j.arg] = [on |-> FALSE, by |-> {j.id}]])
      [] j.kind \in {"enable", "disable"} /\ there ->
            with([S EXCEPT ![j.arg] = [on |-> j.kind = "enable", by |-> @.by \cup {j.id}]])
      [] j.kind = "remove" /\ there /\ j.arg # Preset ->
            with([S EXCEPT ![j.arg] = Absent])
      [] j.kind = "refresh" -> {<<Task("read", "snapshot", S)>>}
      [] OTHER -> {Refused}

(* A source that cannot be inspected keeps what the last snapshot had.     *)
AfterSnapshot(j, v) ==
    LET S      == Current(j).value
        had(k) == v # Absent /\ k \in Told(v) /\ v[k].by # 0 IN
    {Replace("snapshot", [k \in SourceKey |->
        CASE k \notin Told(S)      -> Absent
          [] k \in Told(S) /\ ~S[k].on -> [status |-> "disabled", by |-> 0]
          [] k \in good            -> [status |-> "ready", by |-> j.id]
          [] OTHER -> IF had(k) THEN [status |-> "stale", by |-> v[k].by]
                      ELSE [status |-> "error", by |-> 0]])
       : good \in SUBSET {k \in Told(S) : S[k].on}}

AfterLatest(j, v) ==
    {(IF v \notin {Absent, j.arg} THEN Replace("previous", v) ELSE <<>>)
     \o Replace("latest", j.arg) \o ReadOf("index")}

Pruned(next) == [i \in 1..(Len(next) - Len(First(next))) |-> Task("drop", next[Kept + i], Absent)]

\* A mutant: what is pruned is removed before the index stops naming it.
PruneFirst(j, v) ==
    LET next == <<j.arg>> \o List(v) IN
    IF j.arg \in Items(List(v)) THEN {<<>>}
    ELSE {Pruned(next) \o Replace(j.arg, j.arg) \o Replace("index", First(next))}

AfterIndex(j, v) ==
    LET next == <<j.arg>> \o List(v) IN
    IF j.arg \in Items(List(v)) THEN {<<>>}
    ELSE {Replace(j.arg, j.arg) \o Replace("index", First(next)) \o Pruned(next)}

After(j, n, v) ==
    CASE n = "preflights" -> AfterPreflights(j, v)
      [] n = "events"     -> AfterEvents(j, v)
      [] n = "policy"     -> AfterPolicy(j, v)
      [] n = "sources"    -> AfterSources(j, v)
      [] n = "snapshot"   -> AfterSnapshot(j, v)
      [] n = "latest"     -> AfterLatest(j, v)
      [] n = "index"      -> AfterIndex(j, v)

-----------------------------------------------------------------------------
(* Calls.                                                                  *)

NoJob == [id |-> 0, kind |-> "none", arg |-> 0, at |-> <<>>, read |-> Absent,
          key |-> Absent, tmp |-> Absent, bad |-> FALSE]

Free(c)      == job[c].at = <<>>
CallDoes(c, do) == ~Free(c) /\ Current(job[c]).do = do
On(c)        == Current(job[c]).on

CallEnded(c, j, answer) == [id |-> j.id, kind |-> j.kind, answer |-> answer, alone |-> c \notin met]

(* The call goes on with these steps; without any it has succeeded.        *)
GoTo(c, j, steps) ==
    IF steps # <<>>
    THEN job' = [job EXCEPT ![c] = [j EXCEPT !.at = steps]] /\ UNCHANGED <<done, met>>
    ELSE /\ job' = [job EXCEPT ![c] = NoJob]
         /\ done' = done \cup {CallEnded(c, j, IF j.bad THEN "failed" ELSE "ok")}
         /\ met' = met \ {c}
Continue(c) == GoTo(c, job[c], Tail(job[c].at))

(* An error ends a call; but a prompt records what it can.                 *)
CallFails(c) ==
    LET j == [job[c] EXCEPT !.bad = TRUE] IN
    IF j.kind = "prompt" /\ On(c) = "salt" THEN GoTo(c, j, ReadOf("preflights"))
    ELSE IF j.kind = "prompt" /\ On(c) = "preflights" /\ j.key # Absent THEN GoTo(c, j, AppendSteps(0))
    ELSE GoTo(c, j, <<>>)

Calm == UNCHANGED <<topic, review, calls, trouble>>

BeginCall(c) ==
    /\ Free(c) /\ calls < CallsMade /\ calls' = calls + 1
    /\ \E kind \in Kinds[topic] :
        LET beside == {d \in Caller \ {c} : ~Free(d) /\ Files(job[d].kind) \cap Files(kind) # {}} IN
        /\ \E arg \in CASE kind = "feedback" -> 0..calls
                        [] kind \in {"add", "enable", "disable", "remove"} -> {Preset, "other", "third"}
                        [] kind = "scan" -> Report
                        [] OTHER -> {0} :
             job' = [job EXCEPT ![c] = [NoJob EXCEPT !.id = calls + 1, !.kind = kind,
                                                     !.arg = arg, !.at = Opening(kind)]]
        /\ met' = IF beside = {} THEN met ELSE met \cup beside \cup {c}
        /\ notes' = IF kind = "scan" /\ beside # {} THEN notes \cup {<<"scans", 0>>} ELSE notes
    /\ UNCHANGED <<topic, slot, opened, overtaken, review, trouble, done, retired>>

(* A plan to erase, or to change the policy, is made; bound: one.           *)
Review ==
    /\ topic \in {"hooks", "tasks", "policy"} /\ \A n \in Stored : review[n] = Absent
    /\ review' = [n \in Stored |-> slot[PlaceOf(n)]]
    /\ UNCHANGED <<topic, slot, job, opened, overtaken, calls, trouble, done, met, retired, notes>>

Read(c) ==
    /\ CallDoes(c, "read")
    /\ LET v == slot[PlaceOf(On(c))] IN
       IF v = Torn THEN CallFails(c)
       ELSE \E steps \in After(job[c], On(c), v) : GoTo(c, [job[c] EXCEPT !.read = v], steps)
    /\ UNCHANGED <<slot, opened, overtaken, retired, notes>> /\ Calm

Decline(c) == CallDoes(c, "refuse") /\ CallFails(c) /\ UNCHANGED <<slot, opened, overtaken, retired, notes>> /\ Calm

(* writeFile creates the file under the temporary name, or opens it and    *)
(* truncates it, and writes later.  The name is the caller's own or, by a  *)
(* collision, one that another uses.                                       *)
OpenTemporary(c) ==
    /\ CallDoes(c, "open")
    /\ \E use \in Caller :
        LET t     == <<On(c), use>>
            taken == slot[t] # Absent \/ \E d \in Caller \ {c} : job[d].tmp = t IN
        /\ IF use = c THEN UNCHANGED trouble
           ELSE taken /\ trouble < TroubleLimit /\ trouble' = trouble + 1
        /\ slot' = [slot EXCEPT ![t] = Torn]
        /\ opened' = [opened EXCEPT ![c] = t]
        /\ overtaken' = {d \in overtaken : opened[d] # t}
        /\ GoTo(c, [job[c] EXCEPT !.tmp = t], Tail(job[c].at))
        /\ notes' = IF taken THEN notes \cup {<<"collision", 0>>} ELSE notes
    /\ UNCHANGED <<topic, review, calls, retired>>

(* What the new content of c leaves out; it counts when it is put in place, *)
(* or when it may be by another who shares the temporary file.              *)
LeftOut(c) == {On(c)} \X (Tokens(On(c), job[c].read) \ Tokens(On(c), Current(job[c]).value))

(* Those who share the open file of c and are still to write it.           *)
Behind(c) == {d \in Caller \ {c} : /\ opened[d] = opened[c] /\ opened[d] # Absent
                                   /\ CallDoes(d, "fill") /\ On(d) # "salt"}

(* writeFile writes from the beginning of the file.  Where another has      *)
(* written since it was truncated, the new content is all there is only if *)
(* it is not the shorter one: otherwise the rest of the other follows it,  *)
(* and the file is torn for good.                                          *)
Fill(c) ==
    LET p == opened[c] IN
    /\ CallDoes(c, "fill") /\ Continue(c)
    /\ \/ slot' = IF p = Absent THEN slot ELSE [slot EXCEPT ![p] = Current(job[c]).value]
       \/ c \in overtaken /\ p # Absent /\ slot' = [slot EXCEPT ![p] = Torn]
    /\ opened' = [opened EXCEPT ![c] = Absent]
    /\ overtaken' = (overtaken \cup Behind(c)) \ {c}
    /\ retired' = IF p # Absent /\ (p \in Place \/ \E d \in Caller \ {c} : job[d].tmp = p)
                  THEN retired \cup LeftOut(c) ELSE retired
    /\ UNCHANGED notes /\ Calm

(* Those who have the old file open go on with a file without a name.      *)
PutInPlace(c) ==
    LET n == On(c)
        t == job[c].tmp IN
    /\ CallDoes(c, "rename")
    /\ IF slot[t] = Absent
       THEN CallFails(c) /\ UNCHANGED <<slot, opened, retired>>
       ELSE /\ Continue(c)
            /\ slot' = [slot EXCEPT ![PlaceOf(n)] = slot[t], ![t] = Absent]
            /\ opened' = [d \in Caller |-> IF opened[d] = t THEN PlaceOf(n)
                                           ELSE IF opened[d] = PlaceOf(n) THEN Absent ELSE opened[d]]
            /\ retired' = retired \cup LeftOut(c)
    /\ UNCHANGED <<overtaken, notes>> /\ Calm

(* Removal of a report the index no longer names; it may be missing.       *)
Drop(c) ==
    /\ CallDoes(c, "drop") /\ Continue(c)
    /\ slot' = [slot EXCEPT ![PlaceOf(On(c))] = Absent]
    /\ opened' = [d \in Caller |-> IF opened[d] = PlaceOf(On(c)) THEN Absent ELSE opened[d]]
    /\ UNCHANGED <<overtaken, retired, notes>> /\ Calm

(* The salt is created where there is none, exclusively, and read.         *)
\* A mutant: the salt is written whether or not there is one.
AlwaysSalt(c) ==
    /\ CallDoes(c, "salt")
    /\ slot' = [slot EXCEPT ![PlaceOf("salt")] = Torn]
    /\ opened' = [opened EXCEPT ![c] = PlaceOf("salt")]
    /\ GoTo(c, job[c], <<Task("fill", "salt", job[c].id), Task("key", "salt", Absent)>>)
    /\ UNCHANGED <<overtaken, retired, notes>> /\ Calm

Salt(c) ==
    /\ CallDoes(c, "salt")
    /\ IF slot[PlaceOf("salt")] = Absent
       THEN /\ slot' = [slot EXCEPT ![PlaceOf("salt")] = Torn]
            /\ opened' = [opened EXCEPT ![c] = PlaceOf("salt")]
            /\ GoTo(c, job[c], <<Task("fill", "salt", job[c].id), Task("key", "salt", Absent)>>)
       ELSE /\ GoTo(c, job[c], <<Task("key", "salt", Absent)>>)
            /\ UNCHANGED <<slot, opened>>
    /\ UNCHANGED <<overtaken, retired, notes>> /\ Calm

Key(c) ==
    LET s == slot[PlaceOf("salt")] IN
    /\ CallDoes(c, "key")
    /\ IF s \in {Absent, Torn} THEN CallFails(c)
       ELSE GoTo(c, [job[c] EXCEPT !.key = s],
                 ReadOf(IF job[c].kind = "stop" THEN "events" ELSE "preflights"))
    /\ UNCHANGED <<slot, opened, overtaken, retired, notes>> /\ Calm

OpenEvents(c) ==
    /\ CallDoes(c, "append") /\ Continue(c)
    /\ slot' = IF slot[PlaceOf("events")] = Absent THEN [slot EXCEPT ![PlaceOf("events")] = <<>>] ELSE slot
    /\ opened' = [opened EXCEPT ![c] = PlaceOf("events")]
    /\ UNCHANGED <<overtaken, retired, notes>> /\ Calm

WriteEvent(c) ==
    LET j == job[c]
        e == [id |-> j.id, kind |-> j.kind, of |-> Current(j).value, key |-> j.key]
        lost == opened[c] = Absent \/ slot[opened[c]] = Torn IN
    /\ CallDoes(c, "write") /\ Continue(c)
    /\ slot' = IF lost THEN slot ELSE [slot EXCEPT ![opened[c]] = Append(@, e)]
    /\ opened' = [opened EXCEPT ![c] = Absent]
    /\ overtaken' = overtaken \cup Behind(c)
    /\ notes' = notes \cup {<<"key", j.key>>}
                      \cup IF lost \/ c \in met THEN {} ELSE {<<"closed", e.of>>}
    /\ UNCHANGED retired /\ Calm

(* Erasing: every file is compared with the review, then each is removed;  *)
(* with a torn one goes whatever was in it before.                         *)
\* A mutant: the files are not compared again.
Unchecked(c) == CallDoes(c, "check") /\ Continue(c) /\ UNCHANGED <<slot, opened, overtaken, retired, notes>> /\ Calm

CheckReviewed(c) ==
    /\ CallDoes(c, "check")
    /\ IF slot[PlaceOf(On(c))] = Current(job[c]).value THEN Continue(c) ELSE CallFails(c)
    /\ UNCHANGED <<slot, opened, overtaken, retired, notes>> /\ Calm

EraseFile(c) ==
    LET n    == On(c)
        lost == Tokens(n, slot[PlaceOf(n)])
        gone == IF slot[PlaceOf(n)] = Torn THEN 1..calls ELSE lost
        seen == Tokens(n, Current(job[c]).value) IN
    /\ CallDoes(c, "unlink")
    /\ IF slot[PlaceOf(n)] = Absent THEN CallFails(c) /\ UNCHANGED <<slot, opened, retired, notes>>
       ELSE /\ Continue(c)
            /\ slot' = [slot EXCEPT ![PlaceOf(n)] = Absent]
            /\ opened' = [d \in Caller |-> IF opened[d] = PlaceOf(n) THEN Absent ELSE opened[d]]
            /\ retired' = retired \cup ({n} \X gone)
            /\ notes' = notes
                 \cup (IF n = "salt" THEN {<<"unsalted", job[c].id>>} ELSE {})
                 \cup (IF c \in met THEN {}
                       ELSE ({"erased"} \X {n} \X lost) \cup ({"unseen"} \X (lost \ seen)))
    /\ UNCHANGED overtaken /\ Calm

(* Failures and deaths.  A temporary file that is left is never looked at. *)
Left(c) == IF job[c].tmp # Absent /\ \A d \in Caller \ {c} : job[d].tmp # job[c].tmp
           THEN [slot EXCEPT ![job[c].tmp] = Absent] ELSE slot

Trouble(c) ==
    /\ ~Free(c) /\ trouble < TroubleLimit /\ trouble' = trouble + 1
    /\ CallFails(c) /\ slot' = Left(c)
    /\ opened' = [opened EXCEPT ![c] = Absent]
    /\ overtaken' = overtaken \ {c}
    /\ notes' = notes \cup {<<"trouble", 0>>}
    /\ UNCHANGED <<topic, review, calls, retired>>

CallerDies(c) ==
    /\ ~Free(c) /\ trouble < TroubleLimit /\ trouble' = trouble + 1
    /\ job' = [job EXCEPT ![c] = NoJob] /\ slot' = Left(c)
    /\ opened' = [opened EXCEPT ![c] = Absent]
    /\ overtaken' = overtaken \ {c}
    /\ met' = met \ {c}
    /\ notes' = notes \cup {<<"trouble", 0>>}
    /\ UNCHANGED <<topic, review, calls, done, retired>>

StoreInit ==
    /\ topic \in DOMAIN Kinds
    /\ slot = [p \in Place \cup Scratch |-> Absent]
    /\ job = [c \in Caller |-> NoJob] /\ opened = [c \in Caller |-> Absent] /\ overtaken = {}
    /\ review = [n \in Stored |-> Absent]
    /\ calls = 0 /\ trouble = 0 /\ done = {} /\ met = {} /\ retired = {} /\ notes = {}

StoreNext ==
    \/ \E c \in Caller :
        \/ BeginCall(c) \/ Read(c) \/ Decline(c) \/ OpenTemporary(c) \/ Fill(c) \/ PutInPlace(c) \/ Drop(c)
        \/ Salt(c) \/ Key(c) \/ OpenEvents(c) \/ WriteEvent(c) \/ CheckReviewed(c) \/ EraseFile(c)
        \/ Trouble(c) \/ CallerDies(c)
    \/ Review

StoreSpec == StoreInit /\ [][StoreNext]_storeVars

-----------------------------------------------------------------------------
(* Properties.                                                             *)

Held(n)  == slot[PlaceOf(n)]
Noted(w) == <<w, 0>> \in notes

(* Every place has a value of its kind, and what is in progress is told by *)
(* the steps before it.                                                    *)
StoreTypeOK ==
    /\ topic \in DOMAIN Kinds /\ DOMAIN slot = Place \cup Scratch
    /\ \A p \in Place \cup Scratch : slot[p] \in Value(p[1]) \cup {Absent, Torn}
    /\ Held("sources") \notin {Absent, Torn} => ValidSources(Held("sources"))
    /\ \A n \in {"preflights", "index"} :
          Held(n) \notin {Absent, Torn} => Len(Held(n)) <= Kept
    /\ \A c \in Caller :
          /\ job[c].id \in 0..calls /\ (Free(c) => job[c] = NoJob)
          /\ opened[c] # Absent => opened[c] \in Place \cup Scratch /\ slot[opened[c]] # Absent
          /\ c \in overtaken => CallDoes(c, "fill")
    /\ calls \in 0..CallsMade /\ trouble \in 0..TroubleLimit /\ met \cup overtaken \subseteq Caller

Work(kind) ==
    CASE kind = "prompt" -> {"preflights", "events"}
      [] kind = "stop"   -> {"events"}
      [] kind \in {"preflight", "feedback"} -> {"preflights"}
      [] kind = "policy" -> {"policy"}
      [] kind \in {"add", "enable", "disable"} -> {"sources"}
      [] OTHER -> {}

(* A call that nobody ran beside answers truly, and for good: what it      *)
(* answered as done is in the file until a later call removes it on        *)
(* purpose, and what it answered as failed is not; and a delivery that a   *)
(* stop has closed is never open again, whatever a compaction keeps.  Only *)
(* calls that meet on a file can lose each other's work                    *)
(* (appendPreflightEvidence, recordPreflightFeedback, writeCatalogSources, *)
(* appendEvidenceEvent, compactEvidenceEvents).                            *)
WorkSurvives ==
    /\ \A d \in done : d.alone => \A n \in Work(d.kind) :
          /\ d.answer = "ok" => \/ Held(n) = Torn \/ d.id \in Tokens(n, Held(n))
                               \/ <<n, d.id>> \in retired
          /\ d.answer = "failed" /\ d.kind \notin {"prompt", "stop"} =>
                d.id \notin Tokens(n, Held(n))
    /\ Held("events") # Torn => \A i \in Open(List(Held("events"))) :
          <<"closed", Held("events")[i].id>> \notin notes

(* A reviewed erase that nobody ran beside removes nothing that was not    *)
(* there at its review, and what it removed never comes back; and until a  *)
(* salt is erased all identifiers are made with one salt, however many     *)
(* Hooks start at once (applyEvidenceErasePlan, createEvidencePrivacy).    *)
ErasedForGood ==
    /\ \A w \in notes : w[1] = "erased" => w[3] \notin Tokens(w[2], Held(w[2]))
    /\ \A w \in notes : w[1] # "unseen"
    /\ Cardinality({w \in notes : w[1] = "key"})
          <= 1 + Cardinality({w \in notes : w[1] = "unsalted"})

(* Files can be read.  A salt is torn only while it is created, or when    *)
(* that was interrupted; any other file only when two writes of one        *)
(* process in one millisecond shared their temporary file: it is put in    *)
(* place before it is written, or holds the end of a longer content after  *)
(* a shorter one, and then stays so.  The index of the history names only  *)
(* reports that are there, after a death anywhere, unless two scans have   *)
(* met; and without failures the latest report is in it, and differs from  *)
(* the previous one (writeLatestReport, appendReportHistory).              *)
FilesReadable ==
    LET writing(n) == Noted("trouble") \/ \E c \in Caller : opened[c] = PlaceOf(n) IN
    /\ \A n \in Stored \cup Report :
          Held(n) = Torn => IF n = "salt" THEN writing(n) ELSE Noted("collision")
    /\ ~Noted("scans") /\ Held("index") \notin {Absent, Torn} =>
          \A r \in Items(Held("index")) : Held(r) = r
    /\ topic = "reports" /\ ~Noted("scans") /\ ~Noted("trouble")
       /\ (\A c \in Caller : Free(c)) /\ Held("latest") # Absent =>
          Held("latest") \in Items(Held("index")) /\ Held("previous") # Held("latest")
=============================================================================

---------------------------- MODULE SkillExposure ----------------------------
(***************************************************************************)
(* Which Harness sees which Skill: packages/engine/src/inventory/          *)
(* resolve.ts.  A directory that was read may belong to several sources    *)
(* of several Harnesses; each pair of a Skill and a source is a binding,   *)
(* and each binding is exposed as effective, shadowed, inactive or         *)
(* ambiguous.                                                              *)
(***************************************************************************)
EXTENDS Naturals, FiniteSets, Sequences

CONSTANTS
    ExposureCases      \* bound: the scanned inventories considered

VARIABLES
    inventory,         \* the sources, the Skills found, what Copilot disables
    exposure           \* the resolution: its step, the logical Skills, exposures

exposureVars == <<inventory, exposure>>

SourceOf(k) == inventory.sources[k]
None == [owner |-> 0]
Unhelpful == {"invalid", "missing", "unreadable"}
Partial == {"ambiguous", "invalid", "truncated", "unreadable"}

(* logicalSkills: a directory is one Skill, unless several plugins claim it:*)
(* then it is one for each, of which none is certain, and one more for the  *)
(* sources that are no plugin's.  0 stands for no plugin.                   *)
LogicalSkills(c) ==
    LET direct == {k \in c.sources : SourceOf(k).owner = 0}
        owners == {SourceOf(k).owner : k \in c.sources \ direct}
        Skill(owner, sources, id, conflict) ==
            [path |-> c.path, name |-> c.name, owner |-> owner, sources |-> sources, id |-> id, conflict |-> conflict]
    IN  IF Cardinality(owners) <= 1
        THEN {Skill(IF owners = {} THEN 0 ELSE CHOOSE o \in owners : TRUE, c.sources, <<c.path, 0>>, FALSE)}
        ELSE {Skill(0, direct, <<c.path, 0>>, FALSE) : d \in {x \in {direct} : x # {}}}
             \cup {Skill(o, {k \in c.sources : SourceOf(k).owner = o}, <<c.path, o>>, TRUE) : o \in owners}

Bindings == {b \in exposure.skills \X DOMAIN inventory.sources : b[2] \in b[1].sources}
HarnessOf(b) == SourceOf(b[2]).harness

(* Claude Code qualifies the names of a plugin, and of a nested root.       *)
EffectiveName(b) ==
    <<IF HarnessOf(b) = "claude" THEN SourceOf(b[2]).qualifier ELSE 0, b[1].name>>

Exposed(state, by) == [state |-> state, by |-> by]
Plainly(state) == Exposed(state, <<>>)

(* What the source alone decides; "open" is left to the Harness.            *)
OfSource(b) ==
    LET s == SourceOf(b[2])
    IN  CASE s.status \in Unhelpful -> "none"
          [] s.status \notin Unhelpful /\ b[1].conflict -> "ambiguous"
          [] s.status \in {"disabled", "stale"} /\ ~b[1].conflict -> "inactive"
          [] s.status \in {"ambiguous", "truncated"} /\ ~b[1].conflict -> "ambiguous"
          [] s.status = "scanned" /\ ~b[1].conflict -> IF s.kind = "convention" THEN "ambiguous" ELSE "open"

Open(harness) == {b \in Bindings : OfSource(b) = "open" /\ HarnessOf(b) = harness}
IdsOf(group) == {b[1].id : b \in group}
SameName(group, b) == {d \in group : EffectiveName(d) = EffectiveName(b)}
WonBy(b, id) == IF b[1].id = id THEN Plainly("effective") ELSE Exposed("shadowed", id)

(* Claude Code: a Skill of the person comes before those of the project;    *)
(* of two on the same level it is not known which comes first.  Mutant: the *)
(* first one does.                                                          *)
FirstOfClaude(b, group) ==
    LET global == IdsOf({d \in group : SourceOf(d[2]).scope = "global"})
        winner == CHOOSE i \in (IF global = {} THEN IdsOf(group) ELSE global) : TRUE
    IN  WonBy(b, IF global = {} THEN winner ELSE b[1].id)

ResolveClaudeDirect(b, group) ==
    LET global == IdsOf({d \in group : SourceOf(d[2]).scope = "global"})
        first  == IF global = {} THEN IdsOf(group) ELSE global
    IN  IF Cardinality(first) = 1 THEN WonBy(b, CHOOSE i \in first : TRUE) ELSE Plainly("ambiguous")

ResolveClaude(b) ==
    LET s      == SourceOf(b[2])
        direct == {d \in Open("claude") : SourceOf(d[2]).owner = 0}
    IN  IF s.owner # 0 THEN Plainly(IF s.qualifier = 0 THEN "ambiguous" ELSE "effective")
        ELSE ResolveClaudeDirect(b, SameName(direct, b))

(* Copilot: the source of the best rank comes first.                        *)
Rank(group, id) ==
    LET ranks == {SourceOf(b[2]).rank : b \in {d \in group : d[1].id = id}}
    IN  CHOOSE r \in ranks : \A q \in ranks : r <= q
Winners(group) == {i \in IdsOf(group) : \A j \in IdsOf(group) : Rank(group, i) <= Rank(group, j)}
ResolveCopilot(b) ==
    LET off     == inventory.disabled
        group   == {d \in SameName(Open("copilot"), b) : d[1].name \notin off.names}
        winners == Winners(group)
    IN  IF off.status # "known" THEN Plainly("ambiguous")
        ELSE IF b[1].name \in off.names THEN Plainly("inactive")
        ELSE IF Cardinality(winners) = 1 THEN WonBy(b, CHOOSE i \in winners : TRUE)
        ELSE Plainly("ambiguous")

Resolved(b) ==
    CASE HarnessOf(b) = "codex"   -> Plainly("effective")
      [] HarnessOf(b) = "claude"  -> ResolveClaude(b)
      [] HarnessOf(b) = "copilot" -> ResolveCopilot(b)
      [] OTHER                    -> Plainly("ambiguous")

Seeing == {SourceOf(k).harness : k \in DOMAIN inventory.sources}

ExposureInit ==
    /\ inventory \in ExposureCases
    /\ exposure = [step |-> "skills", skills |-> {}, of |-> [b \in {} |-> Plainly("none")],
                   visible |-> [s \in {} |-> {}], coverage |-> [h \in {} |-> "verified"]]

SplitSkills ==
    /\ exposure.step = "skills"
    /\ exposure' = [exposure EXCEPT !.step = "exposures",
                                    !.skills = UNION {LogicalSkills(c) : c \in inventory.found}]
    /\ UNCHANGED inventory

FinalizeExposures ==
    /\ exposure.step = "exposures"
    /\ exposure' = [exposure EXCEPT !.step = "coverage",
           !.of = [b \in Bindings |-> IF OfSource(b) = "open" THEN Resolved(b) ELSE Plainly(OfSource(b))]]
    /\ UNCHANGED inventory

(* What is known of a Harness as a whole.                                   *)
SourcesOf(h) == {k \in DOMAIN inventory.sources : SourceOf(k).harness = h}
PathsOf(h) == {s.path : s \in {t \in exposure.skills : t.sources \cap SourcesOf(h) # {}}}
Coverage(h) ==
    LET limited == \/ \E k \in SourcesOf(h) : SourceOf(k).status \in Partial
                   \/ h = "copilot"       \* what its administrators set is never seen
        some    == PathsOf(h) # {} \/ \E k \in SourcesOf(h) :
                      SourceOf(k).status \in {"scanned", "missing", "disabled", "stale"}
    IN  IF \A k \in SourcesOf(h) : SourceOf(k).kind = "convention" THEN "convention-only"
        ELSE IF ~limited THEN "verified" ELSE IF some THEN "partial" ELSE "unavailable"

FinalizeCoverage ==
    /\ exposure.step = "coverage"
    /\ exposure' = [exposure EXCEPT !.step = "done",
           !.visible = [s \in exposure.skills |->
               {HarnessOf(b) : b \in {d \in Bindings : d[1] = s /\ exposure.of[d].state = "effective"}}],
           !.coverage = [h \in Seeing |-> Coverage(h)]]
    /\ UNCHANGED inventory

ExposureNext == SplitSkills \/ FinalizeExposures \/ FinalizeCoverage
ExposureSpec == ExposureInit /\ [][ExposureNext]_exposureVars

----------------------------------------------------------------------------

(* Under one name at most one Skill is in effect, except that Codex keeps   *)
(* Skills of one name apart; and a Skill is shadowed only by one that is in *)
(* effect in the same Harness and under the same name, of which no other    *)
(* comes earlier.                                                           *)
OneWinner ==
    exposure.step \in {"coverage", "done"} =>
        \A b \in Bindings : LET e == exposure.of[b]
                            IN
            /\ e.state = "effective" /\ HarnessOf(b) # "codex" =>
                  \A d \in Bindings :
                     /\ HarnessOf(d) = HarnessOf(b) /\ EffectiveName(d) = EffectiveName(b)
                     /\ exposure.of[d].state = "effective"
                     /\ SourceOf(d[2]).owner = 0 /\ SourceOf(b[2]).owner = 0
                     => d[1].id = b[1].id
            /\ e.state = "shadowed" =>
                  \E d \in Bindings : /\ d[1].id = e.by /\ d[1].id # b[1].id
                                      /\ HarnessOf(d) = HarnessOf(b) /\ EffectiveName(d) = EffectiveName(b)
                                      /\ exposure.of[d].state = "effective"
                                      /\ HarnessOf(b) = "copilot" => SourceOf(d[2]).rank < SourceOf(b[2]).rank
                                                                     \/ \E a \in Bindings : a[1] = d[1] /\ HarnessOf(a) = "copilot"
                                                                           /\ SourceOf(a[2]).rank < SourceOf(b[2]).rank

(* A Skill is visible to a Harness only through a source of it that was     *)
(* walked to the end, and never where two plugins claim its directory; a    *)
(* Harness is verified only if each of its sources is known to the end.     *)
ExposureSure ==
    exposure.step = "done" =>
        /\ \A s \in exposure.skills : \A h \in exposure.visible[s] :
              /\ \E k \in s.sources : SourceOf(k).harness = h /\ SourceOf(k).status = "scanned"
              /\ s.owner # 0 => \A c \in inventory.found : c.path = s.path =>
                    \A k \in c.sources : SourceOf(k).owner \in {0, s.owner}
        /\ \A h \in Seeing : exposure.coverage[h] = "verified" =>
              \A k \in SourcesOf(h) : SourceOf(k).status \in {"scanned", "missing", "disabled", "stale"}
=============================================================================

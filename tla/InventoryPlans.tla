--------------------------- MODULE InventoryPlans ---------------------------
(***************************************************************************)
(* What the planners of the three Harnesses share:                         *)
(* packages/engine/src/inventory/selection.ts, domain.ts and the reading   *)
(* of directories that each adapter repeats.                               *)
(*                                                                         *)
(* A place is a path of numbers (a name is a number), and a tree gives     *)
(* what is at each place: "none", a "directory", a "locked" directory that *)
(* cannot be read, or "other" (a file, a link).                            *)
(***************************************************************************)
EXTENDS Naturals, FiniteSets, Sequences, SequencesExt

(* The smallest names of a directory that may hold too many.  The code      *)
(* keeps a heap of at most `room` names while it reads; what it ends with   *)
(* does not depend on the order in which the names arrive.                  *)
Smallest(names, room) == {x \in names : Cardinality({y \in names : y < x}) < room}
Truncated(names, room) == Cardinality(names) > room
Selected(names, room) == SetToSortSeq(Smallest(names, room), <)

(* Mutant of Residual: one more than a budget leaves.                       *)
ResidualAndOne(budget, used) == IF used <= budget THEN budget - used + 1 ELSE 0

(* What a budget leaves.                                                    *)
Residual(budget, used) == IF used < budget THEN budget - used ELSE 0

(* Every proper beginning of a path, and what there is at it, as far as the *)
(* path leads through directories.                                          *)
Above(path) == {SubSeq(path, 1, n) : n \in 0 .. Len(path) - 1} \ {<<>>}
KindIn(tree, x) == IF \A y \in Above(x) : tree[y] = "directory" THEN tree[x] ELSE "none"
EntriesIn(tree, x) == {y \in DOMAIN tree : Len(y) = Len(x) + 1 /\ x \in Above(y) /\ tree[y] # "none"}

(* listChildren: at most `room` entries of a directory, each with what it   *)
(* is; a budget that is spent, or a place that is no directory, gives none. *)
ReadDirectory(tree, x, room, spent) ==
    LET names == {Last(y) : y \in EntriesIn(tree, x)}
        kind  == KindIn(tree, x)
        found == ~spent /\ kind = "directory"
        order == IF found THEN Selected(names, room) ELSE <<>>
    IN  [entries |-> [k \in DOMAIN order |->
                         [at |-> Append(x, order[k]), kind |-> tree[Append(x, order[k])]]],
         cut     |-> spent \/ (found /\ Truncated(names, room)),
         spent   |-> spent,
         error   |-> IF spent \/ found THEN "none" ELSE IF kind = "other" THEN "invalid" ELSE "unreadable",
         visits  |-> IF ~spent /\ kind \in {"directory", "locked"} THEN 1 ELSE 0]

(* A source of a plan: the place it is about, the root or alias it was      *)
(* reached by, the component of a bundle, its status, and whether the walk  *)
(* may read Skills there.                                                   *)
Source(role, at, via, part, status, read) ==
    [role |-> role, at |-> at, via |-> via, part |-> part, status |-> status, read |-> read]
Mark(role, at, status) == Source(role, at, "", 0, status, FALSE)
=============================================================================

--------------------------- MODULE MCInstallation ---------------------------
(***************************************************************************)
(* Small instances of the installer for TLC.  What happens at the          *)
(* destination (Installation) and what happens to the staged source        *)
(* (StagedPreviews) share no state: a behaviour is one of the part chosen  *)
(* first, while the other rests.                                           *)
(***************************************************************************)
EXTENDS Installation, StagedPreviews, TLC

VARIABLE part

parts == <<vars, stagingVars, part>>

MCInit ==
    /\ part \in {"destination", "source"}
    /\ Init /\ (part # "destination" => dest = None)
    /\ StagingInit

MCNext ==
    \/ part = "destination" /\ Next /\ UNCHANGED <<stagingVars, part>>
    \/ part = "source" /\ StagingNext /\ UNCHANGED <<vars, part>>

MCSpec == MCInit /\ [][MCNext]_parts

(* Since one part alone is at work, members of its sets may be exchanged   *)
(* together with members of the other's.                                    *)
Swapped(S) == CHOOSE p \in Permutations(S) : \A x \in S : p[x] # x
Interchangeable == Permutations(Inst) \cup {Swapped(Back) @@ Swapped(StagingCall)}
                   \cup {Swapped(Source) @@ Swapped(PreviewFile)}
=============================================================================

--------------------------- MODULE ArtifactSlots ---------------------------
(***************************************************************************)
(* What the artifact cache promises of each of its slots                   *)
(* (graph/lib/artifact_cache.py): it has nothing for its readers, or the   *)
(* whole of an artifact, never a part ("A benchmark that silently reads    *)
(* half an index is the failure mode this whole file is trying to avoid"). *)
(* The slots of directories that hold one file offer that file instead.    *)
(* Nothing is promised of a slot once it is in doubt.                      *)
(***************************************************************************)
CONSTANTS Slots, Stripped

VARIABLES entry

Offer(k) == IF k \in Stripped THEN "inner" ELSE "whole"

Init == entry \in {e \in [Slots -> {"nothing", "whole", "inner"}] :
                    \A k \in Slots : e[k] \in {"nothing", Offer(k)}}

Publish(k) == entry[k] = "nothing" /\ entry' = [entry EXCEPT ![k] = Offer(k)]
Lose(k) == entry[k] = Offer(k) /\ entry' = [entry EXCEPT ![k] = "nothing"]
Doubt(k) == entry[k] # "doubtful" /\ entry' = [entry EXCEPT ![k] = "doubtful"]

Next == \E k \in Slots : Publish(k) \/ Lose(k) \/ Doubt(k)

Spec == Init /\ [][Next]_entry

=============================================================================

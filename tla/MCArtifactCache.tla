--------------------------- MODULE MCArtifactCache ---------------------------
(* An instance of ArtifactCache for TLC: two processes, a directory that     *)
(* holds one file, and one that holds several.  A named file goes through the *)
(* steps of the first, and is handed out as it is.                            *)
EXTENDS ArtifactCache, TLC

CONSTANTS p1, p2, f, t

MCSymmetry == Permutations({p1, p2})
=============================================================================

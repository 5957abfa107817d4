---------------------------- MODULE MCAnswerIndex ----------------------------
(* An instance of AnswerIndex for TLC: an index of its own, with and without *)
(* --rebuild-index, and a checkout that two snapshots and two embedders use. *)
EXTENDS AnswerIndex, TLC

CONSTANTS s1, s2, g, h, c, k1, k2

MCPages == (s1 :> 1) @@ (s2 :> 2)
Asked(index, embedder, checkout, commit, rebuild) ==
  [index |-> index, embedder |-> embedder, checkout |-> checkout, commit |-> commit,
   rebuild |-> rebuild]
MCAsks == {
  Asked(s2, g, "none", "none", "no"), Asked(s2, g, "none", "none", "yes"),
  Asked(s1, g, c, "none", "no"), Asked(s2, g, c, k1, "no"),
  Asked(s1, h, c, k1, "yes")}
=============================================================================

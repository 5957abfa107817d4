---------------------------- MODULE MCRungRunner ----------------------------
(* Instances of RungRunner for TLC: one instance for two arms that share a   *)
(* tree; two instances for an arm without vectors, in two workers and in one. *)
EXTENDS RungRunner

CONSTANTS i1, i2

MCRides == [repowise |-> "repowise", search |-> "repowise", codegraph |-> "codegraph"]
MCPlans == {
  [instances |-> {i1}, arms |-> {"repowise", "search"}, workers |-> 1],
  [instances |-> {i1, i2}, arms |-> {"codegraph"}, workers |-> 2],
  [instances |-> {i1, i2}, arms |-> {"codegraph"}, workers |-> 1]}
MCMaxRuns == [p \in MCPlans |->
  CASE p.instances = {i1} -> 3 [] p.workers = 2 -> 2 [] OTHER -> 1]
MCOptions == {{}, {"keep", "rebuild"}, {"skip"}, {"grade-only"}}
=============================================================================

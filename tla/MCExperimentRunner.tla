------------------------- MODULE MCExperimentRunner -------------------------
(* An instance of ExperimentRunner for TLC: every fault the model knows.          *)
EXTENDS ExperimentRunner

AllFaults == FaultKinds

=============================================================================

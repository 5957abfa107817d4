-------------------------- MODULE MCSessionRunner --------------------------
(* Instances of SessionRunner for TLC: a repeated arm, its first run killed, *)
(* torn and resumed at any point (SR_session); one out file and two launches, *)
(* against what the module's header promises of a killed run (SR_rejoin).    *)
EXTENDS SessionRunner

=============================================================================

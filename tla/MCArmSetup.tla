----------------------------- MODULE MCArmSetup -----------------------------
(* Instances of ArmSetup for TLC: two arms that share a tree, a control, an   *)
(* arm with a hand-written config and one without an index, in runs that      *)
(* build, assume or mount.                                                    *)
EXTENDS ArmSetup, TLC

CONSTANTS full, lean, bare, deepwiki, serena

SharedOwner ==
  full :> full @@ lean :> full @@ bare :> bare @@ deepwiki :> deepwiki @@ serena :> serena
OwnOwner == full :> full

EveryPlan ==
  {[arms |-> {full, lean}, assumed |-> {}],
   [arms |-> {full, lean}, assumed |-> {full, lean}],
   [arms |-> {bare, serena, deepwiki}, assumed |-> {}]}
BuildAll == {[arms |-> Arms, assumed |-> {}]}

=============================================================================

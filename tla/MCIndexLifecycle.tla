-------------------------- MODULE MCIndexLifecycle --------------------------
(* The instance of IndexLifecycle for TLC: one tool at a time with          *)
(* everything else that may happen.  The configuration gives every constant *)
(* its value.                                                               *)
EXTENDS IndexLifecycle

=============================================================================

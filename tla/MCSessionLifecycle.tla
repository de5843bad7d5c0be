-------------------------- MODULE MCSessionLifecycle --------------------------
(* Model-checking instances of SessionLifecycle. *)
EXTENDS SessionLifecycle
=============================================================================

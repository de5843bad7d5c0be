----------------------------- MODULE MCHostRegistry -----------------------------
(* Model-checking instance of HostRegistry; see the configuration for the bounds. *)
EXTENDS HostRegistry
=============================================================================

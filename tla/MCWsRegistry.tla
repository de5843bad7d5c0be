----------------------------- MODULE MCWsRegistry -----------------------------
(* Model-checking instance of WsRegistry: two connections are a connection   *)
(* and its replacement, two notifiers a stale and a clashing write.          *)
EXTENDS WsRegistry
=============================================================================

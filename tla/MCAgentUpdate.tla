----------------------------- MODULE MCAgentUpdate -----------------------------
(* Three releases, 8.10, 9.10 and 10.0: the last is newer than its text says. *)
EXTENDS AgentUpdate

\* Digits are themselves plus one, the dot is 0.
Names == << <<9, 0, 2, 1>>, <<10, 0, 2, 1>>, <<2, 1, 0, 1>> >>
=============================================================================

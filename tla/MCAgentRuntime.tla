---------------------------- MODULE MCAgentRuntime ----------------------------
(* Model-checking instances of AgentRuntime. *)
EXTENDS AgentRuntime, TLC

CONSTANTS shared

\* Every session has the same tmux name and path: IDs that differ only after
\* their first 12 characters, and equal session names.
AllTheSame == [s \in Sessions |-> shared]

Symmetry == Permutations(Launches) \union Permutations(Stops) \union Permutations(UsesWorktree)
=============================================================================

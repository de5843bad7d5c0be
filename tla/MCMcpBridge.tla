------------------------------ MODULE MCMcpBridge ------------------------------
EXTENDS McpBridge, TLC

\* No action or property names a session or a call.
Symmetric == Permutations(Sessions) \union Permutations(Calls)
=============================================================================

---------------------------- MODULE MCAccessControl ----------------------------
EXTENDS AccessControl, TLC

\* No action or property names a password or a token.
Symmetric == Permutations(Passwords) \union Permutations(Tokens)

\* The bound that counts: one call at a time behind the limiter, two calls, so that
\* requests overlap, when the limiter is off (rate_limit_enabled: false).
One == {CHOOSE c \in Calls : TRUE}
Three == {[limited |-> TRUE, blocked |-> {}, calls |-> One],
          [limited |-> FALSE, blocked |-> {}, calls |-> Calls],
          [limited |-> TRUE, blocked |-> IPs, calls |-> One]}
=============================================================================

------------------------------ MODULE RateLimiter ------------------------------
(***************************************************************************)
(* How many requests the control plane takes from one address: a bucket of *)
(* tokens for each address that has been seen lately (api/waf.go).         *)
(*                                                                         *)
(* Time goes by in ticks, of which Interval bring a token.  The code keeps *)
(* the times of the last refill and of the last request; here they are the *)
(* ticks since then, which stop at Horizon.  Rounding the time since the   *)
(* last refill down to whole tokens, and forgetting addresses, is what the *)
(* code may get wrong: the history keeps for each address a bucket that    *)
(* does not round, and that is full again only after a silence for which   *)
(* the code forgets an address.                                            *)
(***************************************************************************)
EXTENDS Integers

CONSTANTS
  IPs,        \* addresses of clients
  Burst,      \* burst_size
  Interval,   \* ticks that bring a token: requests_per_minute
  CleanupAge, \* ticks without a request after which an address is forgotten
  Horizon     \* bound: ticks are not counted beyond it

\* Nothing relates the rate and the burst, which are configured, to the age, which is 5
\* minutes: a large burst may take longer than that to be earned.
ASSUME LimiterAssumption ==
  /\ Burst \in Nat \ {0} /\ Interval \in Nat \ {0} /\ CleanupAge \in Nat /\ Horizon \in Nat
  /\ Horizon > CleanupAge /\ Horizon >= Burst * Interval

Visitor == [tokens: 0 .. Burst, elapsed: 0 .. Horizon, idle: 0 .. Horizon]

VARIABLES
  visitors,  \* the visitor of each address that has one
  \* history
  credit,    \* ticks an address has earned and not spent, at most Full
  refused    \* ticks since an address was first refused after it was last admitted,
             \* at most Interval; -1 if it was not

limiterVars == <<visitors, credit, refused>>

Full        == Burst * Interval + Interval - 1
Least(a, b) == IF a < b THEN a ELSE b
Later(n)    == Least(n + 1, Horizon)

LimiterInit ==
  /\ visitors = [ip \in {} |-> 0]
  /\ credit   = [ip \in IPs |-> Full]
  /\ refused  = [ip \in IPs |-> -1]

NewVisitor == [tokens |-> Burst, elapsed |-> 0, idle |-> 0]

\* Mutant: it is never moved.
RefillAgain(v) ==
  [tokens  |-> Least(Burst, v.tokens + v.elapsed \div Interval), elapsed |-> v.elapsed,
   idle    |-> 0]

\* The visitor after a request has come: only whole tokens are added, and only then is
\* the time of the last refill moved.
Refill(v) ==
  LET earned == v.elapsed \div Interval
  IN  [tokens  |-> Least(Burst, v.tokens + earned),
       elapsed |-> IF earned > 0 THEN 0 ELSE v.elapsed,
       idle    |-> 0]

Seen(ip)   == Refill(IF ip \in DOMAIN visitors THEN visitors[ip] ELSE NewVisitor)

Admits(ip) == Seen(ip).tokens > 0

Put(ip, v) ==
  visitors' = [x \in DOMAIN visitors \union {ip} |-> IF x = ip THEN v ELSE visitors[x]]

\* ipRateLimiter.Allow says yes.
Admit(ip) ==
  /\ Admits(ip)
  /\ Put(ip, [Seen(ip) EXCEPT !.tokens = @ - 1])
  /\ credit'  = [credit EXCEPT ![ip] = @ - Interval]
  /\ refused' = [refused EXCEPT ![ip] = -1]

\* ... and no.
Refuse(ip) ==
  /\ ~Admits(ip)
  /\ Put(ip, Seen(ip))
  /\ refused' = [refused EXCEPT ![ip] = IF @ = -1 THEN 0 ELSE @]
  /\ UNCHANGED credit

\* cleanupVisitors, whose ticker may be late.
CleanupVisitors ==
  /\ visitors' = [ip \in {i \in DOMAIN visitors : visitors[i].idle =< CleanupAge}
                    |-> visitors[ip]]
  /\ UNCHANGED <<credit, refused>>

\* History: a tick is a tick, unless the address was silent for so long that it may be
\* forgotten.
Earned(ip) ==
  LET sum == Least(credit[ip] + 1, Full)
  IN  IF ip \in DOMAIN visitors /\ Later(visitors[ip].idle) > CleanupAge /\ sum < Burst * Interval
      THEN Burst * Interval ELSE sum

Tick ==
  /\ visitors' = [ip \in DOMAIN visitors |->
                    [visitors[ip] EXCEPT !.elapsed = Later(@), !.idle = Later(@)]]
  /\ credit'   = [ip \in IPs |-> Earned(ip)]
  /\ refused'  = [ip \in IPs |-> IF refused[ip] \in 0 .. Interval - 1 THEN refused[ip] + 1
                                 ELSE refused[ip]]

\* A new process knows no address: every client starts with a full bucket.
RestartLimiter ==
  /\ visitors' = [ip \in {} |-> 0]
  /\ credit'   = [ip \in IPs |-> Full]
  /\ refused'  = [ip \in IPs |-> -1]

LimiterNext ==
  \/ \E ip \in IPs : Admit(ip) \/ Refuse(ip)
  \/ CleanupVisitors \/ Tick \/ RestartLimiter

LimiterSpec == LimiterInit /\ [][LimiterNext]_limiterVars
-----------------------------------------------------------------------------
(* Correctness. *)

LimiterTypeOK ==
  /\ DOMAIN visitors \subseteq IPs
  /\ \A ip \in DOMAIN visitors : visitors[ip] \in Visitor
  /\ credit  \in [IPs -> Int]
  /\ refused \in [IPs -> -1 .. Interval]

(* The limiter admits no more than a bucket that does not round: over any time in which it
   is never silent for more than CleanupAge, an address gets in at most Burst times and once
   more for each Interval that goes by; after such a silence, and only then, it has a full
   burst, although its visitor is thrown away at any time from then on (Allow,
   cleanupVisitors). *)
AdmitsLikeBucket == \A ip \in IPs : credit[ip] >= 0

(* A client that keeps asking is not shut out: once an Interval has gone by since it was
   refused, with no request of its admitted in between, it is admitted, however often it
   asked and was refused meanwhile (Allow moves lastRefill only when it adds a token). *)
NoStarvation == \A ip \in IPs : refused[ip] = Interval => Admits(ip)
=============================================================================

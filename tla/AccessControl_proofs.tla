-------------------------- MODULE AccessControl_proofs --------------------------
(***************************************************************************)
(* Proofs about AccessControl, for any users, tokens, addresses and calls: *)
(* the limiter behaves among the requests as it does alone, and what a     *)
(* request has found out about its user and his password when it was last  *)
(* looked up is what the step that uses it needs.                          *)
(*                                                                         *)
(* The limiter comes first, for any rates and bursts.  What an address has *)
(* earned is compared with what its visitor holds, in ticks; an address    *)
(* without a visitor has a full burst, for a visitor is only forgotten     *)
(* after a silence that gives it one.  That silence gives nothing which    *)
(* was not earned if the burst takes no longer.                            *)
(***************************************************************************)
EXTENDS AccessControl, TLAPS

Worth(v) == v.tokens * Interval + v.elapsed

Covered(ip) ==
  IF ip \in DOMAIN visitors
  THEN LET v == visitors[ip]
       IN  /\ Least(Full, Worth(v)) =< credit[ip] /\ refused[ip] =< v.elapsed
           /\ Least(v.idle, Burst * Interval) =< credit[ip]
           /\ v.idle > CleanupAge => Burst * Interval =< credit[ip]
  ELSE Burst * Interval =< credit[ip]

LimiterInv ==
  /\ LimiterTypeOK
  /\ \A ip \in IPs : credit[ip] \in 0 .. Full /\ Covered(ip)
-----------------------------------------------------------------------------
(* Arithmetic. *)

LEMMA Division ==
  ASSUME NEW a \in Nat, NEW n \in Nat \ {0}
  PROVE  /\ a \div n \in Nat
         /\ (a \div n) * n =< a
         /\ a < (a \div n) * n + n
BY Z3

LEMMA Products ==
  ASSUME NEW a \in Nat, NEW b \in Nat, NEW n \in Nat
  PROVE  /\ a * n \in Nat
         /\ (a + b) * n = a * n + b * n
         /\ a =< b => a * n =< b * n
         /\ a >= 1 => a * n >= n
BY Z3

LEMMA Sizes == /\ Full \in Nat /\ Burst * Interval \in Nat
               /\ Interval =< Burst * Interval /\ Burst * Interval =< Full /\ Burst * Interval =< Horizon
               /\ Full = Burst * Interval + Interval - 1
BY Products, LimiterAssumption DEF Full

\* What a request finds: the ticks left over make no token, and all is covered.
LEMMA RefillWorth ==
  ASSUME NEW v \in Visitor, NEW c \in 0 .. Full, Least(Full, Worth(v)) =< c
  PROVE  /\ Refill(v) \in Visitor
         /\ Refill(v).elapsed =< Interval - 1
         /\ Refill(v).idle = 0
         /\ Worth(Refill(v)) \in Nat
         /\ Worth(Refill(v)) =< c
         /\ Refill(v).tokens = 0 => v.elapsed < Interval /\ Refill(v).elapsed = v.elapsed
  <1> DEFINE t == Refill(v).tokens
  <1>1. /\ v.tokens \in 0 .. Burst /\ v.elapsed \in 0 .. Horizon /\ Interval \in Nat \ {0}
        /\ Burst \in Nat \ {0}  /\ Horizon \in Nat
    BY LimiterAssumption DEF Visitor
  <1>2. PICK e \in Nat : /\ e = v.elapsed \div Interval
                         /\ e * Interval =< v.elapsed /\ v.elapsed < e * Interval + Interval
    <2>1. v.elapsed \in Nat
      BY <1>1
    <2>2. /\ v.elapsed \div Interval \in Nat
          /\ (v.elapsed \div Interval) * Interval =< v.elapsed
          /\ v.elapsed < (v.elapsed \div Interval) * Interval + Interval
      BY <1>1, <2>1, Division
    <2>3. QED BY <2>2
  <1>3. /\ t = Least(Burst, v.tokens + e)
        /\ Refill(v).elapsed = (IF e > 0 THEN 0 ELSE v.elapsed) /\ Refill(v).idle = 0
        /\ Refill(v) = [tokens |-> t, elapsed |-> Refill(v).elapsed, idle |-> 0]
    BY <1>2 DEF Refill
  <1>4. t \in 0 .. Burst /\ t =< v.tokens + e /\ (t = 0 => e = 0)
    BY <1>1, <1>2, <1>3 DEF Least
  <1>5. e = 0 => v.elapsed < Interval
    <2>1. 0 * Interval = 0
      BY <1>1
    <2>2. SUFFICES ASSUME e = 0 PROVE v.elapsed < Interval
      OBVIOUS
    <2>3. e * Interval = 0
      BY <2>1, <2>2
    <2>4. v.elapsed < 0 + Interval
      BY <1>2, <2>3, Zenon
    <2>5. QED BY <1>1, <2>4
  <1>6. /\ t * Interval \in Nat /\ t * Interval =< Burst * Interval
        /\ t * Interval =< v.tokens * Interval + e * Interval
        /\ v.tokens * Interval \in Nat /\ e * Interval \in Nat
    <2>1. (v.tokens + e) * Interval = v.tokens * Interval + e * Interval
      BY <1>1, <1>2, Products
    <2>2. t * Interval =< (v.tokens + e) * Interval
      BY <1>1, <1>2, <1>4, Products
    <2>3. t * Interval =< Burst * Interval
      BY <1>1, <1>4, Products
    <2>4. t * Interval \in Nat /\ v.tokens * Interval \in Nat /\ e * Interval \in Nat
      BY <1>1, <1>2, <1>4, Products
    <2>5. QED BY <2>1, <2>2, <2>3, <2>4
  <1>7. Refill(v) \in Visitor /\ Refill(v).elapsed =< Interval - 1
    BY <1>1, <1>2, <1>3, <1>4, <1>5 DEF Visitor
  <1>8. Worth(Refill(v)) \in Nat /\ Worth(Refill(v)) =< Full /\ Worth(Refill(v)) =< Worth(v)
    <2>1. Worth(Refill(v)) = t * Interval + Refill(v).elapsed /\ Worth(v) = v.tokens * Interval + v.elapsed
      BY DEF Worth
    <2>2. CASE e > 0
      BY <1>1, <1>2, <1>3, <1>6, <2>1, <2>2, Sizes
    <2>3. CASE e = 0
      <3>1. Refill(v).elapsed = v.elapsed /\ v.elapsed < Interval
        BY <1>3, <1>5, <2>3
      <3>2. t * Interval =< v.tokens * Interval
        BY <1>1, <1>3, <1>4, <2>3, Products
      <3>3. QED BY <1>1, <1>6, <2>1, <3>1, <3>2, Sizes
    <2>4. QED BY <1>2, <2>2, <2>3
  <1>9. Worth(Refill(v)) =< c
    <2>1. Worth(v) \in Nat
      BY <1>1, <1>6 DEF Worth
    <2>2. QED BY <1>8, <2>1, Sizes DEF Least
  <1>10. t = 0 => v.elapsed < Interval /\ Refill(v).elapsed = v.elapsed
    BY <1>3, <1>4, <1>5
  <1>11. QED BY <1>3, <1>7, <1>8, <1>9, <1>10
-----------------------------------------------------------------------------
(* The invariant. *)

LEMMA NewVisitorWorth == /\ NewVisitor \in Visitor /\ Worth(NewVisitor) = Burst * Interval
                         /\ Refill(NewVisitor).tokens # 0
  <1>1. NewVisitor \in Visitor /\ Worth(NewVisitor) = Burst * Interval + 0
    BY LimiterAssumption DEF NewVisitor, Visitor, Worth
  <1>2. 0 \div Interval \in Nat
    BY LimiterAssumption, Division
  <1>3. Refill(NewVisitor).tokens = Least(Burst, Burst + (0 \div Interval))
    BY DEF Refill, NewVisitor
  <1>4. Refill(NewVisitor).tokens # 0
    BY <1>2, <1>3, LimiterAssumption DEF Least
  <1>5. QED BY <1>1, <1>4, Sizes

LEMMA SeenWorth ==
  ASSUME LimiterInv, NEW ip \in IPs
  PROVE  /\ Seen(ip) \in Visitor
         /\ Seen(ip).elapsed =< Interval - 1
         /\ Seen(ip).idle = 0
         /\ Worth(Seen(ip)) \in Nat
         /\ Worth(Seen(ip)) =< credit[ip]
         /\ Seen(ip).tokens = 0 => /\ ip \in DOMAIN visitors /\ refused[ip] =< Seen(ip).elapsed
                                  /\ refused[ip] < Interval
  <1>1. credit[ip] \in 0 .. Full /\ Covered(ip) /\ LimiterTypeOK /\ refused[ip] \in -1 .. Interval
    BY DEF LimiterInv, LimiterTypeOK
  <1>2. CASE ip \in DOMAIN visitors
    <2>1. Seen(ip) = Refill(visitors[ip]) /\ visitors[ip] \in Visitor
      BY <1>1, <1>2 DEF Seen, LimiterTypeOK
    <2>2. Least(Full, Worth(visitors[ip])) =< credit[ip] /\ refused[ip] =< visitors[ip].elapsed
      BY <1>1, <1>2 DEF Covered
    <2>3. Seen(ip).tokens = 0 => visitors[ip].elapsed < Interval
                                 /\ Seen(ip).elapsed = visitors[ip].elapsed
      BY <1>1, <2>1, <2>2, RefillWorth
    <2>4. Seen(ip).tokens = 0 => refused[ip] =< Seen(ip).elapsed /\ refused[ip] < Interval
      <3>1. visitors[ip].elapsed \in Nat /\ Interval \in Nat
        BY <2>1, LimiterAssumption DEF Visitor
      <3>2. QED BY <1>1, <2>2, <2>3, <3>1
    <2>5. /\ Seen(ip) \in Visitor /\ Seen(ip).elapsed =< Interval - 1 /\ Seen(ip).idle = 0
          /\ Worth(Seen(ip)) \in Nat /\ Worth(Seen(ip)) =< credit[ip]
      BY <1>1, <2>1, <2>2, RefillWorth
    <2>6. QED BY <1>2, <2>4, <2>5
  <1>3. CASE ip \notin DOMAIN visitors
    <2>1. Seen(ip) = Refill(NewVisitor)
      BY <1>3 DEF Seen
    <2>2. Least(Full, Worth(NewVisitor)) =< credit[ip]
      BY <1>1, <1>3, NewVisitorWorth, Sizes DEF Covered, Least
    <2>3. QED BY <1>1, <2>1, <2>2, NewVisitorWorth, RefillWorth
  <1>4. QED BY <1>2, <1>3

LEMMA InitLimiter == LimiterInit => LimiterInv
  <1> SUFFICES ASSUME LimiterInit PROVE LimiterInv
    OBVIOUS
  <1>1. LimiterTypeOK
    BY Sizes, LimiterAssumption DEF LimiterInit, LimiterTypeOK
  <1>2. ASSUME NEW ip \in IPs PROVE credit[ip] \in 0 .. Full /\ Covered(ip)
    <2>1. credit[ip] = Full /\ ip \notin DOMAIN visitors
      BY DEF LimiterInit
    <2>2. QED BY <2>1, Sizes DEF Covered
  <1>3. QED BY <1>1, <1>2 DEF LimiterInv

\* A request that leaves its visitor as v.
LEMMA PutLimiter ==
  ASSUME LimiterInv, NEW ip \in IPs, NEW v \in Visitor, Put(ip, v),
         v.idle = 0, NEW k \in 0 .. Full, Worth(v) \in Nat, Worth(v) =< k,
         NEW n \in -1 .. Interval, n =< v.elapsed,
         credit' = [credit EXCEPT ![ip] = k], refused' = [refused EXCEPT ![ip] = n]
  PROVE  LimiterInv'
  <1>1. LimiterTypeOK'
    BY Sizes DEF LimiterInv, LimiterTypeOK, Put
  <1>2. ASSUME NEW x \in IPs PROVE credit'[x] \in 0 .. Full /\ Covered(x)'
    <2>1. credit[x] \in 0 .. Full /\ Covered(x) /\ credit \in [IPs -> Int] /\ refused \in [IPs -> -1 .. Interval]
      BY DEF LimiterInv, LimiterTypeOK
    <2>2. CASE x = ip
      <3>1. x \in DOMAIN visitors' /\ visitors'[x] = v /\ credit'[x] = k /\ refused'[x] = n
        BY <2>1, <2>2 DEF Put
      <3>2. /\ Least(Full, Worth(v)) =< k /\ Least(v.idle, Burst * Interval) =< k
            /\ ~(v.idle > CleanupAge)
        BY Sizes, LimiterAssumption DEF Least, Visitor
      <3>3. Least(Full, Worth(v))' = Least(Full, Worth(v))
        BY DEF Least, Worth, Full
      <3>4. QED BY <3>1, <3>2 DEF Covered, Least, Worth, Full
    <2>3. CASE x # ip
      <3>1. /\ x \in DOMAIN visitors' <=> x \in DOMAIN visitors
            /\ x \in DOMAIN visitors => visitors'[x] = visitors[x]
            /\ credit'[x] = credit[x] /\ refused'[x] = refused[x]
        BY <2>1, <2>3 DEF Put
      <3>2. QED BY <2>1, <3>1 DEF Covered, Least, Worth, Full
    <2>4. QED BY <2>2, <2>3
  <1>3. QED BY <1>1, <1>2 DEF LimiterInv

LEMMA AdmitLimiter == ASSUME LimiterInv, NEW ip \in IPs, Admit(ip) PROVE LimiterInv'
  <1> DEFINE s == Seen(ip)
             v == [s EXCEPT !.tokens = @ - 1]
  <1>1. /\ s \in Visitor /\ s.elapsed =< Interval - 1 /\ s.idle = 0
        /\ Worth(s) \in Nat /\ Worth(s) =< credit[ip]
    BY SeenWorth
  <1>2. s.tokens \in 1 .. Burst /\ Interval \in Nat \ {0} /\ credit[ip] \in 0 .. Full
        /\ Burst \in Nat /\ s.elapsed \in Nat /\ s.elapsed \in 0 .. Horizon
    BY <1>1, LimiterAssumption DEF Admit, Admits, Visitor, LimiterInv
  <1>3. v \in Visitor /\ v.idle = 0 /\ v.elapsed = s.elapsed /\ v.tokens = s.tokens - 1
    BY <1>1, <1>2 DEF Visitor
  <1>4. Worth(v) \in Nat /\ Worth(v) = Worth(s) - Interval
    <2>1. s.tokens - 1 \in Nat /\ (s.tokens - 1) + 1 = s.tokens
      BY <1>2
    <2>2. s.tokens * Interval = (s.tokens - 1) * Interval + 1 * Interval /\ (s.tokens - 1) * Interval \in Nat
      BY <1>2, <2>1, Products
    <2>3. Worth(v) = (s.tokens - 1) * Interval + s.elapsed /\ Worth(s) = s.tokens * Interval + s.elapsed
      BY <1>3 DEF Worth
    <2>4. 1 * Interval = Interval
      BY <1>2
    <2>5. QED BY <1>2, <2>2, <2>3, <2>4
  <1>5. credit[ip] - Interval \in 0 .. Full /\ Worth(v) =< credit[ip] - Interval
    BY <1>1, <1>2, <1>4, Sizes
  <1>6. credit' = [credit EXCEPT ![ip] = credit[ip] - Interval] /\ refused' = [refused EXCEPT ![ip] = -1]
        /\ Put(ip, v)
    BY DEF Admit
  <1>7. -1 \in -1 .. Interval /\ -1 =< v.elapsed
    BY <1>2, <1>3
  <1> HIDE DEF v
  <1>8. QED BY <1>3, <1>4, <1>5, <1>6, <1>7, PutLimiter

LEMMA RefuseLimiter == ASSUME LimiterInv, NEW ip \in IPs, Refuse(ip) PROVE LimiterInv'
  <1> DEFINE s == Seen(ip)
             n == IF refused[ip] = -1 THEN 0 ELSE refused[ip]
  <1>1. /\ s \in Visitor /\ s.idle = 0 /\ Worth(s) \in Nat /\ Worth(s) =< credit[ip]
    BY SeenWorth
  <1>2. s.tokens = 0
    BY <1>1, LimiterAssumption DEF Refuse, Admits, Visitor
  <1>3. refused[ip] =< s.elapsed
    BY <1>2, SeenWorth
  <1>4. credit[ip] \in 0 .. Full /\ refused[ip] \in -1 .. Interval
    BY DEF LimiterInv, LimiterTypeOK
  <1>5. n \in -1 .. Interval /\ n =< s.elapsed
    BY <1>1, <1>3, <1>4, LimiterAssumption DEF Visitor
  <1>6. credit' = [credit EXCEPT ![ip] = credit[ip]] /\ refused' = [refused EXCEPT ![ip] = n] /\ Put(ip, s)
    BY DEF Refuse, LimiterInv, LimiterTypeOK
  <1> HIDE DEF s, n
  <1>7. QED BY <1>1, <1>4, <1>5, <1>6, PutLimiter

\* A visitor that is forgotten has been silent for long enough to have a full burst.
LEMMA CleanupLimiter == ASSUME LimiterInv, CleanupVisitors PROVE LimiterInv'
  <1>1. LimiterTypeOK'
    BY DEF LimiterInv, LimiterTypeOK, CleanupVisitors
  <1>2. ASSUME NEW ip \in IPs PROVE credit'[ip] \in 0 .. Full /\ Covered(ip)'
    <2>1. credit'[ip] = credit[ip] /\ refused'[ip] = refused[ip]
          /\ credit[ip] \in 0 .. Full /\ Covered(ip)
      BY DEF LimiterInv, CleanupVisitors
    <2>2. CASE ip \notin DOMAIN visitors
      <3>1. ip \notin DOMAIN visitors'
        BY <2>2 DEF CleanupVisitors
      <3>2. QED BY <2>1, <2>2, <3>1 DEF Covered
    <2>3. CASE ip \in DOMAIN visitors /\ visitors[ip].idle =< CleanupAge
      <3>1. ip \in DOMAIN visitors' /\ visitors'[ip] = visitors[ip]
        BY <2>3 DEF CleanupVisitors
      <3>2. QED BY <2>1, <2>3, <3>1 DEF Covered, Least, Worth, Full
    <2>4. CASE ip \in DOMAIN visitors /\ ~(visitors[ip].idle =< CleanupAge)
      <3> DEFINE v == visitors[ip]
      <3>1. ip \notin DOMAIN visitors'
        BY <2>4 DEF CleanupVisitors
      <3>2. v.idle > CleanupAge
        BY <2>4, LimiterAssumption DEF LimiterInv, LimiterTypeOK, Visitor
      <3>3. Burst * Interval =< credit[ip]
        BY <2>1, <2>4, <3>2 DEF Covered
      <3>4. QED BY <2>1, <3>1, <3>3 DEF Covered
    <2>5. QED BY <2>1, <2>2, <2>3, <2>4
  <1>3. QED BY <1>1, <1>2 DEF LimiterInv

\* What a tick gives stays within bounds, and is a tick at least.
LEMMA EarnedIs ==
  ASSUME LimiterInv, NEW ip \in IPs
  PROVE  /\ Earned(ip) \in 0 .. Full
         /\ Least(credit[ip] + 1, Full) =< Earned(ip)
         /\ ip \in DOMAIN visitors /\ Later(visitors[ip].idle) > CleanupAge
              => Burst * Interval =< Earned(ip)
  <1>1. credit[ip] \in 0 .. Full
    BY DEF LimiterInv
  <1>2. Least(credit[ip] + 1, Full) \in 0 .. Full
    BY <1>1, Sizes DEF Least
  <1> DEFINE sum == Least(credit[ip] + 1, Full)
  <1>3. Earned(ip) = (IF ip \in DOMAIN visitors /\ Later(visitors[ip].idle) > CleanupAge
                         /\ sum < Burst * Interval THEN Burst * Interval ELSE sum)
    BY DEF Earned
  <1> HIDE DEF sum
  <1>4. sum \in 0 .. Full
    BY <1>2 DEF sum
  <1>5. /\ Earned(ip) \in 0 .. Full /\ sum =< Earned(ip)
        /\ ip \in DOMAIN visitors /\ Later(visitors[ip].idle) > CleanupAge
             => Burst * Interval =< Earned(ip)
    BY <1>3, <1>4, Sizes
  <1>6. QED BY <1>5 DEF sum

\* A tick is worth one tick at least to the bucket, and one at most to the visitor.
LEMMA TickLimiter == ASSUME LimiterInv, Tick PROVE LimiterInv'
  <1>0. Interval \in Nat \ {0} /\ Horizon \in Nat \ {0} /\ Burst \in Nat
    BY LimiterAssumption
  <1>1. ASSUME NEW ip \in DOMAIN visitors
        PROVE  /\ visitors'[ip] \in Visitor
               /\ visitors'[ip].tokens  = visitors[ip].tokens
               /\ visitors'[ip].elapsed = Later(visitors[ip].elapsed)
               /\ visitors'[ip].idle    = Later(visitors[ip].idle)
    <2>1. visitors[ip] \in Visitor
      BY DEF LimiterInv, LimiterTypeOK
    <2>2. visitors'[ip] = [visitors[ip] EXCEPT !.elapsed = Later(@), !.idle = Later(@)]
      BY DEF Tick
    <2>3. \A n \in 0 .. Horizon : Later(n) \in 0 .. Horizon
      BY <1>0 DEF Later, Least
    <2>4. QED BY <2>1, <2>2, <2>3 DEF Visitor
  <1>2. ASSUME NEW ip \in IPs
        PROVE  /\ credit'[ip] = Earned(ip)
               /\ credit[ip] \in 0 .. Full /\ credit'[ip] \in 0 .. Full /\ Covered(ip)
               /\ refused'[ip] \in -1 .. Interval
               /\ refused'[ip] # refused[ip] => refused[ip] < Interval /\ refused'[ip] = refused[ip] + 1
               /\ refused[ip] \in -1 .. Interval
    <2>1. /\ credit'[ip] = Earned(ip)
          /\ refused'[ip] = (IF refused[ip] \in 0 .. Interval - 1 THEN refused[ip] + 1
                             ELSE refused[ip])
      BY DEF Tick
    <2>2. credit[ip] \in 0 .. Full /\ Covered(ip) /\ refused[ip] \in -1 .. Interval
      BY DEF LimiterInv, LimiterTypeOK
    <2>3. Earned(ip) \in 0 .. Full
      BY EarnedIs
    <2>4. CASE refused[ip] \in 0 .. Interval - 1
      BY <1>0, <2>1, <2>2, <2>3, <2>4
    <2>5. CASE refused[ip] \notin 0 .. Interval - 1
      BY <1>0, <2>1, <2>2, <2>3, <2>5
    <2>6. QED BY <2>4, <2>5
  <1>3. LimiterTypeOK'
    <2>1. DOMAIN visitors' = DOMAIN visitors
      BY DEF Tick
    <2>2. credit' \in [IPs -> Int]
      <3>1. \A ip \in IPs : credit'[ip] \in Int
        BY <1>2, Sizes
      <3>2. credit' = [ip \in IPs |-> credit'[ip]]
        BY DEF Tick
      <3>3. QED BY <3>1, <3>2
    <2>3. refused' \in [IPs -> -1 .. Interval]
      BY <1>2 DEF Tick
    <2>4. QED BY <1>1, <2>1, <2>2, <2>3 DEF LimiterInv, LimiterTypeOK
  <1>4. ASSUME NEW ip \in IPs PROVE Covered(ip)'
    <2>1. DOMAIN visitors' = DOMAIN visitors
      BY DEF Tick
    <2>2. CASE ip \notin DOMAIN visitors
      <3>1. Burst * Interval =< credit[ip]
        BY <1>2, <2>2 DEF Covered
      <3>2. Burst * Interval =< credit'[ip]
        BY <1>2, <3>1, EarnedIs, Sizes DEF Least
      <3>3. QED BY <2>1, <2>2, <3>2 DEF Covered
    <2>3. CASE ip \in DOMAIN visitors
      <3> DEFINE v == visitors[ip]
                 w == visitors'[ip]
      <3>1. /\ Least(Full, Worth(v)) =< credit[ip] /\ Least(v.idle, Burst * Interval) =< credit[ip]
            /\ refused[ip] =< v.elapsed /\ v \in Visitor
        BY <1>2, <2>3 DEF Covered, LimiterInv, LimiterTypeOK
      <3>2. /\ w.tokens = v.tokens /\ w.elapsed = Later(v.elapsed) /\ w.idle = Later(v.idle)
        BY <1>1, <2>3
      <3>3. v.tokens \in 0 .. Burst /\ v.elapsed \in 0 .. Horizon /\ v.idle \in 0 .. Horizon
        BY <3>1 DEF Visitor
      <3>4. Least(w.idle, Burst * Interval) =< credit'[ip]
        <4>1. Least(credit[ip] + 1, Full) =< credit'[ip] /\ credit[ip] \in Nat
          BY <1>2, EarnedIs, Sizes
        <4>2. w.idle \in Nat /\ w.idle =< v.idle + 1 /\ v.idle \in Nat
          BY <1>0, <3>2, <3>3 DEF Later, Least
        <4>3. credit'[ip] \in Nat
          BY <1>2, Sizes
        <4>4. QED BY <3>1, <4>1, <4>2, <4>3, Sizes DEF Least
      <3>13. w.idle > CleanupAge => Burst * Interval =< credit'[ip]
        BY <1>2, <2>3, <3>2, EarnedIs
      <3>5. refused'[ip] =< w.elapsed
        <4>1. Interval =< Horizon
          BY <1>0, Sizes
        <4>2. QED BY <1>0, <1>2, <3>1, <3>2, <3>3, <4>1 DEF Later, Least
      <3>6. v.tokens * Interval \in Nat
        BY <1>0, <3>3, Products
      <3>7. Worth(v) = v.tokens * Interval + v.elapsed /\ Worth(w) = v.tokens * Interval + w.elapsed
        BY <3>2 DEF Worth
      <3>8. Worth(v) \in Nat /\ Worth(w) \in Nat /\ Worth(w) =< Worth(v) + 1
        BY <1>0, <3>2, <3>3, <3>6, <3>7 DEF Later, Least
      <3>9. Least(Full, Worth(w)) =< credit'[ip]
        <4>1. Least(credit[ip] + 1, Full) =< credit'[ip] /\ credit[ip] \in Nat /\ credit'[ip] \in Nat
          BY <1>2, EarnedIs, Sizes
        <4>2. QED BY <3>1, <3>8, <4>1, Sizes DEF Least
      <3>10. Least(Full, Worth(visitors[ip]))' = Least(Full, Worth(w))
        BY DEF Least, Worth, Full
      <3>11. Least(visitors[ip].idle, Burst * Interval)' = Least(w.idle, Burst * Interval)
        BY DEF Least
      <3>12. QED BY <2>1, <2>3, <3>4, <3>5, <3>9, <3>10, <3>11, <3>13 DEF Covered
    <2>4. QED BY <2>2, <2>3
  <1>5. QED BY <1>2, <1>3, <1>4 DEF LimiterInv

LEMMA RestartLimiterInv == ASSUME RestartLimiter PROVE LimiterInv'
  <1>1. LimiterTypeOK'
    BY Sizes, LimiterAssumption DEF RestartLimiter, LimiterTypeOK
  <1>2. ASSUME NEW ip \in IPs PROVE credit'[ip] \in 0 .. Full /\ Covered(ip)'
    <2>1. credit'[ip] = Full /\ ip \notin DOMAIN visitors'
      BY DEF RestartLimiter
    <2>2. QED BY <2>1, Sizes DEF Covered
  <1>3. QED BY <1>1, <1>2 DEF LimiterInv

LEMMA NextLimiter == LimiterInv /\ [LimiterNext]_limiterVars => LimiterInv'
  <1> SUFFICES ASSUME LimiterInv, [LimiterNext]_limiterVars PROVE LimiterInv'
    OBVIOUS
  <1>1. CASE UNCHANGED limiterVars
    BY <1>1 DEF limiterVars, LimiterInv, LimiterTypeOK, Covered, Least, Worth, Full
  <1>2. ASSUME NEW ip \in IPs, Admit(ip) PROVE LimiterInv'
    BY <1>2, AdmitLimiter
  <1>3. ASSUME NEW ip \in IPs, Refuse(ip) PROVE LimiterInv'
    BY <1>3, RefuseLimiter
  <1>4. CASE CleanupVisitors
    BY <1>4, CleanupLimiter
  <1>5. CASE Tick
    BY <1>5, TickLimiter
  <1>6. CASE RestartLimiter
    BY <1>6, RestartLimiterInv
  <1>7. QED BY <1>1, <1>2, <1>3, <1>4, <1>5, <1>6 DEF LimiterNext
-----------------------------------------------------------------------------
(* What it says. *)

LEMMA LimiterProperties == LimiterInv => LimiterTypeOK /\ AdmitsLikeBucket /\ NoStarvation
  <1> SUFFICES ASSUME LimiterInv PROVE LimiterTypeOK /\ AdmitsLikeBucket /\ NoStarvation
    OBVIOUS
  <1>1. AdmitsLikeBucket
    <2>1. ASSUME NEW ip \in IPs PROVE credit[ip] >= 0
      <3>1. credit[ip] \in 0 .. Full
        BY DEF LimiterInv
      <3>2. QED BY <3>1, Sizes
    <2>2. QED BY <2>1 DEF AdmitsLikeBucket
  <1>2. ASSUME NEW ip \in IPs, refused[ip] = Interval PROVE Admits(ip)
    <2>1. Seen(ip) \in Visitor /\ (Seen(ip).tokens = 0 => refused[ip] < Interval)
      BY SeenWorth
    <2>2. QED BY <1>2, <2>1, LimiterAssumption DEF Admits, Visitor
  <1>3. QED BY <1>1, <1>2 DEF LimiterInv, NoStarvation

(* The limiter alone, whatever the rate, the burst, the age at which addresses are forgotten,
   the addresses and the order of requests, ticks, clean-ups and restarts: what it holds
   stays in range, it never admits more than a bucket that is full again only after a
   silence of that age, and it shuts nobody out (ipRateLimiter.Allow, cleanupVisitors). *)
THEOREM LimiterSafe == LimiterSpec => [](LimiterTypeOK /\ AdmitsLikeBucket /\ NoStarvation)
  <1>1. LimiterSpec => []LimiterInv
    BY InitLimiter, NextLimiter, PTL DEF LimiterSpec
  <1>2. QED BY <1>1, LimiterProperties, PTL

\* The silence gives an address no more than a tick gives.
NothingGiven == \A ip \in IPs : credit'[ip] =< credit[ip] + 1

(* Where the burst is earned within the age at which addresses are forgotten, as it is by
   default (50 requests in 10 seconds, against 5 minutes), forgetting is harmless: time never
   gives an address more than it earns, so that what LimiterSafe compares the limiter with is
   a bucket that forgets nobody (cleanupVisitors). *)
THEOREM NothingForgiven ==
  ASSUME CleanupAge + 1 >= Burst * Interval
  PROVE  LimiterSpec => [][Tick => NothingGiven]_limiterVars
  <1>1. LimiterSpec => []LimiterInv
    BY InitLimiter, NextLimiter, PTL DEF LimiterSpec
  <1>2. ASSUME LimiterInv, Tick PROVE NothingGiven
    <2> SUFFICES ASSUME NEW ip \in IPs PROVE credit'[ip] =< credit[ip] + 1
      BY DEF NothingGiven
    <2>1. credit'[ip] = Earned(ip) /\ credit[ip] \in 0 .. Full /\ Covered(ip)
      BY <1>2 DEF Tick, LimiterInv
    <2>2. Least(credit[ip] + 1, Full) =< credit[ip] + 1
      BY <2>1, Sizes DEF Least
    <2>3. CASE ip \in DOMAIN visitors /\ Later(visitors[ip].idle) > CleanupAge
      <3>1. visitors[ip].idle \in 0 .. Horizon /\ Least(visitors[ip].idle, Burst * Interval) =< credit[ip]
        BY <1>2, <2>1, <2>3 DEF Covered, LimiterInv, LimiterTypeOK, Visitor
      <3>2. visitors[ip].idle >= CleanupAge
        BY <2>3, <3>1, LimiterAssumption DEF Later, Least
      <3>3. Burst * Interval =< credit[ip] + 1
        BY <2>1, <3>1, <3>2, Sizes, LimiterAssumption DEF Least
      <3>4. QED BY <2>1, <2>2, <3>3 DEF Earned
    <2>4. CASE ~(ip \in DOMAIN visitors /\ Later(visitors[ip].idle) > CleanupAge)
      BY <2>1, <2>2, <2>4 DEF Earned
    <2>5. QED BY <2>3, <2>4
  <1>3. LimiterInv /\ [LimiterNext]_limiterVars => [Tick => NothingGiven]_limiterVars
    BY <1>2
  <1>4. QED BY <1>1, <1>3, PTL DEF LimiterSpec
-----------------------------------------------------------------------------
(* Users, sessions and requests. *)

Rows ==
  /\ setting \in Settings
  /\ DOMAIN users \subseteq Users /\ \A u \in DOMAIN users : users[u] \in User
  /\ DOMAIN sessions \subseteq DOMAIN owner
  /\ \A t \in DOMAIN sessions : sessions[t] \in [user: DOMAIN users, valid: BOOLEAN]
  /\ DOMAIN owner \subseteq Tokens /\ \A t \in DOMAIN owner : owner[t] \in DOMAIN users
  /\ blocked \subseteq IPs

\* The tokens that were logged out or have expired.
Over == {t \in DOMAIN owner : Ended(t)}

\* What is true of a request wherever it is, by the users, the tokens' owners and the
\* tokens that are over.
Good(k, names, own, over) ==
  /\ k.who # None => k.cred \in DOMAIN own /\ own[k.cred] = k.who
  /\ k.late => k.cred \in over /\ k.at \in {"auth", "delete"}
  /\ k.at = "insert" => k.job = "login" /\ k.name \in names /\ <<k.name, k.given>> \in k.known
  /\ k.at = "write" => \/ k.job = "reset"
                       \/ k.job = "password" /\ k.who # None /\ k.name = k.who
                                             /\ <<k.name, k.given>> \in k.known
  /\ k.job \in {"password", "create", "reset", "createCli"} => k.fresh \in Passwords
  /\ k.job \in {"create", "createCli"} => k.name \in Users

AccessInv ==
  /\ Rows
  /\ \A t \in DOMAIN sessions : sessions[t].user = owner[t]
  /\ call \in [Calls -> Call]
  /\ \A c \in Calls : Good(call[c], DOMAIN users, owner, Over)

\* A record of call once passwords have been noted in it.
Noted(k, now) == IF k.job \in {"login", "password"} /\ k.at # "idle"
                 THEN [k EXCEPT !.known = @ \union now] ELSE k

\* What no step takes back.
Grows ==
  /\ DOMAIN users \subseteq DOMAIN users' /\ DOMAIN owner \subseteq DOMAIN owner'
  /\ Over \subseteq Over'
  /\ \A t \in DOMAIN owner : owner'[t] = owner[t]
-----------------------------------------------------------------------------
(* The limiter among the requests. *)

LEMMA ArrivesLimiter ==
  ASSUME NEW c \in Calls, NEW ip \in IPs, NEW r, Arrives(c, ip, r)
  PROVE  [LimiterNext]_limiterVars
BY DEF Arrives, Passes, LimiterNext

LEMMA NextIsLimiter == [Next]_vars => [LimiterNext]_limiterVars
  <1> SUFFICES ASSUME [Next]_vars PROVE [LimiterNext]_limiterVars
    OBVIOUS
  <1>1. CASE UNCHANGED vars
    BY <1>1 DEF vars, limiterVars
  <1>2. ASSUME NEW c \in Calls, NEW ip \in IPs, NEW u \in Users, NEW p \in Passwords,
               RequestLogin(c, ip, u, p)
        PROVE  [LimiterNext]_limiterVars
    BY <1>2, ArrivesLimiter DEF RequestLogin
  <1>3. ASSUME NEW c \in Calls, NEW ip \in IPs, NEW t \in DOMAIN owner, RequestLogout(c, ip, t)
        PROVE  [LimiterNext]_limiterVars
    BY <1>3, ArrivesLimiter DEF RequestLogout
  <1>4. ASSUME NEW c \in Calls, NEW ip \in IPs, NEW k, NEW p, NEW q,
               RequestPassword(c, ip, k, p, q)
        PROVE  [LimiterNext]_limiterVars
    BY <1>4, ArrivesLimiter DEF RequestPassword
  <1>5. ASSUME NEW c \in Calls, NEW ip \in IPs, NEW k, NEW j, RequestBlock(c, ip, k, j)
        PROVE  [LimiterNext]_limiterVars
    BY <1>5, ArrivesLimiter DEF RequestBlock
  <1>6. ASSUME NEW c \in Calls, NEW ip \in IPs, NEW k, NEW u, NEW p,
               RequestCreateUser(c, ip, k, u, p)
        PROVE  [LimiterNext]_limiterVars
    BY <1>6, ArrivesLimiter DEF RequestCreateUser
  <1>7. ASSUME NEW c \in Calls, NEW ip \in IPs, BlockIP(c, ip) PROVE UNCHANGED limiterVars
    BY <1>7 DEF BlockIP, rest
  <1>8. ASSUME NEW ip \in IPs, RequestOther(ip) PROVE LimiterNext
    BY <1>8 DEF RequestOther, LimiterNext
  <1>9. ASSUME NEW c \in Calls, NEW j, NEW u, NEW p, RunCommand(c, j, u, p)
        PROVE  UNCHANGED limiterVars
    BY <1>9 DEF RunCommand, rest
  <1>10. ASSUME NEW c \in Calls, \/ HybridAuth(c) \/ CheckLogin(c) \/ CheckPassword(c)
                                 \/ WritePassword(c) \/ Logout(c) \/ Fail(c)
         PROVE  UNCHANGED limiterVars
    BY <1>10 DEF HybridAuth, CheckLogin, CheckPassword, WritePassword, Logout, Fail, rest
  <1>11. ASSUME NEW c \in Calls, NEW t \in Tokens, CreateUserSession(c, t)
         PROVE  UNCHANGED limiterVars
    BY <1>11 DEF CreateUserSession, rest
  <1>12. ASSUME NEW c \in Calls, NEW admin \in BOOLEAN, AddUser(c, admin)
         PROVE  UNCHANGED limiterVars
    BY <1>12 DEF AddUser, rest
  <1>13. ASSUME NEW t \in Tokens, Expire(t) PROVE UNCHANGED limiterVars
    BY <1>13 DEF Expire, rest
  <1>14. CASE LimiterRuns
    BY <1>14 DEF LimiterRuns, LimiterNext
  <1>15. CASE Restart
    BY <1>15 DEF Restart, LimiterNext
  <1>16. QED BY <1>1, <1>2, <1>3, <1>4, <1>5, <1>6, <1>7, <1>8, <1>9, <1>10, <1>11, <1>12,
                <1>13, <1>14, <1>15 DEF Next

LEMMA LimiterAmongRequests == Spec => []LimiterInv
  <1>1. Init => LimiterInit
    BY DEF Init
  <1>2. QED BY <1>1, InitLimiter, NextIsLimiter, NextLimiter, PTL DEF Spec

(* Whatever is requested, blocked and restarted, and for any rate, burst and age, an address
   gets in no more often than a bucket would let it that is full again only after a silence
   of that age (WAFMiddleware, Allow, cleanupVisitors). *)
THEOREM AccessLimited == Spec => []AdmitsLikeBucket
BY LimiterAmongRequests, LimiterProperties, PTL

(* Whatever is requested, an address whose requests are refused is admitted again after one
   interval (Allow). *)
THEOREM AccessNotStarved == Spec => []NoStarvation
BY LimiterAmongRequests, LimiterProperties, PTL
-----------------------------------------------------------------------------
(* Steps of a request. *)

LEMMA IdleGood ==
  ASSUME NEW names, NEW own, NEW over, NEW now
  PROVE  Idle \in Call /\ Good(Idle, names, own, over) /\ Noted(Idle, now) = Idle
BY DEF Idle, Call, Jobs, AdminJobs, Good, Noted

LEMMA CurrentType == Rows => Current(users) \subseteq Users \X Passwords
  <1> SUFFICES ASSUME Rows PROVE Current(users) \subseteq Users \X Passwords
    OBVIOUS
  <1>1. \A u \in DOMAIN users : u \in Users /\ users[u].password \in Passwords
    BY DEF Rows, User
  <1>2. QED BY <1>1 DEF Current

\* What was good stays so when nothing is taken back.
LEMMA StaysGood ==
  ASSUME Grows, NEW k \in Call, Good(k, DOMAIN users, owner, Over)
  PROVE  Good(k, DOMAIN users', owner', Over')
BY DEF Grows, Good

LEMMA NotedGood ==
  ASSUME NEW names, NEW own, NEW over, NEW now \in SUBSET (Users \X Passwords),
         NEW k \in Call, Good(k, names, own, over)
  PROVE  Noted(k, now) \in Call /\ Good(Noted(k, now), names, own, over)
  <1> DEFINE known == k.known \union now
  <1>1. CASE k.job \in {"login", "password"} /\ k.at # "idle"
    <2>1. Noted(k, now) = [k EXCEPT !.known = known]
      BY <1>1 DEF Noted
    <2>2. known \subseteq Users \X Passwords /\ k.known \subseteq known
      BY DEF Call
    <2> HIDE DEF known
    <2>3. [k EXCEPT !.known = known] \in Call
      BY <2>2 DEF Call
    <2>4. Good([k EXCEPT !.known = known], names, own, over)
      BY <2>2 DEF Call, Good
    <2>5. QED BY <2>1, <2>3, <2>4
  <1>2. CASE ~(k.job \in {"login", "password"} /\ k.at # "idle")
    <2>1. Noted(k, now) = k
      BY <1>2 DEF Noted
    <2>2. QED BY <2>1
  <1>3. QED BY <1>1, <1>2

LEMMA StepGood ==
  ASSUME AccessInv, Rows', Grows, NEW c \in Calls, NEW r, Step(c, r),
         Noted(r, Current(users')) \in Call,
         Good(Noted(r, Current(users')), DOMAIN users', owner', Over')
  PROVE  call' \in [Calls -> Call] /\ \A d \in Calls : Good(call'[d], DOMAIN users', owner', Over')
  <1> DEFINE now == Current(users')
  <1>0. now \in SUBSET (Users \X Passwords)
    <2>1. \A u \in DOMAIN users' : u \in Users /\ users'[u].password \in Passwords
      BY DEF Rows, User
    <2>2. QED BY <2>1 DEF Current
  <1>1. ASSUME NEW d \in Calls
        PROVE  call'[d] \in Call /\ Good(call'[d], DOMAIN users', owner', Over')
    <2>1. call'[d] = Noted(IF d = c THEN r ELSE call[d], now)
      BY DEF Step, Noted
    <2>2. CASE d = c
      BY <2>1, <2>2
    <2>3. CASE d # c
      <3>1. call[d] \in Call /\ Good(call[d], DOMAIN users, owner, Over)
        BY DEF AccessInv
      <3>2. Good(call[d], DOMAIN users', owner', Over')
        BY <3>1, StaysGood
      <3>3. call'[d] = Noted(call[d], now)
        BY <2>1, <2>3
      <3> HIDE DEF now
      <3>4. QED BY <1>0, <3>1, <3>2, <3>3, NotedGood
    <2>4. QED BY <2>2, <2>3
  <1>2. call' = [d \in Calls |-> call'[d]]
    BY DEF Step
  <1>3. QED BY <1>1, <1>2

LEMMA CurrentTypeNext == Rows' => Current(users') \subseteq Users \X Passwords
  <1> SUFFICES ASSUME Rows' PROVE Current(users') \subseteq Users \X Passwords
    OBVIOUS
  <1>1. \A u \in DOMAIN users' : u \in Users /\ users'[u].password \in Passwords
    BY DEF Rows, User
  <1>2. QED BY <1>1 DEF Current

\* A request that goes on as r, which is good as it is.
LEMMA GoesOnGood ==
  ASSUME AccessInv, Rows', Grows, NEW c \in Calls, NEW r \in Call, Step(c, r),
         Good(r, DOMAIN users', owner', Over'),
         \A t \in DOMAIN sessions' : sessions'[t].user = owner'[t]
  PROVE  AccessInv'
  <1>1. Current(users') \in SUBSET (Users \X Passwords)
    BY CurrentTypeNext
  <1>2. /\ Noted(r, Current(users')) \in Call
        /\ Good(Noted(r, Current(users')), DOMAIN users', owner', Over')
    BY <1>1, NotedGood
  <1>3. call' \in [Calls -> Call] /\ \A d \in Calls : Good(call'[d], DOMAIN users', owner', Over')
    BY <1>2, StepGood
  <1>4. QED BY <1>3 DEF AccessInv

LEMMA EndsGood ==
  ASSUME AccessInv, Rows', Grows, NEW c \in Calls, End(c),
         \A t \in DOMAIN sessions' : sessions'[t].user = owner'[t]
  PROVE  AccessInv'
  <1>1. Idle \in Call /\ Good(Idle, DOMAIN users', owner', Over')
    BY IdleGood
  <1>2. Step(c, Idle)
    BY DEF End
  <1>3. QED BY <1>1, <1>2, GoesOnGood

\* A step that leaves the rows and the blocked addresses alone.
LEMMA QuietGrows ==
  ASSUME AccessInv, UNCHANGED <<setting, users, sessions, owner>>, blocked' \subseteq IPs
  PROVE  /\ Rows' /\ Grows /\ Over' = Over
         /\ \A t \in DOMAIN sessions' : sessions'[t].user = owner'[t]
  <1>1. Rows'
    BY DEF AccessInv, Rows
  <1>2. Over' = Over
    BY DEF Over, Ended
  <1>3. QED BY <1>1, <1>2 DEF AccessInv, Grows
-----------------------------------------------------------------------------
(* Each step preserves the invariant. *)

LEMMA ArrivesGood ==
  ASSUME AccessInv, NEW c \in Calls, NEW ip \in IPs, NEW r \in Call, Arrives(c, ip, r),
         r.who = None, r.late = FALSE, r.at \notin {"insert", "write"},
         r.cred \in Tokens => r.at \in {"auth", "delete"},
         r.job \in {"password", "create", "reset", "createCli"} => r.fresh \in Passwords,
         r.job \in {"create", "createCli"} => r.name \in Users
  PROVE  AccessInv'
  <1> DEFINE late == r.cred \in Tokens /\ Ended(r.cred)
             k == [r EXCEPT !.late = late]
  <1>1. Step(c, k) /\ UNCHANGED <<setting, users, sessions, owner, blocked>>
    BY DEF Arrives
  <1>2. /\ Rows' /\ Grows /\ Over' = Over /\ blocked \subseteq IPs
        /\ \A t \in DOMAIN sessions' : sessions'[t].user = owner'[t]
    <2>1. blocked \subseteq IPs
      BY DEF AccessInv, Rows
    <2>2. QED BY <1>1, <2>1, QuietGrows
  <1>3. late => r.cred \in Over /\ r.at \in {"auth", "delete"}
    BY DEF Over, Ended
  <1>4. late \in BOOLEAN
    OBVIOUS
  <1> HIDE DEF late
  <1>5. k \in Call
    BY <1>4 DEF Call
  <1>6. /\ k.who = None /\ k.late = late /\ k.at = r.at /\ k.cred = r.cred /\ k.job = r.job
        /\ k.fresh = r.fresh /\ k.name = r.name
    BY DEF Call
  <1>7. Good(k, DOMAIN users', owner', Over')
    BY <1>2, <1>3, <1>6 DEF Good
  <1> HIDE DEF k
  <1>8. QED BY <1>1, <1>2, <1>5, <1>7, GoesOnGood

LEMMA RequestsGood ==
  ASSUME AccessInv, NEW c \in Calls, NEW ip \in IPs,
         \/ \E u \in Users, p \in Passwords : RequestLogin(c, ip, u, p)
         \/ \E t \in DOMAIN owner : RequestLogout(c, ip, t)
         \/ \E k \in DOMAIN owner \union {ApiKey} :
              \/ \E p, q \in Passwords : RequestPassword(c, ip, k, p, q)
              \/ \E j \in {"block", "unblock"} : RequestBlock(c, ip, k, j)
              \/ \E u \in Users, p \in Passwords : RequestCreateUser(c, ip, k, u, p)
  PROVE  AccessInv'
  <1>0. DOMAIN owner \union {ApiKey} \subseteq Credentials /\ DOMAIN owner \subseteq Tokens
        /\ Tokens \subseteq Credentials
    BY DEF AccessInv, Rows, Credentials
  <1> USE DEF Idle, Call, Jobs, AdminJobs
  <1>1. ASSUME NEW u \in Users, NEW p \in Passwords, RequestLogin(c, ip, u, p) PROVE AccessInv'
    <2> DEFINE r == [Idle EXCEPT !.at = "verify", !.job = "login", !.name = u, !.given = p]
    <2>1. /\ r \in Call /\ r.who = None /\ r.late = FALSE /\ r.at = "verify" /\ r.cred = None
          /\ r.job = "login"
      OBVIOUS
    <2>2. Arrives(c, ip, r)
      BY <1>1 DEF RequestLogin
    <2>3. r.cred \notin Tokens
      BY <2>1, AccessAssumption
    <2> HIDE DEF r
    <2>4. QED BY <2>1, <2>2, <2>3, ArrivesGood
  <1>2. ASSUME NEW t \in DOMAIN owner, RequestLogout(c, ip, t) PROVE AccessInv'
    <2> DEFINE r == [Idle EXCEPT !.at = "delete", !.job = "logout", !.cred = t]
    <2>1. /\ r \in Call /\ r.who = None /\ r.late = FALSE /\ r.at = "delete" /\ r.job = "logout"
      BY <1>0
    <2>2. Arrives(c, ip, r)
      BY <1>2 DEF RequestLogout
    <2> HIDE DEF r
    <2>3. QED BY <2>1, <2>2, ArrivesGood
  <1>3. ASSUME NEW k \in DOMAIN owner \union {ApiKey}, NEW p \in Passwords, NEW q \in Passwords,
               RequestPassword(c, ip, k, p, q)
        PROVE  AccessInv'
    <2> DEFINE r == [Idle EXCEPT !.at = "auth", !.job = "password", !.cred = k, !.given = p,
                                 !.fresh = q]
    <2>1. /\ r \in Call /\ r.who = None /\ r.late = FALSE /\ r.at = "auth" /\ r.job = "password"
          /\ r.fresh \in Passwords
      BY <1>0
    <2>2. Arrives(c, ip, r)
      BY <1>3 DEF RequestPassword
    <2> HIDE DEF r
    <2>3. QED BY <2>1, <2>2, ArrivesGood
  <1>4. ASSUME NEW k \in DOMAIN owner \union {ApiKey}, NEW j \in {"block", "unblock"},
               RequestBlock(c, ip, k, j)
        PROVE  AccessInv'
    <2> DEFINE r == [Idle EXCEPT !.at = "auth", !.job = j, !.cred = k]
    <2>1. /\ r \in Call /\ r.who = None /\ r.late = FALSE /\ r.at = "auth"
          /\ r.job \in {"block", "unblock"}
      BY <1>0
    <2>2. Arrives(c, ip, r)
      BY <1>4 DEF RequestBlock
    <2> HIDE DEF r
    <2>3. QED BY <2>1, <2>2, ArrivesGood
  <1>5. ASSUME NEW k \in DOMAIN owner \union {ApiKey}, NEW u \in Users, NEW p \in Passwords,
               RequestCreateUser(c, ip, k, u, p)
        PROVE  AccessInv'
    <2> DEFINE r == [Idle EXCEPT !.at = "auth", !.job = "create", !.cred = k, !.name = u,
                                 !.fresh = p]
    <2>1. /\ r \in Call /\ r.who = None /\ r.late = FALSE /\ r.at = "auth"
          /\ r.job = "create" /\ r.fresh \in Passwords /\ r.name \in Users
      BY <1>0
    <2>2. Arrives(c, ip, r)
      BY <1>5 DEF RequestCreateUser
    <2> HIDE DEF r
    <2>3. QED BY <2>1, <2>2, ArrivesGood
  <1>6. QED BY <1>1, <1>2, <1>3, <1>4, <1>5

LEMMA CommandGood ==
  ASSUME AccessInv, NEW c \in Calls, NEW j \in {"reset", "createCli"}, NEW u \in Users,
         NEW p \in Passwords, RunCommand(c, j, u, p)
  PROVE  AccessInv'
  <1> DEFINE r == [Idle EXCEPT !.at = IF j = "reset" THEN "write" ELSE "act", !.job = j,
                               !.name = u, !.fresh = p]
  <1>1. /\ r \in Call /\ r.who = None /\ r.late = FALSE /\ r.job = j /\ r.fresh = p /\ r.name = u
        /\ r.at = (IF j = "reset" THEN "write" ELSE "act")
    BY DEF Idle, Call, Jobs, AdminJobs
  <1>2. Step(c, r) /\ UNCHANGED <<setting, users, sessions, owner, blocked>>
    BY DEF RunCommand, rest
  <1>3. /\ Rows' /\ Grows /\ \A t \in DOMAIN sessions' : sessions'[t].user = owner'[t]
    <2>1. blocked' \subseteq IPs
      BY <1>2 DEF AccessInv, Rows
    <2>2. QED BY <1>2, <2>1, QuietGrows
  <1> HIDE DEF r
  <1>4. Good(r, DOMAIN users', owner', Over')
    BY <1>1 DEF Good
  <1>5. QED BY <1>1, <1>2, <1>3, <1>4, GoesOnGood

\* A step that changes no row and ends in where c is.
LEMMA HybridAuthGood == ASSUME AccessInv, NEW c \in Calls, HybridAuth(c) PROVE AccessInv'
  <1> DEFINE k     == call[c]
             where == IF k.job = "password" THEN "verify" ELSE "act"
  <1>1. /\ k \in Call /\ Good(k, DOMAIN users, owner, Over) /\ k.at = "auth"
        /\ UNCHANGED <<setting, users, sessions, owner, blocked>>
    BY DEF AccessInv, HybridAuth, rest
  <1>2. /\ Rows' /\ Grows /\ Over' = Over /\ \A t \in DOMAIN sessions' : sessions'[t].user = owner'[t]
    <2>1. blocked' \subseteq IPs
      BY <1>1 DEF AccessInv, Rows
    <2>2. QED BY <1>1, <2>1, QuietGrows
  <1>3. CASE k.cred \in Tokens /\ Lookup(k.cred)
    <2> DEFINE r == [k EXCEPT !.at = where, !.who = sessions[k.cred].user]
    <2>1. Step(c, r)
      BY <1>3 DEF HybridAuth
    <2>2. /\ k.cred \in DOMAIN owner /\ owner[k.cred] = sessions[k.cred].user
          /\ sessions[k.cred].user \in Users /\ k.cred \notin Over
      BY <1>3 DEF Lookup, AccessInv, Rows, Over, Ended
    <2>3. /\ r \in Call /\ r.who = owner[k.cred] /\ r.at = where /\ r.late = k.late
          /\ r.cred = k.cred /\ r.job = k.job /\ r.fresh = k.fresh /\ r.name = k.name
      BY <1>1, <2>2 DEF Call
    <2>4. Good(r, DOMAIN users', owner', Over')
      BY <1>1, <1>2, <2>2, <2>3 DEF Good
    <2> HIDE DEF r
    <2>5. QED BY <1>2, <2>1, <2>3, <2>4, GoesOnGood
  <1>4. CASE ~(k.cred \in Tokens /\ Lookup(k.cred)) /\ k.cred = ApiKey
    <2> DEFINE r == [k EXCEPT !.at = where]
    <2>1. Step(c, r)
      BY <1>4 DEF HybridAuth, Go
    <2>2. k.cred \notin Over
      BY <1>4, AccessAssumption DEF AccessInv, Rows, Over
    <2>3. /\ r \in Call /\ r.who = k.who /\ r.at = where /\ r.late = k.late
          /\ r.cred = k.cred /\ r.job = k.job /\ r.fresh = k.fresh /\ r.name = k.name
      BY <1>1 DEF Call
    <2>4. Good(r, DOMAIN users', owner', Over')
      BY <1>1, <1>2, <2>2, <2>3 DEF Good
    <2> HIDE DEF r
    <2>5. QED BY <1>2, <2>1, <2>3, <2>4, GoesOnGood
  <1>5. CASE ~(k.cred \in Tokens /\ Lookup(k.cred)) /\ k.cred # ApiKey
    <2>1. End(c)
      BY <1>5 DEF HybridAuth
    <2>2. QED BY <1>2, <2>1, EndsGood
  <1>6. QED BY <1>3, <1>4, <1>5

\* The password that was compared is one of those that are noted by the same step.
LEMMA CheckedGood ==
  ASSUME AccessInv, NEW c \in Calls, NEW r \in Call, Step(c, r),
         UNCHANGED <<setting, users, sessions, owner, blocked>>,
         r.job \in {"login", "password"}, r.at \in {"insert", "write"}, r.late = FALSE,
         r.job = "login" <=> r.at = "insert", r.at = "write" => r.who = r.name /\ r.who # None,
         VerifyPassword(r.name, r.given), r.who # None => r.cred \in DOMAIN owner /\ owner[r.cred] = r.who,
         r.job = "password" => r.fresh \in Passwords
  PROVE  AccessInv'
  <1>1. /\ Rows' /\ Grows /\ Over' = Over /\ \A t \in DOMAIN sessions' : sessions'[t].user = owner'[t]
    <2>1. blocked' \subseteq IPs
      BY DEF AccessInv, Rows
    <2>2. QED BY <2>1, QuietGrows
  <1> DEFINE known == r.known \union Current(users')
             k     == [r EXCEPT !.known = known]
  <1>2. Noted(r, Current(users')) = k
    BY DEF Noted
  <1>3. <<r.name, r.given>> \in known /\ r.name \in DOMAIN users
    BY DEF VerifyPassword, Current
  <1>4. known \subseteq Users \X Passwords
    BY <1>1, CurrentTypeNext DEF Call
  <1> HIDE DEF known
  <1>5. /\ k \in Call /\ k.known = known /\ k.at = r.at /\ k.job = r.job /\ k.name = r.name /\ k.given = r.given
        /\ k.who = r.who /\ k.late = FALSE /\ k.cred = r.cred /\ k.fresh = r.fresh
    BY <1>4 DEF Call
  <1>6. Good(k, DOMAIN users', owner', Over')
    BY <1>1, <1>3, <1>5 DEF Good
  <1> HIDE DEF k
  <1>7. call' \in [Calls -> Call] /\ \A d \in Calls : Good(call'[d], DOMAIN users', owner', Over')
    BY <1>1, <1>2, <1>5, <1>6, StepGood
  <1>8. QED BY <1>1, <1>7 DEF AccessInv

LEMMA CheckLoginGood == ASSUME AccessInv, NEW c \in Calls, CheckLogin(c) PROVE AccessInv'
  <1> DEFINE k == call[c]
             r == [k EXCEPT !.at = "insert"]
  <1>1. /\ k \in Call /\ Good(k, DOMAIN users, owner, Over) /\ k.at = "verify" /\ k.job = "login"
        /\ UNCHANGED <<setting, users, sessions, owner, blocked>>
    BY DEF AccessInv, CheckLogin, rest
  <1>2. CASE VerifyPassword(k.name, k.given)
    <2>1. Step(c, r)
      BY <1>2 DEF CheckLogin, Go
    <2>2. /\ r \in Call /\ r.who = k.who /\ r.at = "insert" /\ r.late = k.late /\ r.given = k.given
          /\ r.cred = k.cred /\ r.job = "login" /\ r.fresh = k.fresh /\ r.name = k.name
      BY <1>1 DEF Call
    <2>3. k.late = FALSE
      BY <1>1 DEF Good, Call
    <2>4. r.who # None => r.cred \in DOMAIN owner /\ owner[r.cred] = r.who
      BY <1>1, <2>2 DEF Good
    <2> HIDE DEF r
    <2>5. QED BY <1>1, <1>2, <2>1, <2>2, <2>3, <2>4, CheckedGood
  <1>3. CASE ~VerifyPassword(k.name, k.given)
    <2>1. End(c)
      BY <1>3 DEF CheckLogin
    <2>2. /\ Rows' /\ Grows /\ \A t \in DOMAIN sessions' : sessions'[t].user = owner'[t]
      <3>1. blocked' \subseteq IPs
        BY <1>1 DEF AccessInv, Rows
      <3>2. QED BY <1>1, <3>1, QuietGrows
    <2>3. QED BY <2>1, <2>2, EndsGood
  <1>4. QED BY <1>2, <1>3

LEMMA CheckPasswordGood == ASSUME AccessInv, NEW c \in Calls, CheckPassword(c) PROVE AccessInv'
  <1> DEFINE k  == call[c]
             ok == k.who # None /\ VerifyPassword(k.who, k.given)
             r  == [k EXCEPT !.at = "write", !.name = k.who]
  <1>1. /\ k \in Call /\ Good(k, DOMAIN users, owner, Over) /\ k.at = "verify" /\ k.job = "password"
        /\ UNCHANGED <<setting, users, sessions, owner, blocked>>
    BY DEF AccessInv, CheckPassword, rest
  <1>2. CASE ok
    <2>1. Step(c, r)
      BY <1>2 DEF CheckPassword
    <2>2. /\ r \in Call /\ r.who = k.who /\ r.at = "write" /\ r.late = k.late /\ r.given = k.given
          /\ r.cred = k.cred /\ r.job = "password" /\ r.fresh = k.fresh /\ r.name = k.who
      BY <1>1 DEF Call
    <2>3. k.late = FALSE
      BY <1>1 DEF Good, Call
    <2>4. /\ r.who # None => r.cred \in DOMAIN owner /\ owner[r.cred] = r.who
          /\ r.fresh \in Passwords
      BY <1>1, <2>2 DEF Good
    <2> HIDE DEF r
    <2>5. QED BY <1>1, <1>2, <2>1, <2>2, <2>3, <2>4, CheckedGood
  <1>3. CASE ~ok
    <2>1. End(c)
      BY <1>3 DEF CheckPassword
    <2>2. /\ Rows' /\ Grows /\ \A t \in DOMAIN sessions' : sessions'[t].user = owner'[t]
      <3>1. blocked' \subseteq IPs
        BY <1>1 DEF AccessInv, Rows
      <3>2. QED BY <1>1, <3>1, QuietGrows
    <2>3. QED BY <2>1, <2>2, EndsGood
  <1>4. QED BY <1>2, <1>3

LEMMA WritePasswordGood == ASSUME AccessInv, NEW c \in Calls, WritePassword(c) PROVE AccessInv'
  <1>1. /\ call[c] \in Call /\ Good(call[c], DOMAIN users, owner, Over) /\ call[c].at = "write"
        /\ UNCHANGED <<setting, sessions, owner, blocked>> /\ End(c)
        /\ users' = IF call[c].name \in DOMAIN users
                    THEN [users EXCEPT ![call[c].name].password = call[c].fresh] ELSE users
    BY DEF AccessInv, WritePassword, rest
  <1>2. call[c].fresh \in Passwords
    BY <1>1 DEF Good
  <1>3. DOMAIN users' = DOMAIN users /\ \A u \in DOMAIN users : users'[u] \in User
    BY <1>1, <1>2 DEF AccessInv, Rows, User
  <1>4. Rows' /\ Over' = Over
    BY <1>1, <1>3 DEF AccessInv, Rows, Over, Ended
  <1>5. Grows
    BY <1>1, <1>3, <1>4 DEF Grows
  <1>6. QED BY <1>1, <1>4, <1>5, EndsGood DEF AccessInv

LEMMA LogoutGood == ASSUME AccessInv, NEW c \in Calls, Logout(c) PROVE AccessInv'
  <1>1. /\ UNCHANGED <<setting, users, owner, blocked>> /\ End(c)
        /\ sessions' = [x \in DOMAIN sessions \ {call[c].cred} |-> sessions[x]]
    BY DEF Logout, rest, DeleteUserSession
  <1>2. DOMAIN sessions' \subseteq DOMAIN sessions /\ \A t \in DOMAIN sessions' : sessions'[t] = sessions[t]
    BY <1>1
  <1>3. Rows' /\ Over \subseteq Over'
    BY <1>1, <1>2 DEF AccessInv, Rows, Over, Ended
  <1>4. Grows
    BY <1>1, <1>3 DEF Grows
  <1>5. QED BY <1>1, <1>2, <1>3, <1>4, EndsGood DEF AccessInv

LEMMA CreateUserSessionGood ==
  ASSUME AccessInv, NEW c \in Calls, NEW t \in Tokens, CreateUserSession(c, t) PROVE AccessInv'
  <1> DEFINE u == call[c].name
  <1>1. /\ Good(call[c], DOMAIN users, owner, Over) /\ call[c].at = "insert" /\ t \notin DOMAIN owner
        /\ UNCHANGED <<setting, users, blocked>> /\ End(c)
        /\ sessions' = [x \in DOMAIN sessions \union {t} |->
                           IF x = t THEN [user |-> u, valid |-> TRUE] ELSE sessions[x]]
        /\ owner' = [x \in DOMAIN owner \union {t} |-> IF x = t THEN u ELSE owner[x]]
    BY DEF AccessInv, CreateUserSession, rest, With
  <1>2. u \in DOMAIN users
    BY <1>1 DEF Good
  <1>3. t \notin DOMAIN sessions
    BY <1>1 DEF AccessInv, Rows
  <1>4. /\ DOMAIN owner' = DOMAIN owner \union {t} /\ DOMAIN sessions' = DOMAIN sessions \union {t}
        /\ owner'[t] = u /\ \A x \in DOMAIN owner : owner'[x] = owner[x]
        /\ sessions'[t] = [user |-> u, valid |-> TRUE]
        /\ \A x \in DOMAIN sessions : sessions'[x] = sessions[x]
    BY <1>1, <1>3
  <1>5. Rows'
    <2>1. ASSUME NEW x \in DOMAIN sessions'
          PROVE  sessions'[x] \in [user: DOMAIN users, valid: BOOLEAN]
      <3>1. CASE x = t
        <4>1. [user |-> u, valid |-> TRUE] \in [user: DOMAIN users, valid: BOOLEAN]
          BY <1>2
        <4>2. QED BY <1>4, <3>1, <4>1
      <3>2. CASE x # t
        BY <1>4, <3>2 DEF AccessInv, Rows
      <3>3. QED BY <3>1, <3>2
    <2>2. \A x \in DOMAIN owner' : owner'[x] \in DOMAIN users
      BY <1>2, <1>4 DEF AccessInv, Rows
    <2>3. DOMAIN sessions' \subseteq DOMAIN owner' /\ DOMAIN owner' \subseteq Tokens
      BY <1>4 DEF AccessInv, Rows
    <2>4. QED BY <1>1, <2>1, <2>2, <2>3 DEF AccessInv, Rows
  <1>6. Grows
    BY <1>1, <1>3, <1>4 DEF Grows, Over, Ended
  <1>7. \A x \in DOMAIN sessions' : sessions'[x].user = owner'[x]
    BY <1>4 DEF AccessInv, Rows
  <1>8. QED BY <1>1, <1>5, <1>6, <1>7, EndsGood

LEMMA BlockIPGood ==
  ASSUME AccessInv, NEW c \in Calls, NEW ip \in IPs, BlockIP(c, ip) PROVE AccessInv'
  <1>1. UNCHANGED <<setting, users, sessions, owner>> /\ End(c) /\ blocked' \subseteq IPs
    BY DEF BlockIP, rest, AccessInv, Rows
  <1>2. QED BY <1>1, QuietGrows, EndsGood

LEMMA FailGood == ASSUME AccessInv, NEW c \in Calls, Fail(c) PROVE AccessInv'
  <1>1. UNCHANGED <<setting, users, sessions, owner>> /\ End(c) /\ blocked' \subseteq IPs
    BY DEF Fail, rest, AccessInv, Rows
  <1>2. QED BY <1>1, QuietGrows, EndsGood

LEMMA AddUserGood ==
  ASSUME AccessInv, NEW c \in Calls, NEW admin \in BOOLEAN, AddUser(c, admin) PROVE AccessInv'
  <1> DEFINE u   == call[c].name
             row == [password |-> call[c].fresh, admin |-> admin]
  <1>1. /\ Good(call[c], DOMAIN users, owner, Over) /\ call[c].job \in {"create", "createCli"}
        /\ UNCHANGED <<setting, sessions, owner, blocked>> /\ End(c)
        /\ users' = CreateUser(u, row)
    BY DEF AccessInv, AddUser, rest
  <1>2. u \in Users /\ row \in User
    BY <1>1 DEF Good, User
  <1>3. /\ DOMAIN users \subseteq DOMAIN users' /\ DOMAIN users' \subseteq Users
        /\ \A x \in DOMAIN users' : users'[x] \in User
    BY <1>1, <1>2 DEF AccessInv, Rows, CreateUser, With
  <1>4. Over' = Over
    BY <1>1 DEF Over, Ended
  <1>5. Rows' /\ Grows
    BY <1>1, <1>3, <1>4 DEF AccessInv, Rows, Grows
  <1>6. QED BY <1>1, <1>5, EndsGood DEF AccessInv

LEMMA ExpireGood == ASSUME AccessInv, NEW t \in Tokens, Expire(t) PROVE AccessInv'
  <1>1. /\ UNCHANGED <<setting, users, owner, blocked, call>> /\ t \in DOMAIN sessions
        /\ sessions' = [sessions EXCEPT ![t].valid = FALSE]
    BY DEF Expire, rest
  <1>2. /\ DOMAIN sessions' = DOMAIN sessions
        /\ \A x \in DOMAIN sessions : /\ sessions'[x] \in [user: DOMAIN users, valid: BOOLEAN]
                                      /\ sessions'[x].user = sessions[x].user
                                      /\ sessions'[x].valid => sessions[x].valid
    BY <1>1 DEF AccessInv, Rows
  <1>3. Rows' /\ Over \subseteq Over'
    BY <1>1, <1>2 DEF AccessInv, Rows, Over, Ended
  <1>4. Grows
    BY <1>1, <1>3 DEF Grows
  <1>5. \A c \in Calls : Good(call[c], DOMAIN users', owner', Over')
    BY <1>4, StaysGood DEF AccessInv
  <1>6. QED BY <1>1, <1>2, <1>3, <1>5 DEF AccessInv

LEMMA RestartGood == ASSUME AccessInv, Restart PROVE AccessInv'
  <1>1. /\ UNCHANGED <<setting, users, sessions, owner>> /\ blocked' = setting.blocked
        /\ call' = [c \in Calls |-> IF call[c].job \in {"reset", "createCli"} THEN call[c] ELSE Idle]
    BY DEF Restart
  <1>2. blocked' \subseteq IPs
    BY <1>1, AccessAssumption DEF AccessInv, Rows
  <1>3. /\ Rows' /\ Grows /\ Over' = Over /\ \A t \in DOMAIN sessions' : sessions'[t].user = owner'[t]
    BY <1>1, <1>2, QuietGrows
  <1>4. ASSUME NEW c \in Calls PROVE call'[c] \in Call /\ Good(call'[c], DOMAIN users', owner', Over')
    <2>1. call[c] \in Call /\ Good(call[c], DOMAIN users, owner, Over)
      BY DEF AccessInv
    <2>2. CASE call[c].job \in {"reset", "createCli"}
      BY <1>1, <1>3, <2>1, <2>2
    <2>3. CASE call[c].job \notin {"reset", "createCli"}
      BY <1>1, <2>3, IdleGood
    <2>4. QED BY <2>2, <2>3
  <1>5. QED BY <1>1, <1>3, <1>4 DEF AccessInv

LEMMA InitGood == Init => AccessInv
  <1> SUFFICES ASSUME Init PROVE AccessInv
    OBVIOUS
  <1>1. Rows /\ \A t \in DOMAIN sessions : sessions[t].user = owner[t]
    BY AccessAssumption DEF Init, Rows, Empty
  <1>2. Idle \in Call /\ Good(Idle, DOMAIN users, owner, Over)
    BY IdleGood
  <1>3. QED BY <1>1, <1>2 DEF Init, AccessInv

LEMMA QuietGood ==
  ASSUME AccessInv, UNCHANGED <<setting, users, sessions, blocked, call, owner>> PROVE AccessInv'
BY DEF AccessInv, Rows, Over, Ended

LEMMA NextGood == AccessInv /\ [Next]_vars => AccessInv'
  <1> SUFFICES ASSUME AccessInv, [Next]_vars PROVE AccessInv'
    OBVIOUS
  <1>1. CASE UNCHANGED vars
    BY <1>1, QuietGood DEF vars
  <1>2. ASSUME NEW c \in Calls, NEW ip \in IPs,
         \/ \E u \in Users, p \in Passwords : RequestLogin(c, ip, u, p)
         \/ \E t \in DOMAIN owner : RequestLogout(c, ip, t)
         \/ \E k \in DOMAIN owner \union {ApiKey} :
              \/ \E p, q \in Passwords : RequestPassword(c, ip, k, p, q)
              \/ \E j \in {"block", "unblock"} : RequestBlock(c, ip, k, j)
              \/ \E u \in Users, p \in Passwords : RequestCreateUser(c, ip, k, u, p)
        PROVE  AccessInv'
    BY <1>2, RequestsGood
  <1>3. ASSUME NEW c \in Calls, NEW ip \in IPs, BlockIP(c, ip) PROVE AccessInv'
    BY <1>3, BlockIPGood
  <1>4. ASSUME NEW ip \in IPs, RequestOther(ip) PROVE AccessInv'
    BY <1>4, QuietGood DEF RequestOther
  <1>5. ASSUME NEW c \in Calls, NEW j \in {"reset", "createCli"}, NEW u \in Users,
               NEW p \in Passwords, RunCommand(c, j, u, p)
        PROVE  AccessInv'
    BY <1>5, CommandGood
  <1>6. ASSUME NEW c \in Calls,
               \/ HybridAuth(c) \/ CheckLogin(c) \/ CheckPassword(c) \/ WritePassword(c)
               \/ \E t \in Tokens : CreateUserSession(c, t)
               \/ \E admin \in BOOLEAN : AddUser(c, admin)
               \/ Logout(c) \/ Fail(c)
        PROVE  AccessInv'
    BY <1>6, HybridAuthGood, CheckLoginGood, CheckPasswordGood, WritePasswordGood,
       CreateUserSessionGood, AddUserGood, LogoutGood, FailGood
  <1>7. ASSUME NEW t \in Tokens, Expire(t) PROVE AccessInv'
    BY <1>7, ExpireGood
  <1>8. CASE LimiterRuns
    BY <1>8, QuietGood DEF LimiterRuns
  <1>9. CASE Restart
    BY <1>9, RestartGood
  <1>10. QED BY <1>1, <1>2, <1>3, <1>4, <1>5, <1>6, <1>7, <1>8, <1>9 DEF Next

LEMMA AccessInvariant == Spec => []AccessInv
BY InitGood, NextGood, PTL DEF Spec
-----------------------------------------------------------------------------
(* The properties. *)

(* Everything stays in its type: every login session belongs to a user there is, and every
   token to one, whatever fails on the way (CreateUserSession, the foreign key of
   user_sessions). *)
THEOREM AccessTyped == Spec => []TypeOK
  <1>1. AccessInv /\ LimiterInv => TypeOK
    BY DEF AccessInv, Rows, LimiterInv, TypeOK
  <1>2. QED BY <1>1, AccessInvariant, LimiterAmongRequests, PTL

(* No request whose token had ended when it came gets past HybridAuth, for any number of
   tokens and requests: what is over stays over in every step (GetUserSessionByToken,
   handleLogout). *)
THEOREM SessionsEnd == Spec => []EndIsFinal
  <1>1. AccessInv => EndIsFinal
    BY DEF AccessInv, Good, EndIsFinal
  <1>2. QED BY <1>1, AccessInvariant, PTL

\* Steps that change neither users nor the addresses that are blocked.
LEMMA OtherSteps ==
  ASSUME [Next]_vars
  PROVE  \/ UNCHANGED <<users, blocked, owner>>
         \/ UNCHANGED <<users, owner>> /\ blocked' = setting.blocked
         \/ \E c \in Calls : \/ \E ip \in IPs : BlockIP(c, ip)
                             \/ WritePassword(c)
                             \/ \E t \in Tokens : CreateUserSession(c, t)
                             \/ \E admin \in BOOLEAN : AddUser(c, admin)
  <1>1. CASE UNCHANGED vars
    BY <1>1 DEF vars
  <1>2. ASSUME NEW c \in Calls, NEW ip \in IPs,
         \/ \E u \in Users, p \in Passwords : RequestLogin(c, ip, u, p)
         \/ \E t \in DOMAIN owner : RequestLogout(c, ip, t)
         \/ \E k \in DOMAIN owner \union {ApiKey} :
              \/ \E p, q \in Passwords : RequestPassword(c, ip, k, p, q)
              \/ \E j \in {"block", "unblock"} : RequestBlock(c, ip, k, j)
              \/ \E u \in Users, p \in Passwords : RequestCreateUser(c, ip, k, u, p)
        PROVE  UNCHANGED <<users, blocked, owner>>
    BY <1>2 DEF RequestLogin, RequestLogout, RequestPassword, RequestBlock, RequestCreateUser, Arrives
  <1>3. ASSUME NEW ip \in IPs, RequestOther(ip) PROVE UNCHANGED <<users, blocked, owner>>
    BY <1>3 DEF RequestOther
  <1>4. ASSUME NEW c \in Calls, NEW j, NEW u, NEW p, RunCommand(c, j, u, p)
        PROVE  UNCHANGED <<users, blocked, owner>>
    BY <1>4 DEF RunCommand
  <1>5. ASSUME NEW c \in Calls, HybridAuth(c) \/ CheckLogin(c) \/ CheckPassword(c) \/ Logout(c) \/ Fail(c)
        PROVE  UNCHANGED <<users, blocked, owner>>
    BY <1>5 DEF HybridAuth, CheckLogin, CheckPassword, Logout, Fail
  <1>6. ASSUME NEW t \in Tokens, Expire(t) PROVE UNCHANGED <<users, blocked, owner>>
    BY <1>6 DEF Expire
  <1>7. CASE LimiterRuns
    BY <1>7 DEF LimiterRuns
  <1>8. CASE Restart
    BY <1>8 DEF Restart
  <1>9. QED BY <1>1, <1>2, <1>3, <1>4, <1>5, <1>6, <1>7, <1>8 DEF Next

LEMMA EndEnds ==
  ASSUME NEW c \in Calls, End(c), call[c].at # "idle" PROVE Ends(c)
BY DEF End, Step, Ends, Idle

(* For any number of users and requests, of which any may fail anywhere: a login session and
   a new password take the password of the user, as it was when the request read it or
   later, or the command on the server (handleLogin, UpdateUserPassword,
   runResetPassword). *)
THEOREM AccessProven == Spec => Proven
  <1> DEFINE Session == \A t \in DOMAIN owner' \ DOMAIN owner :
                          \E c \in Calls : Ends(c) /\ call[c].job = "login" /\ Knew(c, owner'[t])
             Changed == \A u \in DOMAIN users : users'[u] # users[u] =>
                          \E c \in Calls : /\ Ends(c) /\ call[c].job \in {"password", "reset"}
                                           /\ call[c].job = "password" =>
                                                Knew(c, u) /\ call[c].cred \in DOMAIN owner
                                                           /\ owner[call[c].cred] = u
  <1>1. AccessInv /\ [Next]_vars => Session /\ Changed
    <2> SUFFICES ASSUME AccessInv, [Next]_vars PROVE Session /\ Changed
      OBVIOUS
    <2>1. ASSUME NEW c \in Calls, NEW t \in Tokens, CreateUserSession(c, t) PROVE Session /\ Changed
      <3>1. /\ call[c].at = "insert" /\ End(c) /\ users' = users /\ owner' = With(owner, t, call[c].name)
            /\ t \notin DOMAIN owner
        BY <2>1 DEF CreateUserSession
      <3>2. call[c].job = "login" /\ Knew(c, call[c].name)
        BY <3>1 DEF AccessInv, Good, Knew
      <3>3. Ends(c)
        BY <3>1, EndEnds
      <3>4. \A x \in DOMAIN owner' \ DOMAIN owner : owner'[x] = call[c].name
        BY <3>1 DEF With
      <3>5. QED BY <3>1, <3>2, <3>3, <3>4
    <2>2. ASSUME NEW c \in Calls, WritePassword(c) PROVE Session /\ Changed
      <3>1. /\ call[c].at = "write" /\ End(c) /\ owner' = owner
            /\ \A u \in DOMAIN users : users'[u] # users[u] => u = call[c].name
        BY <2>2 DEF WritePassword
      <3>2. \/ call[c].job = "reset"
            \/ /\ call[c].job = "password" /\ Knew(c, call[c].name)
               /\ call[c].cred \in DOMAIN owner /\ owner[call[c].cred] = call[c].name
        BY <3>1 DEF AccessInv, Good, Knew
      <3>3. Ends(c)
        BY <3>1, EndEnds
      <3>4. QED BY <3>1, <3>2, <3>3
    <2>3. ASSUME NEW c \in Calls, NEW admin \in BOOLEAN, AddUser(c, admin) PROVE Session /\ Changed
      <3>1. owner' = owner /\ \A u \in DOMAIN users : users'[u] = users[u]
        BY <2>3 DEF AddUser, CreateUser, With
      <3>2. QED BY <3>1
    <2>4. CASE UNCHANGED <<users, owner>>
      BY <2>4
    <2>5. ASSUME NEW c \in Calls, NEW ip \in IPs, BlockIP(c, ip) PROVE UNCHANGED <<users, owner>>
      BY <2>5 DEF BlockIP
    <2>6. QED BY <2>1, <2>2, <2>3, <2>4, <2>5, OtherSteps
  <1>2. QED BY <1>1, AccessInvariant, PTL DEF Spec, Proven

(* For any number of users, requests and addresses: only the token of an admin blocks an
   address the settings do not block, or makes a user who is no admin (RequireAdmin,
   handleBlockIP, handleCreateUser). *)
THEOREM AdminsOnly == Spec => AdminOnly
  <1> DEFINE Asks     == \/ ~(blocked' \subseteq blocked \union setting.blocked)
                         \/ \E u \in DOMAIN users' \ DOMAIN users : ~users'[u].admin
             Admitted == \E c \in Calls : /\ Ends(c) /\ call[c].cred \in DOMAIN owner
                                          /\ users[owner[call[c].cred]].admin
  <1>1. AccessInv /\ [Next]_vars => (Asks => Admitted)
    <2> SUFFICES ASSUME AccessInv, [Next]_vars, Asks PROVE Admitted
      OBVIOUS
    <2>1. ASSUME NEW c \in Calls, RequireAdmin(c), End(c), call[c].at = "act" PROVE Admitted
      <3>1. call[c].who # None /\ users[call[c].who].admin
        BY <2>1 DEF RequireAdmin
      <3>2. call[c].cred \in DOMAIN owner /\ owner[call[c].cred] = call[c].who
        BY <3>1 DEF AccessInv, Good
      <3>3. Ends(c)
        BY <2>1, EndEnds
      <3>4. QED BY <3>1, <3>2, <3>3
    <2>2. ASSUME NEW c \in Calls, NEW ip \in IPs, BlockIP(c, ip) PROVE Admitted
      BY <2>1, <2>2 DEF BlockIP
    <2>3. ASSUME NEW c \in Calls, NEW admin \in BOOLEAN, AddUser(c, admin) PROVE Admitted
      <3>1. /\ blocked' = blocked /\ End(c) /\ call[c].at = "act"
            /\ (call[c].job = "create" /\ RequireAdmin(c)) \/ admin = TRUE
            /\ users' = CreateUser(call[c].name, [password |-> call[c].fresh, admin |-> admin])
        BY <2>3 DEF AddUser
      <3>2. CASE admin = TRUE
        <4>1. \A u \in DOMAIN users' \ DOMAIN users : users'[u].admin = TRUE
          BY <3>1, <3>2 DEF CreateUser, With
        <4>2. QED BY <3>1, <4>1
      <3>3. QED BY <2>1, <3>1, <3>2
    <2>4. ~(blocked' \in {blocked, setting.blocked} /\ DOMAIN users' = DOMAIN users)
      OBVIOUS
    <2>5. ASSUME NEW c \in Calls, WritePassword(c) \/ \E t \in Tokens : CreateUserSession(c, t)
          PROVE  blocked' = blocked /\ DOMAIN users' = DOMAIN users
      BY <2>5 DEF WritePassword, CreateUserSession
    <2>6. QED BY <2>2, <2>3, <2>4, <2>5, OtherSteps
  <1>2. QED BY <1>1, AccessInvariant, PTL DEF Spec, AdminOnly
=============================================================================

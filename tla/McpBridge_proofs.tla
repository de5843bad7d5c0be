---------------------------- MODULE McpBridge_proofs ----------------------------
(***************************************************************************)
(* Proofs about McpBridge, for any sessions, requests, priorities and      *)
(* number of items.  The argument is that an item's number is used once:   *)
(* until its row is inserted nothing but the request that inserts it       *)
(* speaks of it, and what is told of an item stays true of its row until   *)
(* the row goes with a session.                                            *)
(***************************************************************************)
EXTENDS McpBridge, TLAPS

WellFormed(k) ==
  /\ k.at # "idle" => k.from \in Sessions /\ k.to \in Sessions
  /\ k.at = "checkTo" => k.job = "message"
  /\ k.at = "insert" => k.job \in Kinds /\ k.item \in Items
  /\ k.at \in {"select", "mark"} => k.job = "next"
  /\ k.at = "mark" => k.item \in Items
  /\ k.at = "read" => k.job = "read"
  /\ k.at # "idle" /\ k.job = "read" => k.item \in Items
  /\ k.at = "answer" /\ k.ok /\ k.job \in Kinds => k.item \in Items

Typed == TypeOK /\ \A c \in Calls : WellFormed(call[c])

\* Nothing speaks of an item whose number has not been given out,
Numbered ==
  /\ \A i \in Items : i > clock => rows[i] = None /\ i \notin told /\ reads[i] = 0
  /\ \A a \in acked : a[1] =< clock
  /\ \A c \in Calls : call[c].item =< clock /\ \A i \in call[c].open : i =< clock

\* nor, but for the request that inserts it, of one whose row is still to come.
Fresh ==
  \A c \in Calls : call[c].at = "insert" =>
    /\ rows[call[c].item] = None /\ call[c].item \notin told /\ reads[call[c].item] = 0
    /\ \A a \in acked : a[1] # call[c].item
    /\ \A d \in Calls : /\ d # c => call[d].item # call[c].item
                        /\ call[c].item \notin call[d].open

Kept(i, s, t) == s \in sessions /\ t \in sessions => Stored(i) /\ rows[i].from = s /\ rows[i].to = t

Succeeds(c, job) == call[c].at = "answer" /\ call[c].ok /\ call[c].job = job

Owners ==
  /\ \A i \in Items : Stored(i) => rows[i].from \in sessions /\ rows[i].to \in sessions
  /\ \A a \in acked : Kept(a[1], a[2], a[3])
  /\ \A c \in Calls : call[c].at = "answer" /\ call[c].ok /\ call[c].job \in Kinds
                        => Kept(call[c].item, call[c].from, call[c].to)

\* What a request that looks for a task has seen pending is pending, and what has been
\* handed out is not.
Tasks ==
  /\ \A c \in Calls : call[c].at \in {"check", "select", "mark"} =>
                      \A i \in call[c].open : Pending(i) /\ rows[i].to = call[c].from
  /\ \A c \in Calls : call[c].at = "mark" => ~Stored(call[c].item) \/ IsA(call[c].item, "task")
  /\ \A i \in told : ~Pending(i)
  /\ \A c \in Calls : Succeeds(c, "next") => \A i \in call[c].open : ~Pending(i)

Read(m) == Stored(m) => rows[m].kind = "message" /\ rows[m].status = "read"

\* A message that a client has been told it has read, or is about to be told, is read.
Reads ==
  /\ \A m \in Items : reads[m] \in {0, 1} /\ (reads[m] = 1 => Read(m))
  /\ \A c \in Calls : Succeeds(c, "read") =>
       /\ Read(call[c].item) /\ reads[call[c].item] = 0
       /\ \A d \in Calls : Succeeds(d, "read") /\ call[d].item = call[c].item => d = c

\* What a change of the status of i leaves alone, of the rows,
RowsKept(i) ==
  /\ rows' \in [Items -> Row \union {None}]
  /\ \A j \in Items :
       /\ rows'[j] = None <=> rows[j] = None
       /\ j # i => rows'[j] = rows[j]
       /\ Stored(j) => /\ rows'[j].kind = rows[j].kind /\ rows'[j].from = rows[j].from
                       /\ rows'[j].to = rows[j].to /\ rows'[j].rank = rows[j].rank
                       /\ rows'[j].status \in Statuses[rows'[j].kind]

\* and of the requests, of which one may be answered by it.
CallsKept(i) ==
  \A d \in Calls :
    /\ call'[d].job = call[d].job /\ call'[d].from = call[d].from /\ call'[d].to = call[d].to
    /\ call'[d].item = call[d].item
    /\ \/ call'[d].at = call[d].at /\ call'[d].ok = call[d].ok /\ call'[d].open \subseteq call[d].open
       \/ call'[d].at = "answer" /\ call[d].job \notin Kinds /\ call'[d].open \subseteq call[d].open \union {i}

BridgeInv == Typed /\ Numbered /\ Fresh /\ Owners /\ Tasks /\ BestFirst /\ Reads
-----------------------------------------------------------------------------
\* Items are positive numbers.
LEMMA SomeItems == /\ MaxItems \in Nat /\ Items \subseteq Nat /\ 0 \notin Items
                   /\ \A n \in Nat : n > 0 /\ n =< MaxItems => n \in Items
BY BridgeAssumption DEF Items

\* The statuses of each kind.
LEMMA StatusesType ==
  /\ Statuses["task"] = TaskStatuses /\ Statuses["review"] = ReviewStatuses
  /\ Statuses["message"] = {"sent", "read"} /\ Statuses["status"] = {"reported"}
  /\ \A k \in Kinds : First[k] \in Statuses[k] /\ Statuses[k] \subseteq UNION {Statuses[j] : j \in Kinds}
BY DEF Statuses, First, Kinds, TaskStatuses, ReviewStatuses

\* The invariant holds at first.
LEMMA InitBridge == Init => BridgeInv
  <1> SUFFICES ASSUME Init PROVE BridgeInv
    OBVIOUS
  <1>1. Idle \in Call /\ WellFormed(Idle)
    BY BridgeAssumption DEF Idle, Call, Jobs, Kinds, WellFormed
  <1>2. Typed
    BY <1>1, BridgeAssumption DEF Init, Typed, TypeOK, Stored
  <1>3. Numbered /\ Fresh
    BY BridgeAssumption DEF Init, Numbered, Fresh, Idle
  <1>4. Owners
    BY DEF Init, Owners, Stored, Idle
  <1>5. Tasks
    BY DEF Init, Tasks, Idle, Succeeds
  <1>6. BestFirst
    BY DEF Init, BestFirst, Idle
  <1>7. Reads
    BY DEF Init, Reads, Idle, Succeeds
  <1>8. QED BY <1>2, <1>3, <1>4, <1>5, <1>6, <1>7 DEF BridgeInv

\* What the invariant says of the fields.
LEMMA Fields ==
  ASSUME BridgeInv
  PROVE  /\ call \in [Calls -> Call] /\ clock \in Nat /\ clock =< MaxItems
         /\ \A c \in Calls : /\ call[c] \in Call /\ WellFormed(call[c])
                            /\ call[c].item \in Nat /\ call[c].open \subseteq Items
BY BridgeAssumption DEF BridgeInv, Typed, TypeOK, Call

\* A stored item has been numbered.
LEMMA StoredNumbered ==
  ASSUME BridgeInv, NEW i \in Items, Stored(i) PROVE i \in Nat /\ i =< clock
BY Fields, SomeItems DEF BridgeInv, Numbered, Stored

\* A step of one request leaves the others alone.
LEMMA OneCall ==
  ASSUME BridgeInv, NEW c \in Calls, NEW k \in Call, WellFormed(k), call' = [call EXCEPT ![c] = k]
  PROVE  /\ call' \in [Calls -> Call] /\ \A d \in Calls : WellFormed(call'[d])
         /\ \A d \in Calls : d # c => call'[d] = call[d]
         /\ call'[c] = k
BY Fields
-----------------------------------------------------------------------------
(* Each step preserves the invariant. *)

\* A new request names nothing that is still to be inserted.
LEMMA AskBridge ==
  ASSUME BridgeInv, NEW c \in Calls, NEW job \in Jobs, NEW s \in Sessions, NEW t \in Sessions,
         NEW rank \in Ranks \union {0}, NEW i \in Items \union {0}, Ask(c, job, s, t, rank, i),
         i # 0 => Stored(i), job = "read" => i \in Items
  PROVE  BridgeInv'
  <1> DEFINE k == [at |-> "check", job |-> job, from |-> s, to |-> t, rank |-> rank, item |-> i, ok |-> FALSE,
                    open |-> {j \in Items : Pending(j) /\ rows[j].to = s}]
  <1>1. i \in 0 .. MaxItems
    BY SomeItems DEF Items
  <1>2. k \in Call
        /\ k.at = "check" /\ k.job = job /\ k.from = s /\ k.to = t
        /\ k.rank = rank /\ k.item = i /\ k.ok = FALSE /\ k.open = {j \in Items : Pending(j) /\ rows[j].to = s}
    BY <1>1, Fields, SomeItems DEF Call, Jobs, Kinds
  <1>3. call' = [call EXCEPT ![c] = k]
    BY DEF Ask
  <1> HIDE DEF k
  <1>4. WellFormed(k)
    BY <1>1, <1>2, <1>3, Fields, SomeItems DEF WellFormed
  <1>5. /\ call' \in [Calls -> Call] /\ \A d \in Calls : WellFormed(call'[d])
        /\ \A d \in Calls : d # c => call'[d] = call[d]
        /\ call'[c] = k
    BY <1>2, <1>3, <1>4, OneCall
  <1>6. UNCHANGED <<sessions, rows, clock, acked, told, reads>>
    BY DEF Ask
  <1>7. /\ k.item =< clock /\ \A j \in k.open : j =< clock /\ Stored(j)
        /\ k.item # 0 => Stored(k.item)
    BY <1>2, Fields, StoredNumbered DEF Pending, IsA
  <1>8. Typed'
    BY <1>1, <1>2, <1>3, <1>4, <1>5, <1>6, <1>7, Fields, SomeItems DEF BridgeInv, Typed, TypeOK, Stored
  <1>9. Numbered'
    BY <1>1, <1>2, <1>3, <1>4, <1>5, <1>6, <1>7, Fields, SomeItems DEF BridgeInv, Numbered, Pending, IsA, Stored
  <1>10. Fresh'
    <2>1. ASSUME NEW d \in Calls, call'[d].at = "insert"
          PROVE  /\ d # c /\ call'[d] = call[d] /\ call[d].item \in Items /\ rows[call[d].item] = None
                 /\ call[d].item # k.item /\ call[d].item \notin k.open
      <3>1. d # c /\ call'[d] = call[d] /\ call[d].item \in Items
        BY <1>1, <1>2, <1>3, <1>4, <1>5, <1>6, <1>7, <2>1, Fields DEF WellFormed
      <3>2. rows[call[d].item] = None
        BY <2>1, <3>1 DEF BridgeInv, Fresh
      <3>3. QED BY <1>1, <1>2, <1>3, <1>4, <1>5, <1>6, <1>7, <3>1, <3>2, SomeItems DEF Stored
    <2>2. ASSUME NEW d \in Calls, call'[d].at = "insert"
          PROVE  /\ rows'[call'[d].item] = None /\ call'[d].item \notin told' /\ reads'[call'[d].item] = 0
                 /\ \A a \in acked' : a[1] # call'[d].item
                 /\ \A e \in Calls : /\ e # d => call'[e].item # call'[d].item
                                     /\ call'[d].item \notin call'[e].open
      BY <1>1, <1>2, <1>3, <1>4, <1>5, <1>6, <1>7, <2>1, <2>2 DEF BridgeInv, Fresh
    <2>3. QED BY <2>1, <2>2 DEF Fresh
  <1>11. Owners'
    BY <1>1, <1>2, <1>3, <1>4, <1>5, <1>6, <1>7, Fields, SomeItems DEF BridgeInv, Owners, Kept, Stored
  <1>12. Tasks'
    BY <1>1, <1>2, <1>3, <1>4, <1>5, <1>6, <1>7, Fields, SomeItems DEF BridgeInv, Tasks, Succeeds, Pending, IsA, Stored
  <1>13. BestFirst'
    BY <1>1, <1>2, <1>3, <1>4, <1>5, <1>6, <1>7, Fields, SomeItems DEF BridgeInv, BestFirst, Tasks, Pending, IsA, Stored
  <1>14. Reads'
    BY <1>1, <1>2, <1>3, <1>4, <1>5, <1>6, <1>7, Fields, SomeItems DEF BridgeInv, Reads, Read, Succeeds, Stored
  <1>15. QED BY <1>8, <1>9, <1>10, <1>11, <1>12, <1>13, <1>14 DEF BridgeInv

\* A request that ends with an error changes nothing else.
LEMMA ReplyBridge ==
  ASSUME BridgeInv, NEW c \in Calls, Reply(c, FALSE),
         UNCHANGED <<sessions, rows, clock, acked, told, reads>>, call[c].at \notin {"idle", "answer"}
  PROVE  BridgeInv'
  <1> DEFINE k == [call[c] EXCEPT !.at = "answer", !.ok = FALSE]
  <1>1. k \in Call
        /\ k.at = "answer" /\ k.job = call[c].job /\ k.from = call[c].from /\ k.to = call[c].to
        /\ k.rank = call[c].rank /\ k.item = call[c].item /\ k.ok = FALSE /\ k.open = call[c].open
    BY Fields, SomeItems DEF Call, Jobs, Kinds
  <1>2. call' = [call EXCEPT ![c] = k]
    BY Fields DEF Reply, Call
  <1> HIDE DEF k
  <1>3. WellFormed(k)
    BY <1>1, <1>2, Fields, SomeItems DEF WellFormed
  <1>4. /\ call' \in [Calls -> Call] /\ \A d \in Calls : WellFormed(call'[d])
        /\ \A d \in Calls : d # c => call'[d] = call[d]
        /\ call'[c] = k
    BY <1>1, <1>2, <1>3, OneCall
  <1>5. Typed'
    BY <1>1, <1>2, <1>3, <1>4, Fields, SomeItems DEF BridgeInv, Typed, TypeOK, Stored
  <1>6. Numbered'
    BY <1>1, <1>2, <1>3, <1>4, Fields, SomeItems DEF BridgeInv, Numbered, Pending, IsA, Stored
  <1>7. Fresh'
    BY <1>1, <1>2, <1>3, <1>4, Fields, SomeItems DEF BridgeInv, Fresh, Numbered, Pending, IsA, Stored
  <1>8. Owners'
    BY <1>1, <1>2, <1>3, <1>4, Fields, SomeItems DEF BridgeInv, Owners, Kept, Stored
  <1>9. Tasks'
    BY <1>1, <1>2, <1>3, <1>4, Fields, SomeItems DEF BridgeInv, Tasks, Succeeds, Pending, IsA, Stored
  <1>10. BestFirst'
    BY <1>1, <1>2, <1>3, <1>4, Fields, SomeItems DEF BridgeInv, BestFirst, Tasks, Pending, IsA, Stored
  <1>11. Reads'
    BY <1>1, <1>2, <1>3, <1>4, Fields, SomeItems DEF BridgeInv, Reads, Read, Succeeds, Stored
  <1>12. QED BY <1>5, <1>6, <1>7, <1>8, <1>9, <1>10, <1>11 DEF BridgeInv

\* What a request will insert gets a number that nothing speaks of.
LEMMA NumberBridge ==
  ASSUME BridgeInv, NEW c \in Calls, call[c].at \in {"check", "checkTo"}, call[c].job \in Kinds, clock < MaxItems,
         clock' = clock + 1, call' = [call EXCEPT ![c].at = "insert", ![c].item = clock + 1],
         UNCHANGED <<sessions, rows, acked, told, reads>>
  PROVE  BridgeInv'
  <1> DEFINE k == [call[c] EXCEPT !.at = "insert", !.item = clock + 1]
  <1>1. clock + 1 \in 0 .. MaxItems /\ clock + 1 \in Items
    BY Fields, SomeItems
  <1>2. k \in Call
        /\ k.at = "insert" /\ k.job = call[c].job /\ k.from = call[c].from /\ k.to = call[c].to
        /\ k.rank = call[c].rank /\ k.item = clock + 1 /\ k.ok = call[c].ok /\ k.open = call[c].open
    BY <1>1, Fields, SomeItems DEF Call, Jobs, Kinds
  <1>3. call' = [call EXCEPT ![c] = k]
    BY Fields DEF Call
  <1> HIDE DEF k
  <1>4. WellFormed(k)
    BY <1>1, <1>2, <1>3, Fields, SomeItems DEF WellFormed
  <1>5. /\ call' \in [Calls -> Call] /\ \A d \in Calls : WellFormed(call'[d])
        /\ \A d \in Calls : d # c => call'[d] = call[d]
        /\ call'[c] = k
    BY <1>2, <1>3, <1>4, OneCall
  <1>6. \A n \in Nat : n =< clock => n =< clock + 1 /\ n # clock + 1
    BY Fields
  <1>7. Typed'
    BY <1>1, <1>2, <1>3, <1>4, <1>5, <1>6, Fields, SomeItems DEF BridgeInv, Typed, TypeOK, Stored
  <1>8. Numbered'
    <2>1. \A i \in Items : i > clock' => rows'[i] = None /\ i \notin told' /\ reads'[i] = 0
      BY Fields, SomeItems DEF BridgeInv, Numbered
    <2>2. \A a \in acked' : a[1] =< clock'
      BY <1>1, <1>2, <1>3, <1>4, <1>5, <1>6, Fields, SomeItems DEF BridgeInv, Numbered, Typed, TypeOK
    <2>3. \A d \in Calls : call'[d].item =< clock' /\ \A i \in call'[d].open : i =< clock'
      BY <1>1, <1>2, <1>3, <1>4, <1>5, <1>6, Fields, SomeItems DEF BridgeInv, Numbered
    <2>4. QED BY <2>1, <2>2, <2>3 DEF Numbered
  <1>9. Fresh'
    BY <1>1, <1>2, <1>3, <1>4, <1>5, <1>6, Fields, SomeItems DEF BridgeInv, Fresh, Numbered, Pending, IsA, Stored
  <1>10. Owners'
    BY <1>1, <1>2, <1>3, <1>4, <1>5, <1>6, Fields, SomeItems DEF BridgeInv, Owners, Kept, Stored
  <1>11. Tasks'
    BY <1>1, <1>2, <1>3, <1>4, <1>5, <1>6, Fields, SomeItems DEF BridgeInv, Tasks, Succeeds, Pending, IsA, Stored
  <1>12. BestFirst'
    BY <1>1, <1>2, <1>3, <1>4, <1>5, <1>6, Fields, SomeItems DEF BridgeInv, BestFirst, Tasks, Pending, IsA, Stored
  <1>13. Reads'
    BY <1>1, <1>2, <1>3, <1>4, <1>5, <1>6, Fields, SomeItems DEF BridgeInv, Reads, Read, Succeeds, Stored
  <1>14. QED BY <1>7, <1>8, <1>9, <1>10, <1>11, <1>12, <1>13 DEF BridgeInv

\* Going on to the next statement changes nothing else.
LEMMA GoBridge ==
  ASSUME BridgeInv, NEW c \in Calls, NEW where \in {"checkTo", "select", "read"}, Go(c, where), call[c].at = "check",
         where = "checkTo" => call[c].job = "message", where = "select" => call[c].job = "next",
         where = "read" => call[c].job = "read",
         UNCHANGED <<sessions, rows, clock, acked, told, reads>>
  PROVE  BridgeInv'
  <1> DEFINE k == [call[c] EXCEPT !.at = where]
  <1>1. k \in Call
        /\ k.at = where /\ k.job = call[c].job /\ k.from = call[c].from /\ k.to = call[c].to
        /\ k.rank = call[c].rank /\ k.item = call[c].item /\ k.ok = call[c].ok /\ k.open = call[c].open
    BY Fields, SomeItems DEF Call, Jobs, Kinds
  <1>2. call' = [call EXCEPT ![c] = k]
    BY Fields DEF Go, Call
  <1> HIDE DEF k
  <1>3. WellFormed(k)
    BY <1>1, <1>2, Fields, SomeItems DEF WellFormed
  <1>4. /\ call' \in [Calls -> Call] /\ \A d \in Calls : WellFormed(call'[d])
        /\ \A d \in Calls : d # c => call'[d] = call[d]
        /\ call'[c] = k
    BY <1>1, <1>2, <1>3, OneCall
  <1>5. Typed'
    BY <1>1, <1>2, <1>3, <1>4, Fields, SomeItems DEF BridgeInv, Typed, TypeOK, Stored
  <1>6. Numbered'
    BY <1>1, <1>2, <1>3, <1>4, Fields, SomeItems DEF BridgeInv, Numbered, Pending, IsA, Stored
  <1>7. Fresh'
    BY <1>1, <1>2, <1>3, <1>4, Fields, SomeItems DEF BridgeInv, Fresh, Numbered, Pending, IsA, Stored
  <1>8. Owners'
    BY <1>1, <1>2, <1>3, <1>4, Fields, SomeItems DEF BridgeInv, Owners, Kept, Stored
  <1>9. Tasks'
    BY <1>1, <1>2, <1>3, <1>4, Fields, SomeItems DEF BridgeInv, Tasks, Succeeds, Pending, IsA, Stored
  <1>10. BestFirst'
    BY <1>1, <1>2, <1>3, <1>4, Fields, SomeItems DEF BridgeInv, BestFirst, Tasks, Pending, IsA, Stored
  <1>11. Reads'
    BY <1>1, <1>2, <1>3, <1>4, Fields, SomeItems DEF BridgeInv, Reads, Read, Succeeds, Stored
  <1>12. QED BY <1>5, <1>6, <1>7, <1>8, <1>9, <1>10, <1>11 DEF BridgeInv

\* The row is inserted under its fresh number, for sessions that exist.
LEMMA InsertBridge ==
  ASSUME BridgeInv, NEW c \in Calls, call[c].at = "insert", Owned(c), Reply(c, TRUE),
         rows' = [rows EXCEPT ![call[c].item] = NewRow(c)], UNCHANGED <<sessions, clock, acked, told, reads>>
  PROVE  BridgeInv'
  <1> DEFINE k == [call[c] EXCEPT !.at = "answer", !.ok = TRUE]
  <1>1. k \in Call
        /\ k.at = "answer" /\ k.job = call[c].job /\ k.from = call[c].from /\ k.to = call[c].to
        /\ k.rank = call[c].rank /\ k.item = call[c].item /\ k.ok = TRUE /\ k.open = call[c].open
    BY Fields, SomeItems DEF Call, Jobs, Kinds
  <1>2. call' = [call EXCEPT ![c] = k]
    BY Fields DEF Reply, Call
  <1> HIDE DEF k
  <1>3. WellFormed(k)
    BY <1>1, <1>2, Fields, SomeItems DEF WellFormed
  <1>4. /\ call' \in [Calls -> Call] /\ \A d \in Calls : WellFormed(call'[d])
        /\ \A d \in Calls : d # c => call'[d] = call[d]
        /\ call'[c] = k
    BY <1>1, <1>2, <1>3, OneCall
  <1>5. call[c].job \in Kinds /\ call[c].item \in Items
    BY Fields DEF WellFormed
  <1>6. /\ NewRow(c) \in Row /\ NewRow(c).from = call[c].from /\ NewRow(c).to = call[c].to
        /\ NewRow(c).status \in Statuses[NewRow(c).kind] /\ NewRow(c).kind = call[c].job
    BY <1>5, Fields, StatusesType DEF NewRow, Row, Call, WellFormed
  <1>7. /\ \A i \in Items : i # call[c].item => rows'[i] = rows[i]
        /\ rows'[call[c].item] = NewRow(c) /\ rows[call[c].item] = None /\ rows' \in [Items -> Row \union {None}]
    BY <1>5, <1>6 DEF BridgeInv, Typed, TypeOK, Fresh
  <1>8. /\ call[c].item \notin told /\ reads[call[c].item] = 0 /\ \A a \in acked : a[1] # call[c].item
        /\ \A d \in Calls : d # c => call[d].item # call[c].item /\ call[c].item \notin call[d].open
        /\ call[c].item \notin k.open
    BY <1>1 DEF BridgeInv, Fresh
  <1>9. Typed'
    BY <1>1, <1>2, <1>3, <1>4, <1>5, <1>6, <1>7, <1>8, Fields, SomeItems DEF BridgeInv, Typed, TypeOK, Stored
  <1>10. Numbered'
    BY <1>1, <1>2, <1>3, <1>4, <1>5, <1>6, <1>7, <1>8, Fields, SomeItems DEF BridgeInv, Numbered, Pending, IsA, Stored
  <1>11. Fresh'
    BY <1>1, <1>2, <1>3, <1>4, <1>5, <1>6, <1>7, <1>8, Fields, SomeItems DEF BridgeInv, Fresh, Numbered, Pending, IsA, Stored
  <1>12. Owners'
    <2>1. \A i \in Items : Stored(i)' => rows'[i].from \in sessions' /\ rows'[i].to \in sessions'
      BY <1>1, <1>2, <1>3, <1>4, <1>5, <1>6, <1>7, <1>8 DEF BridgeInv, Owners, Owned, Stored
    <2>2. \A a \in acked' : Kept(a[1], a[2], a[3])'
      BY <1>1, <1>2, <1>3, <1>4, <1>5, <1>6, <1>7, <1>8 DEF BridgeInv, Owners, Kept, Stored, Typed, TypeOK
    <2>3. /\ rows'[call'[c].item] # None /\ call'[c].item = call[c].item
          /\ rows'[call'[c].item].from = call'[c].from /\ rows'[call'[c].item].to = call'[c].to
      <3>1. NewRow(c) # None
        BY <1>1, <1>2, <1>3, <1>4, <1>5, <1>6, <1>7, <1>8, BridgeAssumption
      <3>2. QED BY <1>1, <1>2, <1>3, <1>4, <1>5, <1>6, <1>7, <1>8, <3>1
    <2>4. ASSUME NEW d \in Calls, call'[d].at = "answer" /\ call'[d].ok /\ call'[d].job \in Kinds
          PROVE  Kept(call[d].item, call[d].from, call[d].to)'
      <3>1. CASE d = c
        BY <1>1, <1>2, <1>3, <1>4, <1>5, <1>6, <1>7, <1>8, <2>3, <3>1 DEF Kept, Stored
      <3>2. CASE d # c
        <4>1. Kept(call[d].item, call[d].from, call[d].to) /\ call[d].item \in Items
          BY <1>1, <1>2, <1>3, <1>4, <1>5, <1>6, <1>7, <1>8, <2>4, <3>2, Fields DEF BridgeInv, Owners, WellFormed
        <4>2. call'[d].item # call[c].item /\ call'[d] = call[d]
          BY <1>1, <1>2, <1>3, <1>4, <1>5, <1>6, <1>7, <1>8, <3>2
        <4>3. QED BY <1>1, <1>2, <1>3, <1>4, <1>5, <1>6, <1>7, <1>8, <4>1, <4>2 DEF Kept, Stored
      <3>3. QED BY <3>1, <3>2
    <2>5. QED BY <2>1, <2>2, <2>3, <2>4 DEF Owners
  <1>13. Tasks'
    <2>1. ASSUME NEW d \in Calls, call'[d].at \in {"check", "select", "mark"}, NEW i \in call'[d].open
          PROVE  Pending(i)' /\ rows'[i].to = call'[d].from
      <3>1. d # c
        BY <1>1, <1>2, <1>3, <1>4, <1>5, <1>6, <1>7, <1>8, <2>1
      <3>2. i \in call[d].open /\ i \in Items /\ i # call[c].item /\ Pending(i) /\ rows[i].to = call[d].from
        BY <1>1, <1>2, <1>3, <1>4, <1>5, <1>6, <1>7, <1>8, <2>1, <3>1, Fields DEF BridgeInv, Tasks
      <3>3. QED BY <1>1, <1>2, <1>3, <1>4, <1>5, <1>6, <1>7, <1>8, <3>1, <3>2 DEF Pending, IsA, Stored
    <2>2. ASSUME NEW d \in Calls, call'[d].at = "mark" PROVE (~Stored(call[d].item) \/ IsA(call[d].item, "task"))'
      <3>1. d # c /\ call'[d] = call[d] /\ call[d].item \in Items /\ call[d].item # call[c].item
        BY <1>1, <1>2, <1>3, <1>4, <1>5, <1>6, <1>7, <1>8, <2>2, Fields DEF WellFormed
      <3>2. rows'[call'[d].item] = rows[call[d].item]
        BY <1>1, <1>2, <1>3, <1>4, <1>5, <1>6, <1>7, <1>8, <3>1
      <3>3. QED BY <2>2, <3>1, <3>2 DEF BridgeInv, Tasks, Stored, IsA
    <2>3. \A i \in told' : ~Pending(i)'
      BY <1>1, <1>2, <1>3, <1>4, <1>5, <1>6, <1>7, <1>8 DEF BridgeInv, Tasks, Typed, TypeOK, Pending, IsA, Stored
    <2>4. ASSUME NEW d \in Calls, Succeeds(d, "next")', NEW i \in call'[d].open PROVE ~Pending(i)'
      <3>1. d # c /\ call'[d] = call[d]
        BY <1>1, <1>2, <1>3, <1>4, <1>5, <1>6, <1>7, <1>8, <2>4 DEF Succeeds, Kinds
      <3>2. i \in Items /\ i # call[c].item /\ ~Pending(i)
        BY <1>1, <1>2, <1>3, <1>4, <1>5, <1>6, <1>7, <1>8, <2>4, <3>1, Fields DEF BridgeInv, Tasks, Succeeds
      <3>3. QED BY <1>1, <1>2, <1>3, <1>4, <1>5, <1>6, <1>7, <1>8, <3>2 DEF Pending, IsA, Stored
    <2>5. QED BY <2>1, <2>2, <2>3, <2>4 DEF Tasks
  <1>14. BestFirst'
    <2>1. ASSUME NEW d \in Calls, call'[d].at = "mark", Stored(call[d].item)', NEW i \in call'[d].open
          PROVE  \/ rows'[i].rank < rows'[call'[d].item].rank
                 \/ rows'[i].rank = rows'[call'[d].item].rank /\ i >= call'[d].item
      <3>1. d # c /\ call'[d] = call[d] /\ call[d].item \in Items /\ call[d].item # call[c].item
        BY <1>1, <1>2, <1>3, <1>4, <1>5, <1>6, <1>7, <1>8, <2>1, Fields DEF WellFormed
      <3>2. i \in Items /\ i # call[c].item
        BY <1>1, <1>2, <1>3, <1>4, <1>5, <1>6, <1>7, <1>8, <2>1, <3>1, Fields
      <3>3. rows'[i] = rows[i] /\ rows'[call'[d].item] = rows[call[d].item]
        BY <1>1, <1>2, <1>3, <1>4, <1>5, <1>6, <1>7, <1>8, <3>1, <3>2
      <3>4. QED BY <2>1, <3>1, <3>3 DEF BridgeInv, BestFirst, Stored
    <2>2. QED BY <2>1 DEF BestFirst
  <1>15. Reads'
    <2>1. \A m \in Items : reads'[m] \in {0, 1} /\ (reads'[m] = 1 => Read(m)')
      BY <1>1, <1>2, <1>3, <1>4, <1>5, <1>6, <1>7, <1>8 DEF BridgeInv, Reads, Read, Stored
    <2>2. ASSUME NEW d \in Calls, Succeeds(d, "read")'
          PROVE  d # c /\ call'[d] = call[d] /\ call[d].item \in Items /\ Succeeds(d, "read")
                 /\ call[d].item # call[c].item
      <3>1. d # c /\ call'[d] = call[d]
        BY <1>1, <1>2, <1>3, <1>4, <1>5, <1>6, <1>7, <1>8, <2>2 DEF Succeeds, Kinds
      <3>2. QED BY <1>1, <1>2, <1>3, <1>4, <1>5, <1>6, <1>7, <1>8, <2>2, <3>1, Fields DEF Succeeds, WellFormed
    <2>3. QED BY <1>1, <1>2, <1>3, <1>4, <1>5, <1>6, <1>7, <1>8, <2>1, <2>2 DEF BridgeInv, Reads, Read, Stored, Succeeds
  <1>16. QED BY <1>9, <1>10, <1>11, <1>12, <1>13, <1>14, <1>15 DEF BridgeInv

\* The task that is picked is the best of those that stayed pending.
LEMMA SelectBridge ==
  ASSUME BridgeInv, NEW c \in Calls, call[c].at = "select", NEW i \in Items,
         Pending(i), rows[i].to = call[c].from,
         \A j \in Items : Pending(j) /\ rows[j].to = call[c].from /\ j # i => Precedes(i, j),
         call' = [call EXCEPT ![c].at = "mark", ![c].item = i],
         UNCHANGED <<sessions, rows, clock, acked, told, reads>>
  PROVE  BridgeInv'
  <1> DEFINE k == [call[c] EXCEPT !.at = "mark", !.item = i]
  <1>1. i \in 0 .. MaxItems /\ i \in Nat /\ i =< clock /\ Stored(i)
    BY SomeItems, StoredNumbered DEF Items, Pending, IsA
  <1>2. k \in Call
        /\ k.at = "mark" /\ k.job = call[c].job /\ k.from = call[c].from /\ k.to = call[c].to
        /\ k.rank = call[c].rank /\ k.item = i /\ k.ok = call[c].ok /\ k.open = call[c].open
    BY <1>1, Fields, SomeItems DEF Call, Jobs, Kinds
  <1>3. call' = [call EXCEPT ![c] = k]
    BY Fields DEF Call
  <1> HIDE DEF k
  <1>4. WellFormed(k)
    BY <1>1, <1>2, <1>3, Fields, SomeItems DEF WellFormed
  <1>5. /\ call' \in [Calls -> Call] /\ \A d \in Calls : WellFormed(call'[d])
        /\ \A d \in Calls : d # c => call'[d] = call[d]
        /\ call'[c] = k
    BY <1>2, <1>3, <1>4, OneCall
  <1>6. Typed'
    BY <1>1, <1>2, <1>3, <1>4, <1>5, Fields, SomeItems DEF BridgeInv, Typed, TypeOK, Stored
  <1>7. Numbered'
    BY <1>1, <1>2, <1>3, <1>4, <1>5, Fields, SomeItems DEF BridgeInv, Numbered, Pending, IsA, Stored
  <1>8. Fresh'
    BY <1>1, <1>2, <1>3, <1>4, <1>5, Fields, SomeItems DEF BridgeInv, Fresh, Numbered, Pending, IsA, Stored
  <1>9. Owners'
    BY <1>1, <1>2, <1>3, <1>4, <1>5, Fields, SomeItems DEF BridgeInv, Owners, Kept, Stored
  <1>10. Tasks'
    BY <1>1, <1>2, <1>3, <1>4, <1>5, Fields, SomeItems DEF BridgeInv, Tasks, Succeeds, Pending, IsA, Stored
  <1>11. BestFirst'
    <2>1. ASSUME NEW d \in Calls, call'[d].at = "mark", Stored(call[d].item)', NEW j \in call'[d].open
          PROVE  \/ rows'[j].rank < rows'[call'[d].item].rank
                 \/ rows'[j].rank = rows'[call'[d].item].rank /\ j >= call'[d].item
      <3>1. CASE d = c
        <4>1. j \in Items /\ Pending(j) /\ rows[j].to = call[c].from /\ call'[d].item = i
          BY <1>1, <1>2, <1>3, <1>4, <1>5, <2>1, <3>1, Fields DEF BridgeInv, Tasks
        <4>2. j = i \/ Precedes(i, j)
          BY <4>1
        <4>3. rows[j].rank \in Nat /\ rows[i].rank \in Nat /\ j \in Nat
          BY <1>1, <1>2, <1>3, <1>4, <1>5, <4>1, SomeItems, BridgeAssumption DEF BridgeInv, Typed, TypeOK, Row, Stored, Pending, IsA
        <4>4. QED BY <1>1, <1>2, <1>3, <1>4, <1>5, <4>1, <4>2, <4>3 DEF Precedes
      <3>2. CASE d # c
        BY <1>1, <1>2, <1>3, <1>4, <1>5, <2>1, <3>2 DEF BridgeInv, BestFirst, Stored
      <3>3. QED BY <3>1, <3>2
    <2>2. QED BY <2>1 DEF BestFirst
  <1>12. Reads'
    BY <1>1, <1>2, <1>3, <1>4, <1>5, Fields, SomeItems DEF BridgeInv, Reads, Read, Succeeds, Stored
  <1>13. QED BY <1>6, <1>7, <1>8, <1>9, <1>10, <1>11, <1>12 DEF BridgeInv

\* What a change of status leaves alone.
LEMMA SetStatusRows ==
  ASSUME BridgeInv, NEW i \in Items, Stored(i), NEW status \in Statuses[rows[i].kind], SetStatus(i, status)
  PROVE  RowsKept(i) /\ rows'[i].status = status
  <1>1. rows \in [Items -> Row \union {None}] /\ rows[i] \in Row
    BY DEF BridgeInv, Typed, TypeOK, Stored
  <1>2. rows[i].kind \in Kinds /\ status \in UNION {Statuses[k] : k \in Kinds}
    BY <1>1, StatusesType DEF Row
  <1> DEFINE r == [rows[i] EXCEPT !.status = status]
  <1>3. /\ r \in Row /\ r.status = status /\ r.kind = rows[i].kind /\ r.from = rows[i].from
        /\ r.to = rows[i].to /\ r.rank = rows[i].rank
    BY <1>1, <1>2 DEF Row
  <1>4. rows' = [rows EXCEPT ![i] = r]
    BY DEF SetStatus
  <1> HIDE DEF r
  <1>5. rows'[i] = r /\ \A j \in Items : j # i => rows'[j] = rows[j]
    BY <1>1, <1>4
  <1>6. r # None
    BY <1>3, BridgeAssumption
  <1>7. \A j \in Items : Stored(j) => rows'[j].status \in Statuses[rows'[j].kind]
    BY <1>3, <1>5 DEF BridgeInv, Typed, TypeOK, Stored
  <1>8. QED BY <1>1, <1>3, <1>4, <1>5, <1>6, <1>7 DEF Stored, RowsKept

\* A request may be answered by the change, and what it has seen pending may shrink.
LEMMA StatusBridge ==
  ASSUME BridgeInv, NEW i \in Items, Stored(i), RowsKept(i), CallsKept(i),
         UNCHANGED <<sessions, clock, acked, reads>>, told' \subseteq told,
         call' \in [Calls -> Call], \A d \in Calls : WellFormed(call'[d]),
         Tasks', Reads'
  PROVE  BridgeInv'
  <1>2. Typed'
    BY DEF BridgeInv, Typed, TypeOK, Stored, RowsKept
  <1>3. i =< clock
    BY StoredNumbered
  <1>4. Numbered'
    <2>1. \A j \in Items : j > clock' => rows'[j] = None /\ j \notin told' /\ reads'[j] = 0
      BY DEF BridgeInv, Numbered, RowsKept
    <2>2. \A d \in Calls : call'[d].item =< clock' /\ \A j \in call'[d].open : j =< clock'
      BY <1>3 DEF BridgeInv, Numbered, CallsKept
    <2>3. QED BY <2>1, <2>2 DEF BridgeInv, Numbered
  <1>5. Fresh'
    <2>1. ASSUME NEW d \in Calls, call'[d].at = "insert"
          PROVE  /\ rows'[call'[d].item] = None /\ call'[d].item \notin told' /\ reads'[call'[d].item] = 0
                 /\ \A a \in acked' : a[1] # call'[d].item
                 /\ \A e \in Calls : /\ e # d => call'[e].item # call'[d].item
                                     /\ call'[d].item \notin call'[e].open
      <3>1. call[d].at = "insert" /\ call'[d].item = call[d].item /\ call[d].item \in Items
        BY <2>1, Fields DEF WellFormed, CallsKept
      <3>2. call[d].item # i /\ rows[call[d].item] = None
        BY <3>1 DEF BridgeInv, Fresh, Stored
      <3>3. QED BY <3>1, <3>2 DEF BridgeInv, Fresh, RowsKept, CallsKept
    <2>2. QED BY <2>1 DEF Fresh
  <1>6. Owners'
    <2>1. \A j \in Items, s \in Sessions, t \in Sessions : Kept(j, s, t) => Kept(j, s, t)'
      BY DEF Kept, Stored, RowsKept
    <2>2. \A a \in acked' : Kept(a[1], a[2], a[3])'
      BY <2>1 DEF BridgeInv, Owners, Typed, TypeOK
    <2>3. ASSUME NEW d \in Calls, call'[d].at = "answer" /\ call'[d].ok /\ call'[d].job \in Kinds
          PROVE  Kept(call[d].item, call[d].from, call[d].to)' /\ call'[d].from = call[d].from
                 /\ call'[d].to = call[d].to /\ call'[d].item = call[d].item
      <3>1. call[d].at = "answer" /\ call[d].ok /\ call[d].job \in Kinds
        BY <2>3 DEF CallsKept
      <3>2. call[d].item \in Items /\ call[d].from \in Sessions /\ call[d].to \in Sessions
        BY <3>1, Fields DEF WellFormed
      <3>3. Kept(call[d].item, call[d].from, call[d].to)
        BY <3>1 DEF BridgeInv, Owners
      <3>4. QED BY <2>1, <3>2, <3>3 DEF CallsKept
    <2>4. \A j \in Items : Stored(j)' => rows'[j].from \in sessions' /\ rows'[j].to \in sessions'
      BY DEF BridgeInv, Owners, Stored, RowsKept
    <2>5. QED BY <2>2, <2>3, <2>4 DEF Owners
  <1>7. BestFirst'
    <2>1. ASSUME NEW d \in Calls, call'[d].at = "mark", Stored(call[d].item)', NEW j \in call'[d].open
          PROVE  \/ rows'[j].rank < rows'[call'[d].item].rank
                 \/ rows'[j].rank = rows'[call'[d].item].rank /\ j >= call'[d].item
      <3>1. call[d].at = "mark" /\ call[d].item \in Items /\ j \in call[d].open /\ j \in Items
            /\ call'[d].item = call[d].item
        BY <2>1, Fields DEF WellFormed, CallsKept
      <3>2. Stored(call[d].item) /\ Stored(j)
        BY <2>1, <3>1 DEF BridgeInv, Tasks, Pending, IsA, Stored, RowsKept
      <3>3. rows'[j].rank = rows[j].rank /\ rows'[call[d].item].rank = rows[call[d].item].rank
        BY <3>1, <3>2 DEF RowsKept
      <3>4. QED BY <3>1, <3>2, <3>3 DEF BridgeInv, BestFirst
    <2>2. QED BY <2>1 DEF BestFirst
  <1>8. QED BY <1>2, <1>4, <1>5, <1>6, <1>7 DEF BridgeInv

\* Marking a task ends it for all the requests that saw it pending.
LEMMA MarkBridge ==
  ASSUME BridgeInv, NEW c \in Calls, NEW i \in Items, i = call[c].item, Stored(i), Mark(c)
  PROVE  BridgeInv'
  <1>1. call[c].at = "mark" /\ i \in Items /\ call[c].job = "next" /\ rows[i].kind = "task"
    BY Fields DEF Mark, WellFormed, BridgeInv, Tasks, IsA
  <1>2. "retrieved" \in Statuses[rows[i].kind] /\ SetStatus(i, "retrieved")
    BY <1>1, StatusesType DEF Mark, TaskStatuses
  <1> DEFINE k == [call[c] EXCEPT !.at = "answer", !.ok = TRUE, !.open = {i}]
  <1>3. /\ k \in Call /\ k.at = "answer" /\ k.job = "next" /\ k.from = call[c].from /\ k.to = call[c].to
        /\ k.item = i /\ k.ok = TRUE /\ k.open = {i}
    BY <1>1, Fields DEF Call
  <1>4. ASSUME NEW d \in Calls, d # c
        PROVE  /\ call'[d] \in Call /\ call'[d].at = call[d].at /\ call'[d].job = call[d].job
               /\ call'[d].from = call[d].from /\ call'[d].to = call[d].to
               /\ call'[d].item = call[d].item /\ call'[d].ok = call[d].ok
               /\ call'[d].open = call[d].open \ {i}
    <2>1. call'[d] = [call[d] EXCEPT !.open = @ \ {i}]
      BY <1>4 DEF Mark
    <2>2. QED BY <2>1, Fields DEF Call
  <1>5. call'[c] = k /\ call' = [d \in Calls |-> call'[d]]
    BY DEF Mark
  <1>6. UNCHANGED <<sessions, clock, acked, told, reads>>
    BY DEF Mark
  <1> HIDE DEF k
  <1>7. call' \in [Calls -> Call] /\ \A d \in Calls : WellFormed(call'[d])
    <2>1. \A d \in Calls : call'[d] \in Call
      BY <1>3, <1>4, <1>5
    <2>2. WellFormed(k)
      BY <1>1, <1>3, Fields DEF WellFormed, Kinds
    <2>3. ASSUME NEW d \in Calls, d # c PROVE WellFormed(call'[d])
      <3>1. WellFormed(call[d])
        BY Fields
      <3>2. QED BY <1>4, <2>3, <3>1 DEF WellFormed
    <2>4. QED BY <1>5, <2>1, <2>2, <2>3
  <1>8. /\ \A j \in Items : j # i => rows'[j] = rows[j]
        /\ rows'[i].status = "retrieved" /\ rows'[i].kind = "task"
    <2>1. RowsKept(i) /\ rows'[i].status = "retrieved"
      BY <1>1, <1>2, SetStatusRows
    <2>2. QED BY <1>1, <2>1 DEF RowsKept
  <1>9. Tasks'
    <2>1. ASSUME NEW d \in Calls, call'[d].at \in {"check", "select", "mark"}, NEW j \in call'[d].open
          PROVE  Pending(j)' /\ rows'[j].to = call'[d].from
      <3>1. d # c /\ j \in call[d].open /\ j # i /\ j \in Items
        BY <1>3, <1>4, <1>5, <2>1, Fields
      <3>2. Pending(j) /\ rows[j].to = call[d].from
        BY <1>4, <2>1, <3>1 DEF BridgeInv, Tasks
      <3>3. QED BY <1>4, <1>8, <3>1, <3>2 DEF Pending, IsA, Stored
    <2>2. ASSUME NEW d \in Calls, call'[d].at = "mark" PROVE (~Stored(call[d].item) \/ IsA(call[d].item, "task"))'
      <3>1. d # c /\ call'[d].item = call[d].item /\ call[d].at = "mark" /\ call[d].item \in Items
        BY <1>3, <1>4, <1>5, <2>2, Fields DEF WellFormed
      <3>2. ~Stored(call[d].item) \/ IsA(call[d].item, "task")
        BY <3>1 DEF BridgeInv, Tasks
      <3>3. CASE call[d].item = i
        BY <1>8, <3>1, <3>3 DEF IsA, Stored
      <3>4. CASE call[d].item # i
        BY <1>8, <3>1, <3>2, <3>4 DEF IsA, Stored
      <3>5. QED BY <3>3, <3>4
    <2>3. ~Pending(i)' /\ \A j \in Items : ~Pending(j) => ~Pending(j)'
      BY <1>8 DEF Pending, IsA, Stored
    <2>4. \A j \in told' : ~Pending(j)'
      BY <1>6, <2>3 DEF BridgeInv, Tasks, Typed, TypeOK
    <2>5. ASSUME NEW d \in Calls, Succeeds(d, "next")', NEW j \in call'[d].open PROVE ~Pending(j)'
      <3>1. CASE d = c
        BY <1>3, <1>5, <2>3, <2>5, <3>1
      <3>2. CASE d # c
        <4>1. j \in call[d].open /\ Succeeds(d, "next") /\ j \in Items
          BY <1>4, <2>5, <3>2, Fields DEF Succeeds
        <4>2. QED BY <2>3, <4>1 DEF BridgeInv, Tasks
      <3>3. QED BY <3>1, <3>2
    <2>6. QED BY <2>1, <2>2, <2>4, <2>5 DEF Tasks
  <1>10. Reads'
    <2>1. \A m \in Items : Read(m) => Read(m)'
      BY <1>1, <1>8 DEF Read, Stored
    <2>2. \A d \in Calls : Succeeds(d, "read")' => Succeeds(d, "read") /\ call'[d].item = call[d].item
                                                  /\ call[d].item \in Items
      BY <1>3, <1>4, <1>5, Fields DEF Succeeds, WellFormed
    <2>3. \A m \in Items : reads'[m] \in {0, 1} /\ (reads'[m] = 1 => Read(m)')
      BY <1>6, <2>1 DEF BridgeInv, Reads
    <2>4. \A d \in Calls : Succeeds(d, "read")' =>
             /\ Read(call[d].item)' /\ reads'[call[d].item] = 0
             /\ \A e \in Calls : Succeeds(e, "read")' /\ call'[e].item = call[d].item => e = d
      BY <1>6, <2>1, <2>2 DEF BridgeInv, Reads
    <2>5. QED BY <2>2, <2>3, <2>4 DEF Reads, Read, Stored
  <1>11. RowsKept(i)
    BY <1>1, <1>2, SetStatusRows
  <1>12. CallsKept(i)
    BY <1>1, <1>3, <1>4, <1>5 DEF CallsKept, Kinds
  <1>13. QED BY <1>1, <1>6, <1>7, <1>9, <1>10, <1>11, <1>12, StatusBridge

\* So does a status a user gives it, which makes it his to hand out again.
LEMMA UpdateTaskStatusBridge ==
  ASSUME BridgeInv, NEW i \in Items, NEW status \in Progress, UpdateTaskStatus(i, status)
  PROVE  BridgeInv'
  <1>1. Stored(i) /\ rows[i].kind = "task" /\ status \in Statuses[rows[i].kind] /\ SetStatus(i, status)
    BY StatusesType, BridgeAssumption DEF UpdateTaskStatus, IsA
  <1>2. RowsKept(i)
    BY <1>1, SetStatusRows
  <1>3. ASSUME NEW d \in Calls
        PROVE  /\ call'[d] \in Call /\ call'[d].at = call[d].at /\ call'[d].job = call[d].job
               /\ call'[d].from = call[d].from /\ call'[d].to = call[d].to
               /\ call'[d].item = call[d].item /\ call'[d].ok = call[d].ok
               /\ call'[d].open = call[d].open \ {i} /\ WellFormed(call'[d])
    <2>1. call'[d] = [call[d] EXCEPT !.open = @ \ {i}]
      BY DEF UpdateTaskStatus
    <2>2. /\ call'[d] \in Call /\ call'[d].at = call[d].at /\ call'[d].job = call[d].job
          /\ call'[d].from = call[d].from /\ call'[d].to = call[d].to
          /\ call'[d].item = call[d].item /\ call'[d].ok = call[d].ok
          /\ call'[d].open = call[d].open \ {i}
      BY <2>1, Fields DEF Call
    <2>3. WellFormed(call[d])
      BY Fields
    <2>4. WellFormed(call'[d])
      BY <2>2, <2>3 DEF WellFormed
    <2>5. QED BY <2>2, <2>4
  <1>4. call' \in [Calls -> Call]
    BY <1>3 DEF UpdateTaskStatus
  <1>5. UNCHANGED <<sessions, clock, acked, reads>> /\ told' = told \ {i}
    BY DEF UpdateTaskStatus
  <1>6. CallsKept(i)
    BY <1>3 DEF CallsKept
  <1>7. \A j \in Items : j # i => (Pending(j)' <=> Pending(j)) /\ rows'[j] = rows[j]
    BY <1>2 DEF RowsKept, Pending, IsA, Stored
  <1>8. Tasks'
    <2>1. \A d \in Calls : call'[d].at \in {"check", "select", "mark"} =>
                           \A j \in call'[d].open : Pending(j)' /\ rows'[j].to = call'[d].from
      BY <1>3, <1>7, Fields DEF BridgeInv, Tasks
    <2>2. ASSUME NEW d \in Calls, call'[d].at = "mark"
          PROVE  (~Stored(call[d].item) \/ IsA(call[d].item, "task"))' /\ call[d].item \in Items
      <3>1. call'[d].item = call[d].item /\ call[d].at = "mark" /\ call[d].item \in Items
        BY <1>3, <2>2, Fields DEF WellFormed
      <3>2. ~Stored(call[d].item) \/ IsA(call[d].item, "task")
        BY <3>1 DEF BridgeInv, Tasks
      <3>3. QED BY <1>2, <3>1, <3>2 DEF RowsKept, Stored, IsA
    <2>3. \A j \in told' : ~Pending(j)'
      BY <1>5, <1>7 DEF BridgeInv, Tasks, Typed, TypeOK
    <2>4. \A d \in Calls : Succeeds(d, "next")' => \A j \in call'[d].open : ~Pending(j)'
      BY <1>3, <1>7, Fields DEF BridgeInv, Tasks, Succeeds
    <2>5. QED BY <2>1, <2>2, <2>3, <2>4 DEF Tasks
  <1>9. Reads'
    <2>1. \A m \in Items : Read(m) => Read(m)'
      BY <1>1, <1>2 DEF RowsKept, Read, Stored
    <2>2. \A d \in Calls : Succeeds(d, "read")' => Succeeds(d, "read") /\ call'[d].item = call[d].item
                                                  /\ call[d].item \in Items
      BY <1>3, Fields DEF Succeeds, WellFormed
    <2>3. \A m \in Items : reads'[m] \in {0, 1} /\ (reads'[m] = 1 => Read(m)')
      BY <1>5, <2>1 DEF BridgeInv, Reads
    <2>4. \A d \in Calls : Succeeds(d, "read")' =>
             /\ Read(call[d].item)' /\ reads'[call[d].item] = 0
             /\ \A e \in Calls : Succeeds(e, "read")' /\ call'[e].item = call[d].item => e = d
      BY <1>5, <2>1, <2>2 DEF BridgeInv, Reads
    <2>5. QED BY <2>2, <2>3, <2>4 DEF Reads, Read, Stored
  <1>10. QED BY <1>1, <1>2, <1>3, <1>4, <1>5, <1>6, <1>8, <1>9, StatusBridge

\* Nothing that is no task is pending, before and after.
LEMMA TasksKept ==
  ASSUME BridgeInv, NEW i \in Items, Stored(i), RowsKept(i), rows[i].kind # "task",
         UNCHANGED told,
         \A d \in Calls : \/ call'[d] = call[d]
                          \/ call'[d].at = "answer" /\ call'[d].job # "next"
  PROVE  Tasks'
  <1>1. \A j \in Items : /\ Pending(j)' <=> Pending(j)
                         /\ ~Stored(j) \/ IsA(j, "task") => (~Stored(j) \/ IsA(j, "task"))'
                         /\ Pending(j) => rows'[j].to = rows[j].to
    BY DEF RowsKept, Pending, IsA, Stored
  <1>2. \A d \in Calls : call'[d].at \in {"check", "select", "mark"} =>
                         \A j \in call'[d].open : Pending(j)' /\ rows'[j].to = call'[d].from
    BY <1>1, Fields DEF BridgeInv, Tasks
  <1>3. ASSUME NEW d \in Calls, call'[d].at = "mark"
        PROVE  (~Stored(call[d].item) \/ IsA(call[d].item, "task"))'
    <2>1. call'[d] = call[d] /\ call[d].item \in Items
      BY <1>3, Fields DEF WellFormed
    <2>2. ~Stored(call[d].item) \/ IsA(call[d].item, "task")
      BY <1>3, <2>1 DEF BridgeInv, Tasks
    <2>3. QED BY <2>1, <2>2 DEF RowsKept, Stored, IsA
  <1>4. \A j \in told' : ~Pending(j)'
    BY <1>1 DEF BridgeInv, Tasks, Typed, TypeOK
  <1>5. \A d \in Calls : Succeeds(d, "next")' => \A j \in call'[d].open : ~Pending(j)'
    BY <1>1, Fields DEF BridgeInv, Tasks, Succeeds
  <1>6. QED BY <1>2, <1>3, <1>4, <1>5 DEF Tasks

\* A verdict disturbs no task and no message.
LEMMA UpdateReviewBridge ==
  ASSUME BridgeInv, NEW i \in Items, NEW status \in Verdicts, UpdateReviewRequest(i, status)
  PROVE  BridgeInv'
  <1>1. Stored(i) /\ rows[i].kind = "review" /\ status \in Statuses[rows[i].kind] /\ SetStatus(i, status)
    BY StatusesType, BridgeAssumption DEF UpdateReviewRequest, IsA
  <1>2. RowsKept(i)
    BY <1>1, SetStatusRows
  <1>3. UNCHANGED <<sessions, clock, call, acked, told, reads>>
    BY DEF UpdateReviewRequest
  <1>4. CallsKept(i)
    BY <1>3 DEF CallsKept
  <1>5. Tasks'
    BY <1>1, <1>2, <1>3, TasksKept
  <1>6. Reads'
    <2>1. \A m \in Items : Read(m) => Read(m)'
      BY <1>1, <1>2 DEF RowsKept, Read, Stored
    <2>2. \A d \in Calls : Succeeds(d, "read") => call[d].item \in Items
      BY Fields DEF Succeeds, WellFormed
    <2>3. QED BY <1>3, <2>1, <2>2 DEF BridgeInv, Reads, Succeeds, Read, Stored
  <1>7. QED BY <1>1, <1>2, <1>3, <1>4, <1>5, <1>6, Fields, StatusBridge

\* A message is marked by the one request that finds it unread.
LEMMA MarkReadBridge ==
  ASSUME BridgeInv, NEW c \in Calls, NEW i \in Items, i = call[c].item, Unread(c), MarkMessageRead(c)
  PROVE  BridgeInv'
  <1>1. /\ Stored(i) /\ rows[i].kind = "message" /\ "read" \in Statuses[rows[i].kind] /\ SetStatus(i, "read")
        /\ rows[i].status = "sent" /\ call[c].at = "read" /\ call[c].job = "read"
    BY StatusesType, Fields DEF MarkMessageRead, Unread, IsA, WellFormed
  <1>2. RowsKept(i) /\ rows'[i].status = "read"
    BY <1>1, SetStatusRows
  <1> DEFINE k == [call[c] EXCEPT !.at = "answer", !.ok = TRUE]
  <1>3. /\ k \in Call /\ k.at = "answer" /\ k.job = "read" /\ k.from = call[c].from /\ k.to = call[c].to
        /\ k.item = i /\ k.ok = TRUE /\ k.open = call[c].open
    BY <1>1, Fields DEF Call
  <1>4. call' = [call EXCEPT ![c] = k]
    BY <1>1, Fields DEF MarkMessageRead, Reply, Call
  <1> HIDE DEF k
  <1>5. WellFormed(k)
    BY <1>1, <1>3, Fields DEF WellFormed, Kinds
  <1>6. /\ call' \in [Calls -> Call] /\ \A d \in Calls : WellFormed(call'[d])
        /\ \A d \in Calls : d # c => call'[d] = call[d]
        /\ call'[c] = k
    BY <1>3, <1>4, <1>5, OneCall
  <1>7. UNCHANGED <<sessions, clock, acked, told, reads>>
    BY DEF MarkMessageRead
  <1>8. CallsKept(i)
    BY <1>1, <1>3, <1>6 DEF CallsKept, Kinds
  <1>9. Tasks'
    BY <1>1, <1>2, <1>3, <1>6, <1>7, TasksKept
  <1>10. Reads'
    <2>1. Read(i)' /\ ~Read(i) /\ \A m \in Items : Read(m) => Read(m)'
      BY <1>1, <1>2 DEF RowsKept, Read, Stored
    <2>2. reads[i] = 0 /\ \A d \in Calls : Succeeds(d, "read") => call[d].item # i
      BY <2>1 DEF BridgeInv, Reads
    <2>3. \A d \in Calls : Succeeds(d, "read")' =>
             \/ d = c /\ call'[d].item = i
             \/ Succeeds(d, "read") /\ call'[d].item = call[d].item /\ call[d].item \in Items
      BY <1>3, <1>6, Fields DEF Succeeds, WellFormed
    <2>4. \A m \in Items : reads'[m] \in {0, 1} /\ (reads'[m] = 1 => Read(m)')
      BY <1>7, <2>1 DEF BridgeInv, Reads
    <2>5. ASSUME NEW d \in Calls, Succeeds(d, "read")', NEW m \in Items, m = call'[d].item
          PROVE  /\ Read(m)' /\ reads'[m] = 0
                 /\ \A e \in Calls : Succeeds(e, "read")' /\ call'[e].item = m => e = d
      BY <1>7, <2>1, <2>2, <2>3, <2>5 DEF BridgeInv, Reads
    <2>6. \A d \in Calls : Succeeds(d, "read")' => call'[d].item \in Items
      BY <2>3
    <2>7. QED BY <2>4, <2>5, <2>6 DEF Reads, Read, Stored
  <1>11. QED BY <1>1, <1>2, <1>6, <1>7, <1>8, <1>9, <1>10, StatusBridge

\* What a client is told holds, and is what nobody has been told before.
LEMMA AnswerBridge == ASSUME BridgeInv, NEW c \in Calls, Answer(c) PROVE BridgeInv'
  <1>1. Idle \in Call /\ WellFormed(Idle)
    BY BridgeAssumption DEF Idle, Call, Jobs, Kinds, WellFormed
  <1>2. /\ call' \in [Calls -> Call] /\ \A d \in Calls : WellFormed(call'[d])
        /\ \A d \in Calls : d # c => call'[d] = call[d]
        /\ call'[c] = Idle
    BY <1>1, OneCall DEF Answer
  <1>3. Idle.at = "idle" /\ Idle.item = 0 /\ Idle.open = {}
    BY DEF Idle
  <1>4. UNCHANGED <<sessions, rows, clock>> /\ call[c].at = "answer"
    BY DEF Answer
  <1>5. \/ acked' = acked
        \/ /\ call[c].ok /\ call[c].job \in Kinds
           /\ acked' = acked \union {<<call[c].item, call[c].from, call[c].to>>}
    BY DEF Answer
  <1>6. \/ told' = told
        \/ told' = told \union call[c].open /\ Succeeds(c, "next")
    <2>1. \/ told' = told
          \/ /\ call[c].ok
             /\ told' = IF call[c].job = "next" THEN told \union call[c].open ELSE told
      BY DEF Answer
    <2>2. QED BY <1>4, <2>1 DEF Succeeds
  <1>7. \/ reads' = reads
        \/ reads' = [reads EXCEPT ![call[c].item] = @ + 1] /\ Succeeds(c, "read")
    <2>1. \/ reads' = reads
          \/ /\ call[c].ok
             /\ reads' = IF call[c].job = "read" THEN [reads EXCEPT ![call[c].item] = @ + 1] ELSE reads
      BY DEF Answer
    <2>2. QED BY <1>4, <2>1 DEF Succeeds
  <1>8. call[c].job \in Kinds /\ call[c].ok => call[c].item \in Items /\ call[c].from \in Sessions
                                             /\ call[c].to \in Sessions
    BY <1>4, Fields DEF WellFormed
  <1>9. /\ Succeeds(c, "read") => call[c].item \in Items /\ reads[call[c].item] = 0 /\ Read(call[c].item)
        /\ Succeeds(c, "next") => \A i \in call[c].open : ~Pending(i)
    BY Fields DEF Succeeds, WellFormed, BridgeInv, Reads, Tasks
  <1>10. \A a \in acked' : /\ a \in Items \X Sessions \X Sessions
                           /\ \/ a \in acked
                              \/ /\ a[1] = call[c].item /\ a[2] = call[c].from /\ a[3] = call[c].to
                                 /\ call[c].ok /\ call[c].job \in Kinds
    <2>1. acked \subseteq Items \X Sessions \X Sessions
      BY DEF BridgeInv, Typed, TypeOK
    <2>2. CASE acked' = acked
      BY <2>1, <2>2
    <2>3. CASE /\ call[c].ok /\ call[c].job \in Kinds
               /\ acked' = acked \union {<<call[c].item, call[c].from, call[c].to>>}
      <3>1. call[c].item \in Items /\ call[c].from \in Sessions /\ call[c].to \in Sessions
        BY <1>8, <2>3
      <3>2. QED BY <2>1, <2>3, <3>1
    <2>4. QED BY <1>5, <2>2, <2>3
  <1>11. \A i \in told' : i \in Items /\ (i \in told \/ (i \in call[c].open /\ ~Pending(i)))
    <2>1. told \subseteq Items /\ call[c].open \subseteq Items
      BY Fields DEF BridgeInv, Typed, TypeOK
    <2>2. CASE told' = told
      BY <2>1, <2>2
    <2>3. CASE told' = told \union call[c].open /\ Succeeds(c, "next")
      BY <1>9, <2>1, <2>3
    <2>4. QED BY <1>6, <2>2, <2>3
  <1>12. /\ reads' \in [Items -> Nat]
         /\ \A i \in Items : \/ reads'[i] = reads[i]
                             \/ reads'[i] = 1 /\ i = call[c].item /\ Read(i) /\ Succeeds(c, "read")
    BY <1>7, <1>9 DEF BridgeInv, Typed, TypeOK
  <1>13. Typed'
    <2>1. acked' \in SUBSET (Items \X Sessions \X Sessions) /\ told' \in SUBSET Items
      BY <1>10, <1>11
    <2>2. QED BY <1>2, <1>4, <1>12, <2>1 DEF BridgeInv, Typed, TypeOK, Stored
  <1>14. Numbered'
    <2>1. call[c].item =< clock /\ (\A i \in call[c].open : i =< clock) /\ 0 =< clock
      BY Fields DEF BridgeInv, Numbered
    <2>2. ASSUME NEW i \in Items, i > clock PROVE rows[i] = None /\ i \notin told' /\ reads'[i] = 0
      <3>1. rows[i] = None /\ i \notin told /\ reads[i] = 0
        BY <2>2 DEF BridgeInv, Numbered
      <3>2. i \in Nat /\ clock \in Nat /\ call[c].item \in Nat /\ i # call[c].item /\ i \notin call[c].open
        BY <2>1, <2>2, Fields, SomeItems
      <3>3. QED BY <1>11, <1>12, <3>1, <3>2
    <2>3. \A a \in acked' : a[1] =< clock
      BY <1>10, <2>1 DEF BridgeInv, Numbered
    <2>4. \A d \in Calls : call'[d].item =< clock /\ \A i \in call'[d].open : i =< clock
      BY <1>2, <1>3, <2>1 DEF BridgeInv, Numbered
    <2>5. QED BY <1>4, <2>2, <2>3, <2>4 DEF Numbered
  <1>15. Fresh'
    <2>1. ASSUME NEW d \in Calls, call'[d].at = "insert"
          PROVE  /\ rows'[call'[d].item] = None /\ call'[d].item \notin told' /\ reads'[call'[d].item] = 0
                 /\ \A a \in acked' : a[1] # call'[d].item
                 /\ \A e \in Calls : /\ e # d => call'[e].item # call'[d].item
                                     /\ call'[d].item \notin call'[e].open
      <3>1. d # c /\ call'[d] = call[d] /\ call[d].item \in Items /\ call[d].item # 0
        BY <1>2, <1>3, <2>1, Fields, SomeItems DEF WellFormed
      <3>2. /\ rows[call[d].item] = None /\ call[d].item \notin told /\ reads[call[d].item] = 0
            /\ \A a \in acked : a[1] # call[d].item
            /\ \A e \in Calls : /\ e # d => call[e].item # call[d].item
                                /\ call[d].item \notin call[e].open
        BY <2>1, <3>1 DEF BridgeInv, Fresh
      <3>3. call[c].item # call[d].item /\ call[d].item \notin call[c].open
        BY <3>1, <3>2
      <3>4. call'[d].item \notin told' /\ reads'[call'[d].item] = 0 /\ \A a \in acked' : a[1] # call'[d].item
        BY <1>10, <1>11, <1>12, <3>1, <3>2, <3>3
      <3>5. QED BY <1>2, <1>3, <1>4, <3>1, <3>2, <3>4
    <2>2. QED BY <2>1 DEF Fresh
  <1>16. Owners'
    <2>1. \A a \in acked' : Kept(a[1], a[2], a[3])
      BY <1>4, <1>10 DEF BridgeInv, Owners
    <2>2. \A d \in Calls : call'[d].at = "answer" => call'[d] = call[d]
      BY <1>2, <1>3
    <2>3. \A i, s, t : Kept(i, s, t)' <=> Kept(i, s, t)
      BY <1>4 DEF Kept, Stored
    <2>4. \A a \in acked' : Kept(a[1], a[2], a[3])'
      BY <1>4, <2>1 DEF Kept, Stored
    <2>5. \A d \in Calls : call'[d].at = "answer" /\ call'[d].ok /\ call'[d].job \in Kinds
                           => Kept(call[d].item, call[d].from, call[d].to)' /\ call'[d] = call[d]
      BY <1>2, <1>4, <2>2 DEF BridgeInv, Owners, Kept, Stored
    <2>6. QED BY <1>4, <2>4, <2>5 DEF BridgeInv, Owners, Kept, Stored
  <1>17. Tasks'
    <2>1. \A i \in Items : Pending(i)' <=> Pending(i)
      BY <1>4 DEF Pending, IsA, Stored
    <2>2. \A i \in told' : ~Pending(i)'
      BY <1>11, <2>1 DEF BridgeInv, Tasks
    <2>3. QED BY <1>2, <1>3, <1>4, <2>2, Fields DEF BridgeInv, Tasks, Succeeds, Pending, IsA, Stored
  <1>18. BestFirst'
    BY <1>2, <1>3, <1>4 DEF BridgeInv, BestFirst, Stored
  <1>19. Reads'
    <2>1. \A m \in Items : Read(m)' <=> Read(m)
      BY <1>4 DEF Read, Stored
    <2>2. \A m \in Items : reads'[m] \in {0, 1} /\ (reads'[m] = 1 => Read(m)')
      BY <1>12, <2>1 DEF BridgeInv, Reads
    <2>3. \A d \in Calls : Succeeds(d, "read")' =>
            /\ Succeeds(d, "read") /\ call'[d] = call[d] /\ d # c /\ call[d].item \in Items
            /\ ~(Succeeds(c, "read") /\ call[c].item = call[d].item)
      BY <1>2, <1>3, Fields DEF Succeeds, WellFormed, BridgeInv, Reads
    <2>4. \A d \in Calls : Succeeds(d, "read")' => reads'[call[d].item] = reads[call[d].item]
      BY <1>12, <2>3
    <2>5. QED BY <2>1, <2>2, <2>3, <2>4 DEF BridgeInv, Reads, Read, Stored
  <1>20. QED BY <1>13, <1>14, <1>15, <1>16, <1>17, <1>18, <1>19 DEF BridgeInv

\* Rows go with their sessions, and what is left is as it was.
LEMMA DeleteSessionBridge == ASSUME BridgeInv, NEW s \in Sessions, DeleteSession(s) PROVE BridgeInv'
  <1>1. /\ sessions' = sessions \ {s} /\ UNCHANGED <<clock, acked, told, reads>>
        /\ rows' = [i \in Items |-> IF Stored(i) /\ s \in {rows[i].from, rows[i].to} THEN None ELSE rows[i]]
    BY DEF DeleteSession, Cascade
  <1>2. /\ rows' \in [Items -> Row \union {None}]
        /\ \A i \in Items : \/ rows'[i] = None /\ (Stored(i) => s \in {rows[i].from, rows[i].to})
                            \/ rows'[i] = rows[i] /\ Stored(i) /\ rows[i].from # s /\ rows[i].to # s
    BY <1>1 DEF BridgeInv, Typed, TypeOK, Stored
  <1>3. ASSUME NEW d \in Calls
        PROVE  /\ call'[d] \in Call /\ call'[d].at = call[d].at /\ call'[d].job = call[d].job
               /\ call'[d].from = call[d].from /\ call'[d].to = call[d].to
               /\ call'[d].item = call[d].item /\ call'[d].ok = call[d].ok
               /\ call'[d].open = {i \in call[d].open : rows'[i] # None} /\ WellFormed(call'[d])
    <2>1. call'[d] = [call[d] EXCEPT !.open = {i \in @ : rows'[i] # None}]
      BY DEF DeleteSession
    <2>2. /\ call'[d] \in Call /\ call'[d].at = call[d].at /\ call'[d].job = call[d].job
          /\ call'[d].from = call[d].from /\ call'[d].to = call[d].to
          /\ call'[d].item = call[d].item /\ call'[d].ok = call[d].ok
          /\ call'[d].open = {i \in call[d].open : rows'[i] # None}
      BY <2>1, Fields DEF Call
    <2>3. WellFormed(call[d])
      BY Fields
    <2>4. WellFormed(call'[d])
      BY <2>2, <2>3 DEF WellFormed
    <2>5. QED BY <2>2, <2>4
  <1>4. call' \in [Calls -> Call]
    BY <1>3 DEF DeleteSession
  <1>5. Typed'
    BY <1>1, <1>2, <1>3, <1>4 DEF BridgeInv, Typed, TypeOK, Stored
  <1>6. Numbered'
    BY <1>1, <1>2, <1>3 DEF BridgeInv, Numbered
  <1>7. Fresh'
    <2>1. \A d \in Calls : call[d].at = "insert" => call[d].item \in Items
      BY Fields DEF WellFormed
    <2>2. QED BY <1>1, <1>2, <1>3, <2>1 DEF BridgeInv, Fresh
  <1>8. Owners'
    <2>1. \A i \in Items, t \in Sessions, u \in Sessions : Kept(i, t, u) => Kept(i, t, u)'
      BY <1>1, <1>2 DEF Kept, Stored
    <2>2. \A a \in acked' : Kept(a[1], a[2], a[3])'
      BY <1>1, <2>1 DEF BridgeInv, Owners, Typed, TypeOK
    <2>3. \A d \in Calls : call'[d].at = "answer" /\ call'[d].ok /\ call'[d].job \in Kinds
            => /\ call[d].item \in Items /\ call[d].from \in Sessions /\ call[d].to \in Sessions
               /\ Kept(call[d].item, call[d].from, call[d].to)
      BY <1>3, Fields DEF WellFormed, BridgeInv, Owners
    <2>4. \A i \in Items : Stored(i)' => rows'[i].from \in sessions' /\ rows'[i].to \in sessions'
      BY <1>1, <1>2 DEF BridgeInv, Owners, Stored
    <2>5. ASSUME NEW d \in Calls, call'[d].at = "answer" /\ call'[d].ok /\ call'[d].job \in Kinds,
                 NEW i \in Items, NEW t \in Sessions, NEW u \in Sessions,
                 i = call[d].item, t = call[d].from, u = call[d].to
          PROVE  Kept(i, t, u)'
      BY <2>1, <2>3, <2>5
    <2>6. \A d \in Calls : call'[d].at = "answer" /\ call'[d].ok /\ call'[d].job \in Kinds
            => Kept(call[d].item, call[d].from, call[d].to)'
      BY <1>3, <2>3, <2>5 DEF Kept, Stored
    <2>7. QED BY <1>3, <2>2, <2>4, <2>6 DEF Owners, Kept, Stored
  <1>9. Tasks'
    <2>1. \A i \in Items : /\ rows'[i] # None => (Pending(i) <=> Pending(i)') /\ rows'[i] = rows[i]
                           /\ Pending(i)' => Pending(i)
                           /\ ~Stored(i) \/ IsA(i, "task") => (~Stored(i) \/ IsA(i, "task"))'
      BY <1>2 DEF Pending, IsA, Stored
    <2>2. \A d \in Calls : call'[d].at \in {"check", "select", "mark"} =>
                           \A j \in call'[d].open : Pending(j)' /\ rows'[j].to = call'[d].from
      BY <1>3, <2>1, Fields DEF BridgeInv, Tasks
    <2>3. \A d \in Calls : call'[d].at = "mark" => (~Stored(call[d].item) \/ IsA(call[d].item, "task"))'
      <3>1. \A d \in Calls : call'[d].at = "mark" => call[d].item \in Items
                                                     /\ (~Stored(call[d].item) \/ IsA(call[d].item, "task"))
        BY <1>3, Fields DEF WellFormed, BridgeInv, Tasks
      <3>2. \A d \in Calls : call'[d].at = "mark" => \/ rows'[call'[d].item] = None
                                                     \/ rows'[call'[d].item].kind = "task"
        BY <1>2, <1>3, <3>1 DEF Stored, IsA
      <3>3. QED BY <1>3, <3>2 DEF Stored, IsA
    <2>4. \A j \in told' : ~Pending(j)'
      BY <1>1, <2>1 DEF BridgeInv, Tasks, Typed, TypeOK
    <2>5. \A d \in Calls : Succeeds(d, "next")' => \A j \in call'[d].open : ~Pending(j)'
      BY <1>3, <2>1, Fields DEF BridgeInv, Tasks, Succeeds
    <2>6. QED BY <1>3, <2>2, <2>3, <2>4, <2>5 DEF Tasks, Stored, IsA
  <1>10. BestFirst'
    <2>1. ASSUME NEW d \in Calls, call'[d].at = "mark", Stored(call[d].item)', NEW j \in call'[d].open
          PROVE  \/ rows'[j].rank < rows'[call'[d].item].rank
                 \/ rows'[j].rank = rows'[call'[d].item].rank /\ j >= call'[d].item
      <3>1. /\ call[d].at = "mark" /\ call[d].item \in Items /\ call'[d].item = call[d].item
            /\ j \in call[d].open /\ j \in Items /\ rows'[j] # None
        BY <1>3, <2>1, Fields DEF WellFormed
      <3>2. rows'[call[d].item] # None
        BY <2>1, <3>1 DEF Stored
      <3>3. rows'[j] = rows[j] /\ rows'[call[d].item] = rows[call[d].item]
        BY <1>2, <3>1, <3>2
      <3>4. QED BY <3>1, <3>2, <3>3 DEF BridgeInv, BestFirst, Stored
    <2>2. QED BY <1>3, <2>1 DEF BestFirst, Stored
  <1>11. Reads'
    <2>1. \A m \in Items : Read(m) => Read(m)'
      BY <1>2 DEF Read, Stored
    <2>2. \A d \in Calls : Succeeds(d, "read")' => Succeeds(d, "read") /\ call'[d].item = call[d].item
                                                  /\ call[d].item \in Items
      BY <1>3, Fields DEF Succeeds, WellFormed
    <2>3. \A m \in Items : reads'[m] \in {0, 1} /\ (reads'[m] = 1 => Read(m)')
      BY <1>1, <2>1 DEF BridgeInv, Reads
    <2>4. \A d \in Calls : Succeeds(d, "read")' =>
             /\ Read(call[d].item)' /\ reads'[call[d].item] = 0
             /\ \A e \in Calls : Succeeds(e, "read")' /\ call'[e].item = call[d].item => e = d
      BY <1>1, <2>1, <2>2 DEF BridgeInv, Reads
    <2>5. QED BY <2>2, <2>3, <2>4 DEF Reads, Read, Stored
  <1>12. QED BY <1>5, <1>6, <1>7, <1>8, <1>9, <1>10, <1>11 DEF BridgeInv

\* A restart forgets the requests and nothing that is stored.
LEMMA CrashBridge == ASSUME BridgeInv, Crash PROVE BridgeInv'
  <1>1. Idle \in Call /\ WellFormed(Idle)
    BY BridgeAssumption DEF Idle, Call, Jobs, Kinds, WellFormed
  <1>2. /\ call' \in [Calls -> Call] /\ \A d \in Calls : call'[d] = Idle
        /\ UNCHANGED <<sessions, rows, clock, acked, told, reads>>
    BY <1>1 DEF Crash
  <1>3. Idle.at = "idle" /\ Idle.item = 0 /\ Idle.open = {}
    BY DEF Idle
  <1>4. Typed'
    BY <1>1, <1>2 DEF BridgeInv, Typed, TypeOK, Stored
  <1>5. Numbered' /\ Fresh'
    BY <1>2, <1>3, Fields DEF BridgeInv, Numbered, Fresh
  <1>6. Owners'
    BY <1>2, <1>3 DEF BridgeInv, Owners, Kept, Stored
  <1>7. Tasks'
    BY <1>2, <1>3 DEF BridgeInv, Tasks, Succeeds, Pending, IsA, Stored
  <1>8. BestFirst' /\ Reads'
    BY <1>2, <1>3 DEF BridgeInv, BestFirst, Reads, Read, Succeeds, Stored
  <1>9. QED BY <1>4, <1>5, <1>6, <1>7, <1>8 DEF BridgeInv

\* Every step preserves the invariant.
LEMMA NextBridge == BridgeInv /\ [Next]_vars => BridgeInv'
  <1> SUFFICES ASSUME BridgeInv, [Next]_vars PROVE BridgeInv'
    OBVIOUS
  <1>1. ASSUME NEW c \in Calls, Request(c) PROVE BridgeInv'
    <2> USE <1>1
    <2>1. Kinds \subseteq Jobs /\ "status" \in Jobs /\ "task" \in Jobs /\ "review" \in Jobs
          /\ "message" \in Jobs /\ "next" \in Jobs /\ "read" \in Jobs
      BY DEF Jobs, Kinds
    <2>2. 0 \in Items \union {0} /\ 0 \in Ranks \union {0} /\ Ranks \subseteq Ranks \union {0}
      OBVIOUS
    <2>3. CASE ReportStatus(c)
      BY <2>1, <2>2, <2>3, AskBridge DEF ReportStatus
    <2>4. CASE CreateTask(c)
      BY <2>1, <2>2, <2>4, AskBridge DEF CreateTask
    <2>5. CASE CreateReview(c)
      BY <2>1, <2>2, <2>5, AskBridge DEF CreateReview
    <2>6. CASE CreateMessage(c)
      BY <2>1, <2>2, <2>6, AskBridge DEF CreateMessage
    <2>7. CASE NextTask(c)
      BY <2>1, <2>2, <2>7, AskBridge DEF NextTask
    <2>8. CASE ReadMessage(c)
      BY <2>1, <2>2, <2>8, AskBridge DEF ReadMessage, IsA
    <2>9. QED BY <2>3, <2>4, <2>5, <2>6, <2>7, <2>8 DEF Request
  <1>2. ASSUME NEW c \in Calls, Fail(c) PROVE BridgeInv'
    BY <1>2, ReplyBridge DEF Fail
  <1>3. ASSUME NEW c \in Calls, Check(c) PROVE BridgeInv'
    <2>1. call[c].at = "check" /\ UNCHANGED <<sessions, rows, acked, told, reads>>
      BY <1>3 DEF Check
    <2>2. CASE Reply(c, FALSE) /\ UNCHANGED clock
      BY <2>1, <2>2, ReplyBridge
    <2>3. CASE /\ call[c].job \in Kinds \ {"message"} /\ clock < MaxItems /\ clock' = clock + 1
               /\ call' = [call EXCEPT ![c].at = "insert", ![c].item = clock + 1]
      BY <2>1, <2>3, NumberBridge
    <2>4. ASSUME NEW where \in {"checkTo", "select", "read"}, Go(c, where), UNCHANGED clock,
                 where = "checkTo" => call[c].job = "message", where = "select" => call[c].job = "next",
                 where = "read" => call[c].job = "read"
          PROVE  BridgeInv'
      BY <2>1, <2>4, GoBridge
    <2>5. CASE /\ call[c].job \in {"message", "next", "read"} /\ UNCHANGED clock
               /\ Go(c, CASE call[c].job = "message" -> "checkTo" [] call[c].job = "next" -> "select"
                                                                  [] call[c].job = "read" -> "read")
      <3>1. CASE call[c].job = "message" /\ Go(c, "checkTo")
        BY <2>4, <2>5, <3>1
      <3>2. CASE call[c].job = "next" /\ Go(c, "select")
        BY <2>4, <2>5, <3>2
      <3>3. CASE call[c].job = "read" /\ Go(c, "read")
        BY <2>4, <2>5, <3>3
      <3>4. QED BY <2>5, <3>1, <3>2, <3>3
    <2>6. QED BY <1>3, <2>2, <2>3, <2>5 DEF Check
  <1>4. ASSUME NEW c \in Calls, CheckTo(c) PROVE BridgeInv'
    <2>1. call[c].at = "checkTo" /\ UNCHANGED <<sessions, rows, acked, told, reads>>
      BY <1>4 DEF CheckTo
    <2>2. CASE Reply(c, FALSE) /\ UNCHANGED clock
      BY <2>1, <2>2, ReplyBridge
    <2>3. CASE /\ clock < MaxItems /\ clock' = clock + 1
               /\ call' = [call EXCEPT ![c].at = "insert", ![c].item = clock + 1]
      <3>1. call[c].job \in Kinds
        BY <2>1, Fields DEF WellFormed, Kinds
      <3>2. QED BY <2>1, <2>3, <3>1, NumberBridge
    <2>4. QED BY <1>4, <2>2, <2>3 DEF CheckTo
  <1>5. ASSUME NEW c \in Calls, Insert(c) PROVE BridgeInv'
    <2>1. call[c].at = "insert" /\ UNCHANGED <<sessions, clock, acked, told, reads>>
      BY <1>5 DEF Insert
    <2>2. CASE Owned(c)
      <3>1. rows' = [rows EXCEPT ![call[c].item] = NewRow(c)]
        BY <1>5, <2>2 DEF Insert
      <3>2. Owned(c) = TRUE
        BY <2>2 DEF Owned
      <3>3. Reply(c, TRUE)
        BY <1>5, <3>2 DEF Insert
      <3>4. QED BY <2>1, <2>2, <3>1, <3>3, InsertBridge
    <2>3. CASE ~Owned(c)
      <3>1. rows' = rows
        BY <1>5, <2>3 DEF Insert
      <3>2. Owned(c) = FALSE
        BY <2>3 DEF Owned
      <3>3. Reply(c, FALSE)
        BY <1>5, <3>2 DEF Insert
      <3>4. QED BY <2>1, <3>1, <3>3, ReplyBridge
    <2>4. QED BY <2>2, <2>3
  <1>6. ASSUME NEW c \in Calls, Select(c) PROVE BridgeInv'
    <2>1. call[c].at = "select" /\ UNCHANGED <<sessions, rows, clock, acked, told, reads>>
      BY <1>6 DEF Select
    <2>2. CASE Reply(c, FALSE)
      BY <2>1, <2>2, ReplyBridge
    <2>3. ASSUME NEW i \in {j \in Items : Pending(j) /\ rows[j].to = call[c].from},
                 \A j \in {j \in Items : Pending(j) /\ rows[j].to = call[c].from} \ {i} : Precedes(i, j),
                 call' = [call EXCEPT ![c].at = "mark", ![c].item = i]
          PROVE  BridgeInv'
      BY <2>1, <2>3, SelectBridge
    <2>4. QED BY <1>6, <2>2, <2>3 DEF Select
  <1>7. ASSUME NEW c \in Calls, Mark(c) PROVE BridgeInv'
    <2>1. call[c].at = "mark" /\ UNCHANGED <<sessions, clock, acked, told, reads>>
      BY <1>7 DEF Mark
    <2>2. call[c].item \in Items
      BY <2>1, Fields DEF WellFormed
    <2>3. CASE Stored(call[c].item)
      BY <1>7, <2>2, <2>3, MarkBridge
    <2>4. CASE ~Stored(call[c].item)
      <3>1. Reply(c, FALSE) /\ UNCHANGED rows
        BY <1>7, <2>4 DEF Mark
      <3>2. QED BY <2>1, <3>1, ReplyBridge
    <2>5. QED BY <2>3, <2>4
  <1>8. ASSUME NEW c \in Calls, MarkMessageRead(c) PROVE BridgeInv'
    <2>1. call[c].at = "read" /\ UNCHANGED <<sessions, clock, acked, told, reads>>
      BY <1>8 DEF MarkMessageRead
    <2>2. call[c].item \in Items
      BY <2>1, Fields DEF WellFormed
    <2>3. CASE Unread(c)
      BY <1>8, <2>2, <2>3, MarkReadBridge
    <2>4. CASE ~Unread(c)
      <3>1. UNCHANGED rows /\ Reply(c, Unread(c))
        BY <1>8, <2>4 DEF MarkMessageRead
      <3>2. Unread(c) = FALSE
        BY <2>4 DEF Unread, IsA
      <3>3. Reply(c, FALSE)
        BY <3>1, <3>2
      <3>4. QED BY <2>1, <3>1, <3>3, ReplyBridge
    <2>5. QED BY <2>3, <2>4
  <1>9. CASE UNCHANGED vars
    BY <1>9 DEF vars, BridgeInv, Typed, TypeOK, Stored, Numbered, Fresh, Owners, Kept, Tasks, Succeeds, Pending,
                IsA, BestFirst, Reads, Read, WellFormed
  <1>10. ASSUME NEW c \in Calls, Request(c) \/ Serve(c) PROVE BridgeInv'
    BY <1>1, <1>2, <1>3, <1>4, <1>5, <1>6, <1>7, <1>8, <1>10, AnswerBridge DEF Serve
  <1>11. QED
    BY <1>9, <1>10, UpdateTaskStatusBridge, UpdateReviewBridge, DeleteSessionBridge, CrashBridge DEF Next

\* So it always holds.
LEMMA BridgeInvariant == Spec => []BridgeInv
  <1>1. QED BY InitBridge, NextBridge, PTL DEF Spec
-----------------------------------------------------------------------------
\* The types of the tables and of the requests (store/mcp.go, 003_mcp_bridge.sql).
THEOREM BridgeTyped == Spec => []TypeOK
  <1>1. BridgeInv => TypeOK
    BY DEF BridgeInv, Typed
  <1>2. QED BY <1>1, BridgeInvariant, PTL

\* No item outlives its sessions, although handleReportStatus and the others look for
\* the session in a statement before the one that inserts, and the session may be
\* deleted between the two.
THEOREM NothingOrphaned == Spec => []NoOrphans
  <1>1. BridgeInv => NoOrphans
    BY DEF BridgeInv, Owners, NoOrphans
  <1>2. QED BY <1>1, BridgeInvariant, PTL

\* A 201 of the handlers that create keeps its word: the row is there until one of the
\* sessions it names is deleted, whatever the other requests and the users do.
THEOREM AckedStays == Spec => []AckedIsStored
  <1>1. BridgeInv => AckedIsStored
    BY DEF BridgeInv, Owners, Kept, AckedIsStored
  <1>2. QED BY <1>1, BridgeInvariant, PTL

\* GetNextTask takes the tasks by priority, then age, although the tasks change between
\* its SELECT and its UPDATE.
THEOREM BestIsFirst == Spec => []BestFirst
  <1>1. BridgeInv => BestFirst
    BY DEF BridgeInv
  <1>2. QED BY <1>1, BridgeInvariant, PTL

\* MarkMessageRead tells one client only that it has read a message: the status is part
\* of the condition of the UPDATE.
THEOREM ReadAtMostOnce == Spec => []ReadOnce
  <1>1. BridgeInv => ReadOnce
    BY DEF BridgeInv, Reads, ReadOnce
  <1>2. QED BY <1>1, BridgeInvariant, PTL

\* A task that GetNextTask has handed to a client that got the answer is not handed out
\* again unless a user puts it back.
THEOREM HandedOutOnce == Spec => HandedOnce
  <1> DEFINE Once == \A c \in Calls : call[c].at = "select" /\ call'[c].at = "mark"
                                      => call'[c].item \notin told
  <1>1. BridgeInv /\ [Next]_vars => Once
    <2> SUFFICES ASSUME BridgeInv, [Next]_vars, NEW c \in Calls, call[c].at = "select", call'[c].at = "mark"
                 PROVE  call'[c].item \notin told
      OBVIOUS
    <2>1. ASSUME NEW i \in Items, Pending(i) PROVE i \notin told
      BY <2>1 DEF BridgeInv, Tasks
    <2>2. call \in [Calls -> Call] /\ Idle.at = "idle"
      BY Fields DEF Idle
    <2>3. ASSUME NEW d \in Calls, Request(d) PROVE FALSE
      <3>1. ASSUME NEW job, NEW s, NEW t, NEW rank, NEW i, Ask(d, job, s, t, rank, i) PROVE FALSE
        BY <2>2, <3>1 DEF Ask
      <3>2. QED BY <2>3, <3>1 DEF Request, ReportStatus, CreateTask, CreateReview, CreateMessage, NextTask,
                                  ReadMessage
    <2>4. ASSUME NEW d \in Calls, NEW b, Reply(d, b) PROVE FALSE
      BY <2>2, <2>4 DEF Reply, Call
    <2>5. ASSUME NEW d \in Calls, Serve(d) PROVE Select(c)
      <3>1. ~Fail(d)
        BY <2>4 DEF Fail
      <3>2. ~Check(d) /\ ~CheckTo(d)
        <4>1. call[d].at \in {"check", "checkTo"} => d # c
          OBVIOUS
        <4>2. Check(d) \/ CheckTo(d) => call[d].at \in {"check", "checkTo"} /\ UNCHANGED <<rows>>
          BY DEF Check, CheckTo
        <4>3. d # c /\ (Check(d) \/ CheckTo(d)) => call'[c] = call[c]
          BY <2>2 DEF Check, CheckTo, Go, Reply
        <4>4. QED BY <4>1, <4>2, <4>3
      <3>3. ~Insert(d) /\ ~MarkMessageRead(d)
        BY <2>4 DEF Insert, MarkMessageRead
      <3>4. ~Mark(d)
        BY <2>2, <2>4 DEF Mark, Call
      <3>5. ~Answer(d)
        BY <2>2 DEF Answer
      <3>6. Select(d) => d = c
        BY <2>2, <2>4 DEF Select
      <3>7. QED BY <2>5, <3>1, <3>2, <3>3, <3>4, <3>5, <3>6 DEF Serve
    <2>6. ASSUME NEW i \in Items, NEW status, UpdateTaskStatus(i, status) \/ UpdateReviewRequest(i, status)
          PROVE  FALSE
      BY <2>2, <2>6 DEF UpdateTaskStatus, UpdateReviewRequest, Call
    <2>7. ASSUME NEW s, DeleteSession(s) PROVE FALSE
      BY <2>2, <2>7 DEF DeleteSession, Call
    <2>8. ~Crash /\ ~UNCHANGED vars
      BY <2>2 DEF Crash, vars
    <2>9. Select(c)
      BY <2>3, <2>5, <2>6, <2>7, <2>8 DEF Next
    <2>10. PICK i \in Items : Pending(i) /\ call' = [call EXCEPT ![c].at = "mark", ![c].item = i]
      BY <2>4, <2>9 DEF Select
    <2>11. call'[c].item = i
      BY <2>2, <2>10 DEF Call
    <2>12. QED BY <2>1, <2>10, <2>11
  <1>2. QED BY <1>1, BridgeInvariant, PTL DEF Spec, HandedOnce
=============================================================================

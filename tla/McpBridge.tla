------------------------------- MODULE McpBridge -------------------------------
(***************************************************************************)
(* What the MCP tools of the agents and the web interface share through    *)
(* the control plane: status updates, tasks, review requests and messages  *)
(* of the sessions (api/handlers_mcp.go, store/mcp.go,                     *)
(* migrations/003_mcp_bridge.sql, agent mcp.go).                           *)
(*                                                                         *)
(* A call is one HTTP request: each of its statements is an action, for no *)
(* handler opens a transaction.  Items are numbered by their created_at,    *)
(* which is taken before the row is inserted.                              *)
(***************************************************************************)
EXTENDS Naturals

CONSTANTS
  Sessions,  \* sessions that exist at first
  Calls,     \* requests served at a time
  Ranks,     \* priorities of tasks, numbers
  MaxItems,  \* how many items are made
  Progress,  \* what a user makes of a task: some of the task statuses
  Verdicts,  \* what a reviewer makes of a review: some of the review statuses
  None       \* no session, no row

TaskStatuses   == {"pending", "retrieved", "completed", "failed"}
ReviewStatuses == {"pending", "in_review", "approved", "changes_requested", "rejected"}

Items    == 1 .. MaxItems
Kinds    == {"status", "task", "review", "message"}
Statuses == [status  |-> {"reported"}, task |-> TaskStatuses, review |-> ReviewStatuses,
             message |-> {"sent", "read"}]
First    == [status |-> "reported", task |-> "pending", review |-> "pending", message |-> "sent"]
Row      == [kind: Kinds, from: Sessions, to: Sessions, rank: Ranks \union {0},
             status: UNION {Statuses[k] : k \in Kinds}]

ASSUME BridgeAssumption ==
  /\ MaxItems \in Nat /\ Ranks \subseteq Nat
  /\ None \notin Sessions /\ None \notin Row
  /\ Progress \subseteq TaskStatuses /\ Verdicts \subseteq ReviewStatuses

Jobs     == Kinds \union {"next", "read"}
\* A request: where it is, what it asks for, the sessions it names (the same twice
\* but for a message), the rank of the task it makes, the item it deals with (0: none)
\* and whether it has succeeded; and, as history, the tasks that have been pending
\* ever since it came or, once it has marked one, that one as long as no other
\* statement changes it.
Call     == [at: {"idle", "check", "checkTo", "insert", "select", "mark", "read", "answer"},
             job: Jobs, from: Sessions \union {None}, to: Sessions \union {None},
             rank: Ranks \union {0}, item: 0 .. MaxItems, ok: BOOLEAN,
             open: SUBSET Items]

VARIABLES
  sessions,  \* the rows of the sessions
  rows,      \* the rows of the items, None where there is none
  clock,     \* the last created_at
  call,      \* the requests
  \* history
  acked,     \* items a client knows to be stored, with the sessions they name
  told,      \* tasks a client was given and no user has changed since
  reads      \* messages a client has been told it has read, how often

vars == <<sessions, rows, clock, call, acked, told, reads>>

Idle == [at |-> "idle", job |-> "next", from |-> None, to |-> None, rank |-> 0,
         item |-> 0, ok |-> FALSE, open |-> {}]

Init ==
  /\ sessions = Sessions
  /\ rows     = [i \in Items |-> None]
  /\ clock    = 0
  /\ call     = [c \in Calls |-> Idle]
  /\ acked    = {}
  /\ told     = {}
  /\ reads    = [i \in Items |-> 0]

Stored(i)  == rows[i] # None
IsA(i, k)  == Stored(i) /\ rows[i].kind = k
Pending(i) == IsA(i, "task") /\ rows[i].status = "pending"

\* c goes on to the next statement, or to its answer.
Go(c, where)   == call' = [call EXCEPT ![c].at = where]
Reply(c, good) == call' = [call EXCEPT ![c].at = "answer", ![c].ok = good]
-----------------------------------------------------------------------------
(* Requests. *)

\* A request of the session's agent, or of the web interface for the session.
Ask(c, job, from, to, rank, item) ==
  /\ call[c].at = "idle"
  /\ call' = [call EXCEPT ![c] =
       [at |-> "check", job |-> job, from |-> from, to |-> to, rank |-> rank, item |-> item,
        ok |-> FALSE, open |-> {i \in Items : Pending(i) /\ rows[i].to = from}]]
  /\ UNCHANGED <<sessions, rows, clock, acked, told, reads>>

ReportStatus(c)  == \E s \in Sessions : Ask(c, "status", s, s, 0, 0)
CreateTask(c)    == \E s \in Sessions, rank \in Ranks : Ask(c, "task", s, s, rank, 0)
CreateReview(c)  == \E s \in Sessions : Ask(c, "review", s, s, 0, 0)
CreateMessage(c) == \E s, t \in Sessions : Ask(c, "message", s, t, 0, 0)
NextTask(c)      == \E s \in Sessions : Ask(c, "next", s, s, 0, 0)
ReadMessage(c)   == \E s \in Sessions, m \in Items : IsA(m, "message") /\ Ask(c, "read", s, s, 0, m)

\* The answer reaches the client, or nobody: the connection broke, or the client's
\* 10 s were over and the server had gone on without it.
Answer(c) ==
  /\ call[c].at = "answer"
  /\ \/ /\ call[c].ok
        /\ acked' = IF call[c].job \in Kinds 
                    THEN acked \union {<<call[c].item, call[c].from, call[c].to>>} ELSE acked
        /\ told'  = IF call[c].job = "next" THEN told \union call[c].open ELSE told
        /\ reads' = IF call[c].job = "read" THEN [reads EXCEPT ![call[c].item] = @ + 1] ELSE reads
     \/ UNCHANGED <<acked, told, reads>>
  /\ call' = [call EXCEPT ![c] = Idle]
  /\ UNCHANGED <<sessions, rows, clock>>

\* GetSession: the row of the session, then of the recipient of a message.  What
\* will be inserted gets its id and its time.
Check(c) ==
  /\ call[c].at = "check"
  /\ UNCHANGED <<sessions, rows, acked, told, reads>>
  /\ \/ call[c].from \notin sessions /\ Reply(c, FALSE) /\ UNCHANGED clock
     \/ /\ call[c].from \in sessions /\ call[c].job \in Kinds \ {"message"}
        /\ clock < MaxItems
        /\ clock' = clock + 1
        /\ call' = [call EXCEPT ![c].at = "insert", ![c].item = clock + 1]
     \/ /\ call[c].from \in sessions /\ call[c].job \in {"message", "next", "read"}
        /\ Go(c, CASE call[c].job = "message" -> "checkTo" [] call[c].job = "next" -> "select"
                                                            [] call[c].job = "read" -> "read")
        /\ UNCHANGED clock

CheckTo(c) ==
  /\ call[c].at = "checkTo"
  /\ UNCHANGED <<sessions, rows, acked, told, reads>>
  /\ \/ call[c].to \notin sessions /\ Reply(c, FALSE) /\ UNCHANGED clock
     \/ /\ call[c].to \in sessions
        /\ clock < MaxItems
        /\ clock' = clock + 1
        /\ call' = [call EXCEPT ![c].at = "insert", ![c].item = clock + 1]

\* The row, unless a foreign key has no session anymore.
Owned(c) == {call[c].from, call[c].to} \subseteq sessions

NewRow(c) == [kind |-> call[c].job, from |-> call[c].from, to |-> call[c].to,
              rank |-> call[c].rank, status |-> First[call[c].job]]

\* (mutant) an error of the database is not looked at
InsertHopefully(c) ==
  /\ call[c].at = "insert"
  /\ rows' \in {rows} \union (IF Owned(c) THEN {[rows EXCEPT ![call[c].item] = NewRow(c)]} ELSE {})
  /\ Reply(c, Owned(c))
  /\ UNCHANGED <<sessions, clock, acked, told, reads>>

Insert(c) ==
  /\ call[c].at = "insert"
  /\ rows' = IF Owned(c) THEN [rows EXCEPT ![call[c].item] = NewRow(c)] ELSE rows
  /\ Reply(c, Owned(c))
  /\ UNCHANGED <<sessions, clock, acked, told, reads>>
-----------------------------------------------------------------------------
(* Tasks. *)

\* (mutant) ORDER BY priority ASC
PrecedesAscending(i, j) == \/ rows[i].rank < rows[j].rank
                           \/ rows[i].rank = rows[j].rank /\ i < j

\* ORDER BY priority DESC, created_at ASC
Precedes(i, j) == \/ rows[i].rank > rows[j].rank
                  \/ rows[i].rank = rows[j].rank /\ i < j

\* GetNextTask: the best pending task of the session; 204 and nothing else to
\* do when there is none.
Select(c) ==
  /\ call[c].at = "select"
  /\ LET mine == {i \in Items : Pending(i) /\ rows[i].to = call[c].from}
     IN \/ mine = {} /\ Reply(c, FALSE)
        \/ \E i \in mine :
             /\ \A j \in mine \ {i} : Precedes(i, j)
             /\ call' = [call EXCEPT ![c].at = "mark", ![c].item = i]
  /\ UNCHANGED <<sessions, rows, clock, acked, told, reads>>

\* UpdateTaskStatus: no condition but the id.
SetStatus(i, status) == rows' = [rows EXCEPT ![i].status = status]

\* (mutant) only the answer says retrieved
MarkAnswer(c) ==
  /\ call[c].at = "mark"
  /\ call' = [call EXCEPT ![c].at = "answer", ![c].ok = TRUE, ![c].open = {call[c].item}]
  /\ UNCHANGED <<sessions, rows, clock, acked, told, reads>>

Mark(c) ==
  /\ call[c].at = "mark"
  /\ LET i == call[c].item
     IN IF Stored(i)
        THEN /\ SetStatus(i, "retrieved")
             /\ call' = [d \in Calls |->
                  IF d = c THEN [call[c] EXCEPT !.at = "answer", !.ok = TRUE, !.open = {i}]
                  ELSE [call[d] EXCEPT !.open = @ \ {i}]]
        ELSE Reply(c, FALSE) /\ UNCHANGED rows
  /\ UNCHANGED <<sessions, clock, acked, told, reads>>

\* PUT /tasks/{id}: any status, by anybody.
UpdateTaskStatus(i, status) ==
  /\ IsA(i, "task")
  /\ SetStatus(i, status)
  /\ call' = [c \in Calls |-> [call[c] EXCEPT !.open = @ \ {i}]]
  /\ told' = told \ {i}
  /\ UNCHANGED <<sessions, clock, acked, reads>>
-----------------------------------------------------------------------------
(* Reviews and messages. *)

\* PUT /reviews/{id}: status and notes in one statement.
UpdateReviewRequest(i, status) ==
  /\ IsA(i, "review")
  /\ SetStatus(i, status)
  /\ UNCHANGED <<sessions, clock, call, acked, told, reads>>

\* WHERE id = ? AND to_session_id = ? AND status = 'sent'
Unread(c) == LET m == call[c].item
             IN IsA(m, "message") /\ rows[m].to = call[c].from /\ rows[m].status = "sent"

MarkMessageRead(c) ==
  /\ call[c].at = "read"
  /\ IF Unread(c) THEN SetStatus(call[c].item, "read") ELSE UNCHANGED rows
  /\ Reply(c, Unread(c))
  /\ UNCHANGED <<sessions, clock, acked, told, reads>>
-----------------------------------------------------------------------------
(* The world around. *)

\* A statement fails in the database (it is busy for 5 s): 500.
Fail(c) ==
  /\ call[c].at \notin {"idle", "answer"}
  /\ Reply(c, FALSE)
  /\ UNCHANGED <<sessions, rows, clock, acked, told, reads>>

\* REFERENCES sessions(id) ON DELETE CASCADE: the items of the session go with it.
Cascade(s) == rows' = [i \in Items |-> IF Stored(i) /\ s \in {rows[i].from, rows[i].to}
                                       THEN None ELSE rows[i]]

DeleteSession(s) ==
  /\ s \in sessions
  /\ sessions' = sessions \ {s}
  /\ Cascade(s)
  /\ call' = [c \in Calls |-> [call[c] EXCEPT !.open = {i \in @ : rows'[i] # None}]]
  /\ UNCHANGED <<clock, acked, told, reads>>

\* swoopsd ends and starts again: the requests it was serving are not answered.  (Go's
\* transport sends a GET again by itself: another NextTask.)
Crash ==
  /\ call' = [c \in Calls |-> Idle]
  /\ UNCHANGED <<sessions, rows, clock, acked, told, reads>>

Request(c) == \/ ReportStatus(c) \/ CreateTask(c) \/ CreateReview(c) \/ CreateMessage(c)
              \/ NextTask(c) \/ ReadMessage(c)
Serve(c)   == \/ Fail(c) \/ Check(c) \/ CheckTo(c) \/ Insert(c) \/ Select(c) \/ Mark(c)
              \/ MarkMessageRead(c) \/ Answer(c)

Next ==
  \/ \E c \in Calls : Request(c) \/ Serve(c)
  \/ \E i \in Items : \/ \E status \in Progress : UpdateTaskStatus(i, status)
                      \/ \E status \in Verdicts : UpdateReviewRequest(i, status)
  \/ \E s \in Sessions : DeleteSession(s)
  \/ Crash

Spec == Init /\ [][Next]_vars
-----------------------------------------------------------------------------
TypeOK ==
  /\ sessions \in SUBSET Sessions
  /\ rows \in [Items -> Row \union {None}]
  /\ \A i \in Items : Stored(i) => rows[i].status \in Statuses[rows[i].kind]
  /\ clock \in 0 .. MaxItems
  /\ call \in [Calls -> Call]
  /\ acked \in SUBSET (Items \X Sessions \X Sessions) /\ told \in SUBSET Items
  /\ reads \in [Items -> Nat]

\* No item belongs to a session that is gone, although every handler checks the
\* session in a statement before the one that inserts.
NoOrphans == \A i \in Items : Stored(i) => {rows[i].from, rows[i].to} \subseteq sessions

\* What a client was told is stored is stored as long as its own sessions exist,
\* whatever other sessions were deleted and whatever failed, crashed or was changed.
AckedIsStored == \A a \in acked : Stored(a[1]) \/ ~({a[2], a[3]} \subseteq sessions)

\* A task that a client has been given is not picked for another one, unless a user
\* has changed its status in between; two calls that overlap may both pick it before.
HandedOnce == [][\A c \in Calls : call[c].at = "select" /\ call'[c].at = "mark"
                                  => call'[c].item \notin told]_vars

\* The task a call picks comes first among all that were pending during the whole
\* call: only a task added or put back meanwhile can be passed over.
BestFirst ==
  \A c \in Calls : call[c].at = "mark" /\ Stored(call[c].item) =>
    \A i \in call[c].open : \/ rows[i].rank < rows[call[c].item].rank
                            \/ rows[i].rank = rows[call[c].item].rank /\ i >= call[c].item

\* A message is confirmed as read at most once, whichever clients race for it.
ReadOnce == \A i \in Items : reads[i] <= 1
=============================================================================

------------------------------ MODULE HostRegistry ------------------------------
(***************************************************************************)
(* One host: its row in the store, the rows of its sessions, the requests  *)
(* of the web interface that read and write them, and the heartbeats of    *)
(* the agent on it (api/handlers_host.go, store/store.go,                  *)
(* agentmgr/service.go, api/agent_auth_middleware.go).                     *)
(*                                                                         *)
(* No handler opens a transaction: each statement is an action, and what a *)
(* request has read is in its record until it uses it.  A version is a      *)
(* number; an offer is the version offered, 0 when there is none.          *)
(***************************************************************************)
EXTENDS Naturals

CONSTANTS
  Requests,    \* requests of the web interface, each of one kind
  Sessions,    \* ids of sessions
  Fields,      \* settings a user edits: name, hostname, labels, ...
  Values,      \* what a user sets them to
  Beats,       \* heartbeats that can be under way at a time
  MaxVersion,  \* releases 1 .. MaxVersion of the agent
  NoRow, None  \* model values

Versions == 1 .. MaxVersion
Offers   == 0 .. MaxVersion
Setting  == [Fields -> Values]
Edits    == UNION {[F -> Values] : F \in SUBSET Fields}
Row      == [status: {"offline", "online"}, version: Offers, offer: Offers, setting: Setting]
ASSUME RegistryAssumption ==
  /\ MaxVersion \in Nat \ {0} /\ Values # {}
  /\ None \notin Beats /\ NoRow \notin Row

\* What the agent's last version check found (updateInfo; version 0: no check yet).
Info     == [version: Offers, offer: Offers]
\* A request: where it is; the row an edit has read and the fields it sets; the
\* sessions a deletion has still to delete; and, as history, whether a row that it
\* has looked at was changed since by another request.
Request  == [at: {"idle", "read", "listed", "checked", "picked", "done", "blocked"},
             copy: Row \union {NoRow}, edits: Edits,
             todo: SUBSET Sessions, late: BOOLEAN]

VARIABLES
  row,       \* the host's row, or NoRow
  created,   \* the host's id has been used
  sessions,  \* the session rows of the host
  used,      \* the session ids that have been used
  req,       \* the requests
  \* agent
  version,   \* the version that runs on the host
  info,      \* its updateInfo
  beat,      \* each heartbeat: idle, sent, known, touched, versioned
  payload,   \* the info it carries
  awaited,   \* the one the agent's loop waits for, or None
  \* history
  wish,      \* the last edit of each field that was stored
  clobbered  \* fields that a late request has written back since

agent == <<version, info>>
beats == <<beat, payload, awaited>>
store == <<row, created, sessions, used>>
edits == <<wish, clobbered>>
vars  == <<store, req, agent, beats, edits>>

Unknown == [version |-> 0, offer |-> 0]
Placeholders == [f \in Fields |-> CHOOSE v \in Values : TRUE]
At(where) == [at |-> where, copy |-> NoRow, edits |-> <<>>, todo |-> {}, late |-> FALSE]
\* The row as it is inserted.
New(setting) == [status |-> "offline", version |-> 0, offer |-> 0, setting |-> setting]

\* The host is new, or was made before, with sessions.
Init ==
  /\ wish      = Placeholders
  /\ row       \in {NoRow, New(wish)}
  /\ created   = (row # NoRow)
  /\ sessions  \in SUBSET (IF created THEN Sessions ELSE {})
  /\ used      = sessions
  /\ req       = [r \in Requests |-> At("idle")]
  /\ version   = 1
  /\ info      = Unknown
  /\ beat      = [b \in Beats |-> "idle"]
  /\ payload   = [b \in Beats |-> Unknown]
  /\ awaited   = None
  /\ clobbered = {}

Exists == row # NoRow
Become(r, record) == req' = [req EXCEPT ![r] = record]
\* r goes on as record and changes rows that the others have looked at.
Disturb(r, record, others) ==
  req' = [q \in Requests |-> IF q = r THEN record
                             ELSE IF q \in others THEN [req[q] EXCEPT !.late = TRUE] ELSE req[q]]
Editing  == {r \in Requests : req[r].at = "read"}
Deleting == {r \in Requests : req[r].at = "listed"}
-----------------------------------------------------------------------------
(* handleCreateHost and handleCreateAgentHost: one INSERT under a new id,   *)
(* with the request's settings or with placeholders.                        *)

Insert(setting) ==
  /\ ~created
  /\ created' = TRUE
  /\ row'     = New(setting)
  /\ wish'    = setting
  /\ UNCHANGED <<sessions, used, req, agent, beats, clobbered>>

CreateHost == \E setting \in Setting : Insert(setting)

CreateAgentHost == Insert(Placeholders)

(* handleUpdateHost, and handleGetClientCert which sets no setting: GetHost, *)
(* then UpdateHost with the row that was read.                              *)

ReadHost(r, fields) ==
  /\ req[r].at = "idle" /\ Exists
  /\ Become(r, [At("read") EXCEPT !.copy = row, !.edits = fields])
  /\ UNCHANGED <<store, agent, beats, edits>>

GetClientCert(r) == ReadHost(r, <<>>)

\* (mutant) a field that the request does not name is reset
EditedBlindly(r) == [f \in Fields |-> IF f \in DOMAIN req[r].edits THEN req[r].edits[f]
                                                                   ELSE Placeholders[f]]

\* (mutant) the row gets the request's fields only
EditedOnly(r) == req[r].edits

\* The request's fields over those of the row it has read.
Edited(r) == [f \in Fields |-> IF f \in DOMAIN req[r].edits THEN req[r].edits[f]
                                                            ELSE req[r].copy.setting[f]]

\* What UPDATE hosts SET ... writes of the row read: everything but the offer.
Written(r) == [req[r].copy EXCEPT !.setting = Edited(r), !.offer = row.offer]

UpdateHost(r) ==
  /\ req[r].at = "read"
  /\ \/ /\ Exists
        /\ row'  = Written(r)
        /\ wish' = [f \in Fields |-> IF f \in DOMAIN req[r].edits THEN req[r].edits[f] ELSE wish[f]]
        /\ clobbered' = (IF req[r].late THEN Fields ELSE clobbered) \ DOMAIN req[r].edits
        /\ Disturb(r, At("done"), Editing)
     \/ ~Exists /\ Become(r, At("done")) /\ UNCHANGED <<row, edits>>
  /\ UNCHANGED <<created, sessions, used, agent, beats>>
-----------------------------------------------------------------------------
(* handleDeleteHost: list the sessions, delete them one by one, delete the  *)
(* host.  The foreign key of sessions refuses the last step while a session *)
(* is left.                                                                 *)

\* (mutant) the sessions are left to the foreign key
ListNone(r) ==
  /\ req[r].at = "idle"
  /\ Become(r, At("listed"))
  /\ UNCHANGED <<store, agent, beats, edits>>

ListSessions(r) ==
  /\ req[r].at = "idle"
  /\ Become(r, [At("listed") EXCEPT !.todo = sessions])
  /\ UNCHANGED <<store, agent, beats, edits>>

\* DeleteSession, which fails when there is no such row (anymore).
DeleteSession(r, s, then, else) ==
  /\ sessions' = sessions \ {s}
  /\ IF s \in sessions THEN Disturb(r, then, Deleting) ELSE Become(r, else)
  /\ UNCHANGED <<row, created, used, agent, beats, edits>>

DeleteListed(r) ==
  /\ req[r].at = "listed"
  /\ \E s \in req[r].todo :
       DeleteSession(r, s, [req[r] EXCEPT !.todo = @ \ {s}], [req[r] EXCEPT !.at = "blocked"])

\* FOREIGN KEY (host_id) REFERENCES hosts(id), with the pragma foreign_keys(ON).
Unreferenced == sessions = {}

DeleteHost(r) ==
  /\ req[r].at = "listed" /\ req[r].todo = {}
  /\ \/ Exists /\ Unreferenced /\ row' = NoRow /\ Disturb(r, At("done"), Deleting)
     \/ Exists /\ ~Unreferenced /\ Become(r, [req[r] EXCEPT !.at = "blocked"]) /\ UNCHANGED row
     \/ ~Exists /\ Become(r, At("done")) /\ UNCHANGED row
  /\ UNCHANGED <<created, sessions, used, agent, beats, edits>>

(* handleCreateSession: the host is looked up, then the session inserted.   *)

CheckHost(r) ==
  /\ req[r].at = "idle" /\ Exists
  /\ Become(r, At("checked"))
  /\ UNCHANGED <<store, agent, beats, edits>>

InsertSession(r) ==
  /\ req[r].at = "checked"
  /\ \/ /\ Exists
        /\ \E s \in Sessions \ used : sessions' = sessions \union {s} /\ used' = used \union {s}
        /\ Disturb(r, At("done"), Deleting)
     \/ ~Exists /\ Become(r, At("done")) /\ UNCHANGED <<sessions, used>>
  /\ UNCHANGED <<row, created, agent, beats, edits>>

(* handleDeleteSession: the session is looked up, and deleted later. *)

PickSession(r, s) ==
  /\ req[r].at = "idle" /\ s \in sessions
  /\ Become(r, [At("picked") EXCEPT !.todo = {s}])
  /\ UNCHANGED <<store, agent, beats, edits>>

DeletePicked(r) ==
  /\ req[r].at = "picked"
  /\ \E s \in req[r].todo : DeleteSession(r, s, At("done"), At("done"))
-----------------------------------------------------------------------------
(* The agent: version checks, updates, restarts and heartbeats. *)

\* The check finds the newest release: a newer one, or none.
CheckForUpdates ==
  /\ \E offer \in {0} \union {v \in Versions : v > version} :
       info' = [version |-> version, offer |-> offer]
  /\ UNCHANGED <<store, req, version, beats, edits>>

\* The agent starts again, as it was or updated to what it was offered; the new
\* process knows no version before its first check.
RestartAgent ==
  /\ version' \in {version} \union ({info.offer} \ {0})
  /\ info'    = Unknown
  /\ awaited' = None
  /\ UNCHANGED <<store, req, beat, payload, edits>>

\* The loop sends a heartbeat and waits; after 30 s it goes on without the answer.
SendHeartbeat(b) ==
  /\ awaited = None /\ beat[b] = "idle"
  /\ awaited' = b
  /\ beat'    = [beat EXCEPT ![b] = "sent"]
  /\ payload' = [payload EXCEPT ![b] = info]
  /\ UNCHANGED <<store, req, agent, edits>>

Timeout ==
  /\ awaited # None
  /\ awaited' = None
  /\ UNCHANGED <<store, req, agent, beat, payload, edits>>

\* The answer to b, and the end of its request.
Reply(b) ==
  /\ beat'    = [beat EXCEPT ![b] = "idle"]
  /\ payload' = [payload EXCEPT ![b] = Unknown]
  /\ awaited' = IF awaited = b THEN None ELSE awaited

Advance(b, to) == beat' = [beat EXCEPT ![b] = to] /\ UNCHANGED <<payload, awaited>>

LoseHeartbeat(b) ==
  /\ beat[b] = "sent"
  /\ Reply(b)
  /\ UNCHANGED <<store, req, agent, edits>>

\* AgentAuth: the token is looked up in the hosts table.
Authenticate(b) ==
  /\ beat[b] = "sent"
  /\ IF Exists THEN Advance(b, "known") ELSE Reply(b)
  /\ UNCHANGED <<store, req, agent, edits>>

\* (mutant) an upsert
Upsert(field, value) ==
  row' = [(IF Exists THEN row ELSE New(wish)) EXCEPT ![field] = value]

\* UPDATE hosts SET ... WHERE id: no row, nothing to update.
Update(field, value) == row' = IF Exists THEN [row EXCEPT ![field] = value] ELSE row

\* The next statement, or the answer when the heartbeat has nothing for it: no
\* version before the first check, no offer when the check found none.
TouchHostHeartbeat(b) ==
  /\ beat[b] = "known"
  /\ Update("status", "online")
  /\ IF Exists /\ payload[b].version # 0 THEN Advance(b, "touched") ELSE Reply(b)
  /\ UNCHANGED <<created, sessions, used, req, agent, edits>>

\* (mutant) the version is stored once
UpdateFirstVersion(b) ==
  /\ beat[b] = "touched"
  /\ IF row # NoRow /\ row.version = 0 THEN Update("version", payload[b].version) ELSE UNCHANGED row
  /\ IF payload[b].offer # 0 THEN Advance(b, "versioned") ELSE Reply(b)
  /\ UNCHANGED <<created, sessions, used, req, agent, edits>>

\* A failure is only logged.
UpdateAgentVersion(b) ==
  /\ beat[b] = "touched"
  /\ Update("version", payload[b].version)
  /\ IF payload[b].offer # 0 THEN Advance(b, "versioned") ELSE Reply(b)
  /\ UNCHANGED <<created, sessions, used, req, agent, edits>>

\* An offer is stored, none is withdrawn.
UpdateHostUpdateInfo(b) ==
  /\ beat[b] = "versioned"
  /\ Update("offer", payload[b].offer)
  /\ Reply(b)
  /\ UNCHANGED <<created, sessions, used, req, agent, edits>>

\* swoopsd ends between two statements, as often as it likes: what it was serving
\* is left where it was.
Crash ==
  /\ req'     = [r \in Requests |-> IF req[r].at = "idle" THEN req[r] ELSE At("done")]
  /\ beat'    = [b \in Beats |-> "idle"]
  /\ payload' = [b \in Beats |-> Unknown]
  /\ awaited' = None
  /\ UNCHANGED <<store, agent, edits>>
-----------------------------------------------------------------------------
Edit(r)          == \/ \E fields \in Edits \ {<<>>} : ReadHost(r, fields)
                    \/ GetClientCert(r) \/ UpdateHost(r)
RemoveHost(r)    == ListSessions(r) \/ DeleteListed(r) \/ DeleteHost(r)
AddSession(r)    == CheckHost(r) \/ InsertSession(r)
RemoveSession(r) == (\E s \in sessions : PickSession(r, s)) \/ DeletePicked(r)
Serve(b) == \/ Authenticate(b) \/ TouchHostHeartbeat(b)
            \/ UpdateAgentVersion(b) \/ UpdateHostUpdateInfo(b)

Next ==
  \/ CreateHost \/ CreateAgentHost
  \/ \E r \in Requests : Edit(r) \/ RemoveHost(r) \/ AddSession(r) \/ RemoveSession(r)
  \/ CheckForUpdates \/ RestartAgent
  \/ \E b \in Beats : SendHeartbeat(b) \/ LoseHeartbeat(b) \/ Serve(b)
  \/ Timeout
  \/ Crash

Spec == Init /\ [][Next]_vars

\* The agent's ticker goes on sending heartbeats; some reach the server if ever
\* more are sent, and the server does not end each time at the same statement.
Fairness == \A b \in Beats :
  /\ WF_vars(SendHeartbeat(b)) /\ SF_vars(Authenticate(b)) /\ SF_vars(TouchHostHeartbeat(b))
  /\ SF_vars(UpdateAgentVersion(b)) /\ SF_vars(UpdateHostUpdateInfo(b))

FairSpec == Spec /\ Fairness
-----------------------------------------------------------------------------
TypeOK ==
  /\ row \in Row \union {NoRow}
  /\ created \in BOOLEAN
  /\ used \in SUBSET Sessions /\ sessions \in SUBSET used
  /\ req \in [Requests -> Request]
  /\ version \in Versions /\ info \in Info
  /\ beat \in [Beats -> {"idle", "sent", "known", "touched", "versioned"}]
  /\ payload \in [Beats -> Info]
  /\ awaited \in Beats \union {None}
  /\ wish \in Setting /\ clobbered \in SUBSET Fields

\* A setting shows the last edit of it that was stored, unless a later request
\* had read the row before that edit and wrote it back: only edits that overlap
\* lose anything, a certificate download included.
UnopposedEditsKept ==
  Exists => \A f \in Fields : row.setting[f] = wish[f] \/ f \in clobbered

\* Deleting a host takes its sessions with it, or fails: a session row always belongs
\* to a host that exists, whatever a creation and a deletion that overlap have looked
\* up before (handleCreateSession checks the host, handleDeleteHost the sessions, both
\* in a statement of their own); and it fails only if another request made or deleted
\* one of the rows after the deletion had listed the sessions.
DeletesWholly ==
  /\ sessions # {} => Exists
  /\ \A r \in Requests : req[r].at = "blocked" => req[r].late

\* What a late write does not do: no heartbeat that was authenticated before the host
\* was deleted and no edit that read the row before brings it back (UpdateHost changes
\* no row then), and an update once offered is still offered after an edit that began
\* before the offer was stored (it does not name that column).
LateWritesHarmless ==
  [][/\ created /\ ~Exists => row' = NoRow
     /\ Exists /\ row' # NoRow /\ row.offer # 0 => row'.offer # 0]_vars

\* Once no edit is under way anymore, whatever stale rows were written back and
\* whatever late heartbeats arrive, the row comes to show what the agent reports.
Shown == /\ row.status = "online" /\ row.version = info.version
         /\ info.offer # 0 => row.offer = info.offer
RegistryConverges ==
  <>[](info.version # 0 /\ Editing = {}) /\ <>[][info' = info]_vars => <>[](Exists => Shown)
=============================================================================

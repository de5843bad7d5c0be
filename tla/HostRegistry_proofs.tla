-------------------------- MODULE HostRegistry_proofs --------------------------
(***************************************************************************)
(* Proofs about HostRegistry, for any number of requests, heartbeats,      *)
(* sessions, fields and versions: what overlapping requests and heartbeats *)
(* can do to the row of a host and to those of its sessions.               *)
(*                                                                         *)
(* A request that has looked at something works with a copy.  The copy is  *)
(* right as long as nobody marked the request late (ReadCurrent and        *)
(* ListCurrent), which is what the properties need of it.                  *)
(***************************************************************************)
EXTENDS HostRegistry, TLAPS

\* An id is used once, and sessions belong to a row.
RowFirst ==
  /\ Exists => created
  /\ sessions # {} => Exists

\* An edit that is not late holds the settings the row has.
ReadCurrent ==
  \A r \in Requests : req[r].at = "read" =>
    /\ created /\ req[r].copy \in Row
    /\ Exists /\ ~req[r].late => req[r].copy.setting = row.setting

\* A deletion that is not late has still to delete what there is.
ListCurrent ==
  \A r \in Requests : req[r].at = "listed" /\ ~req[r].late => req[r].todo = sessions

BlockedLate == \A r \in Requests : req[r].at = "blocked" => req[r].late

\* A heartbeat gets to its last statement only if it carries an offer.
OfferCarried == \A b \in Beats : beat[b] = "versioned" => payload[b].offer # 0

IInv == /\ TypeOK /\ RowFirst /\ ReadCurrent /\ ListCurrent /\ BlockedLate /\ OfferCarried
        /\ UnopposedEditsKept
-----------------------------------------------------------------------------
LEMMA Placing == Placeholders \in Setting
  BY RegistryAssumption DEF Placeholders, Setting

(* No edit is an edit too. *)
LEMMA NoEdit == <<>> \in Edits
<1>1. <<>> \in [{} -> Values]
  OBVIOUS
<1>2. {} \in SUBSET Fields
  OBVIOUS
<1> QED BY <1>1, <1>2 DEF Edits

LEMMA AtRequest ==
  ASSUME NEW where \in {"idle", "read", "listed", "checked", "picked", "done", "blocked"}
  PROVE  At(where) \in Request
  BY NoEdit DEF At, Request

LEMMA NewRow == \A setting \in Setting : New(setting) \in Row
  BY RegistryAssumption DEF New, Row, Offers

(* An edit sets what it names, and fields and values are those of rows. *)
LEMMA EditedRow ==
  ASSUME TypeOK, ReadCurrent, NEW r \in Requests, req[r].at = "read", Exists
  PROVE  Written(r) \in Row /\ Written(r).offer = row.offer /\ Written(r).setting = Edited(r)
<1>1. req[r] \in Request /\ req[r].copy \in Row /\ row \in Row
  BY DEF TypeOK, ReadCurrent, Exists
<1>2. \A f \in DOMAIN req[r].edits : f \in Fields /\ req[r].edits[f] \in Values
  BY <1>1 DEF Request, Edits
<1>3. Edited(r) \in Setting
  BY <1>1, <1>2 DEF Edited, Setting, Row
<1> QED BY <1>1, <1>3 DEF Written, Row

LEMMA InitIInv == Init => IInv
<1> SUFFICES ASSUME Init PROVE IInv
  OBVIOUS
<1>1. wish \in Setting /\ row \in Row \union {NoRow}
  BY Placing, NewRow DEF Init
<1>2. TypeOK
  BY <1>1, AtRequest, RegistryAssumption
  DEF TypeOK, Init, Unknown, Info, Versions, Offers
<1>3. RowFirst /\ ReadCurrent /\ ListCurrent /\ BlockedLate /\ OfferCarried
  BY DEF Init, RowFirst, ReadCurrent, ListCurrent, BlockedLate, OfferCarried, Exists, At
<1>4. UnopposedEditsKept
  BY DEF Init, UnopposedEditsKept, Exists, New
<1> QED BY <1>2, <1>3, <1>4 DEF IInv
-----------------------------------------------------------------------------
LEMMA TypeStep == TypeOK /\ ReadCurrent /\ [Next]_vars => TypeOK'
<1> SUFFICES ASSUME TypeOK, ReadCurrent, [Next]_vars PROVE TypeOK'
  OBVIOUS
<1> USE RegistryAssumption
    DEF TypeOK, store, agent, beats, edits, Become, Disturb, Advance, Reply
<1>1. CASE CreateHost \/ CreateAgentHost
  BY <1>1, NewRow, Placing DEF CreateHost, CreateAgentHost, Insert
<1>2. ASSUME NEW r \in Requests, NEW fields \in Edits, ReadHost(r, fields) PROVE TypeOK'
  <2>1. [At("read") EXCEPT !.copy = row, !.edits = fields] \in Request
    BY AtRequest, <1>2 DEF Request, At, ReadHost
  <2> QED BY <1>2, <2>1 DEF ReadHost
<1>3. ASSUME NEW r \in Requests, UpdateHost(r) PROVE TypeOK'
  <2>1. \A q \in Requests : [req[q] EXCEPT !.late = TRUE] \in Request
    BY DEF Request
  <2>2. req' \in [Requests -> Request]
    BY <1>3, <2>1, AtRequest DEF UpdateHost
  <2>3. row' \in Row \union {NoRow}
    BY <1>3, EditedRow DEF UpdateHost
  <2>4. wish' \in Setting /\ clobbered' \in SUBSET Fields
    <3>1. \A f \in DOMAIN req[r].edits : req[r].edits[f] \in Values
      BY DEF Request, Edits
    <3> QED BY <1>3, <3>1 DEF UpdateHost, Setting
  <2> QED BY <1>3, <2>2, <2>3, <2>4 DEF UpdateHost
<1>4. ASSUME NEW r \in Requests, ListSessions(r) PROVE TypeOK'
  <2>1. [At("listed") EXCEPT !.todo = sessions] \in Request
    BY AtRequest DEF Request, At
  <2> QED BY <1>4, <2>1 DEF ListSessions
<1>5. ASSUME NEW r \in Requests, NEW s, NEW then \in Request, NEW else \in Request,
             DeleteSession(r, s, then, else)
      PROVE  TypeOK'
  <2>1. \A q \in Requests : [req[q] EXCEPT !.late = TRUE] \in Request
    BY DEF Request
  <2> QED BY <1>5, <2>1 DEF DeleteSession
<1>6. ASSUME NEW r \in Requests, DeleteListed(r) PROVE TypeOK'
  <2>1. PICK s \in req[r].todo :
          DeleteSession(r, s, [req[r] EXCEPT !.todo = @ \ {s}], [req[r] EXCEPT !.at = "blocked"])
    BY <1>6 DEF DeleteListed
  <2>2. /\ [req[r] EXCEPT !.todo = @ \ {s}] \in Request
        /\ [req[r] EXCEPT !.at = "blocked"] \in Request
    BY DEF Request
  <2> QED BY <1>5, <2>1, <2>2
<1>7. ASSUME NEW r \in Requests, DeletePicked(r) PROVE TypeOK'
  BY <1>5, <1>7, AtRequest DEF DeletePicked
<1>8. ASSUME NEW r \in Requests, DeleteHost(r) PROVE TypeOK'
  <2>1. \A q \in Requests : /\ [req[q] EXCEPT !.late = TRUE] \in Request
                            /\ [req[q] EXCEPT !.at = "blocked"] \in Request
    BY DEF Request
  <2>2. At("done") \in Request
    BY AtRequest
  <2>3. req' \in [Requests -> Request]
    BY <1>8, <2>1, <2>2 DEF DeleteHost
  <2> QED BY <1>8, <2>3 DEF DeleteHost
<1>9. ASSUME NEW r \in Requests, CheckHost(r) PROVE TypeOK'
  BY <1>9, AtRequest DEF CheckHost
<1>10. ASSUME NEW r \in Requests, InsertSession(r) PROVE TypeOK'
  <2>1. \A q \in Requests : [req[q] EXCEPT !.late = TRUE] \in Request
    BY DEF Request
  <2> QED BY <1>10, <2>1, AtRequest DEF InsertSession
<1>11. ASSUME NEW r \in Requests, NEW s \in sessions, PickSession(r, s) PROVE TypeOK'
  <2>1. [At("picked") EXCEPT !.todo = {s}] \in Request
    BY AtRequest DEF Request, At
  <2> QED BY <1>11, <2>1 DEF PickSession
<1>12. CASE CheckForUpdates
  BY <1>12 DEF CheckForUpdates, Info, Offers, Versions
<1>13. CASE RestartAgent
  BY <1>13 DEF RestartAgent, Unknown, Info, Offers, Versions
<1>14. ASSUME NEW b \in Beats, SendHeartbeat(b) \/ LoseHeartbeat(b) \/ Authenticate(b)
       PROVE  TypeOK'
  BY <1>14 DEF SendHeartbeat, LoseHeartbeat, Authenticate, Unknown, Info, Offers
<1>15. ASSUME NEW b \in Beats,
              TouchHostHeartbeat(b) \/ UpdateAgentVersion(b) \/ UpdateHostUpdateInfo(b)
       PROVE  TypeOK'
  <2>1. row' \in Row \union {NoRow}
    BY <1>15 DEF TouchHostHeartbeat, UpdateAgentVersion, UpdateHostUpdateInfo, Update, Row,
                 Info, Exists
  <2> QED
    BY <1>15, <2>1 DEF TouchHostHeartbeat, UpdateAgentVersion, UpdateHostUpdateInfo, Unknown,
                       Info, Offers
<1>16. CASE Timeout
  BY <1>16 DEF Timeout
<1>17. CASE Crash
  BY <1>17, AtRequest DEF Crash, Unknown, Info, Offers
<1>18. CASE UNCHANGED vars
  BY <1>18 DEF vars
<1> QED
  BY <1>1, <1>2, <1>3, <1>4, <1>6, <1>7, <1>8, <1>9, <1>10, <1>11, <1>12, <1>13, <1>14,
     <1>15, <1>16, <1>17, <1>18, NoEdit
  DEF Next, Edit, GetClientCert, RemoveHost, AddSession, RemoveSession, Serve
-----------------------------------------------------------------------------
(* Most steps of a heartbeat and of the agent leave the requests, the sessions and the *)
(* settings of the row alone. *)
LEMMA HeartbeatStep ==
  ASSUME TypeOK,
         \/ CheckForUpdates \/ RestartAgent \/ Timeout
         \/ \E b \in Beats : SendHeartbeat(b) \/ LoseHeartbeat(b) \/ Serve(b)
  PROVE  /\ UNCHANGED <<created, sessions, used, req, wish, clobbered>>
         /\ Exists' = Exists
         /\ Exists => row'.setting = row.setting
<1> USE DEF agent, beats, edits, store
<1>1. CASE \/ CheckForUpdates \/ RestartAgent \/ Timeout
           \/ \E b \in Beats : SendHeartbeat(b) \/ LoseHeartbeat(b) \/ Authenticate(b)
  BY <1>1 DEF CheckForUpdates, RestartAgent, Timeout, SendHeartbeat, LoseHeartbeat,
              Authenticate, Exists
<1>2. ASSUME NEW b \in Beats,
             TouchHostHeartbeat(b) \/ UpdateAgentVersion(b) \/ UpdateHostUpdateInfo(b)
      PROVE  /\ UNCHANGED <<created, sessions, used, req, wish, clobbered>>
             /\ Exists' = Exists
             /\ Exists => row'.setting = row.setting
  <2>1. UNCHANGED <<created, sessions, used, req, wish, clobbered>>
    BY <1>2 DEF TouchHostHeartbeat, UpdateAgentVersion, UpdateHostUpdateInfo
  <2>2. CASE row = NoRow
    BY <1>2, <2>2 DEF TouchHostHeartbeat, UpdateAgentVersion, UpdateHostUpdateInfo, Update, Exists
  <2>3. CASE row # NoRow
    <3>1. row' \in Row /\ row'.setting = row.setting
      BY <1>2, <2>3 DEF TouchHostHeartbeat, UpdateAgentVersion, UpdateHostUpdateInfo, Update,
                        Row, Info, Exists, TypeOK
    <3> QED BY <2>1, <2>3, <3>1, RegistryAssumption DEF Exists
  <2> QED BY <2>1, <2>2, <2>3
<1> QED BY <1>1, <1>2 DEF Serve

(* What is known of the requests, and with it the two properties. *)
LEMMA RequestStep ==
  IInv /\ [Next]_vars => /\ RowFirst' /\ ReadCurrent' /\ ListCurrent' /\ BlockedLate'
                         /\ UnopposedEditsKept'
<1> DEFINE Requested == /\ RowFirst /\ ReadCurrent /\ ListCurrent /\ BlockedLate
                        /\ UnopposedEditsKept
<1> SUFFICES ASSUME IInv, [Next]_vars PROVE Requested'
  OBVIOUS
<1> USE RegistryAssumption
    DEF IInv, TypeOK, RowFirst, ReadCurrent, ListCurrent, BlockedLate, UnopposedEditsKept,
        Exists, store, edits, Become, Disturb, At
<1>1. CASE CreateHost \/ CreateAgentHost
  <2>1. PICK setting \in Setting : Insert(setting)
    BY <1>1, Placing DEF CreateHost, CreateAgentHost
  <2>2. row' \in Row /\ row'.setting = setting
    BY <2>1, NewRow DEF Insert, New
  <2> QED BY <2>1, <2>2 DEF Insert
<1>2. ASSUME NEW r \in Requests, NEW fields \in Edits, ReadHost(r, fields) PROVE Requested'
  BY <1>2 DEF ReadHost
<1>3. ASSUME NEW r \in Requests, UpdateHost(r) PROVE Requested'
  <2>1. CASE ~Exists
    BY <1>3, <2>1 DEF UpdateHost
  <2>2. CASE Exists
    <3>1. row' \in Row /\ row'.setting = Edited(r)
      BY <1>3, <2>2, EditedRow DEF UpdateHost
    <3>2. /\ UNCHANGED <<created, sessions>>
          /\ \A q \in Requests : req'[q] = IF q = r THEN At("done")
                                           ELSE IF q \in Editing THEN [req[q] EXCEPT !.late = TRUE]
                                           ELSE req[q]
      BY <1>3, <2>2 DEF UpdateHost
    <3>3. RowFirst' /\ ReadCurrent' /\ ListCurrent' /\ BlockedLate'
      BY <1>3, <3>1, <3>2, <2>2 DEF UpdateHost, Editing, Request
    <3>4. UnopposedEditsKept'
      BY <1>3, <2>2, <3>1 DEF UpdateHost, Edited
    <3> QED BY <3>3, <3>4
  <2> QED BY <2>1, <2>2
<1>4. ASSUME NEW r \in Requests, ListSessions(r) PROVE Requested'
  BY <1>4 DEF ListSessions
<1>5. ASSUME NEW r \in Requests, DeleteListed(r) PROVE Requested'
  <2>1. PICK s \in req[r].todo :
          DeleteSession(r, s, [req[r] EXCEPT !.todo = @ \ {s}], [req[r] EXCEPT !.at = "blocked"])
    BY <1>5 DEF DeleteListed
  <2>2. req[r].at = "listed" /\ req[r] \in Request
    BY <1>5 DEF DeleteListed
  <2>3. CASE s \in sessions
    BY <2>1, <2>2, <2>3 DEF DeleteSession, Deleting, Request
  <2>4. CASE s \notin sessions
    BY <2>1, <2>2, <2>4 DEF DeleteSession, Request
  <2> QED BY <2>3, <2>4
<1>6. ASSUME NEW r \in Requests, DeletePicked(r) PROVE Requested'
  <2>1. PICK s \in req[r].todo : DeleteSession(r, s, At("done"), At("done"))
    BY <1>6 DEF DeletePicked
  <2>2. CASE s \in sessions
    BY <2>1, <2>2 DEF DeleteSession, Deleting, Request
  <2>3. CASE s \notin sessions
    BY <2>1, <2>3 DEF DeleteSession
  <2> QED BY <2>2, <2>3
<1>7. ASSUME NEW r \in Requests, DeleteHost(r) PROVE Requested'
  <2>1. req[r].at = "listed" /\ req[r] \in Request /\ req[r].todo = {}
    BY <1>7 DEF DeleteHost
  <2>2. CASE Exists /\ Unreferenced /\ row' = NoRow /\ Disturb(r, At("done"), Deleting)
    BY <1>7, <2>2 DEF DeleteHost, Deleting, Unreferenced, Request
  <2>3. CASE Exists /\ ~Unreferenced /\ Become(r, [req[r] EXCEPT !.at = "blocked"]) /\ UNCHANGED row
    BY <1>7, <2>1, <2>3 DEF DeleteHost, Unreferenced, Request
  <2>4. CASE ~Exists /\ Become(r, At("done")) /\ UNCHANGED row
    BY <1>7, <2>4 DEF DeleteHost
  <2> QED BY <1>7, <2>2, <2>3, <2>4 DEF DeleteHost
<1>8. ASSUME NEW r \in Requests, CheckHost(r) PROVE Requested'
  BY <1>8 DEF CheckHost
<1>9. ASSUME NEW r \in Requests, InsertSession(r) PROVE Requested'
  BY <1>9 DEF InsertSession, Deleting, Request
<1>10. ASSUME NEW r \in Requests, NEW s \in sessions, PickSession(r, s) PROVE Requested'
  BY <1>10 DEF PickSession
<1>11. CASE \/ CheckForUpdates \/ RestartAgent \/ Timeout
            \/ \E b \in Beats : SendHeartbeat(b) \/ LoseHeartbeat(b) \/ Serve(b)
  BY <1>11, HeartbeatStep
<1>12. CASE Crash
  BY <1>12 DEF Crash
<1>13. CASE UNCHANGED vars
  BY <1>13 DEF vars
<1> QED
  BY <1>1, <1>2, <1>3, <1>4, <1>5, <1>6, <1>7, <1>8, <1>9, <1>10, <1>11, <1>12, <1>13, NoEdit
  DEF Next, Edit, GetClientCert, RemoveHost, AddSession, RemoveSession

(* Where a heartbeat is depends on what it carries. *)
LEMMA OfferStep == TypeOK /\ OfferCarried /\ [Next]_vars => OfferCarried'
<1> SUFFICES ASSUME TypeOK, OfferCarried, [Next]_vars PROVE OfferCarried'
  OBVIOUS
<1> USE DEF TypeOK, OfferCarried, agent, beats, Advance, Reply
<1>1. CASE UNCHANGED beats
  BY <1>1
<1>2. ASSUME NEW b \in Beats, SendHeartbeat(b) \/ LoseHeartbeat(b) \/ Serve(b)
      PROVE  OfferCarried'
  BY <1>2 DEF SendHeartbeat, LoseHeartbeat, Serve, Authenticate, TouchHostHeartbeat,
              UpdateAgentVersion, UpdateHostUpdateInfo
<1>3. CASE RestartAgent \/ Timeout \/ Crash
  BY <1>3 DEF RestartAgent, Timeout, Crash
<1>4. CASE \/ CreateHost \/ CreateAgentHost \/ CheckForUpdates
           \/ \E r \in Requests : Edit(r) \/ RemoveHost(r) \/ AddSession(r) \/ RemoveSession(r)
  BY <1>4 DEF CreateHost, CreateAgentHost, Insert, CheckForUpdates, Edit, GetClientCert,
              ReadHost, UpdateHost, RemoveHost, ListSessions, DeleteListed, DeleteSession,
              DeleteHost, AddSession, CheckHost, InsertSession, RemoveSession, PickSession,
              DeletePicked
<1>5. CASE UNCHANGED vars
  BY <1>5 DEF vars
<1> QED BY <1>2, <1>3, <1>4, <1>5 DEF Next

LEMMA Invariance == Spec => []IInv
<1>1. Init => IInv
  BY InitIInv
<1>2. IInv /\ [Next]_vars => IInv'
  BY TypeStep, RequestStep, OfferStep DEF IInv
<1> QED BY <1>1, <1>2, PTL DEF Spec
-----------------------------------------------------------------------------
(* Type correctness of the host's row, the requests and the heartbeats. *)
THEOREM TypeCorrect == Spec => []TypeOK
<1>1. IInv => TypeOK
  BY DEF IInv
<1> QED BY <1>1, Invariance, PTL

(* handleUpdateHost and handleGetClientCert write whole rows back, but only edits that *)
(* overlap lose anything by it. *)
THEOREM EditsKept == Spec => []UnopposedEditsKept
<1>1. IInv => UnopposedEditsKept
  BY DEF IInv
<1> QED BY <1>1, Invariance, PTL

(* handleDeleteHost deletes a host with its sessions or not at all, and is refused only *)
(* if its list was out of date. *)
THEOREM WhollyDeleted == Spec => []DeletesWholly
<1>1. IInv => DeletesWholly
  BY DEF IInv, RowFirst, BlockedLate, DeletesWholly
<1> QED BY <1>1, Invariance, PTL

(* No late heartbeat or edit brings a deleted host back or takes an offer away. *)
THEOREM LateHarmless == Spec => LateWritesHarmless
<1> DEFINE Harmless == /\ created /\ ~Exists => row' = NoRow
                       /\ Exists /\ row' # NoRow /\ row.offer # 0 => row'.offer # 0
<1>1. IInv /\ [Next]_vars => [Harmless]_vars
  <2> SUFFICES ASSUME IInv, Next PROVE Harmless
    OBVIOUS
  <2> USE DEF IInv, TypeOK, Exists, store
  <2>1. CASE CreateHost \/ CreateAgentHost
    BY <2>1 DEF CreateHost, CreateAgentHost, Insert, RowFirst
  <2>2. ASSUME NEW r \in Requests, UpdateHost(r) PROVE Harmless
    BY <2>2, EditedRow DEF UpdateHost
  <2>3. ASSUME NEW b \in Beats,
               TouchHostHeartbeat(b) \/ UpdateAgentVersion(b) \/ UpdateHostUpdateInfo(b)
        PROVE  Harmless
    BY <2>3 DEF TouchHostHeartbeat, UpdateAgentVersion, UpdateHostUpdateInfo, Update,
                OfferCarried, Row
  <2>4. ASSUME row' \in {row, NoRow} PROVE Harmless
    BY <2>4
  <2>5. CASE \/ \E r \in Requests : \/ GetClientCert(r) \/ RemoveHost(r) \/ AddSession(r)
                                    \/ RemoveSession(r) \/ \E f \in Edits : ReadHost(r, f)
             \/ CheckForUpdates \/ RestartAgent \/ Timeout \/ Crash
             \/ \E b \in Beats : SendHeartbeat(b) \/ LoseHeartbeat(b) \/ Authenticate(b)
    BY <2>4, <2>5 DEF GetClientCert, ReadHost, RemoveHost, ListSessions, DeleteListed,
         DeleteSession, DeleteHost, AddSession, CheckHost, InsertSession, RemoveSession,
         PickSession, DeletePicked, CheckForUpdates, RestartAgent, Timeout, Crash,
         SendHeartbeat, LoseHeartbeat, Authenticate
  <2> QED BY <2>1, <2>2, <2>3, <2>5 DEF Next, Edit, Serve
<1> QED BY <1>1, Invariance, PTL DEF Spec, LateWritesHarmless
=============================================================================

--------------------------- MODULE SessionLifecycle ---------------------------
(***************************************************************************)
(* The row of ONE session in the control plane's database, and everything  *)
(* that writes it: the launch goroutine of handleCreateSession, stop and   *)
(* delete requests, and the results the agent posts                        *)
(* (server/internal/sessionmgr/manager.go, api/handlers_session.go,        *)
(* api/handlers_agent.go, store/store.go).                                 *)
(*                                                                         *)
(* Each of these goroutines reads the row once, keeps that copy, and later *)
(* writes ALL mutable columns from the copy (UpdateSession), without a     *)
(* transaction or a version check.  An action is one store operation, one  *)
(* command queued, or one remote command.  The row is cut down to its      *)
(* status and to whether tmux_session is set; the store's only failure is  *)
(* "no such row".  The session is one that runs an AI agent (type agent),  *)
(* its host is not deleted.                                                *)
(***************************************************************************)
EXTENDS Naturals, Sequences

CONSTANTS
  Stops, Deletes,   \* POST /sessions/{id}/stop and DELETE /sessions/{id} requests
  HasSSH,           \* whether the host has an SSH key configured
  MaxCrashes,       \* how often swoopsd dies
  NoRow             \* the session is not in the table

Requests == Stops \union Deletes

ASSUME LifecycleAssumption == Stops \intersect Deletes = {} /\ MaxCrashes \in Nat /\ HasSSH \in BOOLEAN

Status == {"pending", "starting", "running", "stopping", "stopped", "failed"}
Row    == [status : Status, named : BOOLEAN]

Command == [is     : {"launch", "stop"},
            result : {"waiting", "running", "failed", "shown", "dropped"},
            sess   : Row \union {NoRow}]

ASSUME NoRowAssumption == NoRow \notin Row

VARIABLES
  row,        \* the session's row, or NoRow
  launch,     \* the launch goroutine: where it is
  launchCopy, \* its sess
  request,    \* each stop or delete request: where it is
  copy,       \* its sess
  commands,   \* commands for the session handed to the agent's queue, in order,
              \* each with the stage of its result and that handler's sess
  reaper,     \* what the check for stuck sessions last logged
  tmux,       \* SSH path: the tmux session exists on the host
  crashes,
  \* history
  launched,   \* a launch was queued, or carried out over SSH
  quiet       \* requests that found the session active with its launch over

goroutines == <<launch, launchCopy, request, copy>>
outside    == <<commands, tmux>>
vars       == <<row, goroutines, outside, reaper, crashes, launched, quiet>>

\* isActiveStatus; it lists "idle" too, which nothing ever writes.
Active(r)  == r # NoRow /\ r.status \in {"pending", "starting", "running"}

LaunchOver == launch \in {"done", "dead"}

Init ==
  /\ row        = NoRow
  /\ launch     = "none"
  /\ launchCopy = NoRow
  /\ request    = [r \in Requests |-> "idle"]
  /\ copy       = [r \in Requests |-> NoRow]
  /\ commands   = <<>>
  /\ reaper     = "quiet"
  /\ tmux       = FALSE
  /\ crashes    = 0
  /\ launched   = FALSE
  /\ quiet      = {}

\* (mutant) an upsert
UpsertSession(sess) == row' = sess

\* UPDATE ... WHERE id = ?: changes a row that is there, never makes one.
UpdateSession(sess) == row' = IF row = NoRow THEN NoRow ELSE sess

QueueCommand(command) ==
  commands' = Append(commands, [is |-> command, result |-> "waiting", sess |-> NoRow])
-----------------------------------------------------------------------------
(* Creation and the launch goroutine. *)

Create ==
  /\ launch = "none"
  /\ row'    = [status |-> "pending", named |-> FALSE]
  /\ launch' = "read"
  /\ UNCHANGED <<launchCopy, request, copy, outside, reaper, crashes, launched, quiet>>

\* LaunchSession reads the row; it does not look at the status.
LaunchRead ==
  /\ launch = "read"
  /\ launchCopy' = row
  /\ launch'     = IF row = NoRow THEN "done" ELSE "starting"
  /\ UNCHANGED <<row, request, copy, outside, reaper, crashes, launched, quiet>>

\* Agent or SSH, by IsHostConnected; either way the copy becomes "starting".
\* If the row is gone both give up.
LaunchStarting ==
  /\ launch = "starting"
  /\ UpdateSession([status |-> "starting", named |-> TRUE])
  /\ launchCopy' = row'
  /\ launch' \in IF row = NoRow THEN {"done"} ELSE {"queue", "ssh"}
  /\ UNCHANGED <<request, copy, outside, reaper, crashes, launched, quiet>>

LaunchQueue ==
  /\ launch = "queue"
  /\ QueueCommand("launch")
  /\ launched' = TRUE
  /\ launch'   = "running"
  /\ UNCHANGED <<row, launchCopy, request, copy, tmux, reaper, crashes, quiet>>

\* launchViaSSH: mkdir, worktree and new-session, each of which may fail.
LaunchSSH ==
  /\ launch = "ssh"
  /\ \/ /\ HasSSH
        /\ tmux'   = TRUE
        /\ launch' = "keys"
     \/ /\ launch' = "fail"
        /\ UNCHANGED tmux
  /\ UNCHANGED <<row, launchCopy, request, copy, commands, reaper, crashes, launched, quiet>>

\* send-keys fails if the session was killed meanwhile, or for other reasons;
\* then kill-session, whose own error is ignored.
LaunchKeys ==
  /\ launch = "keys"
  /\ \/ /\ tmux
        /\ launched' = TRUE
        /\ launch'   = "running"
        /\ UNCHANGED tmux
     \/ /\ tmux'   \in {tmux, FALSE}
        /\ launch' = "fail"
        /\ UNCHANGED launched
  /\ UNCHANGED <<row, launchCopy, request, copy, commands, reaper, crashes, quiet>>

\* failSession, and the end of a successful launch: the stale copy again.
LaunchEnd ==
  /\ launch \in {"running", "fail"}
  /\ UpdateSession([launchCopy EXCEPT !.status =
                      IF launch = "running" THEN "running" ELSE "failed"])
  /\ launchCopy' = NoRow
  /\ launch' = "done"
  /\ UNCHANGED <<request, copy, outside, reaper, crashes, launched, quiet>>
-----------------------------------------------------------------------------
(* Stop and delete requests. *)

\* handleStopSession answers at once, handleDeleteSession skips the stop, if
\* the session is not active.
RequestRead(r) ==
  /\ request[r] = "idle"
  /\ launch # "none"
  /\ copy'    = IF Active(row) THEN [copy EXCEPT ![r] = row] ELSE copy
  /\ request' = [request EXCEPT ![r] =
                   IF Active(row) THEN "stopping"
                   ELSE IF row # NoRow /\ r \in Deletes THEN "delete" ELSE "refused"]
  /\ quiet'   = IF Active(row) /\ LaunchOver THEN quiet \union {r} ELSE quiet
  /\ UNCHANGED <<row, launch, launchCopy, outside, reaper, crashes, launched>>

\* The error of this update is ignored.
RequestStopping(r) ==
  /\ request[r] = "stopping"
  /\ copy' = [copy EXCEPT ![r].status = "stopping"]
  /\ UpdateSession(copy'[r])
  /\ \E next \in {"order", "kill"} : request' = [request EXCEPT ![r] = next]
  /\ UNCHANGED <<launch, launchCopy, outside, reaper, crashes, launched, quiet>>

RequestOrder(r) ==
  /\ request[r] = "order"
  /\ QueueCommand("stop")
  /\ request' = [request EXCEPT ![r] = "ordered"]
  /\ UNCHANGED <<row, launch, launchCopy, copy, tmux, reaper, crashes, launched, quiet>>

\* kill-session, by the name in the copy; errors are only logged.
RequestKill(r) ==
  /\ request[r] = "kill"
  /\ tmux' \in IF copy[r].named THEN {tmux, FALSE} ELSE {tmux}
  /\ request' = [request EXCEPT ![r] = "killed"]
  /\ UNCHANGED <<row, launch, launchCopy, copy, commands, reaper, crashes, launched, quiet>>

\* What follows StopSession in its handler.
AfterStop(r) == IF r \in Deletes THEN "delete" ELSE "done"

\* If the row is gone meanwhile the agent path falls back to SSH, the SSH
\* path fails.
RequestStopped(r) ==
  /\ request[r] \in {"ordered", "killed"}
  /\ UpdateSession([copy[r] EXCEPT !.status = "stopped"])
  /\ request' = [request EXCEPT ![r] =
       IF row = NoRow /\ request[r] = "ordered" /\ HasSSH THEN "kill"
       ELSE IF row = NoRow /\ r \in Stops THEN "error" ELSE AfterStop(r)]
  /\ copy' = IF request'[r] = "kill" THEN copy ELSE [copy EXCEPT ![r] = NoRow]
  /\ UNCHANGED <<launch, launchCopy, outside, reaper, crashes, launched, quiet>>

RequestDelete(r) ==
  /\ request[r] = "delete"
  /\ row'     = NoRow
  /\ request' = [request EXCEPT ![r] = "deleted"]
  /\ UNCHANGED <<launch, launchCopy, copy, outside, reaper, crashes, launched, quiet>>
-----------------------------------------------------------------------------
(* The agent's results: handleAgentCommandResult. *)

\* (mutant) every positive result counts as a launched session
ResultReadUnguarded(i) ==
  /\ commands[i].result = "waiting"
  /\ \E ok \in BOOLEAN :
       commands' = [commands EXCEPT ![i] =
         IF row = NoRow THEN [@ EXCEPT !.result = "dropped"]
         ELSE [@ EXCEPT !.result = IF ok THEN "running" ELSE "failed", !.sess = row]]
  /\ UNCHANGED <<row, goroutines, tmux, reaper, crashes, launched, quiet>>

\* The row is read; a success matters only to a row that is still pending.
ResultRead(i) ==
  /\ commands[i].result = "waiting"
  /\ \E ok \in BOOLEAN :
       commands' = [commands EXCEPT ![i] =
         IF row = NoRow \/ (ok /\ row.status # "pending") THEN [@ EXCEPT !.result = "dropped"]
         ELSE [@ EXCEPT !.result = IF ok THEN "running" ELSE "failed", !.sess = row]]
  /\ UNCHANGED <<row, goroutines, tmux, reaper, crashes, launched, quiet>>

ResultWrite(i) ==
  /\ commands[i].result \in {"running", "failed"}
  /\ UpdateSession([commands[i].sess EXCEPT !.status = commands[i].result])
  /\ commands' = [commands EXCEPT ![i] =
       [commands[i] EXCEPT !.result = IF @ = "failed" THEN "shown" ELSE "dropped",
                           !.sess   = NoRow]]
  /\ UNCHANGED <<goroutines, tmux, reaper, crashes, launched, quiet>>

(***************************************************************************)
(* The check for stuck sessions, every minute.  Its query names columns    *)
(* that no migration creates, so it always fails; had it succeeded, the    *)
(* row would be "failed".                                                  *)
(***************************************************************************)
FindStuckColumns == {"env_vars", "mcp_servers", "plugins", "allowed_tools", "extra_flags"}
SessionColumns   == {"env_vars_json", "mcp_servers_json", "plugins_json",
                     "allowed_tools_json", "extra_flags_json"}

Reap ==
  /\ row # NoRow
  /\ row.status \in {"pending", "starting"}
  /\ IF FindStuckColumns \subseteq SessionColumns
     THEN row' = [row EXCEPT !.status = "failed"] /\ UNCHANGED reaper
     ELSE reaper' = "error finding stuck sessions" /\ UNCHANGED row
  /\ UNCHANGED <<goroutines, outside, crashes, launched, quiet>>
-----------------------------------------------------------------------------
\* swoopsd dies: its goroutines and its handlers end where they are.  Results
\* the agent has still to post may come later; a command it had not fetched
\* yet is lost and has none.
Crash ==
  /\ crashes < MaxCrashes
  /\ crashes' = crashes + 1
  /\ launch'  = IF launch \in {"none", "done"} THEN launch ELSE "dead"
  /\ request' = [r \in Requests |->
       IF request[r] \in {"stopping", "order", "ordered", "kill", "killed", "delete"}
       THEN "dead" ELSE request[r]]
  /\ \E lost \in SUBSET {i \in DOMAIN commands : commands[i].result = "waiting"} :
       commands' = [i \in DOMAIN commands |->
         IF i \in lost \/ commands[i].result \in {"running", "failed"}
         THEN [commands[i] EXCEPT !.result = "dropped", !.sess = NoRow] ELSE commands[i]]
  /\ launchCopy' = NoRow
  /\ copy'       = [r \in Requests |-> NoRow]
  /\ reaper'     = "quiet"
  /\ UNCHANGED <<row, tmux, launched, quiet>>

Launch == LaunchRead \/ LaunchStarting \/ LaunchQueue \/ LaunchSSH \/ LaunchKeys \/ LaunchEnd

Stop(r) == \/ RequestStopping(r) \/ RequestOrder(r) \/ RequestKill(r)
           \/ RequestStopped(r) \/ RequestDelete(r)

Result == \E i \in DOMAIN commands : ResultRead(i) \/ ResultWrite(i)

Next ==
  \/ Create
  \/ Launch
  \/ \E r \in Requests : RequestRead(r) \/ Stop(r)
  \/ Result
  \/ Reap
  \/ Crash

Spec == Init /\ [][Next]_vars
-----------------------------------------------------------------------------
LaunchStages  == {"none", "read", "starting", "queue", "ssh", "keys", "running",
                  "fail", "done", "dead"}
RequestStages == {"idle", "refused", "stopping", "order", "ordered", "kill",
                  "killed", "delete", "deleted", "done", "error", "dead"}

TypeOK ==
  /\ row        \in Row \union {NoRow}
  /\ launch     \in LaunchStages
  /\ launchCopy \in Row \union {NoRow}
  /\ request    \in [Requests -> RequestStages]
  /\ copy       \in [Requests -> Row \union {NoRow}]
  /\ commands   \in Seq(Command)
  /\ tmux       \in BOOLEAN
  /\ reaper     \in {"quiet", "error finding stuck sessions"}
  /\ crashes    \in Nat
  /\ launched   \in BOOLEAN
  /\ quiet      \subseteq Requests

(***************************************************************************)
(* Every writer puts a whole stale copy back, so any of them could bring a *)
(* session back to life.  Only the session's own launch goroutine does, by *)
(* its two writes, and not even that one revives a deleted row.            *)
(***************************************************************************)
OnlyLaunchRevives ==
  [][launch # "none" /\ ~Active(row) /\ Active(row')
       => /\ row # NoRow
          /\ launch \in {"starting", "running"}
          /\ launch' # launch]_vars

(***************************************************************************)
(* A stop request that found the session active, with the launch over, and *)
(* was answered with success leaves the session inactive for good, also    *)
(* while other requests, late results and restarts of swoopsd go on.       *)
(***************************************************************************)
StopSticks ==
  \A r \in quiet \intersect Stops : request[r] = "done" => ~Active(row)

\* A session is shown as running only if its launch was handed to the agent
\* or carried out over SSH: no result of a stop, and no restart, can make it so.
RunningWasLaunched ==
  row # NoRow /\ row.status = "running" => launched
=============================================================================

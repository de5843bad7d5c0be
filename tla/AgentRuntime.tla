----------------------------- MODULE AgentRuntime -----------------------------
(***************************************************************************)
(* The agent daemon as it executes commands                                *)
(* (agent/cmd/swoops-agent/main.go: agentRuntime).                         *)
(*                                                                         *)
(* Every fetched command runs in a goroutine of its own (a job).  Jobs     *)
(* share the map sessions, under a.mu, and the host: its tmux sessions and *)
(* its git worktrees, which outlive the daemon.  A launch makes a worktree *)
(* and a tmux session in separate steps and enters the map only at the     *)
(* end; a stop removes whatever it finds in the map at its beginning.      *)
(*                                                                         *)
(* The runtime record a launch enters in the map, with its stopPoll        *)
(* channel and its poller goroutine, is identified with the launch job.    *)
(***************************************************************************)
EXTENDS Naturals

CONSTANTS
  Launches, Stops, Inputs,  \* the jobs, by command
  Sessions,                 \* session IDs
  UsesWorktree,             \* those that get a git worktree (the others: shell, or
                            \* a working directory of their own)
  TmuxName,                 \* tmuxName: session -> name; may collide
  WorktreePath,             \* session -> path; may collide
  ToolsFail,                \* whether git and tmux may fail for reasons of their own
  MaxRestarts,              \* how often the daemon restarts
  NoJob, NoSession

Jobs  == Launches \union Stops \union Inputs
Names == {TmuxName[s] : s \in Sessions}
Paths == {WorktreePath[s] : s \in Sessions}

ASSUME JobsAssumption ==
  /\ Launches \intersect Stops = {}
  /\ Launches \intersect Inputs = {}
  /\ Stops \intersect Inputs = {}
  /\ NoJob \notin Jobs
  /\ NoSession \notin Sessions
  /\ UsesWorktree \subseteq Sessions
  /\ TmuxName \in [Sessions -> Names]
  /\ WorktreePath \in [Sessions -> Paths]
  /\ MaxRestarts \in Nat

VARIABLES
  pc,         \* where each job is
  session,    \* the session of its command
  sessions,   \* a.sessions: session -> the launch registered, or NoJob
  closes,     \* how often each launch's stopPoll was closed
  poller,     \* each launch's pollOutput goroutine: none, running, ended
  held,       \* the entry each stop took out of the map
  tmux,       \* host: name -> the launch that created that tmux session
  worktrees,  \* host: path -> the launch that created that worktree
  restarts,
  \* history
  spoiled,    \* jobs one of whose clean-up commands failed
  forgotten,  \* launches whose registration ended with the daemon
  earlier,    \* launches of its session that had started when a stop started
  settled     \* those of them that had been carried out by then

runtime == <<sessions, closes, poller>>
host    == <<tmux, worktrees>>
history == <<spoiled, forgotten, earlier, settled>>
vars    == <<pc, session, runtime, held, host, restarts, history>>

Running  == {"worktree", "tmux", "keys", "undo", "remove", "register", "report",
             "kill", "discard", "send"}
Finished == {"launched", "failed", "stopped", "sent"}

Name(j) == TmuxName[session[j]]
Path(j) == WorktreePath[session[j]]

Init ==
  /\ pc        = [j \in Jobs |-> "idle"]
  /\ session   = [j \in Jobs |-> NoSession]
  /\ sessions  = [s \in Sessions |-> NoJob]
  /\ closes    = [l \in Launches |-> 0]
  /\ poller    = [l \in Launches |-> "none"]
  /\ held      = [j \in Stops |-> NoJob]
  /\ tmux      = [n \in Names |-> NoJob]
  /\ worktrees = [p \in Paths |-> NoJob]
  /\ restarts  = 0
  /\ spoiled   = {}
  /\ forgotten = {}
  /\ earlier   = [j \in Stops |-> {}]
  /\ settled   = [j \in Stops |-> {}]

Goto(j, step) == pc' = [pc EXCEPT ![j] = step]

\* Closing the stopPoll of an entry; there may be none.
ClosePoll(l) == closes' = IF l = NoJob THEN closes ELSE [closes EXCEPT ![l] = @ + 1]

\* A clean-up command does its work, or fails and is only logged.
CleanTmux(j) ==
  \/ /\ tmux' = [tmux EXCEPT ![Name(j)] = NoJob]
     /\ UNCHANGED spoiled
  \/ /\ ToolsFail
     /\ spoiled' = spoiled \union {j}
     /\ UNCHANGED tmux

CleanWorktree(j) ==
  \/ /\ worktrees' = [worktrees EXCEPT ![Path(j)] = NoJob]
     /\ UNCHANGED spoiled
  \/ /\ ToolsFail
     /\ spoiled' = spoiled \union {j}
     /\ UNCHANGED worktrees
-----------------------------------------------------------------------------
(* handleLaunch. *)

StartLaunch(j, s) ==
  /\ pc[j] = "idle"
  /\ session' = [session EXCEPT ![j] = s]
  /\ Goto(j, IF s \in UsesWorktree THEN "worktree" ELSE "tmux")
  /\ UNCHANGED <<runtime, held, host, restarts, history>>

\* Missing arguments, mkdir and git worktree add: fails if the path is taken.
CreateWorktree(j) ==
  /\ pc[j] = "worktree"
  /\ \/ /\ worktrees[Path(j)] = NoJob
        /\ worktrees' = [worktrees EXCEPT ![Path(j)] = j]
        /\ Goto(j, "tmux")
     \/ /\ worktrees[Path(j)] # NoJob \/ ToolsFail
        /\ Goto(j, "failed")
        /\ UNCHANGED worktrees
  /\ UNCHANGED <<session, runtime, held, tmux, restarts, history>>

\* tmux new-session fails if the name is taken.
CreateTmux(j) ==
  /\ pc[j] = "tmux"
  /\ \/ /\ tmux[Name(j)] = NoJob
        /\ tmux' = [tmux EXCEPT ![Name(j)] = j]
        /\ Goto(j, "keys")
     \/ /\ tmux[Name(j)] # NoJob \/ ToolsFail
        /\ Goto(j, IF session[j] \in UsesWorktree THEN "remove" ELSE "failed")
        /\ UNCHANGED tmux
  /\ UNCHANGED <<session, runtime, held, worktrees, restarts, history>>

\* (mutant) a failed send-keys only removes the worktree
SendAgentCommandKeepingTmux(j) ==
  /\ pc[j] = "keys"
  /\ \/ (tmux[Name(j)] # NoJob \/ session[j] \notin UsesWorktree) /\ Goto(j, "register")
     \/ /\ tmux[Name(j)] = NoJob \/ ToolsFail
        /\ Goto(j, IF session[j] \in UsesWorktree THEN "remove" ELSE "failed")
  /\ UNCHANGED <<session, runtime, held, host, restarts, history>>

\* The agent's command line, or the prompt of a shell, is typed into the tmux session
\* of that name; for a shell without a prompt there is nothing to type.
SendAgentCommand(j) ==
  /\ pc[j] = "keys"
  /\ \/ (tmux[Name(j)] # NoJob \/ session[j] \notin UsesWorktree) /\ Goto(j, "register")
     \/ (tmux[Name(j)] = NoJob \/ ToolsFail) /\ Goto(j, "undo")
  /\ UNCHANGED <<session, runtime, held, host, restarts, history>>

UndoTmux(j) ==
  /\ pc[j] = "undo"
  /\ CleanTmux(j)
  /\ Goto(j, IF session[j] \in UsesWorktree THEN "remove" ELSE "failed")
  /\ UNCHANGED <<session, runtime, held, worktrees, restarts, forgotten, earlier, settled>>

UndoWorktree(j) ==
  /\ pc[j] = "remove"
  /\ CleanWorktree(j)
  /\ Goto(j, "failed")
  /\ UNCHANGED <<session, runtime, held, tmux, restarts, forgotten, earlier, settled>>

\* Under the lock: stop a prior poller of the session, take its place.
Register(j) ==
  /\ pc[j] = "register"
  /\ ClosePoll(sessions[session[j]])
  /\ sessions' = [sessions EXCEPT ![session[j]] = j]
  /\ poller'   = [poller EXCEPT ![j] = "running"]
  /\ Goto(j, "report")
  /\ UNCHANGED <<session, held, host, restarts, history>>

\* The greeting is posted.  If that fails the launch is reported as failed
\* although it is registered and runs on.
Report(j) ==
  /\ pc[j] = "report"
  /\ Goto(j, "launched")
  /\ UNCHANGED <<session, runtime, held, host, restarts, history>>
-----------------------------------------------------------------------------
(* handleStop. *)

LaunchesOf(s) == {l \in Launches : session[l] = s /\ pc[l] # "idle"}

\* (mutant) the entry stays in the map
StartStopKeeping(j, s) ==
  /\ pc[j] = "idle"
  /\ session' = [session EXCEPT ![j] = s]
  /\ held'    = [held EXCEPT ![j] = sessions[s]]
  /\ ClosePoll(sessions[s])
  /\ earlier' = [earlier EXCEPT ![j] = LaunchesOf(s)]
  /\ settled' = [settled EXCEPT ![j] = {l \in LaunchesOf(s) : pc[l] = "launched"}]
  /\ Goto(j, "kill")
  /\ UNCHANGED <<sessions, poller, host, restarts, spoiled, forgotten>>

\* Under the lock: take the entry out of the map and stop its poller.
StartStop(j, s) ==
  /\ pc[j] = "idle"
  /\ session'  = [session EXCEPT ![j] = s]
  /\ held'     = [held EXCEPT ![j] = sessions[s]]
  /\ sessions' = [sessions EXCEPT ![s] = NoJob]
  /\ ClosePoll(sessions[s])
  /\ earlier'  = [earlier EXCEPT ![j] = LaunchesOf(s)]
  /\ settled'  = [settled EXCEPT ![j] = {l \in LaunchesOf(s) : pc[l] = "launched"}]
  /\ Goto(j, "kill")
  /\ UNCHANGED <<poller, host, restarts, spoiled, forgotten>>

\* (mutant) without an entry there is nothing to kill
KillHeldTmux(j) ==
  /\ pc[j] = "kill"
  /\ IF held[j] = NoJob THEN UNCHANGED <<tmux, spoiled>> ELSE CleanTmux(j)
  /\ Goto(j, IF held[j] # NoJob /\ session[j] \in UsesWorktree THEN "discard" ELSE "stopped")
  /\ UNCHANGED <<session, runtime, held, worktrees, restarts, forgotten, earlier, settled>>

\* The name follows from the session ID, with or without an entry; the
\* worktree is known only from the entry.
KillTmux(j) ==
  /\ pc[j] = "kill"
  /\ CleanTmux(j)
  /\ Goto(j, IF held[j] # NoJob /\ session[j] \in UsesWorktree THEN "discard" ELSE "stopped")
  /\ UNCHANGED <<session, runtime, held, worktrees, restarts, forgotten, earlier, settled>>

DiscardWorktree(j) ==
  /\ pc[j] = "discard"
  /\ CleanWorktree(j)
  /\ Goto(j, "stopped")
  /\ UNCHANGED <<session, runtime, held, tmux, restarts, forgotten, earlier, settled>>
-----------------------------------------------------------------------------
(* handleInput. *)

StartInput(j, s) ==
  /\ pc[j] = "idle"
  /\ session' = [session EXCEPT ![j] = s]
  /\ Goto(j, "send")
  /\ UNCHANGED <<runtime, held, host, restarts, history>>

SendInput(j) ==
  /\ pc[j] = "send"
  /\ \/ tmux[Name(j)] # NoJob /\ Goto(j, "sent")
     \/ (tmux[Name(j)] = NoJob \/ ToolsFail) /\ Goto(j, "failed")
  /\ UNCHANGED <<session, runtime, held, host, restarts, history>>
-----------------------------------------------------------------------------
\* pollOutput sees its channel closed at the latest at its next round.
PollerStops(l) ==
  /\ poller[l] = "running"
  /\ closes[l] > 0
  /\ poller' = [poller EXCEPT ![l] = "ended"]
  /\ UNCHANGED <<pc, session, sessions, closes, held, host, restarts, history>>

\* Someone exits the shell in the tmux session.
TmuxEnds(n) ==
  /\ tmux[n] # NoJob
  /\ tmux' = [tmux EXCEPT ![n] = NoJob]
  /\ UNCHANGED <<pc, session, runtime, held, worktrees, restarts, history>>

\* (mutant) sessions without an entry are not skipped
RegisteredOrNot == {sessions[s] : s \in Sessions}

Registered == {sessions[s] : s \in Sessions} \ {NoJob}

\* agentRuntime.close, when the daemon is told to end: jobs may go on for a
\* moment and find an empty map.
Close ==
  /\ Registered # {}
  /\ closes'    = [l \in Launches |-> IF l \in Registered THEN closes[l] + 1 ELSE closes[l]]
  /\ sessions'  = [s \in Sessions |-> NoJob]
  /\ forgotten' = forgotten \union Registered
  /\ UNCHANGED <<pc, session, poller, held, host, restarts, spoiled, earlier, settled>>

\* The daemon ends wherever its goroutines are, and starts again with an
\* empty map; the tmux sessions and worktrees of the host stay.
Restart ==
  /\ restarts < MaxRestarts
  /\ restarts'  = restarts + 1
  /\ pc'        = [j \in Jobs |-> IF pc[j] \in Running THEN "dead" ELSE pc[j]]
  /\ sessions'  = [s \in Sessions |-> NoJob]
  /\ poller'    = [l \in Launches |-> IF poller[l] = "running" THEN "ended" ELSE poller[l]]
  /\ forgotten' = forgotten \union Registered
  /\ UNCHANGED <<session, closes, held, host, spoiled, earlier, settled>>

LaunchStep(j) ==
  \/ CreateWorktree(j) \/ CreateTmux(j) \/ SendAgentCommand(j)
  \/ UndoTmux(j) \/ UndoWorktree(j) \/ Register(j) \/ Report(j)

Next ==
  \/ \E j \in Launches : LaunchStep(j) \/ PollerStops(j) \/ \E s \in Sessions : StartLaunch(j, s)
  \/ \E j \in Stops : KillTmux(j) \/ DiscardWorktree(j) \/ \E s \in Sessions : StartStop(j, s)
  \/ \E j \in Inputs : SendInput(j) \/ \E s \in Sessions : StartInput(j, s)
  \/ \E n \in Names : TmuxEnds(n)
  \/ Close
  \/ Restart

Spec == Init /\ [][Next]_vars
-----------------------------------------------------------------------------
TypeOK ==
  /\ pc        \in [Jobs -> {"idle", "dead"} \union Running \union Finished]
  /\ session   \in [Jobs -> Sessions \union {NoSession}]
  /\ sessions  \in [Sessions -> Launches \union {NoJob}]
  /\ closes    \in [Launches -> Nat]
  /\ poller    \in [Launches -> {"none", "running", "ended"}]
  /\ held      \in [Stops -> Launches \union {NoJob}]
  /\ tmux      \in [Names -> Launches \union {NoJob}]
  /\ worktrees \in [Paths -> Launches \union {NoJob}]
  /\ restarts  \in Nat
  /\ spoiled   \subseteq Jobs
  /\ forgotten \subseteq Launches
  /\ earlier   \in [Stops -> SUBSET Launches]
  /\ settled   \in [Stops -> SUBSET Launches]

(* Every poller is told to stop, and once.  Three places close a stopPoll: a
   relaunch, a stop and the shutdown; closing a channel twice panics and ends
   the daemon.  And a poller that nobody has told to stop belongs to the
   registered launch of its session, so that one of the three will find it. *)
PollersStoppedOnce ==
  \A l \in Launches :
    /\ closes[l] <= 1
    /\ poller[l] = "running" /\ closes[l] = 0 => sessions[session[l]] = l

(* A launch that fails half-way leaves neither its tmux session nor its
   worktree behind, whatever its competitors did in between. *)
FailedLaunchCleansUp ==
  \A l \in Launches : pc[l] = "failed" /\ l \notin spoiled =>
    /\ \A n \in Names : tmux[n] # l
    /\ \A p \in Paths : worktrees[p] # l

(* A stop that starts after a launch has finished ends its tmux session,
   even if the daemon was restarted in between: the name follows from the
   session ID alone.  It removes the worktree too, unless the daemon forgot the
   launch; when stops of one session overlap, the last one to finish has seen
   to it. *)
StopEndsSession ==
  \A j \in Stops :
    /\ pc[j] = "stopped" /\ j \notin spoiled =>
         \A l \in settled[j], n \in Names : tmux[n] # l
    /\ (\A i \in Stops : session[i] = session[j] => pc[i] = "stopped" /\ i \notin spoiled)
         => \A l \in settled[j] \ forgotten, p \in Paths : worktrees[p] # l

(* What README.md:265 promises of a stop ("kills the tmux session"): when a launch and a
   stop that was issued after it have both been carried out, its tmux session is gone. *)
StoppedMeansGone ==
  \A j \in Stops : pc[j] = "stopped" =>
    \A l \in earlier[j] : pc[l] = "launched" => \A n \in Names : tmux[n] # l
=============================================================================

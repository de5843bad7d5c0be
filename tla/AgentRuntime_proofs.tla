-------------------------- MODULE AgentRuntime_proofs --------------------------
(***************************************************************************)
(* Proofs about AgentRuntime, for any jobs, sessions, names and paths:     *)
(* every poller is stopped once, a failed launch cleans up after itself,   *)
(* and a stop ends what had been launched.                                 *)
(*                                                                         *)
(* What carries them is who owns what.  A name or a path belongs to the    *)
(* launch that took it for as long as that launch works with it, although  *)
(* clean-up goes by name and path alone: whoever removes a worktree is     *)
(* working with it (WorktreeKept).                                         *)
(*                                                                         *)
(* The second half is about AgentUpdate, the agent's replacement of its    *)
(* own binary: when it can be missing and which way versions go.           *)
(***************************************************************************)
EXTENDS AgentRuntime, AgentUpdate, TLAPS

\* Where a launch is once it has made its tmux session, and its worktree.
AfterTmux     == {"keys", "undo", "remove", "register", "report", "launched", "failed", "dead"}
AfterWorktree == AfterTmux \union {"tmux"}
Building      == {"tmux", "keys", "undo", "remove", "register"}
Served        == {"report", "launched", "dead"}

\* A job that has started has a session, which uses a worktree if it makes or removes one.
Started ==
  \A j \in Jobs : /\ pc[j] # "idle" => session[j] \in Sessions
                  /\ pc[j] \in {"worktree", "remove"} => session[j] \in UsesWorktree

\* A tmux session that is left belongs to a launch of that name that did not have to
\* remove it, or failed to.
TmuxOwned ==
  \A n \in Names, l \in Launches : tmux[n] = l =>
    /\ n = Name(l) /\ pc[l] \in AfterTmux
    /\ pc[l] \in {"remove", "failed"} => l \in spoiled

WorktreeOwned ==
  \A p \in Paths, l \in Launches : worktrees[p] = l =>
    /\ session[l] \in UsesWorktree
    /\ p = Path(l) /\ pc[l] \in AfterWorktree
    /\ pc[l] = "failed" => l \in spoiled

\* A registered launch has not been stopped.
MapHolds ==
  \A s \in Sessions, l \in Launches : sessions[s] = l =>
    session[l] = s /\ closes[l] = 0 /\ pc[l] \in {"report", "launched"}

\* A poller is started and stopped by a launch that was registered.
Polled ==
  \A l \in Launches :
    /\ closes[l] # 0 \/ poller[l] # "none" => pc[l] \in Served
    /\ closes[l] <= 1
    /\ poller[l] = "running" /\ closes[l] = 0 => sessions[session[l]] = l

\* A launch is taken out of the map by one stop, which is one of its session.
HeldOnce ==
  \A j \in Stops :
    /\ pc[j] = "discard" => held[j] # NoJob /\ session[j] \in UsesWorktree
    /\ pc[j] = "idle" => held[j] = NoJob
    /\ held[j] # NoJob =>
         /\ session[held[j]] = session[j] /\ closes[held[j]] # 0
         /\ \A i \in Stops : held[i] = held[j] => i = j

\* Launches that work with their worktree: on their way, registered, or being stopped.
Working(l) ==
  \/ pc[l] \in Building
  \/ sessions[session[l]] = l
  \/ \E j \in Stops : held[j] = l /\ pc[j] \in {"kill", "discard"}

\* What a launch works with is its own: nobody else has removed or replaced it.
WorktreeKept ==
  \A l \in Launches : session[l] \in UsesWorktree /\ Working(l) => worktrees[Path(l)] = l

\* A worktree that is left is registered, or the stop that holds it is not done, has
\* died, or failed to remove it; unless the daemon forgot it.
CaredFor ==
  \A p \in Paths, l \in Launches :
    worktrees[p] = l /\ pc[l] \in {"report", "launched"} /\ l \notin forgotten =>
      \/ sessions[session[l]] = l
      \/ \E j \in Stops : held[j] = l /\ (pc[j] \in {"kill", "discard", "dead"} \/ j \in spoiled)

\* A launch that had been carried out when a stop started is never registered again.
SettledOut ==
  \A j \in Stops : \A l \in settled[j] :
    /\ pc[j] # "idle" /\ pc[l] = "launched"
    /\ session[l] = session[j] /\ sessions[session[l]] # l

\* A stop has ended the tmux sessions of these launches once it has killed theirs.
Killed ==
  \A j \in Stops : pc[j] \in {"discard", "stopped"} /\ j \notin spoiled =>
    \A l \in settled[j], n \in Names : tmux[n] # l

IInv == /\ TypeOK /\ Started /\ MapHolds /\ Polled /\ HeldOnce
        /\ TmuxOwned /\ WorktreeOwned /\ WorktreeKept /\ CaredFor
        /\ SettledOut /\ Killed
-----------------------------------------------------------------------------
LEMMA Apart ==
  /\ \A l \in Launches : l \notin Stops /\ l \notin Inputs /\ l # NoJob
  /\ \A j \in Stops : j \notin Inputs /\ j # NoJob
  /\ Launches \subseteq Jobs /\ Stops \subseteq Jobs /\ Inputs \subseteq Jobs
  BY JobsAssumption DEF Jobs

(* Every session has a name and a path. *)
LEMMA Located ==
  ASSUME NEW s \in Sessions
  PROVE  TmuxName[s] \in Names /\ WorktreePath[s] \in Paths
  BY DEF Names, Paths

LEMMA InitIInv == Init => IInv
<1> SUFFICES ASSUME Init PROVE IInv
  OBVIOUS
<1> USE Apart DEF Init
<1>1. TypeOK /\ Started
  BY JobsAssumption DEF TypeOK, Started
<1>2. MapHolds /\ Polled /\ HeldOnce
  BY DEF MapHolds, Polled, HeldOnce
<1>3. TmuxOwned /\ WorktreeOwned /\ CaredFor
  BY DEF TmuxOwned, WorktreeOwned, CaredFor
<1>4. WorktreeKept
  BY JobsAssumption DEF WorktreeKept, Working, Building
<1>5. SettledOut /\ Killed
  BY DEF SettledOut, Killed
<1> QED BY <1>1, <1>2, <1>3, <1>4, <1>5 DEF IInv
-----------------------------------------------------------------------------
(* Types, and that a job that has started has a session. *)
LEMMA TypeStep == TypeOK /\ Started /\ [Next]_vars => TypeOK' /\ Started'
<1> SUFFICES ASSUME TypeOK, Started, [Next]_vars PROVE TypeOK' /\ Started'
  OBVIOUS
<1> USE Apart, JobsAssumption
    DEF TypeOK, Started, Goto, runtime, host, history, Running, Finished, Name, Path
<1>1. ASSUME NEW j \in Launches, NEW s \in Sessions, StartLaunch(j, s)
      PROVE  TypeOK' /\ Started'
  BY <1>1 DEF StartLaunch
<1>2. ASSUME NEW j \in Launches, CreateWorktree(j) PROVE TypeOK' /\ Started'
  BY <1>2 DEF CreateWorktree
<1>3. ASSUME NEW j \in Launches, CreateTmux(j) PROVE TypeOK' /\ Started'
  BY <1>3 DEF CreateTmux
<1>4. ASSUME NEW j \in Launches, SendAgentCommand(j) PROVE TypeOK' /\ Started'
  BY <1>4 DEF SendAgentCommand
<1>5. ASSUME NEW j \in Launches, UndoTmux(j) PROVE TypeOK' /\ Started'
  BY <1>5 DEF UndoTmux, CleanTmux
<1>6. ASSUME NEW j \in Launches, UndoWorktree(j) PROVE TypeOK' /\ Started'
  BY <1>6 DEF UndoWorktree, CleanWorktree
<1>7. ASSUME NEW j \in Launches, Register(j) PROVE TypeOK' /\ Started'
  BY <1>7 DEF Register, ClosePoll
<1>8. ASSUME NEW j \in Launches, Report(j) \/ PollerStops(j) PROVE TypeOK' /\ Started'
  BY <1>8 DEF Report, PollerStops
<1>9. ASSUME NEW j \in Stops, NEW s \in Sessions, StartStop(j, s)
      PROVE  TypeOK' /\ Started'
  BY <1>9 DEF StartStop, ClosePoll, LaunchesOf
<1>10. ASSUME NEW j \in Stops, KillTmux(j) PROVE TypeOK' /\ Started'
  BY <1>10 DEF KillTmux, CleanTmux
<1>11. ASSUME NEW j \in Stops, DiscardWorktree(j) PROVE TypeOK' /\ Started'
  BY <1>11 DEF DiscardWorktree, CleanWorktree
<1>12. ASSUME NEW j \in Inputs, NEW s \in Sessions, StartInput(j, s)
       PROVE  TypeOK' /\ Started'
  BY <1>12 DEF StartInput
<1>13. ASSUME NEW j \in Inputs, SendInput(j) PROVE TypeOK' /\ Started'
  BY <1>13 DEF SendInput
<1>14. ASSUME NEW n \in Names, TmuxEnds(n) PROVE TypeOK' /\ Started'
  BY <1>14 DEF TmuxEnds
<1>15. CASE Close
  BY <1>15 DEF Close, Registered
<1>16. CASE Restart
  BY <1>16 DEF Restart, Registered
<1>17. CASE UNCHANGED vars
  BY <1>17 DEF vars
<1> QED
  BY <1>1, <1>2, <1>3, <1>4, <1>5, <1>6, <1>7, <1>8, <1>9, <1>10, <1>11, <1>12, <1>13,
     <1>14, <1>15, <1>16, <1>17 DEF Next, LaunchStep
-----------------------------------------------------------------------------
(* The map, its channels and the stops that empty it. *)
LEMMA MapStep ==
  TypeOK /\ Started /\ MapHolds /\ Polled /\ HeldOnce /\ [Next]_vars
    => MapHolds' /\ Polled' /\ HeldOnce'
<1> DEFINE MapInv == MapHolds /\ Polled /\ HeldOnce
<1> SUFFICES ASSUME TypeOK, Started, MapHolds, Polled, HeldOnce, [Next]_vars
             PROVE  MapInv'
  OBVIOUS
<1> USE Apart
    DEF TypeOK, Started, MapHolds, Polled, HeldOnce, Served, Goto, runtime, host, history
<1>1. ASSUME NEW j \in Launches, NEW s \in Sessions, StartLaunch(j, s) PROVE MapInv'
  BY <1>1 DEF StartLaunch
<1>2. ASSUME NEW j \in Launches,
             \/ CreateWorktree(j) \/ CreateTmux(j) \/ SendAgentCommand(j)
             \/ UndoTmux(j) \/ UndoWorktree(j)
      PROVE  MapInv'
  <2>1. /\ pc[j] \notin Served \union {"idle"} /\ \E to : pc' = [pc EXCEPT ![j] = to]
        /\ UNCHANGED <<session, sessions, closes, poller, held>>
    BY <1>2 DEF CreateWorktree, CreateTmux, SendAgentCommand, UndoTmux, UndoWorktree
  <2> QED BY <2>1
<1>3. ASSUME NEW j \in Launches, Register(j) PROVE MapInv'
  BY <1>3 DEF Register, ClosePoll
<1>4. ASSUME NEW j \in Launches, Report(j) \/ PollerStops(j) PROVE MapInv'
  BY <1>4 DEF Report, PollerStops
<1>5. ASSUME NEW j \in Stops, NEW s \in Sessions, StartStop(j, s) PROVE MapInv'
  BY <1>5 DEF StartStop, ClosePoll
<1>6. ASSUME NEW j \in Stops, KillTmux(j) \/ DiscardWorktree(j) PROVE MapInv'
  BY <1>6 DEF KillTmux, DiscardWorktree
<1>7. ASSUME NEW j \in Inputs, SendInput(j) \/ \E s \in Sessions : StartInput(j, s)
      PROVE  MapInv'
  BY <1>7 DEF SendInput, StartInput
<1>8. ASSUME NEW n \in Names, TmuxEnds(n) PROVE MapInv'
  BY <1>8 DEF TmuxEnds
<1>9. CASE Close
  BY <1>9 DEF Close, Registered
<1>10. CASE Restart
  BY <1>10 DEF Restart, Running
<1>11. CASE UNCHANGED vars
  BY <1>11 DEF vars
<1> QED
  BY <1>1, <1>2, <1>3, <1>4, <1>5, <1>6, <1>7, <1>8, <1>9, <1>10, <1>11 DEF Next, LaunchStep
-----------------------------------------------------------------------------
(* Who may be found on the host. *)
LEMMA TmuxStep == TypeOK /\ Started /\ TmuxOwned /\ [Next]_vars => TmuxOwned'
<1> SUFFICES ASSUME TypeOK, Started, TmuxOwned, [Next]_vars PROVE TmuxOwned'
  OBVIOUS
<1> USE Apart, Located
    DEF TypeOK, Started, TmuxOwned, AfterTmux, Name, Goto, runtime, host, history
<1>1. ASSUME NEW j \in Launches, NEW s \in Sessions, StartLaunch(j, s) PROVE TmuxOwned'
  BY <1>1 DEF StartLaunch
<1>2. ASSUME NEW j \in Launches, CreateWorktree(j) PROVE TmuxOwned'
  BY <1>2 DEF CreateWorktree
<1>3. ASSUME NEW j \in Launches, CreateTmux(j) PROVE TmuxOwned'
  BY <1>3 DEF CreateTmux
<1>4. ASSUME NEW j \in Launches, SendAgentCommand(j) PROVE TmuxOwned'
  BY <1>4 DEF SendAgentCommand
<1>5. ASSUME NEW j \in Launches, UndoTmux(j) PROVE TmuxOwned'
  BY <1>5 DEF UndoTmux, CleanTmux
<1>6. ASSUME NEW j \in Launches, UndoWorktree(j) PROVE TmuxOwned'
  BY <1>6 DEF UndoWorktree, CleanWorktree
<1>7. ASSUME NEW j \in Launches, Register(j) \/ Report(j) \/ PollerStops(j)
      PROVE  TmuxOwned'
  BY <1>7 DEF Register, Report, PollerStops
<1>8. ASSUME NEW j \in Stops, NEW s \in Sessions, StartStop(j, s) PROVE TmuxOwned'
  BY <1>8 DEF StartStop
<1>9. ASSUME NEW j \in Stops, KillTmux(j) \/ DiscardWorktree(j) PROVE TmuxOwned'
  BY <1>9 DEF KillTmux, CleanTmux, DiscardWorktree, CleanWorktree
<1>10. ASSUME NEW j \in Inputs, SendInput(j) \/ \E s \in Sessions : StartInput(j, s)
       PROVE  TmuxOwned'
  BY <1>10 DEF SendInput, StartInput
<1>11. ASSUME NEW n \in Names, TmuxEnds(n) PROVE TmuxOwned'
  BY <1>11 DEF TmuxEnds
<1>12. CASE Close
  BY <1>12 DEF Close
<1>13. CASE Restart
  BY <1>13 DEF Restart, Running
<1>14. CASE UNCHANGED vars
  BY <1>14 DEF vars
<1> QED
  BY <1>1, <1>2, <1>3, <1>4, <1>5, <1>6, <1>7, <1>8, <1>9, <1>10, <1>11, <1>12, <1>13,
     <1>14 DEF Next, LaunchStep

LEMMA WorktreeStep == TypeOK /\ Started /\ WorktreeOwned /\ [Next]_vars => WorktreeOwned'
<1> SUFFICES ASSUME TypeOK, Started, WorktreeOwned, [Next]_vars PROVE WorktreeOwned'
  OBVIOUS
<1> USE Apart, Located
    DEF TypeOK, Started, WorktreeOwned, AfterWorktree, AfterTmux, Path, Goto, runtime, host,
        history
<1>1. ASSUME NEW j \in Launches, NEW s \in Sessions, StartLaunch(j, s)
      PROVE  WorktreeOwned'
  BY <1>1 DEF StartLaunch
<1>2. ASSUME NEW j \in Launches, CreateWorktree(j) PROVE WorktreeOwned'
  BY <1>2 DEF CreateWorktree
<1>3. ASSUME NEW j \in Launches, CreateTmux(j) PROVE WorktreeOwned'
  BY <1>3 DEF CreateTmux
<1>4. ASSUME NEW j \in Launches, SendAgentCommand(j) PROVE WorktreeOwned'
  BY <1>4 DEF SendAgentCommand
<1>5. ASSUME NEW j \in Launches, UndoTmux(j) PROVE WorktreeOwned'
  BY <1>5 DEF UndoTmux, CleanTmux
<1>6. ASSUME NEW j \in Launches, UndoWorktree(j) PROVE WorktreeOwned'
  BY <1>6 DEF UndoWorktree, CleanWorktree
<1>7. ASSUME NEW j \in Launches, Register(j) \/ Report(j) \/ PollerStops(j)
      PROVE  WorktreeOwned'
  BY <1>7 DEF Register, Report, PollerStops
<1>8. ASSUME NEW j \in Stops, NEW s \in Sessions, StartStop(j, s) PROVE WorktreeOwned'
  BY <1>8 DEF StartStop
<1>9. ASSUME NEW j \in Stops, KillTmux(j) \/ DiscardWorktree(j) PROVE WorktreeOwned'
  BY <1>9 DEF KillTmux, CleanTmux, DiscardWorktree, CleanWorktree
<1>10. ASSUME NEW j \in Inputs, SendInput(j) \/ \E s \in Sessions : StartInput(j, s)
       PROVE  WorktreeOwned'
  BY <1>10 DEF SendInput, StartInput
<1>11. ASSUME NEW n \in Names, TmuxEnds(n) PROVE WorktreeOwned'
  BY <1>11 DEF TmuxEnds
<1>12. CASE Close
  BY <1>12 DEF Close
<1>13. CASE Restart
  BY <1>13 DEF Restart, Running
<1>14. CASE UNCHANGED vars
  BY <1>14 DEF vars
<1> QED
  BY <1>1, <1>2, <1>3, <1>4, <1>5, <1>6, <1>7, <1>8, <1>9, <1>10, <1>11, <1>12, <1>13,
     <1>14 DEF Next, LaunchStep
-----------------------------------------------------------------------------
(* A launch that works with its worktree is the only one to do so. *)
LEMMA KeptStep ==
  /\ TypeOK /\ Started /\ MapHolds /\ Polled /\ HeldOnce /\ WorktreeOwned /\ WorktreeKept
  /\ [Next]_vars
  => WorktreeKept'
<1> SUFFICES ASSUME TypeOK, Started, MapHolds, Polled, HeldOnce, WorktreeOwned, WorktreeKept,
                    [Next]_vars
             PROVE  WorktreeKept'
  OBVIOUS
<1> USE Apart, Located
    DEF TypeOK, Started, WorktreeKept, Working, Building, Path, Goto, runtime, host, history
<1>1. ASSUME NEW j \in Launches, NEW s \in Sessions, StartLaunch(j, s) PROVE WorktreeKept'
  BY <1>1 DEF StartLaunch, MapHolds, HeldOnce, Polled, Served
<1>2. ASSUME NEW j \in Launches, CreateWorktree(j) PROVE WorktreeKept'
  BY <1>2, JobsAssumption DEF CreateWorktree
<1>3. ASSUME NEW j \in Launches,
             CreateTmux(j) \/ SendAgentCommand(j) \/ UndoTmux(j) \/ Report(j) \/ PollerStops(j)
      PROVE  WorktreeKept'
  BY <1>3 DEF CreateTmux, SendAgentCommand, UndoTmux, Report, PollerStops
<1>4. ASSUME NEW j \in Launches, UndoWorktree(j) PROVE WorktreeKept'
  <2>1. ~(sessions[session[j]] = j) /\ \A i \in Stops : held[i] # j
    BY <1>4 DEF UndoWorktree, MapHolds, HeldOnce, Polled, Served
  <2>2. \A l \in Launches \ {j} :
          session[l] \in UsesWorktree /\ Working(l) => Path(l) # Path(j)
    BY <1>4 DEF UndoWorktree
  <2> QED BY <1>4, <2>1, <2>2, JobsAssumption DEF UndoWorktree, CleanWorktree
<1>5. ASSUME NEW j \in Launches, Register(j) PROVE WorktreeKept'
  BY <1>5 DEF Register
<1>6. ASSUME NEW j \in Stops, NEW s \in Sessions, StartStop(j, s) PROVE WorktreeKept'
  BY <1>6 DEF StartStop, MapHolds
<1>7. ASSUME NEW j \in Stops, KillTmux(j) PROVE WorktreeKept'
  BY <1>7 DEF KillTmux
<1>8. ASSUME NEW j \in Stops, DiscardWorktree(j) PROVE WorktreeKept'
  <2> DEFINE l == held[j]
  <2>1. /\ l \in Launches /\ session[l] = session[j] /\ session[j] \in UsesWorktree
        /\ pc[l] \in Served /\ sessions[session[l]] # l
        /\ \A i \in Stops : held[i] = l => i = j
    BY <1>8 DEF DiscardWorktree, MapHolds, HeldOnce, Polled
  <2>2. worktrees[Path(l)] = l
    BY <1>8, <2>1 DEF DiscardWorktree
  <2>3. \A k \in Launches \ {l} :
          session[k] \in UsesWorktree /\ Working(k) => Path(k) # Path(j)
    BY <2>1, <2>2
  <2> QED BY <1>8, <2>1, <2>3, JobsAssumption DEF DiscardWorktree, CleanWorktree, Served
<1>9. ASSUME NEW j \in Inputs, SendInput(j) \/ \E s \in Sessions : StartInput(j, s)
      PROVE  WorktreeKept'
  BY <1>9 DEF SendInput, StartInput
<1>10. ASSUME NEW n \in Names, TmuxEnds(n) PROVE WorktreeKept'
  BY <1>10 DEF TmuxEnds
<1>11. CASE Close
  BY <1>11, JobsAssumption DEF Close
<1>12. CASE Restart
  BY <1>12, JobsAssumption DEF Restart, Running
<1>13. CASE UNCHANGED vars
  BY <1>13 DEF vars
<1> QED
  BY <1>1, <1>2, <1>3, <1>4, <1>5, <1>6, <1>7, <1>8, <1>9, <1>10, <1>11, <1>12,
     <1>13 DEF Next, LaunchStep

(* Somebody sees to every worktree that is left. *)
LEMMA CaredStep ==
  /\ TypeOK /\ Started /\ MapHolds /\ HeldOnce /\ WorktreeOwned /\ WorktreeKept /\ CaredFor
  /\ [Next]_vars
  => CaredFor'
<1> SUFFICES ASSUME TypeOK, Started, MapHolds, HeldOnce, WorktreeOwned, WorktreeKept, CaredFor,
                    [Next]_vars
             PROVE  CaredFor'
  OBVIOUS
<1> USE Apart, Located DEF TypeOK, Started, CaredFor, Path, Goto, runtime, host, history
<1>1. ASSUME NEW j \in Launches, NEW s \in Sessions, StartLaunch(j, s) PROVE CaredFor'
  BY <1>1 DEF StartLaunch
<1>2. ASSUME NEW j \in Launches, CreateWorktree(j) PROVE CaredFor'
  BY <1>2 DEF CreateWorktree
<1>3. ASSUME NEW j \in Launches,
             CreateTmux(j) \/ SendAgentCommand(j) \/ Report(j) \/ PollerStops(j)
      PROVE  CaredFor'
  BY <1>3 DEF CreateTmux, SendAgentCommand, Report, PollerStops
<1>4. ASSUME NEW j \in Launches, UndoTmux(j) \/ UndoWorktree(j) PROVE CaredFor'
  BY <1>4 DEF UndoTmux, UndoWorktree, CleanTmux, CleanWorktree
<1>5. ASSUME NEW j \in Launches, Register(j) PROVE CaredFor'
  <2>1. ASSUME NEW p \in Paths, NEW l \in Launches, worktrees[p] = l,
               pc[l] \in {"report", "launched"}
        PROVE  sessions[session[l]] # l \/ session[l] # session[j]
    <3>1. SUFFICES ASSUME sessions[session[l]] = l, session[l] = session[j] PROVE FALSE
      OBVIOUS
    <3>2. session[l] \in UsesWorktree /\ p = Path(l)
      BY <2>1 DEF WorktreeOwned
    <3>3. worktrees[Path(j)] = j
      BY <1>5, <3>1, <3>2 DEF Register, WorktreeKept, Working, Building
    <3> QED BY <1>5, <2>1, <3>1, <3>2, <3>3 DEF Register
  <2>2. session[j] \in Sessions /\ worktrees' = worktrees /\ held' = held /\ forgotten' = forgotten
    BY <1>5 DEF Register
  <2> QED BY <1>5, <2>1, <2>2 DEF Register, WorktreeOwned, WorktreeKept, Working, Building
<1>6. ASSUME NEW j \in Stops, NEW s \in Sessions, StartStop(j, s) PROVE CaredFor'
  BY <1>6 DEF StartStop, MapHolds, HeldOnce
<1>7. ASSUME NEW j \in Stops, KillTmux(j) PROVE CaredFor'
  BY <1>7 DEF KillTmux, CleanTmux, HeldOnce, WorktreeOwned
<1>8. ASSUME NEW j \in Stops, DiscardWorktree(j) PROVE CaredFor'
  BY <1>8 DEF DiscardWorktree, CleanWorktree, HeldOnce, WorktreeOwned
<1>9. ASSUME NEW j \in Inputs, SendInput(j) \/ \E s \in Sessions : StartInput(j, s)
      PROVE  CaredFor'
  BY <1>9 DEF SendInput, StartInput
<1>10. ASSUME NEW n \in Names, TmuxEnds(n) PROVE CaredFor'
  BY <1>10 DEF TmuxEnds
<1>11. CASE Close
  BY <1>11 DEF Close, Registered
<1>12. CASE Restart
  BY <1>12 DEF Restart, Registered, Running
<1>13. CASE UNCHANGED vars
  BY <1>13 DEF vars
<1> QED
  BY <1>1, <1>2, <1>3, <1>4, <1>5, <1>6, <1>7, <1>8, <1>9, <1>10, <1>11, <1>12,
     <1>13 DEF Next, LaunchStep

(* What a stop found to have been carried out stays as it is, and it ends it. *)
LEMMA SettledStep ==
  TypeOK /\ Started /\ MapHolds /\ TmuxOwned /\ SettledOut /\ Killed /\ [Next]_vars
    => SettledOut' /\ Killed'
<1> DEFINE Over == SettledOut /\ Killed
<1> SUFFICES ASSUME TypeOK, Started, MapHolds, TmuxOwned, SettledOut, Killed, [Next]_vars
             PROVE  Over'
  OBVIOUS
<1> USE Apart, Located DEF TypeOK, Started, SettledOut, Killed, Name, Goto, runtime, host, history
<1>1. ASSUME NEW j \in Launches, NEW s \in Sessions, StartLaunch(j, s) PROVE Over'
  BY <1>1 DEF StartLaunch
<1>2. ASSUME NEW j \in Launches, CreateWorktree(j) \/ SendAgentCommand(j) PROVE Over'
  BY <1>2 DEF CreateWorktree, SendAgentCommand
<1>3. ASSUME NEW j \in Launches, CreateTmux(j) PROVE Over'
  BY <1>3 DEF CreateTmux
<1>4. ASSUME NEW j \in Launches, UndoTmux(j) \/ UndoWorktree(j) PROVE Over'
  BY <1>4 DEF UndoTmux, UndoWorktree, CleanTmux, CleanWorktree
<1>5. ASSUME NEW j \in Launches, Register(j) PROVE Over'
  BY <1>5 DEF Register
<1>6. ASSUME NEW j \in Launches, Report(j) \/ PollerStops(j) PROVE Over'
  BY <1>6 DEF Report, PollerStops
<1>7. ASSUME NEW j \in Stops, NEW s \in Sessions, StartStop(j, s) PROVE Over'
  BY <1>7 DEF StartStop, LaunchesOf
<1>8. ASSUME NEW j \in Stops, KillTmux(j) PROVE Over'
  BY <1>8 DEF KillTmux, CleanTmux, TmuxOwned
<1>9. ASSUME NEW j \in Stops, DiscardWorktree(j) PROVE Over'
  BY <1>9 DEF DiscardWorktree, CleanWorktree
<1>10. ASSUME NEW j \in Inputs, SendInput(j) \/ \E s \in Sessions : StartInput(j, s)
       PROVE  Over'
  BY <1>10 DEF SendInput, StartInput
<1>11. ASSUME NEW n \in Names, TmuxEnds(n) PROVE Over'
  BY <1>11 DEF TmuxEnds
<1>12. CASE Close
  BY <1>12 DEF Close
<1>13. CASE Restart
  BY <1>13 DEF Restart, Running
<1>14. CASE UNCHANGED vars
  BY <1>14 DEF vars
<1> QED
  BY <1>1, <1>2, <1>3, <1>4, <1>5, <1>6, <1>7, <1>8, <1>9, <1>10, <1>11, <1>12, <1>13,
     <1>14 DEF Next, LaunchStep
-----------------------------------------------------------------------------
LEMMA Invariance == Spec => []IInv
<1>1. Init => IInv
  BY InitIInv
<1>2. IInv /\ [Next]_vars => IInv'
  BY TypeStep, MapStep, TmuxStep, WorktreeStep, KeptStep, CaredStep, SettledStep DEF IInv
<1> QED BY <1>1, <1>2, PTL DEF Spec

(* Type correctness of the agent: jobs are where their handlers are, and the map, the *)
(* tmux sessions and the worktrees of the host belong to launches. *)
THEOREM TypeCorrect == Spec => []TypeOK
<1>1. IInv => TypeOK
  BY DEF IInv
<1> QED BY <1>1, Invariance, PTL

(* A relaunch, a stop and the shutdown never close the same stopPoll twice, and none *)
(* of them can miss a poller that nobody has told to stop. *)
THEOREM StoppedOnce == Spec => []PollersStoppedOnce
<1>1. IInv => PollersStoppedOnce
  BY DEF IInv, Polled, PollersStoppedOnce
<1> QED BY <1>1, Invariance, PTL

(* Whatever handleLaunch's competitors do, a launch that fails half-way leaves nothing *)
(* behind unless a clean-up command of its own failed. *)
THEOREM FailureCleansUp == Spec => []FailedLaunchCleansUp
<1>1. IInv => FailedLaunchCleansUp
  BY DEF IInv, TmuxOwned, WorktreeOwned, FailedLaunchCleansUp
<1> QED BY <1>1, Invariance, PTL

(* handleStop ends the tmux session of every launch of its session that had been *)
(* carried out when it began, and the last of the overlapping stops the worktree. *)
THEOREM StopEnds == Spec => []StopEndsSession
<1>1. IInv => StopEndsSession
  <2> SUFFICES ASSUME IInv, NEW j \in Stops PROVE
        /\ pc[j] = "stopped" /\ j \notin spoiled =>
             \A l \in settled[j], n \in Names : tmux[n] # l
        /\ (\A i \in Stops : session[i] = session[j] => pc[i] = "stopped" /\ i \notin spoiled)
             => \A l \in settled[j] \ forgotten, p \in Paths : worktrees[p] # l
    BY DEF StopEndsSession
  <2>1. pc[j] = "stopped" /\ j \notin spoiled => \A l \in settled[j], n \in Names : tmux[n] # l
    BY DEF IInv, Killed
  <2>2. ASSUME \A i \in Stops : session[i] = session[j] => pc[i] = "stopped" /\ i \notin spoiled,
               NEW l \in settled[j] \ forgotten, NEW p \in Paths, worktrees[p] = l
        PROVE  FALSE
    <3>1. /\ l \in Launches /\ pc[l] = "launched" /\ session[l] = session[j]
          /\ sessions[session[l]] # l
      BY Apart DEF IInv, TypeOK, SettledOut
    <3>2. PICK i \in Stops : held[i] = l /\ (pc[i] \in {"kill", "discard", "dead"} \/ i \in spoiled)
      BY <2>2, <3>1 DEF IInv, CaredFor
    <3>3. session[i] = session[j]
      BY <3>1, <3>2, Apart DEF IInv, HeldOnce
    <3> QED BY <2>2, <3>2, <3>3
  <2> QED BY <2>1, <2>2
<1> QED BY <1>1, Invariance, PTL
-----------------------------------------------------------------------------
(* The agent's update of itself is AgentUpdate, for any versions, any number of commands *)
(* and any depth of backups.  What carries it are three bounds: every version an agent   *)
(* deals with lies between the one that runs and the latest release (Between); of the    *)
(* updates that are past their backup there is one, unless a backup crossed another      *)
(* update, and it always leaves a binary somewhere (SomeLeft), which is the executable or *)
(* its backup unless a rename back failed (OneSwap); and without overlaps the newest      *)
(* version installed is never more than a rename away (NewestKept).                       *)

Stages == {"idle", "queued", "asked", "answered", "download", "backup", "install",
           "restore", "remove", "restart"}
\* A job that has its backup, and is not through with it.
Holding(j) == job[j].at \in {"install", "restore", "remove"}

JobTyped ==
  /\ job \in [Slots -> Job]
  /\ checker.at \in {"idle", "asked", "answered"}
  /\ \A j \in Slots :
       /\ job[j].at \in {"asked", "answered"} => job[j].kind = "check"
       /\ job[j].at \notin {"idle", "queued", "asked", "answered"} => job[j].kind = "update"
       /\ Holding(j) => job[j].path < Depth

\* What is known of a release is true of the process that runs.
Sound(i) == /\ i.latest = 0 => ~i.available
            /\ i.latest # 0 => /\ i.latest \in process .. release
                               /\ i.available <=> compareVersions(process, i.latest)

Between ==
  /\ Sound(info) /\ Sound(mail)
  /\ checker.at = "answered" => checker.target \in process .. release /\ checker.target # 0
  /\ \A j \in Slots :
       /\ job[j].at = "answered" => job[j].target \in process .. release /\ job[j].target # 0
       /\ Updating(j) => job[j].target \in process + 1 .. release

\* The files while a job holds its backup, and while none does.
Swap(j) ==
  /\ job[j].path = 0 /\ files[1] # 0
  /\ job[j].at \in Swapping <=> files[0] = 0
  /\ self.linked <=> self.path = 1
  /\ self.path \in {0, 1}
AtRest ==
  /\ self.path # 0 => self.path = 1 /\ files[1] = 0 /\ ~self.linked
  /\ files[0] = 0  => "cut" \in mishaps /\ process = 0 /\ files[1] # 0

OneSwap ==
  {"crossing", "unrestored"} \intersect mishaps = {} =>
    /\ \A j \in Slots : Holding(j) => Swap(j)
    /\ (\A j \in Slots : ~Holding(j)) => AtRest

\* Whatever fails, updates that do not cross leave one with a binary.
Left(j) ==
  /\ files[job[j].path + 1] # 0
  /\ job[j].at = "remove" => files[job[j].path] # 0
  /\ \A k \in Slots : Holding(k) => j = k
SomeLeft ==
  "crossing" \notin mishaps =>
    /\ \A j \in Slots : Holding(j) => Left(j)
    /\ \E k \in 0 .. Depth : files[k] # 0

\* After a rename back that failed there is no executable any more: updates are of its backup.
Adrift ==
  "crossing" \notin mishaps /\ "unrestored" \in mishaps =>
    files[0] = 0 /\ \A j \in Slots : Holding(j) => job[j].path # 0

\* Updates that overlap were counted, and only they can cross.
Counted ==
  "overlap" \notin mishaps =>
    /\ "crossing" \notin mishaps
    /\ \A j, k \in Slots : Updating(j) /\ Updating(k) => j = k

NewestKept ==
  "overlap" \notin mishaps /\ "stale" \notin mishaps =>
    /\ files[0] \in {0, best}
    /\ process = 0 \/ best <= process \/ best <= info.latest
    /\ \A j \in Slots : /\ job[j].at \in Swapping /\ job[j].path = 0 => files[1] = best
                        /\ Updating(j) => job[j].target \in best .. info.latest

UpdateInv == /\ UpdateTypeOK /\ JobTyped /\ Between
             /\ OneSwap /\ SomeLeft /\ Adrift /\ Counted /\ NewestKept
-----------------------------------------------------------------------------
(* What a step does to the commands. *)

LEMMA LessIrreflexive == \A s \in Seq(Nat) : ~Less(s, s)
  BY DEF Less

\* A newer version is recognised by its text only if it is newer.
LEMMA NewerOnly ==
  ASSUME NEW v \in Versions, NEW w \in Versions, v <= w, compareVersions(v, w)
  PROVE  v < w
<1>1. Text[v] \in Seq(Nat)
  BY UpdateAssumption DEF Versions
<1> QED BY <1>1, LessIrreflexive DEF compareVersions, Versions

\* After the step command j is of this kind, deals with this version and is at this place,
\* and the others are what they were.
Put(j, kind, target, path, at) ==
  /\ job' \in [Slots -> Job]
  /\ job'[j].kind = kind /\ job'[j].target = target
  /\ job'[j].path = path /\ job'[j].at = at
  /\ \A k \in Slots : k # j => job'[k] = job[k]
Advance(j, kind, target, at) == Put(j, kind, target, job[j].path, at)

LEMMA DepthNat == Depth \in Nat /\ Depth >= 1 /\ Versions \subseteq Nat
  BY UpdateAssumption DEF Versions

LEMMA SetAt ==
  ASSUME job \in [Slots -> Job], NEW j \in Slots, NEW at \in Stages, Go(j, at)
  PROVE  Advance(j, job[j].kind, job[j].target, at)
  BY DEF Go, Put, Advance, Job, Stages

LEMMA SetDone ==
  ASSUME job \in [Slots -> Job], NEW j \in Slots, Done(j)
  PROVE  Put(j, "check", 0, 0, "idle")
<1>1. Idle \in Job
  BY DepthNat DEF Idle, Job
<1> QED BY <1>1 DEF Done, Put, Idle

LEMMA SetTarget ==
  ASSUME job \in [Slots -> Job], NEW j \in Slots, NEW at \in Stages, NEW v \in Versions,
         job' = [job EXCEPT ![j].at = at, ![j].target = v]
  PROVE  Advance(j, job[j].kind, v, at)
<1> DEFINE mid == [job EXCEPT ![j].at = at]
<1>1. mid \in [Slots -> Job] /\ job' = [mid EXCEPT ![j].target = v]
  BY DEF Job, Stages
<1>2. /\ mid[j].kind = job[j].kind /\ mid[j].path = job[j].path /\ mid[j].at = at
      /\ \A k \in Slots : k # j => mid[k] = job[k]
  BY DEF Job
<1> HIDE DEF mid
<1>3. job' \in [Slots -> Job]
  BY <1>1 DEF Job
<1>4. /\ job'[j].kind = mid[j].kind /\ job'[j].path = mid[j].path
      /\ job'[j].at = mid[j].at /\ job'[j].target = v
      /\ \A k \in Slots : k # j => job'[k] = mid[k]
  BY <1>1 DEF Job
<1> QED BY <1>2, <1>3, <1>4 DEF Put, Advance

LEMMA SetPath ==
  ASSUME job \in [Slots -> Job], NEW j \in Slots, NEW at \in Stages, NEW p \in 0 .. Depth,
         job' = [job EXCEPT ![j].at = at, ![j].path = p]
  PROVE  Put(j, job[j].kind, job[j].target, p, at)
<1> DEFINE mid == [job EXCEPT ![j].at = at]
<1>1. mid \in [Slots -> Job] /\ job' = [mid EXCEPT ![j].path = p]
  BY DEF Job, Stages
<1>2. /\ mid[j].kind = job[j].kind /\ mid[j].target = job[j].target /\ mid[j].at = at
      /\ \A k \in Slots : k # j => mid[k] = job[k]
  BY DEF Job
<1> HIDE DEF mid
<1>3. job' \in [Slots -> Job]
  BY <1>1 DEF Job
<1>4. /\ job'[j].kind = mid[j].kind /\ job'[j].target = mid[j].target
      /\ job'[j].at = mid[j].at /\ job'[j].path = p
      /\ \A k \in Slots : k # j => job'[k] = mid[k]
  BY <1>1 DEF Job
<1> QED BY <1>2, <1>3, <1>4 DEF Put

LEMMA SetOrdered ==
  ASSUME job \in [Slots -> Job], NEW j \in Slots,
         job' = [job EXCEPT ![j] = [Idle EXCEPT !.kind = "update", !.at = "queued"]]
  PROVE  Put(j, "update", 0, 0, "queued")
<1> DEFINE mid == [Idle EXCEPT !.kind = "update"]
<1>1. mid = [kind |-> "update", target |-> 0, path |-> 0, at |-> "idle"]
  BY DEF Idle
<1>2. job' = [job EXCEPT ![j] = [mid EXCEPT !.at = "queued"]]
  BY DEF Idle
<1> HIDE DEF mid
<1> DEFINE order == [kind |-> "update", target |-> 0, path |-> 0, at |-> "queued"]
<1>3. [mid EXCEPT !.at = "queued"] = order
  BY <1>1
<1>4. /\ order \in Job
      /\ order.kind = "update" /\ order.target = 0 /\ order.path = 0 /\ order.at = "queued"
  BY DepthNat DEF Job
<1> HIDE DEF order
<1> QED BY <1>2, <1>3, <1>4 DEF Put

LEMMA LatestNat == \A i \in Info : i.latest \in Nat
<1>1. Versions \union {0} \subseteq Nat
  BY DepthNat
<1> QED BY <1>1 DEF Info

LEMMA Numbers ==
  ASSUME UpdateInv
  PROVE  /\ {release, process, best, info.latest, mail.latest, checker.target} \subseteq Nat
         /\ \A j \in Slots : job[j].target \in Nat /\ job[j].path \in Nat
<1>1. release \in Nat /\ process \in Nat /\ best \in Nat
  BY DepthNat DEF UpdateInv, UpdateTypeOK
<1>0. Versions \union {0} \subseteq Nat /\ 0 .. Depth \subseteq Nat
  BY DepthNat
<1>2. info.latest \in Nat /\ mail.latest \in Nat
  <2>1. info.latest \in Versions \union {0} /\ mail.latest \in Versions \union {0}
    BY DEF UpdateInv, UpdateTypeOK, Info
  <2> QED BY <1>0, <2>1
<1>3. ASSUME NEW r \in Job PROVE r.target \in Nat /\ r.path \in Nat
  <2>1. r.target \in Versions \union {0} /\ r.path \in 0 .. Depth
    BY DEF Job
  <2> QED BY <1>0, <2>1
<1>4. checker \in Job /\ \A j \in Slots : job[j] \in Job
  BY DEF UpdateInv, UpdateTypeOK, JobTyped
<1> QED BY <1>1, <1>2, <1>3, <1>4
-----------------------------------------------------------------------------
(* The invariant holds at first, and is kept by what happens around the agent. *)

LEMMA UpdateInitInv == UpdateInit => UpdateInv
<1> SUFFICES ASSUME UpdateInit PROVE UpdateInv
  OBVIOUS
<1>1. PICK v \in 1 .. release : files = [k \in 0 .. Depth |-> IF k = 0 THEN v ELSE 0]
  BY DEF UpdateInit
<1>2. Idle \in Job /\ Idle.at = "idle" /\ Idle.kind = "check"
  BY DepthNat DEF Idle, Job
<1>3. \A j \in Slots : job[j] \in Job /\ job[j].at = "idle"
  BY <1>2 DEF UpdateInit
<1>4. release \in Versions /\ release \in Nat /\ v \in 1 .. release /\ files[0] = v
  BY <1>1, DepthNat DEF UpdateInit
<1>5. files \in [0 .. Depth -> 0 .. release]
  BY <1>1, <1>4, DepthNat
<1>6. Unknown \in Info /\ Unknown.latest = 0 /\ ~Unknown.available
  BY DEF Unknown, Info
<1>7. UpdateTypeOK
  <2>1. self \in [path: 0 .. Depth, linked: BOOLEAN] /\ ~self.linked
    BY DepthNat DEF UpdateInit, Nobody
  <2>2. {checker} \union {job[j] : j \in Slots} \subseteq Job
    BY <1>2, <1>3 DEF UpdateInit
  <2>3. release \in Versions /\ process \in 0 .. release /\ best \in 1 .. release
    BY <1>4 DEF UpdateInit, binary
  <2> QED BY <1>3, <1>5, <1>6, <2>1, <2>2, <2>3 DEF UpdateInit, UpdateTypeOK
<1>8. JobTyped
  BY <1>2, <1>3 DEF UpdateInit, JobTyped, Holding
<1>9. Between
  BY <1>2, <1>3, <1>6 DEF UpdateInit, Between, Sound, Updating
<1>10. OneSwap
  BY <1>3, <1>4 DEF UpdateInit, OneSwap, Holding, AtRest, Nobody
<1>13. SomeLeft /\ Adrift
  BY <1>3, <1>4, DepthNat DEF UpdateInit, SomeLeft, Adrift, Holding
<1>11. Counted
  BY <1>3 DEF UpdateInit, Counted, Updating
<1>12. NewestKept
  BY <1>3, <1>4 DEF UpdateInit, NewestKept, Updating, Swapping, binary
<1> QED BY <1>7, <1>8, <1>9, <1>10, <1>11, <1>12, <1>13 DEF UpdateInv

LEMMA SiteStep ==
  ASSUME UpdateInv, UNCHANGED <<disk, agent, job, allowed, follows, mishaps>>,
         release' \in Versions, release <= release', offered' \in BOOLEAN,
         unit' \in {"script", "command", "none"}
  PROVE  UpdateInv'
<1> USE DEF UpdateInv, disk, agent
<1>1. UpdateTypeOK'
  BY DepthNat DEF UpdateTypeOK
<1>2. JobTyped'
  BY DEF JobTyped, Holding
<1>3. Between'
  <2>1. process .. release \subseteq process .. release' /\ process' = process
    BY Numbers, DepthNat
  <2>2. process + 1 .. release \subseteq process + 1 .. release'
    BY Numbers, DepthNat
  <2>3. Sound(info)' /\ Sound(mail)'
    BY <2>1 DEF Between, Sound, compareVersions
  <2> QED BY <2>1, <2>2, <2>3 DEF Between, Updating
<1>4. OneSwap' /\ SomeLeft' /\ Adrift'
  BY DEF OneSwap, SomeLeft, Adrift, Left, Holding, Swap, AtRest
<1>5. Counted'
  BY DEF Counted, Updating
<1>6. NewestKept'
  BY DEF NewestKept, Updating
<1> QED BY <1>1, <1>2, <1>3, <1>4, <1>5, <1>6

\* Checks in the background touch only what the agent knows.
LEMMA CheckStep ==
  ASSUME UpdateInv, UNCHANGED <<disk, process, job, site>>, process # 0,
         {info', mail'} \subseteq Info, checker' \in Job,
         checker'.at \in {"idle", "asked", "answered"}, Sound(info'), Sound(mail'),
         checker'.at = "answered" => checker'.target \in process .. release /\ checker'.target # 0,
         mishaps' = mishaps \/ mishaps' = mishaps \union {"stale"},
         info'.latest >= info.latest \/ "stale" \in mishaps'
  PROVE  UpdateInv'
<1> USE DEF UpdateInv, disk, site
<1>1. UpdateTypeOK'
  BY DEF UpdateTypeOK
<1>2. JobTyped'
  BY DEF JobTyped, Holding
<1>3. Between'
  BY DEF Between, Sound, Updating, compareVersions
<1>4. OneSwap' /\ SomeLeft' /\ Adrift'
  BY DEF OneSwap, SomeLeft, Adrift, Left, Holding, Swap, AtRest
<1>5. Counted'
  BY DEF Counted, Updating
<1>6. NewestKept'
  <2> SUFFICES ASSUME "overlap" \notin mishaps, "stale" \notin mishaps' PROVE NewestKept'
    BY DEF NewestKept
  <2>1. info.latest \in Nat /\ info'.latest \in Nat /\ info.latest <= info'.latest /\ best \in Nat
    <3>2. info'.latest \in Nat
      BY LatestNat
    <3>3. info.latest \in Nat /\ best \in Nat
      BY Numbers
    <3>4. info'.latest >= info.latest
      OBVIOUS
    <3> QED BY <3>2, <3>3, <3>4
  <2>2. \A j \in Slots : job[j].target \in Nat
    BY Numbers
  <2> QED BY <2>1, <2>2, DepthNat DEF NewestKept, Updating, UpdateTypeOK
<1> QED BY <1>1, <1>2, <1>3, <1>4, <1>5, <1>6
-----------------------------------------------------------------------------
(* Commands that leave the files alone. *)

\* What a command may come to be without a backup.
Fits(j, kind, target, at) ==
  /\ at \in Stages \ {"install", "restore", "remove"}
  /\ at \in {"asked", "answered"} => kind = "check"
  /\ at \notin {"idle", "queued", "asked", "answered"} => kind = "update"
  /\ process = 0 => at \in {"idle", "queued"}
  /\ at = "answered" => target \in process .. release /\ target # 0
  /\ kind = "update" /\ at \notin {"idle", "queued"} =>
       /\ target \in process + 1 .. release
       /\ "overlap" \notin mishaps' => \A k \in Slots : Updating(k) => k = j
       /\ {"overlap", "stale"} \intersect mishaps' = {} => target \in best .. info'.latest

LEMMA JobStep ==
  ASSUME UpdateInv, NEW j \in Slots, ~Holding(j),
         NEW kind, NEW target, NEW path, NEW at, Put(j, kind, target, path, at),
         Fits(j, kind, target, at),
         UNCHANGED <<disk, process, mail, checker, site>>,
         info' \in Info, Sound(info'), process = 0 => info' = info,
         mishaps \subseteq mishaps', mishaps' \subseteq mishaps \union {"stale", "overlap"},
         info.latest <= info'.latest \/ "stale" \in mishaps'
  PROVE  UpdateInv'
<1> USE DEF UpdateInv, disk, site
<1>0. /\ job' \in [Slots -> Job] /\ job'[j].kind = kind /\ job'[j].target = target
      /\ job'[j].at = at /\ \A k \in Slots : k # j => job'[k] = job[k]
  BY DEF Put
<1>1. UpdateTypeOK'
  <2>1. \A k \in Slots : job'[k] \in Job
    BY <1>0
  <2>2. process = 0 => \A k \in Slots : job'[k].at \in {"idle", "queued"}
    BY <1>0 DEF UpdateTypeOK, Fits
  <2> QED BY <2>1, <2>2 DEF UpdateTypeOK
<1>2. \A k \in Slots : Holding(k)' <=> Holding(k)
  BY <1>0 DEF Holding, Fits
<1>3. JobTyped'
  BY <1>0, <1>2 DEF JobTyped, Fits, Holding
<1>4. Between'
  <2>1. Sound(info)' /\ Sound(mail)'
    BY DEF Between, Sound, compareVersions
  <2>2. \A k \in Slots : /\ job'[k].at = "answered" =>
                              job'[k].target \in process .. release /\ job'[k].target # 0
                         /\ Updating(k)' => job'[k].target \in process + 1 .. release
    BY <1>0 DEF Between, Fits, Updating
  <2> QED BY <2>1, <2>2 DEF Between
<1>5. OneSwap'
  <2>1. ASSUME NEW k \in Slots, Holding(k), Swap(k) PROVE Swap(k)'
    <3>1. job'[k] = job[k]
      BY <1>0, <2>1
    <3> QED BY <2>1, <3>1 DEF Swap
  <2>2. AtRest => AtRest'
    BY DEF AtRest
  <2> QED BY <1>2, <2>1, <2>2 DEF OneSwap
<1>8. SomeLeft' /\ Adrift'
  <2>1. \A k \in Slots : Holding(k) => job'[k] = job[k]
    BY <1>0
  <2>2. \A k \in Slots : Holding(k) /\ Left(k) => Left(k)'
    BY <1>2, <2>1 DEF Left
  <2> QED BY <1>2, <2>1, <2>2 DEF SomeLeft, Adrift
<1>6. Counted'
  <2> SUFFICES ASSUME "overlap" \notin mishaps',
                      NEW k \in Slots, NEW l \in Slots, Updating(k)', Updating(l)'
               PROVE  "crossing" \notin mishaps' /\ k = l
    BY DEF Counted
  <2>1. \A q \in Slots : Updating(q)' => Updating(q) \/ q = j
    BY <1>0 DEF Updating
  <2>2. Updating(j)' => \A q \in Slots : Updating(q) => q = j
    BY <1>0 DEF Updating, Fits
  <2> QED BY <2>1, <2>2 DEF Counted
<1>7. NewestKept'
  <2> SUFFICES ASSUME "overlap" \notin mishaps', "stale" \notin mishaps' PROVE NewestKept'
    BY DEF NewestKept
  <2>1. info.latest <= info'.latest /\ info'.latest \in Nat
    <3>1. info' \in Info /\ Versions \union {0} \subseteq Nat
      BY DepthNat
    <3> QED BY <3>1 DEF Info
  <2>2. process = 0 \/ best <= process \/ best <= info'.latest
    BY <2>1, Numbers DEF NewestKept
  <2>3. ASSUME NEW k \in Slots
        PROVE  job'[k].at \in Swapping /\ job'[k].path = 0 => files[1] = best
    BY <1>0 DEF NewestKept, Fits, Swapping
  <2>4. ASSUME NEW k \in Slots, Updating(k)' PROVE job'[k].target \in best .. info'.latest
    <3>1. CASE k = j
      BY <1>0, <2>4, <3>1 DEF Updating, Fits
    <3>2. CASE k # j
      BY <1>0, <2>1, <2>4, <3>2, Numbers DEF Updating, NewestKept
    <3> QED BY <3>1, <3>2
  <2> QED BY <2>2, <2>3, <2>4 DEF NewestKept
<1> QED BY <1>1, <1>3, <1>4, <1>5, <1>6, <1>7, <1>8

LEMMA Answer ==
  ASSUME UpdateInv, NEW v \in process .. release, v # 0
  PROVE  CheckForUpdates(v) \in Info /\ Sound(CheckForUpdates(v))
<1>1. v \in Versions
  BY Numbers, UpdateAssumption DEF UpdateInv, UpdateTypeOK, Versions
<1>2. CheckForUpdates(v) = [latest |-> v, available |-> compareVersions(process, v)]
  BY DEF CheckForUpdates
<1>3. compareVersions(process, v) \in BOOLEAN
  BY DEF compareVersions, Less
<1> QED BY <1>1, <1>2, <1>3 DEF Info, Sound

\* What is offered is newer than what runs.
LEMMA OfferedIsNewer ==
  ASSUME UpdateInv, info.available
  PROVE  info.latest \in process + 1 .. release /\ process # 0
<1>1. info.latest # 0 /\ info.latest \in process .. release
  BY DEF UpdateInv, Between, Sound
<1>2. process # 0
  BY <1>1 DEF UpdateInv, UpdateTypeOK, Unknown
<1>3. process \in Versions /\ info.latest \in Versions
  <2>1. release \in Versions /\ process \in 0 .. release
    BY DEF UpdateInv, UpdateTypeOK
  <2> QED BY <1>1, <1>2, <2>1, Numbers, UpdateAssumption DEF Versions
<1>4. compareVersions(process, info.latest)
  BY <1>1 DEF UpdateInv, Between, Sound
<1> QED BY <1>1, <1>2, <1>3, <1>4, NewerOnly, Numbers

LEMMA OrderCheckStep ==
  ASSUME UpdateInv, NEW j \in Slots, OrderCheck(j) PROVE UpdateInv'
<1>1. Advance(j, job[j].kind, job[j].target, "queued")
  BY SetAt DEF OrderCheck, Go, UpdateInv, JobTyped, Stages
<1>2. Put(j, job[j].kind, job[j].target, job[j].path, "queued")
  BY <1>1 DEF Advance
<1>3. Fits(j, job[j].kind, job[j].target, "queued")
  BY DEF Fits, Stages
<1>4. ~Holding(j) /\ UNCHANGED <<disk, agent, site, mishaps>>
  BY DEF OrderCheck, Holding
<1> QED BY <1>2, <1>3, <1>4, JobStep, Numbers DEF agent, UpdateInv, UpdateTypeOK, Between

LEMMA OrderUpdateStep ==
  ASSUME UpdateInv, NEW j \in Slots, OrderUpdate(j) PROVE UpdateInv'
<1>1. Put(j, "update", 0, 0, "queued")
  BY SetOrdered DEF OrderUpdate, UpdateInv, JobTyped
<1>2. Fits(j, "update", 0, "queued")
  BY DEF Fits, Stages
<1>3. ~Holding(j) /\ UNCHANGED <<disk, agent, site, mishaps>>
  BY DEF OrderUpdate, Holding
<1> QED BY <1>1, <1>2, <1>3, JobStep, Numbers DEF agent, UpdateInv, UpdateTypeOK, Between

\* A command ends, or cannot go on, without a backup.
LEMMA DoneStep ==
  ASSUME UpdateInv, NEW j \in Slots, Done(j), ~Holding(j), UNCHANGED <<disk, agent, site, mishaps>>
  PROVE  UpdateInv'
<1>1. Put(j, "check", 0, 0, "idle")
  BY SetDone DEF UpdateInv, JobTyped
<1>2. Fits(j, "check", 0, "idle")
  BY DEF Fits, Stages
<1> QED BY <1>1, <1>2, JobStep, Numbers DEF agent, UpdateInv, UpdateTypeOK, Between

LEMMA StartCheckStep ==
  ASSUME UpdateInv, NEW j \in Slots, StartCheck(j) PROVE UpdateInv'
<1>1. Advance(j, job[j].kind, job[j].target, "asked")
  BY SetAt DEF StartCheck, UpdateInv, JobTyped, Stages
<1>2. Put(j, job[j].kind, job[j].target, job[j].path, "asked")
  BY <1>1 DEF Advance
<1>3. Fits(j, job[j].kind, job[j].target, "asked")
  BY DEF StartCheck, Is, Fits, Stages
<1>4. ~Holding(j) /\ UNCHANGED <<disk, agent, site, mishaps>>
  BY DEF StartCheck, Is, Holding
<1> QED BY <1>2, <1>3, <1>4, JobStep, Numbers DEF agent, UpdateInv, UpdateTypeOK, Between

LEMMA FetchLatestStep ==
  ASSUME UpdateInv, NEW j \in Slots, FetchLatest(j) PROVE UpdateInv'
<1>1. ~Holding(j) /\ UNCHANGED <<disk, agent, site, mishaps>>
  BY DEF FetchLatest, Is, Holding
<1>2. CASE job' = [job EXCEPT ![j].at = "answered", ![j].target = release]
  <2>1. release \in Versions /\ release # 0 /\ release \in process .. release /\ process # 0
    BY Numbers, DepthNat DEF UpdateInv, UpdateTypeOK, Versions, FetchLatest, Is
  <2>2. Advance(j, job[j].kind, release, "answered")
    BY <1>2, <2>1, SetTarget DEF UpdateInv, JobTyped, Stages
  <2>3. Put(j, job[j].kind, release, job[j].path, "answered")
    BY <2>2 DEF Advance
  <2>4. Fits(j, job[j].kind, release, "answered")
    BY <2>1 DEF FetchLatest, Is, Fits, Stages
  <2> QED BY <1>1, <2>3, <2>4, JobStep, Numbers DEF agent, UpdateInv, UpdateTypeOK, Between
<1>3. CASE Done(j)
  BY <1>1, <1>3, DoneStep
<1> QED BY <1>2, <1>3 DEF FetchLatest

LEMMA SetUpdateInfoStep ==
  ASSUME UpdateInv, NEW j \in Slots, SetUpdateInfo(j) PROVE UpdateInv'
<1>1. Put(j, "check", 0, 0, "idle")
  BY SetDone DEF SetUpdateInfo, UpdateInv, JobTyped
<1>2. Fits(j, "check", 0, "idle")
  BY DEF Fits, Stages
<1>3. process # 0 /\ job[j].target \in process .. release /\ job[j].target # 0 /\ ~Holding(j)
  BY DEF SetUpdateInfo, Is, UpdateInv, Between, Holding
<1>4. info' \in Info /\ Sound(info')
  BY <1>3, Answer DEF SetUpdateInfo, Learn
<1>5. /\ mishaps \subseteq mishaps' /\ mishaps' \subseteq mishaps \union {"stale", "overlap"}
      /\ info.latest <= info'.latest \/ "stale" \in mishaps'
  <2>1. info'.latest = job[j].target
    BY DEF SetUpdateInfo, Learn, CheckForUpdates
  <2>2. mishaps' = mishaps \union (IF info'.latest < info.latest THEN {"stale"} ELSE {})
    BY DEF SetUpdateInfo, Learn, Blame
  <2> QED BY <2>1, <2>2, Numbers
<1> QED BY <1>1, <1>2, <1>3, <1>4, <1>5, JobStep DEF SetUpdateInfo

\* The agent checks for itself that there is something newer.
LEMMA StartUpdateStep ==
  ASSUME UpdateInv, NEW j \in Slots, StartUpdate(j) PROVE UpdateInv'
<1>1. ~Holding(j) /\ UNCHANGED <<disk, agent, site>> /\ process # 0
  BY DEF StartUpdate, Is, Holding
<1>2. CASE ~info.available
  BY <1>1, <1>2, DoneStep DEF StartUpdate
<1>3. CASE info.available
  <2>1. info.latest \in process + 1 .. release
    BY <1>3, OfferedIsNewer
  <2>2. info.latest \in Versions
    <3>1. release \in Versions
      BY DEF UpdateInv, UpdateTypeOK
    <3> QED BY <2>1, <3>1, Numbers, UpdateAssumption DEF Versions
  <2>3. Advance(j, job[j].kind, info.latest, "download")
    BY <1>3, <2>2, SetTarget DEF StartUpdate, UpdateInv, JobTyped, Stages
  <2>4. Put(j, job[j].kind, info.latest, job[j].path, "download")
    BY <2>3 DEF Advance
  <2>5. mishaps' = mishaps \union (IF \E k \in Slots : Updating(k) THEN {"overlap"} ELSE {})
    BY <1>3 DEF StartUpdate, Blame
  <2>6. {"overlap", "stale"} \intersect mishaps' = {} => best <= info.latest
    <3> SUFFICES ASSUME {"overlap", "stale"} \intersect mishaps' = {} PROVE best <= info.latest
      OBVIOUS
    <3>1. "overlap" \notin mishaps /\ "stale" \notin mishaps
      BY <2>5
    <3>2. best <= process \/ best <= info.latest
      BY <1>1, <3>1 DEF UpdateInv, NewestKept
    <3> QED BY <2>1, <3>2, Numbers
  <2>7. Fits(j, job[j].kind, info.latest, "download")
    <3>1. info' = info /\ info.latest \in Nat /\ best \in Nat
      BY <1>1, Numbers DEF agent
    <3>2. job[j].kind = "update"
      BY DEF StartUpdate, Is
    <3>3. "overlap" \notin mishaps' => \A k \in Slots : Updating(k) => k = j
      BY <2>5
    <3> QED BY <1>1, <2>1, <2>6, <3>1, <3>2, <3>3 DEF Fits, Stages
  <2>8. mishaps \subseteq mishaps' /\ mishaps' \subseteq mishaps \union {"stale", "overlap"}
    BY <2>5
  <2> QED BY <1>1, <2>4, <2>7, <2>8, JobStep, Numbers DEF agent, UpdateInv, UpdateTypeOK, Between
<1> QED BY <1>2, <1>3

LEMMA DownloadStep ==
  ASSUME UpdateInv, NEW j \in Slots, Download(j) PROVE UpdateInv'
<1>1. ~Holding(j) /\ UNCHANGED <<disk, agent, site, mishaps>> /\ process # 0 /\ Updating(j)
  BY DEF Download, Is, Holding, Updating
<1>2. CASE Go(j, "backup")
  <2>1. Advance(j, job[j].kind, job[j].target, "backup")
    BY <1>2, SetAt DEF UpdateInv, JobTyped, Stages
  <2>2. Put(j, job[j].kind, job[j].target, job[j].path, "backup")
    BY <2>1 DEF Advance
  <2>3. Fits(j, job[j].kind, job[j].target, "backup")
    <3>1. job[j].target \in process + 1 .. release
      BY <1>1 DEF UpdateInv, Between
    <3>2. "overlap" \notin mishaps => \A k \in Slots : Updating(k) => k = j
      BY <1>1 DEF UpdateInv, Counted
    <3>3. {"overlap", "stale"} \intersect mishaps = {} => job[j].target \in best .. info.latest
      BY <1>1 DEF UpdateInv, NewestKept
    <3>4. job[j].kind = "update" /\ mishaps' = mishaps /\ info' = info
      BY <1>1 DEF Updating, agent
    <3> QED BY <1>1, <3>1, <3>2, <3>3, <3>4 DEF Fits, Stages
  <2> QED BY <1>1, <2>2, <2>3, JobStep, Numbers DEF agent, UpdateInv, UpdateTypeOK, Between
<1>3. CASE Done(j)
  BY <1>1, <1>3, DoneStep
<1> QED BY <1>2, <1>3 DEF Download
-----------------------------------------------------------------------------
(* The process comes and goes. *)

LEMMA StartStep ==
  ASSUME UpdateInv, Start PROVE UpdateInv'
<1> USE DEF UpdateInv
<1>0. /\ info = Unknown /\ mail = Unknown /\ info' = Unknown /\ mail' = Unknown
      /\ Unknown.latest = 0 /\ ~Unknown.available
      /\ \A j \in Slots : job[j].at \in {"idle", "queued"}
      /\ files[0] # 0 /\ process' = files[0] /\ self' = [Nobody EXCEPT !.linked = follows]
      /\ checker' = [Idle EXCEPT !.at = "asked"]
      /\ UNCHANGED <<files, best, info, mail, job, release, offered, unit, allowed, follows,
                     mishaps>>
  BY DEF Start, site, UpdateTypeOK, Unknown, binary
<1>1. \A j \in Slots : ~Holding(j) /\ ~Updating(j)
  BY <1>0 DEF Holding, Updating
<1>2. self' = [path |-> 0, linked |-> follows] /\ follows \in BOOLEAN
  BY <1>0 DEF Nobody, UpdateTypeOK
<1>3. checker' = [kind |-> "check", target |-> 0, path |-> 0, at |-> "asked"]
  BY <1>0 DEF Idle
<1>4. UpdateTypeOK'
  <2>1. checker' \in Job
    BY <1>3, DepthNat DEF Job
  <2>2. files[0] \in 0 .. release /\ self' \in [path: 0 .. Depth, linked: BOOLEAN]
    <3>1. 0 \in 0 .. Depth
      BY DepthNat
    <3> QED BY <1>2, <3>1 DEF UpdateTypeOK
  <2>3. self'.path = 0 /\ process' # 0
    BY <1>0, <1>2
  <2> QED BY <1>0, <2>1, <2>2, <2>3 DEF UpdateTypeOK
<1>5. JobTyped'
  BY <1>0, <1>1, <1>3 DEF JobTyped, Holding
<1>6. Between'
  BY <1>0, <1>1, <1>3 DEF Between, Sound, Updating
<1>7. OneSwap'
  <2>1. \A j \in Slots : ~Holding(j)'
    BY <1>0, <1>1 DEF Holding
  <2>2. AtRest'
    BY <1>0, <1>2 DEF AtRest
  <2> QED BY <2>1, <2>2 DEF OneSwap
<1>10. SomeLeft' /\ Adrift'
  BY <1>0, <1>1 DEF SomeLeft, Adrift, Holding
<1>8. Counted'
  BY <1>0 DEF Counted, Updating
<1>9. NewestKept'
  <2>1. \A j \in Slots : job[j].at \notin Swapping
    BY <1>0 DEF Swapping
  <2> QED BY <1>0, <1>1, <2>1, Numbers DEF NewestKept, Updating
<1> QED BY <1>4, <1>5, <1>6, <1>7, <1>8, <1>9, <1>10

\* Whatever the process was doing ends with it; the files stay as they are.
LEMMA DieStep ==
  ASSUME UpdateInv, Die, UNCHANGED <<files, best, release, offered, allowed, follows>>,
         unit' \in {"script", "command", "none"}
  PROVE  UpdateInv'
<1> USE DEF UpdateInv
<1>0. /\ process' = 0 /\ self' = Nobody /\ info' = Unknown /\ mail' = Unknown /\ checker' = Idle
      /\ job' = [j \in Slots |-> IF job[j].at = "queued" THEN job[j] ELSE Idle]
      /\ mishaps' = mishaps \union (IF \E j \in Slots : job[j].at \in Swapping THEN {"cut"} ELSE {})
  BY DEF Die, Blame
<1>1. /\ Idle \in Job /\ Idle.at = "idle" /\ Unknown \in Info
      /\ Unknown.latest = 0 /\ ~Unknown.available
      /\ Nobody \in [path: 0 .. Depth, linked: BOOLEAN] /\ Nobody.path = 0 /\ ~Nobody.linked
  BY DepthNat DEF Idle, Job, Unknown, Info, Nobody
<1>2. \A j \in Slots : job'[j] \in Job /\ job'[j].at \in {"idle", "queued"}
  BY <1>0, <1>1 DEF JobTyped
<1>3. \A j \in Slots : ~Holding(j)' /\ ~Updating(j)'
  BY <1>2 DEF Holding, Updating
<1>4. UpdateTypeOK'
  <2>1. mishaps' \subseteq {"cut", "unrestored", "crossing", "overlap", "stale"}
    BY <1>0 DEF UpdateTypeOK
  <2>2. {checker'} \union {job'[j] : j \in Slots} \subseteq Job
    BY <1>0, <1>1, <1>2
  <2>3. 0 \in 0 .. release
    BY Numbers
  <2>4. {info', mail'} \subseteq Info
    BY <1>0, <1>1
  <2>5. self' \in [path: 0 .. Depth, linked: BOOLEAN] /\ ~self'.linked
    BY <1>0, <1>1
  <2>6. <<info', mail', checker'>> = <<Unknown, Unknown, Idle>>
    BY <1>0
  <2> QED BY <1>0, <1>2, <2>1, <2>2, <2>3, <2>4, <2>5, <2>6 DEF UpdateTypeOK
<1>5. JobTyped'
  BY <1>0, <1>1, <1>2, <1>3 DEF JobTyped
<1>6. Between'
  BY <1>0, <1>1, <1>2, <1>3 DEF Between, Sound
<1>7. OneSwap'
  <2> SUFFICES ASSUME {"crossing", "unrestored"} \intersect mishaps = {} PROVE AtRest'
    BY <1>0, <1>3 DEF OneSwap
  <2>1. self'.path = 0 /\ process' = 0
    BY <1>0, <1>1
  <2>2. CASE \E j \in Slots : job[j].at \in Swapping
    <3>1. PICK j \in Slots : job[j].at \in Swapping
      BY <2>2
    <3>2. Swap(j)
      BY <3>1 DEF OneSwap, Holding, Swapping
    <3> QED BY <1>0, <2>1, <2>2, <3>2 DEF AtRest, Swap
  <2>3. CASE ~\E j \in Slots : job[j].at \in Swapping
    <3>1. files[0] = 0 => "cut" \in mishaps /\ files[1] # 0
      <4>1. CASE \E j \in Slots : Holding(j)
        <5>1. PICK j \in Slots : Holding(j)
          BY <4>1
        <5> QED BY <2>3, <5>1 DEF OneSwap, Swap
      <4>2. CASE ~\E j \in Slots : Holding(j)
        BY <4>2 DEF OneSwap, AtRest
      <4> QED BY <4>1, <4>2
    <3> QED BY <1>0, <2>1, <3>1 DEF AtRest
  <2> QED BY <2>2, <2>3
<1>10. SomeLeft' /\ Adrift'
  BY <1>0, <1>3 DEF SomeLeft, Adrift
<1>8. Counted'
  BY <1>0, <1>3 DEF Counted
<1>9. NewestKept'
  <2>1. \A j \in Slots : job'[j].at \notin Swapping
    BY <1>2 DEF Swapping
  <2> QED BY <1>0, <1>3, <2>1 DEF NewestKept
<1> QED BY <1>4, <1>5, <1>6, <1>7, <1>8, <1>9, <1>10
-----------------------------------------------------------------------------
(* Commands that replace the binary. *)

\* What a rename does to the files and to where the executable of the process is.
LEMMA RenameEffect ==
  ASSUME UpdateInv, NEW a \in 0 .. Depth, NEW b \in 0 .. Depth, a # b, Rename(a, b)
  PROVE  /\ files' \in [0 .. Depth -> 0 .. release]
         /\ files'[a] = 0 /\ files'[b] = files[a] /\ files[a] # 0
         /\ \A k \in 0 .. Depth : k # a /\ k # b => files'[k] = files[k]
         /\ self' \in [path: 0 .. Depth, linked: BOOLEAN]
         /\ self'.linked => self.linked /\ files'[self'.path] = process
         /\ self.linked /\ self.path = a => self'.linked /\ self'.path = b
         /\ ~(self.linked /\ self.path = a) =>
              self'.path = self.path /\ (self'.linked <=> self.linked /\ self.path # b)
<1>1. files \in [0 .. Depth -> 0 .. release] /\ 0 \in 0 .. release
  BY Numbers DEF UpdateInv, UpdateTypeOK
<1> DEFINE mid == [files EXCEPT ![b] = files[a]]
<1>2. mid \in [0 .. Depth -> 0 .. release] /\ files' = [mid EXCEPT ![a] = 0]
  BY <1>1 DEF Rename
<1>3. mid[b] = files[a] /\ \A k \in 0 .. Depth : k # b => mid[k] = files[k]
  BY <1>1
<1> HIDE DEF mid
<1>4. /\ files' \in [0 .. Depth -> 0 .. release]
      /\ files'[a] = 0 /\ files'[b] = files[a] /\ files[a] # 0
      /\ \A k \in 0 .. Depth : k # a /\ k # b => files'[k] = files[k]
  BY <1>1, <1>2, <1>3 DEF Rename
<1>5. /\ self \in [path: 0 .. Depth, linked: BOOLEAN]
      /\ self.linked => files[self.path] = process
  BY DEF UpdateInv, UpdateTypeOK
<1>6. self' = Moved(a, b)
  BY DEF Rename
<1>7. CASE ~self.linked
  BY <1>4, <1>5, <1>6, <1>7 DEF Moved
<1>8. CASE self.linked /\ self.path = a
  <2>1. self' = [self EXCEPT !.path = b]
    BY <1>6, <1>8 DEF Moved
  <2>2. self' \in [path: 0 .. Depth, linked: BOOLEAN] /\ self'.path = b /\ self'.linked
    BY <1>5, <1>8, <2>1
  <2> QED BY <1>4, <1>5, <1>8, <2>2
<1>9. CASE self.linked /\ self.path = b
  <2>1. self' = [self EXCEPT !.linked = FALSE]
    BY <1>6, <1>9 DEF Moved
  <2>2. self' \in [path: 0 .. Depth, linked: BOOLEAN] /\ self'.path = b /\ ~self'.linked
    BY <1>5, <1>9, <2>1
  <2> QED BY <1>4, <1>5, <1>9, <2>2
<1>10. CASE self.linked /\ self.path # a /\ self.path # b
  <2>1. self' = self
    BY <1>6, <1>10 DEF Moved
  <2> QED BY <1>4, <1>5, <1>10, <2>1
<1> QED BY <1>7, <1>8, <1>9, <1>10

\* What is the same for every step of an update with its files.
LEMMA SwapStep ==
  ASSUME UpdateInv, NEW j \in Slots, Updating(j), process # 0,
         NEW kind, NEW target, NEW path, NEW at, Put(j, kind, target, path, at),
         \/ at = "idle"
         \/ /\ kind = "update" /\ target = job[j].target
            /\ at \in {"install", "restore", "remove", "restart"}
            /\ at # "restart" => path < Depth,
         files' \in [0 .. Depth -> 0 .. release], best' \in 1 .. release,
         self' \in [path: 0 .. Depth, linked: BOOLEAN],
         self'.linked => files'[self'.path] = process,
         UNCHANGED <<agent, site>>,
         mishaps \subseteq mishaps', mishaps' \subseteq mishaps \union {"crossing", "unrestored"},
         "crossing" \in mishaps' => {"crossing", "overlap"} \intersect mishaps # {}
  PROVE  UpdateTypeOK' /\ JobTyped' /\ Between' /\ Counted'
<1> USE DEF UpdateInv, agent, site
<1>0. /\ job' \in [Slots -> Job] /\ job'[j].kind = kind /\ job'[j].target = target
      /\ job'[j].path = path /\ job'[j].at = at
      /\ \A k \in Slots : k # j => job'[k] = job[k]
  BY DEF Put
<1>1. UpdateTypeOK'
  <2>1. \A k \in Slots : job'[k] \in Job
    BY <1>0
  <2> QED BY <2>1 DEF UpdateTypeOK
<1>2. JobTyped'
  <2>1. ASSUME NEW k \in Slots
        PROVE  /\ job'[k].at \in {"asked", "answered"} => job'[k].kind = "check"
               /\ job'[k].at \notin {"idle", "queued", "asked", "answered"} =>
                    job'[k].kind = "update"
               /\ Holding(k)' => job'[k].path < Depth
    <3>1. CASE k = j
      BY <1>0, <3>1 DEF Holding
    <3>2. CASE k # j
      BY <1>0, <3>2 DEF JobTyped, Holding
    <3> QED BY <3>1, <3>2
  <2> QED BY <1>0, <2>1 DEF JobTyped
<1>3. Between'
  <2>1. Sound(info)' /\ Sound(mail)'
    BY DEF Between, Sound, compareVersions
  <2>2. ASSUME NEW k \in Slots
        PROVE  /\ job'[k].at = "answered" =>
                    job'[k].target \in process .. release /\ job'[k].target # 0
               /\ Updating(k)' => job'[k].target \in process + 1 .. release
    <3>1. CASE k = j
      BY <1>0, <3>1 DEF Between, Updating
    <3>2. CASE k # j
      BY <1>0, <3>2 DEF Between, Updating
    <3> QED BY <3>1, <3>2
  <2> QED BY <2>1, <2>2 DEF Between
<1>4. Counted'
  <2>1. \A k \in Slots : Updating(k)' => Updating(k)
    BY <1>0 DEF Updating
  <2> QED BY <2>1 DEF Counted
<1> QED BY <1>1, <1>2, <1>3, <1>4

\* The first rename.
LEMMA BackupStep ==
  ASSUME UpdateInv, NEW j \in Slots, Backup(j) PROVE UpdateInv'
<1> DEFINE p == self.path
<1>0. /\ process # 0 /\ Updating(j) /\ ~Holding(j) /\ UNCHANGED <<best, agent, site>>
      /\ p \in 0 .. Depth
  BY DEF Backup, Is, Updating, Holding, UpdateInv, UpdateTypeOK
<1>1. CASE Done(j) /\ UNCHANGED <<files, self, mishaps>>
  BY <1>0, <1>1, DoneStep DEF disk
<1>2. CASE /\ p < Depth /\ Rename(p, p + 1)
           /\ job' = [job EXCEPT ![j].at = "install", ![j].path = p]
           /\ Blame(IF Crossing(j) THEN {"crossing"} ELSE {})
  <2>1. Put(j, job[j].kind, job[j].target, p, "install")
    BY <1>0, <1>2, SetPath DEF UpdateInv, JobTyped, Stages
  <2>2. p + 1 \in 0 .. Depth /\ p # p + 1
    BY <1>0, <1>2, DepthNat
  <2>3. mishaps' = mishaps \union (IF Crossing(j) THEN {"crossing"} ELSE {})
    BY <1>2 DEF Blame
  <2>4. Crossing(j) <=> \E k \in Slots : k # j /\ Holding(k)
    BY DEF Crossing, Holding, Swapping
  <2>5. Crossing(j) => "overlap" \in mishaps
    <3>1. \A k \in Slots : Holding(k) => Updating(k)
      BY DEF Holding, Updating, UpdateInv, JobTyped
    <3> QED BY <1>0, <2>4, <3>1 DEF UpdateInv, Counted
  <2>6. UpdateTypeOK' /\ JobTyped' /\ Between' /\ Counted'
    <3>1. job[j].kind = "update"
      BY <1>0 DEF Updating
    <3>2. /\ files' \in [0 .. Depth -> 0 .. release]
          /\ self' \in [path: 0 .. Depth, linked: BOOLEAN]
          /\ self'.linked => files'[self'.path] = process
      BY <1>0, <1>2, <2>2, RenameEffect
    <3>3. best' \in 1 .. release
      BY <1>0 DEF UpdateInv, UpdateTypeOK
    <3>4. /\ mishaps \subseteq mishaps' /\ mishaps' \subseteq mishaps \union {"crossing"}
          /\ "crossing" \in mishaps' => {"crossing", "overlap"} \intersect mishaps # {}
      BY <2>3, <2>5
    <3> QED BY <1>0, <1>2, <2>1, <3>1, <3>2, <3>3, <3>4, SwapStep
  <2>10. ASSUME "crossing" \notin mishaps'
         PROVE  /\ "crossing" \notin mishaps /\ mishaps' = mishaps
                /\ \A k \in Slots : ~Holding(k) /\ (Holding(k)' => k = j)
                /\ files'[p] = 0 /\ files'[p + 1] = files[p] /\ files[p] # 0
                /\ \A k \in 0 .. Depth : k # p /\ k # p + 1 => files'[k] = files[k]
    <3>1. "crossing" \notin mishaps /\ mishaps' = mishaps /\ \A k \in Slots : ~Holding(k)
      BY <1>0, <2>3, <2>4, <2>10
    <3>2. \A k \in Slots : Holding(k)' => k = j
      BY <2>1, <3>1 DEF Put, Holding
    <3>3. /\ files'[p] = 0 /\ files'[p + 1] = files[p] /\ files[p] # 0
          /\ \A k \in 0 .. Depth : k # p /\ k # p + 1 => files'[k] = files[k]
      BY <1>0, <1>2, <2>2, RenameEffect
    <3> QED BY <3>1, <3>2, <3>3
  <2>11. SomeLeft'
    <3> SUFFICES ASSUME "crossing" \notin mishaps'
                 PROVE  /\ \A k \in Slots : Holding(k)' => Left(k)'
                        /\ files'[p + 1] # 0
      BY <2>2 DEF SomeLeft
    <3>1. files'[p + 1] # 0 /\ job'[j].path = p /\ job'[j].at = "install"
      BY <2>1, <2>10 DEF Put
    <3> QED BY <2>10, <3>1 DEF Left
  <2>12. Adrift'
    <3> SUFFICES ASSUME "crossing" \notin mishaps', "unrestored" \in mishaps'
                 PROVE  files'[0] = 0 /\ \A k \in Slots : Holding(k)' => job'[k].path # 0
      BY DEF Adrift
    <3>1. files[0] = 0
      BY <2>10 DEF UpdateInv, Adrift
    <3>2. p # 0 /\ p + 1 # 0 /\ 0 \in 0 .. Depth
      BY <1>0, <2>2, <2>10, <3>1, DepthNat
    <3>3. files'[0] = 0 /\ job'[j].path = p
      BY <2>1, <2>10, <3>1, <3>2 DEF Put
    <3> QED BY <2>10, <3>2, <3>3
  <2>7. ASSUME {"crossing", "unrestored"} \intersect mishaps' = {}
        PROVE  /\ "crossing" \notin mishaps /\ p = 0 /\ files[0] # 0
               /\ files'[0] = 0 /\ files'[1] = files[0]
               /\ \A k \in Slots : ~Holding(k)
               /\ self'.linked <=> self'.path = 1
               /\ self'.path \in {0, 1}
    <3>1. "crossing" \notin mishaps /\ \A k \in Slots : ~Holding(k)
      BY <2>7, <2>10
    <3>2. AtRest
      BY <2>7, <2>10, <3>1 DEF UpdateInv, OneSwap
    <3>3. files[p] # 0
      BY <1>2 DEF Rename
    <3>4. p = 0 /\ files[0] # 0
      BY <3>2, <3>3 DEF AtRest
    <3>5. /\ files'[0] = 0 /\ files'[1] = files[0]
          /\ self.linked => self'.linked /\ self'.path = 1
          /\ ~self.linked => self'.path = 0 /\ ~self'.linked
      BY <1>0, <1>2, <2>2, <3>4, RenameEffect
    <3> QED BY <3>1, <3>4, <3>5
  <2>8. OneSwap'
    <3> SUFFICES ASSUME {"crossing", "unrestored"} \intersect mishaps' = {}
                 PROVE  /\ \A k \in Slots : k # j => ~Holding(k)'
                        /\ Holding(j)' /\ Swap(j)'
      BY DEF OneSwap
    <3> QED BY <2>1, <2>7 DEF Put, Holding, Swap, Swapping
  <2>9. NewestKept'
    <3> SUFFICES ASSUME "overlap" \notin mishaps', "stale" \notin mishaps' PROVE NewestKept'
      BY DEF NewestKept
    <3>1. "overlap" \notin mishaps /\ "stale" \notin mishaps /\ "crossing" \notin mishaps'
      BY <2>3, <2>5, <2>6 DEF Counted
    <3>2. files[0] \in {0, best} /\ best' = best /\ info' = info /\ process' = process
      BY <1>0, <3>1 DEF UpdateInv, NewestKept, agent
    <3>3. files'[0] \in {0, best} /\ (p = 0 => files'[1] = best)
      <4>1. CASE p = 0
        BY <2>10, <3>1, <3>2, <4>1
      <4>2. CASE p # 0
        BY <1>0, <2>2, <2>10, <3>1, <3>2, <4>2, DepthNat
      <4> QED BY <4>1, <4>2
    <3>4. ASSUME NEW k \in Slots
          PROVE  /\ job'[k].at \in Swapping /\ job'[k].path = 0 => files'[1] = best
                 /\ Updating(k)' => job'[k].target \in best .. info.latest
      <4>1. Updating(k)' => Updating(k) /\ job'[k].target = job[k].target
        BY <1>0, <2>1 DEF Put, Updating
      <4>2. job'[k].at \in Swapping => k = j /\ job'[k].path = p
        BY <2>1, <2>10, <3>1 DEF Put, Holding, Swapping
      <4> QED BY <3>1, <3>3, <4>1, <4>2 DEF UpdateInv, NewestKept
    <3> QED BY <3>1, <3>2, <3>3, <3>4 DEF UpdateInv, NewestKept
  <2> QED BY <2>6, <2>8, <2>9, <2>11, <2>12 DEF UpdateInv
<1> QED BY <1>1, <1>2 DEF Backup

\* A job that holds its backup, without updates that crossed.
LEMMA HoldsAlone ==
  ASSUME UpdateInv, NEW j \in Slots, Holding(j)
  PROVE  /\ Updating(j) /\ process # 0 /\ job[j].path + 1 \in 0 .. Depth
         /\ job[j].path \in 0 .. Depth /\ job[j].target \in 1 .. release
         /\ "crossing" \notin mishaps => Left(j) /\ \A k \in Slots : Holding(k) => k = j
         /\ {"crossing", "unrestored"} \intersect mishaps = {} => Swap(j)
<1>1. Updating(j)
  BY DEF UpdateInv, JobTyped, Holding, Updating
<1>2. process # 0
  BY DEF UpdateInv, UpdateTypeOK, Holding
<1>3. job[j].path < Depth /\ job[j].path \in Nat
  BY Numbers DEF UpdateInv, JobTyped
<1>4. job[j].target \in process + 1 .. release
  BY <1>1 DEF UpdateInv, Between
<1>5. "crossing" \notin mishaps => Left(j) /\ \A k \in Slots : Holding(k) => k = j
  BY DEF UpdateInv, SomeLeft, Left
<1>6. {"crossing", "unrestored"} \intersect mishaps = {} => Swap(j)
  BY DEF UpdateInv, OneSwap
<1> QED BY <1>1, <1>2, <1>3, <1>4, <1>5, <1>6, Numbers, DepthNat

\* A file appears, or disappears, at k.
LEMMA FileStep ==
  ASSUME UpdateInv, NEW k \in 0 .. Depth, NEW v \in 0 .. release,
         files' = [files EXCEPT ![k] = v],
         self' = (IF self.path = k THEN [self EXCEPT !.linked = FALSE] ELSE self)
  PROVE  /\ files' \in [0 .. Depth -> 0 .. release] /\ files'[k] = v
         /\ \A l \in 0 .. Depth : l # k => files'[l] = files[l]
         /\ self' \in [path: 0 .. Depth, linked: BOOLEAN] /\ self'.path = self.path
         /\ self'.linked <=> self.linked /\ self.path # k
         /\ self'.linked => files'[self'.path] = process
<1>1. /\ files \in [0 .. Depth -> 0 .. release]
      /\ self \in [path: 0 .. Depth, linked: BOOLEAN]
      /\ self.linked => files[self.path] = process
  BY DEF UpdateInv, UpdateTypeOK
<1>2. /\ files' \in [0 .. Depth -> 0 .. release] /\ files'[k] = v
      /\ \A l \in 0 .. Depth : l # k => files'[l] = files[l]
  BY <1>1
<1>3. CASE self.path = k
  <2>1. self' = [self EXCEPT !.linked = FALSE]
    BY <1>3
  <2>2. self' \in [path: 0 .. Depth, linked: BOOLEAN] /\ self'.path = self.path /\ ~self'.linked
    BY <1>1, <2>1
  <2> QED BY <1>2, <1>3, <2>2
<1>4. CASE self.path # k
  <2>1. self' = self
    BY <1>4
  <2> QED BY <1>1, <1>2, <1>4, <2>1
<1> QED BY <1>3, <1>4

\* The second rename, or what is left to do when it fails.
LEMMA InstallStep ==
  ASSUME UpdateInv, NEW j \in Slots, Install(j) PROVE UpdateInv'
<1> DEFINE p == job[j].path
           v == job[j].target
<1>0. Holding(j) /\ job[j].at = "install" /\ UNCHANGED <<agent, site, mishaps>>
  BY DEF Install, Is, Holding
<1>1. CASE Replace(p, v) /\ Go(j, "remove")
  <2>1. Advance(j, job[j].kind, v, "remove")
    BY <1>1, SetAt DEF UpdateInv, JobTyped, Stages
  <2>2. Put(j, job[j].kind, v, p, "remove")
    BY <2>1 DEF Advance
  <2>3. /\ files' \in [0 .. Depth -> 0 .. release] /\ files'[p] = v
        /\ \A l \in 0 .. Depth : l # p => files'[l] = files[l]
        /\ self' \in [path: 0 .. Depth, linked: BOOLEAN] /\ self'.path = self.path
        /\ self'.linked <=> self.linked /\ self.path # p
        /\ self'.linked => files'[self'.path] = process
    <3>1. p \in 0 .. Depth /\ v \in 0 .. release
      BY <1>0, HoldsAlone, Numbers
    <3> QED BY <1>1, <3>1, FileStep DEF Replace
  <2>4. best' \in 1 .. release
    BY <1>0, <1>1, HoldsAlone DEF Replace, UpdateInv, UpdateTypeOK
  <2>5. UpdateTypeOK' /\ JobTyped' /\ Between' /\ Counted'
    <3>1. job[j].kind = "update" /\ p < Depth
      BY <1>0 DEF UpdateInv, JobTyped
    <3> QED BY <1>0, <2>2, <2>3, <2>4, <3>1, HoldsAlone, SwapStep
  <2>6. OneSwap'
    <3> SUFFICES ASSUME {"crossing", "unrestored"} \intersect mishaps = {}
                 PROVE  /\ \A k \in Slots : k # j => ~Holding(k)'
                        /\ Holding(j)' /\ Swap(j)'
      BY <1>0 DEF OneSwap
    <3>1. Swap(j) /\ \A k \in Slots : Holding(k) => k = j
      BY <1>0, HoldsAlone
    <3>2. v # 0
      BY <1>0, HoldsAlone
    <3>3. files'[0] = v /\ files'[1] = files[1]
      BY <2>3, <3>1, DepthNat DEF Swap
    <3>4. \A k \in Slots : k # j => ~Holding(k)'
      BY <2>2, <3>1 DEF Put, Holding
    <3>5. Holding(j)'
      BY <2>2 DEF Put, Holding
    <3>6. Swap(j)'
      BY <2>2, <2>3, <3>1, <3>2, <3>3 DEF Put, Swap, Swapping
    <3> QED BY <3>4, <3>5, <3>6
  <2>8. SomeLeft' /\ Adrift'
    <3> SUFFICES ASSUME "crossing" \notin mishaps
                 PROVE  /\ \A k \in Slots : Holding(k)' => k = j
                        /\ Left(j)' /\ files'[p] # 0
                        /\ "unrestored" \in mishaps => files'[0] = 0 /\ p # 0
      BY <1>0, <2>2, HoldsAlone DEF SomeLeft, Adrift, Put
    <3>1. \A k \in Slots : Holding(k)' => k = j
      BY <1>0, <2>2, HoldsAlone DEF Put, Holding
    <3>2. files'[p] # 0 /\ files'[p + 1] # 0
      BY <1>0, <2>3, HoldsAlone, Numbers DEF Left
    <3>3. Left(j)'
      BY <2>2, <3>1, <3>2 DEF Put, Left
    <3>4. "unrestored" \in mishaps => files'[0] = 0 /\ p # 0
      BY <1>0, <2>3, DepthNat DEF UpdateInv, Adrift
    <3> QED BY <3>1, <3>2, <3>3, <3>4
  <2>7. NewestKept'
    <3> SUFFICES ASSUME "overlap" \notin mishaps, "stale" \notin mishaps PROVE NewestKept'
      BY <1>0 DEF NewestKept
    <3>1. "crossing" \notin mishaps /\ \A k \in Slots : Updating(k) => k = j
      BY <1>0, HoldsAlone DEF UpdateInv, Counted
    <3>3. v \in best .. info.latest
      BY <1>0, HoldsAlone DEF UpdateInv, NewestKept
    <3>4. best' = IF p = 0 THEN v ELSE best
      BY <1>1, <3>3, Numbers DEF Replace
    <3>5. /\ info' = info /\ process' = process /\ files'[0] \in {0, best'}
          /\ process = 0 \/ best <= process \/ best <= info.latest
      <4>1. files[0] \in {0, best} /\ (process = 0 \/ best <= process \/ best <= info.latest)
        BY DEF UpdateInv, NewestKept
      <4>2. files'[0] = IF p = 0 THEN v ELSE files[0]
        BY <2>3, DepthNat
      <4> QED BY <1>0, <3>4, <4>1, <4>2 DEF agent
    <3>6. ASSUME NEW k \in Slots
          PROVE  /\ job'[k].at \notin Swapping
                 /\ Updating(k)' => job'[k].target = v
      <4>1. CASE k = j
        BY <2>2, <4>1 DEF Put, Swapping
      <4>2. CASE k # j
        <5>1. job'[k] = job[k] /\ ~Updating(k)
          BY <2>2, <3>1, <4>2 DEF Put
        <5>2. job[k].at \notin Swapping
          BY <5>1 DEF UpdateInv, JobTyped, Updating, Swapping
        <5> QED BY <5>1, <5>2 DEF Updating
      <4> QED BY <4>1, <4>2
    <3> QED BY <3>3, <3>4, <3>5, <3>6, Numbers DEF NewestKept
  <2> QED BY <2>5, <2>6, <2>7, <2>8 DEF UpdateInv
<1>2. CASE Go(j, "restore") /\ UNCHANGED disk
  <2>1. Advance(j, job[j].kind, v, "restore")
    BY <1>2, SetAt DEF UpdateInv, JobTyped, Stages
  <2>2. Put(j, job[j].kind, v, p, "restore")
    BY <2>1 DEF Advance
  <2>3. UpdateTypeOK' /\ JobTyped' /\ Between' /\ Counted'
    <3>1. job[j].kind = "update" /\ p < Depth
      BY <1>0 DEF UpdateInv, JobTyped
    <3>2. /\ files' \in [0 .. Depth -> 0 .. release] /\ best' \in 1 .. release
          /\ self' \in [path: 0 .. Depth, linked: BOOLEAN]
          /\ self'.linked => files'[self'.path] = process
      BY <1>2 DEF UpdateInv, UpdateTypeOK, disk
    <3> QED BY <1>0, <2>2, <3>1, <3>2, HoldsAlone, SwapStep
  <2>4. \A k \in Slots : /\ job'[k].at \in Swapping <=> job[k].at \in Swapping
                         /\ Holding(k)' <=> Holding(k)
                         /\ Updating(k)' <=> Updating(k)
                         /\ job'[k].path = job[k].path /\ job'[k].target = job[k].target
                         /\ job'[k].at = "remove" <=> job[k].at = "remove"
    BY <1>0, <2>2, HoldsAlone DEF Put, Swapping, Holding, Updating
  <2>5. OneSwap'
    BY <1>0, <1>2, <2>4 DEF UpdateInv, OneSwap, Swap, AtRest, disk, agent
  <2>7. SomeLeft' /\ Adrift'
    BY <1>0, <1>2, <2>4 DEF UpdateInv, SomeLeft, Adrift, Left, disk
  <2>6. NewestKept'
    BY <1>0, <1>2, <2>4 DEF UpdateInv, NewestKept, disk, agent
  <2> QED BY <2>3, <2>5, <2>6, <2>7 DEF UpdateInv
<1> QED BY <1>1, <1>2 DEF Install

\* A job gives up its hold: the files are at rest again.
LetsGo(j) ==
  /\ UNCHANGED <<best, agent, site>>
  /\ \/ mishaps' = mishaps
     \/ job[j].at = "restore" /\ mishaps' = mishaps \union {"unrestored"}
  /\ Put(j, job'[j].kind, job'[j].target, job'[j].path, job'[j].at)
  /\ \/ job'[j].at = "idle"
     \/ /\ job'[j].at = "restart" /\ job'[j].kind = "update"
        /\ job'[j].target = job[j].target
  /\ files' \in [0 .. Depth -> 0 .. release]
  /\ self' \in [path: 0 .. Depth, linked: BOOLEAN]
  /\ self'.linked => files'[self'.path] = process
  /\ "crossing" \notin mishaps =>
       /\ \E k \in 0 .. Depth : files'[k] # 0
       /\ "unrestored" \in mishaps' => files'[0] = 0
       /\ "unrestored" \notin mishaps' => AtRest'
       /\ job[j].path # 0 \/ job[j].at = "remove" => files'[0] = files[0]
       /\ files'[0] \in {files[0], files[1]}

LEMMA LetGo ==
  ASSUME UpdateInv, NEW j \in Slots, Holding(j), LetsGo(j)
  PROVE  UpdateInv'
<1>1. UpdateTypeOK' /\ JobTyped' /\ Between' /\ Counted'
  <2>1. best' \in 1 .. release
    BY DEF LetsGo, UpdateInv, UpdateTypeOK
  <2>2. /\ mishaps \subseteq mishaps' /\ mishaps' \subseteq mishaps \union {"crossing", "unrestored"}
        /\ "crossing" \in mishaps' => {"crossing", "overlap"} \intersect mishaps # {}
    BY DEF LetsGo
  <2> QED BY <2>1, <2>2, HoldsAlone, SwapStep DEF LetsGo
<1>2. \A k \in Slots : k # j => job'[k] = job[k]
  BY DEF LetsGo, Put
<1>3. ~Holding(j)' /\ job'[j].at \notin Swapping
  BY DEF LetsGo, Holding, Swapping
<1>4. "crossing" \notin mishaps => \A k \in Slots : ~Holding(k)'
  BY <1>2, <1>3, HoldsAlone DEF Holding
<1>5. OneSwap' /\ SomeLeft' /\ Adrift'
  BY <1>4 DEF LetsGo, OneSwap, SomeLeft, Adrift
<1>6. NewestKept'
  <2> SUFFICES ASSUME "overlap" \notin mishaps, "stale" \notin mishaps PROVE NewestKept'
    BY DEF LetsGo, NewestKept
  <2>1. "crossing" \notin mishaps /\ \A k \in Slots : Updating(k) => k = j
    BY HoldsAlone DEF UpdateInv, Counted
  <2>2. files[0] \in {0, best}
    BY DEF UpdateInv, NewestKept
  <2>3. files'[0] \in {0, best}
    <3>1. CASE job[j].path # 0 \/ job[j].at = "remove"
      BY <2>1, <2>2, <3>1 DEF LetsGo
    <3>2. CASE job[j].path = 0 /\ job[j].at # "remove"
      <4>1. files[1] = best
        BY <3>2 DEF UpdateInv, NewestKept, Holding, Swapping
      <4> QED BY <2>1, <2>2, <3>2, <4>1 DEF LetsGo
    <3> QED BY <3>1, <3>2
  <2>4. ASSUME NEW k \in Slots
        PROVE  /\ job'[k].at \notin Swapping
               /\ Updating(k)' => job'[k].target \in best .. info.latest
    <3>1. CASE k = j
      BY <1>3, <3>1, HoldsAlone DEF LetsGo, Updating, UpdateInv, NewestKept
    <3>2. CASE k # j
      <4>1. job'[k] = job[k] /\ ~Updating(k)
        BY <1>2, <2>1, <3>2
      <4>2. job[k].at \notin Swapping
        BY <4>1 DEF UpdateInv, JobTyped, Updating, Swapping
      <4> QED BY <4>1, <4>2 DEF Updating
    <3> QED BY <3>1, <3>2
  <2> QED BY <2>3, <2>4 DEF LetsGo, UpdateInv, NewestKept, agent
<1> QED BY <1>1, <1>5, <1>6 DEF UpdateInv

LEMMA RestoreStep ==
  ASSUME UpdateInv, NEW j \in Slots, Restore(j) PROVE UpdateInv'
<1> DEFINE p == job[j].path
<1>0. /\ Holding(j) /\ job[j].at = "restore" /\ Done(j)
      /\ UNCHANGED <<best, agent, site>>
  BY DEF Restore, Is, Holding
<1>1. p \in 0 .. Depth /\ p + 1 \in 0 .. Depth /\ p + 1 # p /\ 0 \in 0 .. Depth /\ p + 1 # 0
  BY <1>0, HoldsAlone, Numbers, DepthNat
<1>2. Put(j, "check", 0, 0, "idle")
  BY <1>0, SetDone DEF UpdateInv, JobTyped
<1>3. /\ Put(j, job'[j].kind, job'[j].target, job'[j].path, job'[j].at)
      /\ job'[j].at = "idle"
  BY <1>2 DEF Put
<1>4. CASE Rename(p + 1, p) /\ UNCHANGED mishaps
  <2>2. /\ files' \in [0 .. Depth -> 0 .. release]
        /\ files'[p + 1] = 0 /\ files'[p] = files[p + 1] /\ files[p + 1] # 0
        /\ \A k \in 0 .. Depth : k # p + 1 /\ k # p => files'[k] = files[k]
        /\ self' \in [path: 0 .. Depth, linked: BOOLEAN]
        /\ self'.linked => self.linked /\ files'[self'.path] = process
        /\ self.linked /\ self.path = p + 1 => self'.linked /\ self'.path = p
        /\ ~(self.linked /\ self.path = p + 1) => self'.path = self.path
    BY <1>1, <1>4, RenameEffect
  <2>3. ASSUME {"crossing", "unrestored"} \intersect mishaps = {} PROVE AtRest'
    <3>1. Swap(j)
      BY <1>0, <2>3, HoldsAlone
    <3>2. p = 0
      BY <3>1 DEF Swap
    <3>3. self'.path = 0
      BY <2>2, <3>1, <3>2 DEF Swap
    <3>4. files'[0] # 0
      BY <2>2, <3>2
    <3> QED BY <3>3, <3>4 DEF AtRest
  <2>4. /\ "crossing" \notin mishaps /\ "unrestored" \in mishaps => p # 0 /\ files[0] = 0
        /\ p # 0 => files'[0] = files[0]
        /\ p = 0 => files'[0] = files[1]
    BY <1>0, <1>1, <2>2 DEF UpdateInv, Adrift
  <2>5. \E k \in 0 .. Depth : files'[k] # 0
    BY <1>1, <2>2
  <2> QED BY <1>0, <1>3, <1>4, <2>2, <2>3, <2>4, <2>5, LetGo DEF LetsGo
<1>5. CASE Blame({"unrestored"}) /\ UNCHANGED <<files, self>>
  <2>1. mishaps' = mishaps \union {"unrestored"}
    BY <1>5 DEF Blame
  <2>2. /\ files' \in [0 .. Depth -> 0 .. release]
        /\ self' \in [path: 0 .. Depth, linked: BOOLEAN]
        /\ self'.linked => files'[self'.path] = process
    BY <1>5 DEF UpdateInv, UpdateTypeOK
  <2>3. "crossing" \notin mishaps => files'[p + 1] # 0
    BY <1>0, <1>5, HoldsAlone DEF Left
  <2>4. "crossing" \notin mishaps => files'[0] = 0
    <3> SUFFICES ASSUME "crossing" \notin mishaps PROVE files[0] = 0
      BY <1>5
    <3>1. CASE "unrestored" \in mishaps
      BY <3>1 DEF UpdateInv, Adrift
    <3>2. CASE "unrestored" \notin mishaps
      BY <1>0, <3>2, HoldsAlone DEF Swap, Swapping
    <3> QED BY <3>1, <3>2
  <2> QED BY <1>0, <1>1, <1>3, <1>5, <2>1, <2>2, <2>3, <2>4, LetGo DEF LetsGo
<1> QED BY <1>4, <1>5 DEF Restore

LEMMA RemoveBackupStep ==
  ASSUME UpdateInv, NEW j \in Slots, RemoveBackup(j) PROVE UpdateInv'
<1> DEFINE p == job[j].path + 1
<1>0. /\ Holding(j) /\ job[j].at = "remove" /\ Go(j, "restart")
      /\ UNCHANGED <<best, agent, site, mishaps>>
      /\ files' = [files EXCEPT ![p] = 0]
      /\ self' = (IF self.path = p THEN [self EXCEPT !.linked = FALSE] ELSE self)
  BY DEF RemoveBackup, Is, Holding
<1>1. p \in 0 .. Depth /\ 0 \in 0 .. release
  BY <1>0, HoldsAlone, Numbers
<1>2. Advance(j, job[j].kind, job[j].target, "restart")
  BY <1>0, SetAt DEF UpdateInv, JobTyped, Stages
<1>3. /\ Put(j, job'[j].kind, job'[j].target, job'[j].path, job'[j].at)
      /\ job'[j].at = "restart"
  BY <1>2 DEF Advance, Put
<1>4. job'[j].kind = "update" /\ job'[j].target = job[j].target
  BY <1>0, <1>2 DEF Advance, Put, UpdateInv, JobTyped
<1>5. /\ files' \in [0 .. Depth -> 0 .. release] /\ files'[p] = 0
      /\ \A l \in 0 .. Depth : l # p => files'[l] = files[l]
      /\ self' \in [path: 0 .. Depth, linked: BOOLEAN] /\ self'.path = self.path
      /\ self'.linked <=> self.linked /\ self.path # p
      /\ self'.linked => files'[self'.path] = process
  BY <1>0, <1>1, FileStep
<1>7. files'[0] = files[0]
  BY <1>0, <1>1, <1>5, DepthNat, Numbers
<1>8. "crossing" \notin mishaps => files'[job[j].path] # 0 /\ job[j].path \in 0 .. Depth
  BY <1>0, <1>5, HoldsAlone, Numbers DEF Left
<1>9. "crossing" \notin mishaps /\ "unrestored" \in mishaps => files'[0] = 0
  BY <1>7 DEF UpdateInv, Adrift
<1>6. {"crossing", "unrestored"} \intersect mishaps = {} => AtRest'
  <2> SUFFICES ASSUME {"crossing", "unrestored"} \intersect mishaps = {} PROVE AtRest'
    OBVIOUS
  <2>1. Swap(j)
    BY <1>0, HoldsAlone
  <2>2. p = 1 /\ files[0] # 0
    BY <1>0, <2>1 DEF Swap, Swapping
  <2>3. files'[0] = files[0] /\ files'[1] = 0
    BY <1>5, <2>2, DepthNat
  <2> QED BY <1>5, <2>1, <2>2, <2>3 DEF AtRest, Swap
<1>10. "crossing" \notin mishaps => \E k \in 0 .. Depth : files'[k] # 0
  BY <1>8
<1> QED BY <1>0, <1>3, <1>4, <1>5, <1>6, <1>7, <1>9, <1>10, LetGo DEF LetsGo

LEMMA RestartStep ==
  ASSUME UpdateInv, NEW j \in Slots, RestartAgentService(j) PROVE UpdateInv'
<1>1. CASE allowed /\ unit # "none"
  <2>1. Die /\ UNCHANGED <<files, best, site>>
    BY <1>1 DEF RestartAgentService
  <2>2. unit' \in {"script", "command", "none"}
    BY <2>1 DEF site, UpdateInv, UpdateTypeOK
  <2> QED BY <2>1, <2>2, DieStep DEF site
<1>2. CASE ~(allowed /\ unit # "none")
  BY <1>2, DoneStep DEF RestartAgentService, Is, Holding, disk
<1> QED BY <1>1, <1>2
-----------------------------------------------------------------------------
LEMMA CheckerStep ==
  ASSUME UpdateInv, TimeToCheck \/ CheckAnswered \/ SendInfo \/ ReceiveInfo
  PROVE  UpdateInv'
<1> USE DEF UpdateInv
<1>1. /\ Idle \in Job /\ Idle.at = "idle" /\ {info, mail} \subseteq Info /\ checker \in Job
      /\ checker.at \in {"idle", "asked", "answered"} /\ Sound(info) /\ Sound(mail)
      /\ checker.at = "answered" => checker.target \in process .. release /\ checker.target # 0
  BY DepthNat DEF Idle, Job, UpdateTypeOK, JobTyped, Between
<1>2. release \in Versions /\ release # 0 /\ release \in process .. release
  BY Numbers, DepthNat DEF UpdateTypeOK, Versions
<1>3. process = 0 => info = Unknown /\ mail = Unknown /\ checker.at = "idle"
  BY DEF UpdateTypeOK, Idle
<1>4. CASE TimeToCheck
  <2>1. checker' \in Job /\ checker'.at = "asked"
    BY <1>1, <1>4 DEF TimeToCheck, Job
  <2> QED BY <1>1, <1>4, <2>1, CheckStep, Numbers DEF TimeToCheck
<1>5. CASE CheckAnswered
  <2>1. process # 0
    BY <1>3, <1>5 DEF CheckAnswered
  <2>2. CASE checker' = Idle
    BY <1>1, <1>5, <2>1, <2>2, CheckStep, Numbers DEF CheckAnswered
  <2>3. CASE checker' = [checker EXCEPT !.at = "answered", !.target = release]
    <3> DEFINE mid == [checker EXCEPT !.at = "answered"]
    <3>1. mid \in Job /\ mid.at = "answered" /\ checker' = [mid EXCEPT !.target = release]
      BY <1>1, <2>3 DEF Job
    <3> HIDE DEF mid
    <3>2. checker' \in Job /\ checker'.at = "answered" /\ checker'.target = release
      BY <1>2, <3>1 DEF Job
    <3> QED BY <1>1, <1>2, <1>5, <2>1, <3>2, CheckStep, Numbers DEF CheckAnswered
  <2> QED BY <1>5, <2>2, <2>3 DEF CheckAnswered
<1>6. CASE SendInfo
  <2>1. process # 0
    BY <1>3, <1>6 DEF SendInfo
  <2>2. CheckForUpdates(checker.target) \in Info /\ Sound(CheckForUpdates(checker.target))
    BY <1>1, <1>6, Answer DEF SendInfo
  <2>3. mail' \in Info /\ Sound(mail')
    BY <1>1, <1>6, <2>2 DEF SendInfo
  <2> QED BY <1>1, <1>6, <2>1, <2>3, CheckStep, Numbers DEF SendInfo
<1>7. CASE ReceiveInfo
  <2>1. process # 0
    BY <1>3, <1>7 DEF ReceiveInfo
  <2>2. Unknown \in Info /\ Sound(Unknown)
    BY DEF Unknown, Info, Sound
  <2>3. info' = mail /\ mail' = Unknown
    BY <1>7 DEF ReceiveInfo, Learn
  <2>4. mishaps' = mishaps \union (IF mail.latest < info.latest THEN {"stale"} ELSE {})
    BY <1>7 DEF ReceiveInfo, Learn, Blame
  <2>5. /\ mishaps' = mishaps \/ mishaps' = mishaps \union {"stale"}
        /\ info'.latest >= info.latest \/ "stale" \in mishaps'
    BY <2>3, <2>4, Numbers
  <2> QED BY <1>1, <1>7, <2>1, <2>2, <2>3, <2>5, CheckStep DEF ReceiveInfo
<1> QED BY <1>4, <1>5, <1>6, <1>7

LEMMA UpdateNextInv == UpdateInv /\ [UpdateNext]_updateVars => UpdateInv'
<1> SUFFICES ASSUME UpdateInv, [UpdateNext]_updateVars PROVE UpdateInv'
  OBVIOUS
<1>0. /\ release \in Versions /\ offered \in BOOLEAN /\ unit \in {"script", "command", "none"}
      /\ release \in Nat
  BY Numbers DEF UpdateInv, UpdateTypeOK
<1>1. CASE Publish
  <2>1. release' \in Versions /\ release <= release'
    BY <1>0, <1>1, UpdateAssumption DEF Publish, Versions
  <2> QED BY <1>0, <1>1, <2>1, SiteStep DEF Publish
<1>2. CASE ServiceInstall
  BY <1>0, <1>2, SiteStep DEF ServiceInstall
<1>3. CASE Heartbeat
  BY <1>0, <1>3, SiteStep DEF Heartbeat
<1>4. CASE Start
  BY <1>4, StartStep
<1>5. CASE Kill
  BY <1>0, <1>5, DieStep DEF Kill, site
<1>6. CASE ServiceUninstall
  BY <1>6, DieStep DEF ServiceUninstall
<1>7. CASE TimeToCheck \/ Checker \/ ReceiveInfo
  BY <1>7, CheckerStep DEF Checker
<1>8. ASSUME NEW j \in Slots, OrderCheck(j) \/ Check(j) PROVE UpdateInv'
  BY <1>8, OrderCheckStep, StartCheckStep, FetchLatestStep, SetUpdateInfoStep DEF Check
<1>9. ASSUME NEW j \in Slots, OrderUpdate(j) \/ Update(j) PROVE UpdateInv'
  BY <1>9, OrderUpdateStep, StartUpdateStep, DownloadStep, BackupStep, InstallStep, RestoreStep,
     RemoveBackupStep, RestartStep DEF Update
<1>10. CASE UNCHANGED updateVars
  BY <1>0, <1>10, SiteStep DEF updateVars, disk, agent
<1> QED BY <1>1, <1>2, <1>3, <1>4, <1>5, <1>6, <1>7, <1>8, <1>9, <1>10 DEF UpdateNext

LEMMA UpdateInvariance == UpdateSpec => []UpdateInv
  BY UpdateInitInv, UpdateNextInv, PTL DEF UpdateSpec

(* The agent, its files and its commands keep their types; a process that follows its *)
(* file finds itself there, and what it was doing ends with it. *)
THEOREM UpdateTyped == UpdateSpec => []UpdateTypeOK
<1>1. UpdateInv => UpdateTypeOK
  BY DEF UpdateInv
<1> QED BY <1>1, UpdateInvariance, PTL

(* However updates, deaths and failing renames fall, the executable is missing only between *)
(* the two renames of an update, or after one that died there, could not be taken back or *)
(* was crossed; and unless updates crossed there is a backup to go on with, the *)
(* executable's own except after a rename back that failed (handleUpdateAgent). *)
THEOREM BackupKept == UpdateSpec => []BinaryKept
<1>1. UpdateInv => BinaryKept
  <2> SUFFICES ASSUME UpdateInv, files[0] = 0, "crossing" \notin mishaps
               PROVE  /\ \/ \E j \in Slots : job[j].at \in Swapping
                         \/ {"cut", "unrestored"} \intersect mishaps # {}
                      /\ \/ files[1] # 0
                         \/ "unrestored" \in mishaps /\ \E k \in 2 .. Depth : files[k] # 0
    BY DEF BinaryKept, binary
  <2>1. CASE "unrestored" \in mishaps
    <3>1. PICK k \in 0 .. Depth : files[k] # 0
      BY DEF UpdateInv, SomeLeft
    <3>2. k = 1 \/ k \in 2 .. Depth
      BY <3>1, DepthNat
    <3> QED BY <2>1, <3>1, <3>2
  <2>2. CASE "unrestored" \notin mishaps /\ \E j \in Slots : Holding(j)
    BY <2>2 DEF UpdateInv, OneSwap, Swap
  <2>3. CASE "unrestored" \notin mishaps /\ ~\E j \in Slots : Holding(j)
    BY <2>3 DEF UpdateInv, OneSwap, AtRest
  <2> QED BY <2>1, <2>2, <2>3
<1> QED BY <1>1, UpdateInvariance, PTL

(* Although versions are compared as strings, every update under way leads upwards, and a *)
(* newer release whose numbers have as many digits as those of the one that runs is seen *)
(* (compareVersions). *)
THEOREM UpwardsOnly == UpdateSpec => []OnlyUpwards
<1>1. UpdateInv => OnlyUpwards
  <2> SUFFICES ASSUME UpdateInv PROVE OnlyUpwards
    OBVIOUS
  <2>1. \A j \in Slots : Updating(j) => job[j].target > process
    BY Numbers DEF UpdateInv, Between
  <2>2. ASSUME info.latest > process, process # 0, SameShape(Text[process], Text[info.latest])
        PROVE  info.available
    <3>1. info.latest \in process .. release /\ info.latest # 0
      BY <2>2, Numbers DEF UpdateInv, Between, Sound
    <3>2. release \in Versions
      BY DEF UpdateInv, UpdateTypeOK
    <3>3. process \in Versions /\ info.latest \in Versions
      BY <2>2, <3>1, <3>2, Numbers, UpdateAssumption DEF Versions
    <3>4. compareVersions(process, info.latest)
      BY <2>2, <3>3, UpdateAssumption DEF compareVersions
    <3> QED BY <3>1, <3>4 DEF UpdateInv, Between, Sound
  <2> QED BY <2>1, <2>2 DEF OnlyUpwards
<1> QED BY <1>1, UpdateInvariance, PTL

(* The supervisor starts no version older than one installed before, unless two updates *)
(* overlapped or the answers to two checks arrived in the wrong order (setUpdateInfo). *)
THEOREM NeverBackwards == UpdateSpec => NoDowngrade
<1> DEFINE Backwards == process = 0 /\ process' # 0 =>
                          process' >= best \/ {"overlap", "stale"} \intersect mishaps # {}
<1>1. UpdateInv /\ [UpdateNext]_updateVars => [Backwards]_updateVars
  <2> SUFFICES ASSUME UpdateInv, UpdateNext, process = 0, process' # 0,
                      {"overlap", "stale"} \intersect mishaps = {}
               PROVE  process' >= best
    OBVIOUS
  <2>1. Start
    BY DEF UpdateNext, Publish, Kill, Die, ServiceInstall, ServiceUninstall, Heartbeat,
       TimeToCheck, Checker, CheckAnswered, SendInfo, ReceiveInfo, OrderCheck, Check, StartCheck,
       FetchLatest, SetUpdateInfo, OrderUpdate, Update, StartUpdate, Download, Backup, Install,
       Restore, RemoveBackup, RestartAgentService, Is, agent
  <2>2. files[0] = best
    <3>1. files[0] \in {0, best}
      BY DEF UpdateInv, NewestKept
    <3> QED BY <2>1, <3>1 DEF Start, binary
  <2> QED BY <2>1, <2>2, Numbers DEF Start, binary
<1> QED BY <1>1, UpdateInvariance, PTL DEF UpdateSpec, NoDowngrade
=============================================================================

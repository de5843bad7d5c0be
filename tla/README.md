# Swoops control plane: TLA+ specifications and proofs

Swoops runs AI coding agents in tmux sessions on many hosts. A control plane
(`swoopsd`, under `server/`) keeps hosts and sessions in SQLite, serves a REST
and WebSocket interface and a React front end; a daemon per host
(`swoops-agent`, under `agent/`) carries out commands. This directory holds
TLA+ models of the parts where goroutines, processes, statements and messages
interleave, TLC configurations for them, and proofs checked by TLAPS.

## 1. Inventory

| Component | State | Operations | Modelled in |
|---|---|---|---|
| Agent notification sockets (`agentmgr/service.go`) | `wsConns`: host → socket | register, replace, unregister, notify, ping, shutdown | `WsRegistry` |
| Command queue and delivery (`agentmgr/command_queue.go`, `service.go`, `api/handlers_agent.go`, agent's listener and main loop) | queue per host in memory; agent's `wsConnected`, one-slot notification channel | queue, notify, fetch-and-clear, listen, reconnect, fallback tick | `CommandDelivery`, promise in `CommandMailbox` |
| Agent session runtime (`agent/cmd/swoops-agent/main.go`, `pkg/tmux`, `pkg/worktree`) | `sessions` map with `stopPoll` channels; tmux sessions and worktrees of the host | launch, stop, input, poll output, close | `AgentRuntime` |
| Session lifecycle (`sessionmgr/manager.go`, `api/handlers_session.go`, `handlers_agent.go`, `store.go`) | one row per session | create, launch goroutine, stop, delete, command result, stuck-session check | `SessionLifecycle` |
| Output publish/subscribe (`agentmgr/service.go`, `handlers_agent.go`, `handlers_session.go`) | subscriber channels per session (capacity 100), last content | post, publish, subscribe, unsubscribe, close | `SessionOutput` |
| SSH output streamer (`sessionmgr/streamer.go`) | subscriber channels (capacity 16), last output | start, stop, subscribe, capture | `SessionOutput` |
| Reconnecting socket hook (`web/src/hooks/useReconnectingWebSocket.ts`) | React state, refs, timers, sockets | render, open, lose, retry, close | `ReconnectingWebSocket` |
| Host registry (`handlers_host.go`, `store.go`, `service.go` heartbeats) | one row per host, the rows of its sessions, the agent's `updateInfo` | create, edit, certificate download, delete, heartbeat | `HostRegistry` |
| MCP bridge (`handlers_mcp.go`, `store/mcp.go`, `003_mcp_bridge.sql`, agent's `mcp.go`) | tasks, reviews, messages, status updates | create, take a task, change, mark read | `McpBridge` |
| Self-update of the agent (`agent main.go`, `pkg/version`, `service.go`) | executable and backups, `updateInfo`, supervisor's unit | check, offer, download, renames, restart, install and remove the service | `AgentUpdate` |
| Server process (`cmd/swoopsd/main.go`) | process, executable | start, serve, stop, `--update`, commands beside it | `ServerProcess` |
| Store and migrations (`store.go`, `migrations/`) | `schema_migrations`, tables | check, execute, record | `Migrations` |
| Certificate rotation (`certrotate.go`) | current certificate, times of the files | load, monitor, reload | `CertRotator` |
| Rate limiter (`waf.go`) | token bucket per address | allow, clean up | `RateLimiter` |
| Users and login sessions, blocked addresses (`handlers_auth.go`, `handlers_waf.go`, `middleware.go`, `store/users.go`) | users, tokens, block list | log in and out, change and reset passwords, create users, block | `AccessControl` |
| SSH client cache, GitHub, templates, plugins and file-system handlers, WAF patterns, configuration, certificate generation, metrics, installer rendering, MCP configuration, React pages | – | sequential requests, formatting, files | no |

How they interact. A user's request creates a session row and starts a launch
goroutine. If `IsHostConnected` (an entry in `wsConns`) the goroutine queues a
launch command, otherwise it runs tmux over SSH. Queueing a command notifies
the agent on its WebSocket with an empty "new_command" message; the agent then
fetches the whole queue with one REST request, and runs each command in a
goroutine of its own. It posts a result per command, and output every two
seconds; the server stores the output and publishes it to browser sockets. When
its socket is down the agent polls every five seconds instead. Heartbeats carry
the agent's version and what its daily check found; an update is ordered through
the same queue. All of the server's components share one SQLite file, which the
`create-user` and `reset-password` commands open from processes of their own.
Every request passes block list, rate limiter and authentication first.

What is hard here, and what makes each component correct:

- *Sockets.* Handler goroutines, notifiers and shutdown touch one map entry, and
  a notifier uses the socket after releasing the lock. Correct: no socket is
  served and open but unregistered (the agent would stop polling and never be
  notified); an entry always has a goroutine that will remove it.
- *Delivery.* No acknowledgement, no retry, no duplicate filter, coalesced
  notifications, requests that time out while the server still serves them.
  Correct: in order, at most once; lost only through a fault; no lost wakeup.
- *Agent.* One goroutine per command, steps with git and tmux between two lock
  regions, host state that outlives the daemon. Correct: failures clean up
  after themselves and only after themselves; a channel is closed once; a stop
  after a launch ends it.
- *Session row.* Five kinds of goroutines read a row, work, and write all of its
  columns back. Correct: a stop sticks; a session shown as running was launched.
- *Output.* Channels closed by a stop, by unsubscription and by shutdown, while
  two kinds of publishers send; a viewer reads the row before it subscribes.
  Correct: nobody sends on or closes a closed channel; a viewer that keeps up
  shows the current output.
- *Browser socket.* Callbacks of earlier renders act on the refs of later ones.
  Correct: no connection is opened that is not wanted, and one that is wanted
  is retried.
- *Hosts and MCP.* No handler opens a transaction: what a statement found may
  have changed before the next one. Correct: what is confirmed stays, what is
  deleted stays deleted, only overlapping edits lose anything, no task is handed
  out again after it was given to somebody.
- *Updates.* Binary and backup change places in two renames, next to another
  update and to deaths; versions are compared as strings. Correct: a binary is
  left to go on with, versions only go up, the new one comes to run.
- *Server process.* Migrations are several statements, each committed alone,
  and a certificate is renewed file by file. Correct: no session row is lost,
  the server comes up again, no renewal is missed.
- *Access.* Integer refills and a clean-up that forgets addresses; checks and
  writes in different statements. Correct: the limiter admits what a bucket
  would, an ended login is over, nobody gets in without a password.

## 2. Modules

| Module | Role |
|---|---|
| `WsRegistry` | the socket registry of one host; every map access of the code uses one host ID, so hosts are independent copies |
| `CommandDelivery` | EXTENDS `WsRegistry` (a notifier per command) and adds the queue, the network and the agent's two goroutines |
| `CommandMailbox` | the abstract promise: an at-most-once FIFO mailbox that may lose commands |
| `AgentRuntime` | jobs, map, tmux and worktrees of one agent |
| `SessionLifecycle` | one session row and all its writers, on both launch paths |
| `SessionOutput` | the output of one session: posts, streamer, subscribers, whole-row writers, browser handlers, shutdown, restart |
| `ReconnectingWebSocket` | the browser's end of the output socket |
| `HostRegistry` | one host row, its sessions and its heartbeats |
| `McpBridge` | the items of the MCP tools and the requests that make and change them |
| `AgentUpdate` | how an agent replaces itself |
| `ServerProcess` | the life of `swoopsd`; INSTANCEs `Migrations` (with the server and a command as openers) and `CertRotator` |
| `RateLimiter`, `AccessControl` | the token bucket, and the requests behind it (EXTENDS `RateLimiter`) |
| `MC…` | instances for TLC |
| `…_proofs` | theorems and proofs about the module of that name and those it extends; `CommandDelivery_proofs` also holds those about `WsRegistry`, `SessionOutput_proofs` about `ReconnectingWebSocket`, `AccessControl_proofs` about `RateLimiter`, `AgentRuntime_proofs` about `AgentUpdate` |

Where two modules are extended together, the definitions that each module has
carry a prefix in one of them: `RegistryInit`, `HookNext`, `UpdateSpec`.

How state and actions correspond to the code:

- **WsRegistry.** `wsConn` is `wsConns[hostID]`. `handler[k]` follows
  `HandleAgentWebSocket`: upgraded → (RegisterWebSocket) serving → leaving →
  (deferred Unregister) closing → (deferred Close) done. `notifier[n]` follows
  `notifyNewCommand`: lookup under the read lock, write without any lock, and on
  an error unregister and close. `closed` is the server's `conn.Close()`,
  `broken` the death of the transport. Two overlapping writes on one socket can
  fail or panic in gorilla; in a request the router's Recoverer absorbs the
  panic, so the call just ends.
- **CommandDelivery.** `queue` is `cmdQueue.commands[host]`; `ServePending` is
  `GetPendingCommands` with `DequeueAll`, which forgets the commands before the
  answer is written. `orphans` are requests the agent gave up on, which the
  server still serves. `listener`, `agentConn`, `connected` are the agent's
  `listenForNotifications`; `notified` its one-slot channel; `request`,
  `response`, `started` the main loop's poll. `ticket`, `enqueued` and `started`
  are history.
- **AgentRuntime.** `pc[j]` is where the goroutine of a command is. `sessions`,
  `closes`, `poller` are the map and its records; `tmux` and `worktrees` the
  host, indexed by *name* and *path*, because `tmuxName` keeps only 12
  characters of an ID and worktree paths follow from session names, so both may
  collide (`TmuxName`, `WorktreePath` are constants). Each git or tmux call is an
  action of its own. A shell that is launched without a prompt has nothing typed
  into it and so does not notice that its tmux session is gone
  (`SendAgentCommand`). A restart empties the map and leaves the host as it is.
- **SessionLifecycle.** `row` is the row; `launchCopy`, `copy[r]` and the `sess`
  of a command's result are the copies that the goroutines hold; writing a row
  is `UpdateSession`, which writes all columns and does nothing when the row is
  gone. `Crash` ends every goroutine of the process. In `ResultRead` the branch
  of `handleAgentCommandResult` that turns a pending session into a running one
  cannot be taken, because a command is queued only after "starting" was
  written; the invariant `PendingIsFresh` of the proofs shows this.
- **SessionOutput.** `subs` and `buffer` are `outputSubs` and `outputBuffers` of
  the session; `streamSubs`, `lastOutput`, `streamer` the fields of its
  `OutputStreamer`, `listed` its entry in `Manager.outputs`, `capture` where its
  goroutine is. `client[c]` follows `handleSessionOutputWS`: read (row read and
  sent) → chosen (source chosen) → reading → leaving → done. `chan[c]` is the
  client's channel and `closes[c]` counts how often it was closed. `writer[w]`
  is a request that reads the row and later writes all of it, `last_output`
  included: a stop (twice) or a command's result; the launch's own write is
  `RecordRunning`. Output is the number of the screen it shows. Which of these
  requests the status of the row allows is left to `SessionLifecycle`: here a
  stop may come at any time. A launch that falls back to SSH counts as an SSH
  launch; the agent's own posts are then left out.
- **ReconnectingWebSocket.** Every variable but `mounted`, `rendered`,
  `strayTimers` and `socket` is the ref or state of that name in the hook.
  `RunEffect` is one render with the clean-up of the effect and the effect
  itself; it happens on every render because `TerminalOutput` passes inline
  callbacks, which `connect` and through it the effect depend on. `strayTimers`
  counts timers that a later one has displaced from `reconnectTimeoutRef`. The
  constructor of a socket may throw (`OpenSocket`), after which the hook retries
  without having touched the ref.
- **HostRegistry.** `req[r]` is a request between two of its statements, with
  the row it has read: an edit (`ReadHost`, `UpdateHost`; a certificate download
  is an edit of nothing), a deletion (`ListSessions`, `DeleteListed`,
  `DeleteHost`), or the creation or deletion of a session. `Written` is what
  `UPDATE hosts SET …` writes: every column but the three of the offer. A
  heartbeat is four statements (`Authenticate` … `UpdateHostUpdateInfo`), of
  which a restart may leave any number out; the agent's loop waits for it no
  longer than 30 s. `late`, `wish`, `clobbered` are history.
- **McpBridge.** `call[c]` is a request: `Check` and `CheckTo` look its sessions
  up, `Insert` meets the foreign keys, `Select` and `Mark` are the two statements
  of `GetNextTask`, `MarkMessageRead` one conditional UPDATE. Items are numbered
  by their `created_at`, which is taken before the row is inserted. `Answer` may
  reach nobody. `acked`, `told`, `reads` and the `open` of a call are history.
- **AgentUpdate.** `files` are the executable and the files named like it with
  ".backup" appended; `self` is what `os.Executable` says, which on Linux follows
  a renamed file (`follows`). `job[j]` is a commanded update or check, with an
  action for each file operation of `handleUpdateAgent`; `checker`, `mail` and
  `info` are the background check, `updateInfoChan` and `updateInfo`. `offered`
  is the server's column, `unit` the supervisor's, `allowed` whether the agent's
  user may restart the service: the names the restart tries and the scope, user or
  system, in which it tries them (agent main.go:816, agent service.go) are folded
  into these two. `best` and `mishaps` are history. launchd is treated as systemd,
  and the agent is a released one: a development build is never told of updates
  (version.go:60).
- **Migrations.** `Files` are the statements of 006 and 007, the two migrations
  that can be cut short in the middle and are not repeatable; `opener[p]` is
  where a process is in `migrate`. `After` is what a statement does, the cascade
  of `DROP TABLE sessions` to tasks included; `RecordPartial` is the branch that
  takes a "duplicate" error for an applied migration. The database may refuse any
  statement, being busy or out of space (`Refused`), which ends the start as a
  death would, but for that of `RecordPartial`, whose error is ignored
  (`RecordLost`).
- **CertRotator.** Times of change are generations. `Start` and `Load` are
  `NewCertRotator`, `Watch` the first look of `monitor`, `Tick`, `Read`,
  `Reload` a round of it; the key pair is read file by file.
- **ServerProcess.** `StartServer` … `Serve` follow `main`; `Fatal` is
  `log.Fatalf`, `Shutdown` a signal, `StatementRefused` a refusal of the database
  in either process. `UpdateByRename` and `UpdateByCopy` are the
  two ways of `performUpdate` to replace `exe`, the latter where a running
  executable may be written (`WritesBusy`).
- **RateLimiter.** `Refill`, `Admit` and `Refuse` are `Allow`,
  `CleanupVisitors` the clean-up; time is counted in ticks, of which `Interval`
  bring a token. `credit` and `refused` are history: a bucket that does not round,
  and that is full again only after a silence of the clean-up age (`Earned`).
  Rate and burst are configured and the age is not (five minutes), so a burst may
  take longer than that to be earned; nothing is assumed of it.
- **AccessControl.** `call[c]` goes through `HybridAuth` ("auth") to the
  statements of its handler; the `Request…` actions are the middleware that
  comes before. The server always has an API key (config.go:273 generates one), so
  `HybridAuth` without one is left out. Passwords and tokens stand for their
  hashes. `owner`, `late` and `known` are history.

Code without a caller outside tests is not modelled: `CommandQueue.Peek` and
`Clear`, `UpdateSessionStatus`, `UpsertHostHeartbeat`, `UpdateHostStatus`,
`CleanupExpiredSessions`, `handleControlMessage`.

## 3. Runs

Numbers are distinct states.

| Run | Instance | Shows |
|---|---|---|
| `registry` (34 k) | 2 sockets, 2 notifiers | no served socket is unregistered; dead registrations go and replaced handlers end |
| `delivery` (342 k) | 2 commands, 1 socket, 2 faults of any of 5 kinds | the path implements the at-most-once mailbox; queued and notified commands are fetched |
| `agent` (8.4 M) | 2 launches, 2 stops, 1 input, 3 sessions with one name and path (2 with a worktree), failing tools, 1 restart | failed launches clean up after themselves, a stop after the launch ends the session, a poller is stopped once |
| `agent_overtake` (**violated**) | 1 launch, 1 stop | a stop that runs before its launch has made the tmux session reports success, and the tmux session runs on |
| `lifecycle` (885 k) | 1 stop, 1 delete, fallback to SSH, 1 crash | a stop sticks, "running" was launched, only the launch revives |
| `output` (668 k) | 1 client, 2 posts, 1 writer of the row, channel of 1, 2 screens, 1 restart | no channel is closed twice, a drained channel is up to date, the stream reaches its viewer |
| `websocket` (138 k) | 5 sockets | no unwanted connection is opened, a wanted one is retried |
| `hosts` (372 k) | 2 requests, 1 session, 1 field of 2 values, 1 heartbeat at a time, 2 versions | only overlapping edits lose anything, deletions are whole and stay, the row catches up with the agent |
| `mcp` (5.1 M) | 2 sessions, 2 calls, 2 items, ranks 0 and 1 | what was confirmed stays, the best task comes first, nothing is handed out again |
| `agent_update` (1.36 M) | releases 8.10, 9.10, 10.0; 2 commands; `Depth` 2; Linux and macOS | a binary is kept, versions go up, an update comes to run |
| `server` (1.21 M) | 1 session row, 2 renewals, 1 death or refused statement, a running executable can be written | the open store is migrated, rows are kept, no renewal is missed, the server starts again |
| `access` (4.46 M) | 1 address, burst 2, interval 2, clean-up 2, horizon 4; 2 users, passwords, tokens; 2 calls; 3 settings | the limiter is a bucket, ended logins are over, who may do what |

Deadlock is checked where the system never comes to rest (`hosts`, `mcp`,
`access`); in the other instances connections, commands, requests, releases or
sockets are used up.

Why the bounds are enough. *Registry*: an entry is disturbed by a connection and
its replacement, a notifier by one other writer; the theorems cover all numbers.
*Delivery*: two commands show order and coalescing, two faults let a second one
hit the recovery from the first; races of two sockets are those of `WsRegistry`,
which it implements. *Agent*: two launches and two stops meet in every pair on
one name; an input only reads. Three sessions give a colliding pair with
worktrees and one without. *Lifecycle*: two requests, the launch and the results
of all their commands make every pair of writers. *Output*: clients share only
the two lists, so one is enough to see what others do to it; a channel of one is
full as soon as it is used; two screens tell old from new. *Websocket*: an
orphan, a closing predecessor, the current socket and two attempts. *Hosts*:
statements of two requests and a heartbeat meet in every order; a field is
disturbed by writes of the whole row only, so one is enough; versions 1 and 2
are before and after an update. *Mcp*: two calls race for two items, of which
one may be of the higher rank or a second session's. *Agent update*: two
commands cross in every pair of file operations; three releases, 8.10, 9.10 and
10.0, have one that is newer than its text says, and two texts of one shape; an
executable that was moved once, and so is updated as a ".backup", has a backup
of its own in the second. *Server*: one death or refused statement lets every
migration be cut at every statement and run into by a command at every other; of
two renewals the second can fall into the loading of the first. Where a running
executable cannot be written `--update` only renames, which is among the
behaviours of this instance. *Access*: a bucket of two tokens shows full, partial
and empty, an interval of two ticks the rounding; an address is forgotten one
tick before its burst is earned, so that forgetting does give something;
addresses share nothing, so there is one. Two calls overlap where the limiter is
off; where it is on, one at a time is enough, since the limiter decides before a
call begins.

Bounds in guards: `MaxFaults` (`CommandDelivery`), `MaxRestarts`
(`AgentRuntime`), `MaxCrashes` (`SessionLifecycle`, `SessionOutput`),
`MaxScreen` (`SessionOutput`), `MaxItems` (`McpBridge`), `Depth`
(`AgentUpdate`), `MaxKills` (`ServerProcess`), `MaxRenewals` (`CertRotator`),
`Horizon` (`RateLimiter`, where ticks stop to count; the clean-up is past by
then). Sockets of `ReconnectingWebSocket` are used once, so `Retried` allows for
having run out. Deaths of `HostRegistry`, `McpBridge`, `AgentUpdate` and
`AccessControl` are not bounded. Symmetry is used in runs without liveness only.

### Fairness

Goroutines that can take a step do (weak fairness of handlers, notifiers, the
agent's listener steps and main loop, the streamer's loop, the browser handlers,
a commanded update, the certificate's monitor, a migration): the Go scheduler is
fair and none of them waits on a lock that is held for ever. An answer to a poll
is written (`ServePending`), a ticker ticks, React renders a changed state, and
a browser timer fires; a supervisor starts what should run (`Start`,
`StartServer`), and a renewal that has replaced the certificate goes on to its
key. `HostRegistry` assumes strong fairness of the statements of a heartbeat:
heartbeats are sent for ever, some arrive, and the server does not die each time
at the same statement. Not fair: new commands, dialling and the network, faults,
restarts, SSH and git (no time limit in `sshexec`), stops, shutdown, edits,
checks for updates, downloads that succeed, renewals, leaving browsers. `tmux
capture-pane` is taken to answer, and the property that needs it is about a
streamer that runs.

## 4. Properties worth knowing

- `NoZombieConnection` (`WsRegistry`): socket served ⇒ registered, closed, or
  about to be closed by the notifier that removed it; `DeadAndReplacedGo`.
- `DeliversLikeMailbox` (`CommandDelivery`), the refinement, and
  `InOrderAtMostOnce`, `NothingLostWithoutFault`, `NoLostWakeup`, which are
  proved; `FallbackPollFetches`, `NotifiedCommandFetched`.
- `StopEndsSession`, `FailedLaunchCleansUp`, `PollersStoppedOnce`
  (`AgentRuntime`).
- `StopSticks`, `RunningWasLaunched`, `OnlyLaunchRevives` (`SessionLifecycle`).
- `ChannelsClosedOnce`, `DrainedIsCurrent`, `StreamReachesViewer`
  (`SessionOutput`), with `LeaversForgotten` and `StreamedIsStored` proved.
- `OpensOnlyWhenWanted`, `Retried` (`ReconnectingWebSocket`).
- `UnopposedEditsKept`, `DeletesWholly`, `LateWritesHarmless`,
  `RegistryConverges` (`HostRegistry`): only overlapping edits lose anything, and
  whatever stale rows were written back, the row comes to show what the agent
  reports.
- `AckedIsStored`, `BestFirst`, `HandedOnce` (`McpBridge`); `NoOrphans` and
  `ReadOnce` are proved.
- `BinaryKept`, `OnlyUpwards`, `NoDowngrade`, `UpdateTakesEffect`
  (`AgentUpdate`); their exceptions name what the code does not prevent.
- `OpenIsMigrated`, `RowsKept`, `NothingMissed`, `StartsUp`, `RenewalShown`
  (`ServerProcess`); the same holds of their exceptions.
- `AdmitsLikeBucket`, `EndIsFinal`, `Proven`, `AdminOnly` (`AccessControl`);
  `NoStarvation` and `NothingForgiven` are proved.

What the exceptions of these properties permit is what the code does, and is
listed in section 6: they bound it, and do not catch it. So `DeliversLikeMailbox`
permits lost commands, `OnlyLaunchRevives` and `RunningWasLaunched` a launch that
shows a stopped or failed session as running, `DrainedIsCurrent` and
`StreamReachesViewer` a viewer for whom output was dropped, `HandedOnce` two
overlapping calls, `Proven` a password that was replaced during the request,
`StartsUp` a store or an executable that a death has ruined, `BinaryKept` a
rename back that failed, and `UpdateTakesEffect` the same.

Type correctness is a theorem of every module with proofs; where the proof came
after the run (`AgentRuntime`, `HostRegistry`, `AgentUpdate`, `ServerProcess`)
the run checks it too. Operators
commented "mutant" are plausible mistakes in the definition that follows them;
`PROJECT.json` says which property each of them breaks.

## 5. Proofs

All theorems hold for every value of the constants under the named assumptions
of the modules (disjoint kinds of requests, "no connection" is not a
connection, bounds are numbers, the limiter's horizon is beyond its clean-up age and
its burst, of two versions written alike the later one has the greater
text). Every safety invariant and every action property of a passing run is
stated by one. Each module has one inductive invariant, and what it adds to the
properties is the argument:

- **CommandDelivery_proofs.** Of the registry: `ZombieFree`,
  `RegistrationOwned`; the invariant adds `TargetKnown`, that a notifier past its
  lookup holds a connection. `RegistryRefined` shows every step of delivery to be
  a step of the registry or a stutter, so the registry's invariant carries over.
  The pipeline `started \o response \o queue` is ordered by ticket
  (`PipelineInv`), which gives `AtMostOnceInOrder`; without faults the agent is
  calm (`CalmInv`), which gives `NothingLost` and `WakeupKept`; with both,
  `ImplementsMailbox`.
- **AgentRuntime_proofs.** `TypeCorrect`, `StoppedOnce`, `FailureCleansUp`,
  `StopEnds`. Clean-up goes by tmux name and worktree path alone, and both may
  collide; so the invariant says who owns what. A tmux session or a worktree
  that is left belongs to a launch of that name (`TmuxOwned`, `WorktreeOwned`),
  and, the other way round, a launch that works with its worktree still has it
  (`WorktreeKept`): git refuses a second worktree on one path, so no other
  launch can be working there. That direction is what makes a failing launch
  remove its own and nobody else's. `MapHolds`, `Polled` and `HeldOnce` follow a
  launch from the map into the hands of the one stop that takes it out, hence
  one close per poller. `SettledOut` and `CaredFor` say what becomes of the
  launches a stop found done: none is registered again, and a worktree of theirs
  is in the hands of a stop.
- The same module, of `AgentUpdate`: `UpdateTyped`, `BackupKept`,
  `UpwardsOnly`, `NeverBackwards`. Every version an agent deals with lies between
  the one that runs and the latest release (`Between`), although the texts are
  compared as strings: an offer says "greater", a version at hand is never newer
  than the release, and no text is greater than itself. Of the updates past
  their backup there is one unless a backup crossed another update (`OneSwap`),
  only updates that overlap cross (`Counted`), and without those the newest
  version installed is at most a rename away (`NewestKept`). An update that is
  not crossed leaves a binary somewhere (`SomeLeft`), which is the executable or
  its backup (`OneSwap`) unless a rename back failed; after that the executable is
  gone, and what is updated is its backup (`Adrift`).
- **SessionLifecycle_proofs.** `TypeCorrect`, `ShownRunningWasLaunched`,
  `StopSettles`, `RevivalByLaunch`. The properties are not inductive: what a
  goroutine writes depends on the copy it read. `PendingIsFresh` (no command was
  queued while the row is pending) rules the result handler's "running" out;
  `CopiesHeld`, `Launched` and `QuietStops` say what copies and past writes
  imply.
- **SessionOutput_proofs.** `TypeCorrect`, `NoPanic`, `NoLeak`, `CaughtUp`,
  `StreamKept`. `Registered` ties the two lists to the place of the handler,
  which makes them disjoint and bounds the closes (`Closing`); `Current` is
  `DrainedIsCurrent` for the last element of a channel that is not drained yet;
  `Paths` says who can write the row. Of the hook: `HookTyped`,
  `RefStaysUsable`, `NoUnwantedConnection`; `RefsTell` relates the refs the
  callbacks look at to whether the component is mounted and enabled.
- **HostRegistry_proofs.** `TypeCorrect`, `EditsKept`, `WhollyDeleted`,
  `LateHarmless`. A request works with the copy it read; the copy agrees with
  the row as long as nobody marked the request late (`ReadCurrent`,
  `ListCurrent`), and only a late deletion is refused (`BlockedLate`). A
  heartbeat reaches its last statement only with an offer (`OfferCarried`),
  which is why none is ever taken back.
- **McpBridge_proofs.** `BridgeTyped`, `NothingOrphaned`, `AckedStays`,
  `BestIsFirst`, `ReadAtMostOnce`, `HandedOutOnce`. A number is used once:
  nothing speaks of one that was not given out (`Numbered`), and of one whose row
  is still to come only the request that inserts it (`Fresh`). What an answer
  says of an item is true of its row from when the request succeeds, not only
  from when the client hears of it (`Owners`, `Tasks`, `Reads`).
- **ServerProcess_proofs.** `TypeCorrect`, `Migrated`, `SessionsKept`,
  `RenewalsNoticed`. Nobody holds a lock on the store while it migrates. Whoever
  opens it later has a binary that is no older (`Newest`), so he starts on the
  very migration under way; the first statement of a migration leaves a trace
  at which it is not repeated (`Traced`); so he cannot get past it without a
  statement of his own, which the model records (`Sole`). With `Copied`, who is
  about to drop the table has copied its rows; with `Orderly`, the tables are
  as the migration's line says, unless one was cut; a process that has passed a
  migration finds it done although its record may have been refused. `RenewalsNoticed` rests on
  `Watched`: what was read after the times were looked up is no older than they,
  and the times are noted only together with what was read.
- **AccessControl_proofs.** Of the limiter: `LimiterSafe`. The invariant compares
  what a visitor is worth, `tokens * Interval + elapsed`, with the credit of the
  history: never more than it, and of an address that may have been forgotten the
  credit is a full burst, since it was silent for the age at which the history
  grants one. `NothingForgiven` says when that grant is none: if `CleanupAge + 1
  >= Burst * Interval` the silence alone has earned the burst, as it has with the
  default settings, and the history is a bucket that forgets nobody.
  `AccessTyped`, `AccessLimited`, `AccessNotStarved`, `SessionsEnd`,
  `AccessProven`, `AdminsOnly`: every step is a step of the limiter or leaves it
  alone, so the limiter's invariant carries over. `Good` says of a call what it
  may claim: whom its token was issued to, that its token had not ended, which
  passwords it has seen. It is stated of a record and of the tables, so that one
  lemma covers tables that only grow (`Grows`).

Two definitions had to be put right to be proved about. `OnlyUpwards` used to
excuse unnoticed releases by the length of the texts; 1.9.10 and 1.10.0 have one
length, and the exception now is their shape (`SameShape`). In `Migrations` the
guards of two CASEs overlapped, which leaves their value open.

Model-checked only: the liveness properties, for reasoning under fairness and
ENABLED is out of the prover's reach (`DeadAndReplacedGo`,
`FallbackPollFetches`, `NotifiedCommandFetched`, `StreamReachesViewer`,
`Retried`, `RegistryConverges`, `UpdateTakesEffect`, `StartsUp`,
`RenewalShown`); and the property that is violated. No definition is recursive.

## 6. Findings

One has a run with a counterexample, and is quoted in `PROJECT.json`: commands
of one answer are not ordered, so a stop can look for the tmux session before its
launch has made it; both report success and the session runs on
(`agent_overtake`, `StoppedMeansGone`), against README.md:265.

Seen while modelling, each visible in the behaviours of a model or in an
exception of a property.

*Delivery and sessions.*
- A reconnecting agent does not poll, against WEBSOCKET_REFACTOR_PLAN.md:930:
  commands queued meanwhile wait for the next notification.
- `DequeueAll` forgets commands when the answer is computed; a lost answer loses
  them (`PollDies`, `Crash` steps of `CommandDelivery`).
- The launch goroutine overwrites the failure that the agent reported
  (handlers_agent.go:79) with "running".
- A delete during the launch leaves a session on the host that no row knows
  (handlers_session.go:373).
- `FindStuckSessions` (store.go:401) selects columns the table does not have; the
  periodic check only logs an error (`Reap`).
- "stopping" is not an active status: a session whose stop was cut short cannot
  be stopped again.
- A viewer that connects before the streamer is stored, or after a restart of
  the control plane, follows the agent's output for a session that is streamed
  over SSH, and never sees any. A subscriber of a streamer that has stopped is
  never told.
- The launch, a stop and a result write `last_output` back to what it was when
  they read the row; only the next output repairs it.
- The hook loses its live socket to the `onclose` of an older one, and a
  connection can outlive its component (useReconnectingWebSocket.ts:46). Its
  `reconnect()` calls `close()`, which clears `shouldReconnectRef`, before its
  delayed `connect()` looks at it; only a render in between helps.

*Hosts.*
- `UpdateHost` writes heartbeat time, status and version back as it read them,
  until the next heartbeat; overlapping edits lose fields.
- `cert_downloaded` is set in memory and never stored, so the "single-use"
  download (handlers_host.go:286) is not.
- Nothing sets a host offline, and no offer of an update is withdrawn
  (service.go:78).
- Deleting a host deletes its session rows without stopping the sessions, and a
  deletion that fails may have deleted some of them.

*MCP bridge.*
- GET /tasks/next changes state: if the answer is lost the task is "retrieved" by
  nobody, and Go's transport repeats a GET by itself.
- Two overlapping calls can be given the same task, and one that was finished in
  between goes back to "retrieved".
- `created_at` is taken before the row is inserted, so an older task may appear
  after a younger one was handed out.

*Agent update.*
- Two overlapping updates can lose both copies of the binary.
- On Linux `os.Executable` follows the moved file: after an update whose restart
  was refused, every further one of that process fails at the backup.
- If the rename back fails too (agent main.go:770) there is no executable, and
  the agent goes on until something stops it. On Linux its further updates then
  replace the ".backup", which nothing starts.
- The renames fail if /tmp is another file system. The unit that setup.sh writes
  runs as an ordinary user, who may be refused both rename and restart.
- The unit `service-install` writes has no token and replaces the script's
  (README.md:155, DEVELOPER_GUIDE.md:126 recommend it); its names on macOS
  are not those that the restart uses.
- 1.10.0 is never offered to 1.9.10, nor 10.0 to 9.10: the texts are compared as
  strings (pkg/version), so a release goes unnoticed when a number gains a digit.

*Server process.*
- Migration 006 drops the sessions with their tasks, reviews and messages. A
  death between DROP and RENAME makes every further start fail; one after the
  first ADD COLUMN of 007 has it taken for applied with columns missing.
- A busy database or a full disk in the middle of a migration leaves what a death
  there leaves. The error of recording a partial migration is ignored
  (store.go:95): it is found partial again at the next start.
- A command of a new binary migrates under a server that runs the old one.
- A renewal between the first load and the monitor's first look goes unnoticed
  until the next; clients that send no server name are shown the certificate of
  the start for ever (main.go:211), against CERTIFICATE_ROTATION.md:109.
- Across file systems `--update` copies over the running executable: Linux
  refuses, elsewhere a death leaves half a binary.
- Shutdown closes the database while launch goroutines may still run.

*Access.*
- A change of the WAF settings lives in memory only and is lost in the restart
  it asks for; so is an address blocked by request. An administrator who blocks
  his own address is locked out until then.
- Neither a changed nor a reset password ends the user's login sessions; a
  change that was verified before a reset on the command line overwrites it.
- An error of the DELETE of a logout is ignored. Nothing deletes expired
  sessions, although 004 says so.
- The clean-up age of the limiter is fixed while rate and burst are configured
  (config.go:60, handlers_waf.go:50): a burst that takes longer than five minutes
  to earn is given back after five minutes of silence.
- WebSocket requests are exempt from the limiter.

## 7. Not modelled

- SSH client cache, configuration, certificate generation, metrics, the embedded
  front end, GitHub, template, plugin and file-system handlers, WAF patterns, the
  rendering of service files, the MCP configuration generator and the React
  pages: sequential requests, files and formatting, with no state that several
  actors share.
- Migrations other than 006 and 007. 001, 003 and 004 create tables and indexes
  if they are not there. 002, 005 and 008 to 011 are one `ALTER TABLE … ADD
  COLUMN` each: cut off before they are recorded they are repeated, fail as a
  duplicate column and are taken for applied (store.go:94), which is right, for
  there is nothing else in them.
- Lists and other requests that only read.
- The end-of-stream flag of output, which no agent sets; the retry limit of the
  hook, which no page sets; the CA file of the rotator, which `swoopsd` does not
  give it; the allow list of the WAF.

What is left to do: the composition of `AgentRuntime` with `CommandDelivery` and
`SessionLifecycle`, in which a greeting that cannot be posted makes a running
session "failed" (agent main.go:653).

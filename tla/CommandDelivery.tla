---------------------------- MODULE CommandDelivery ----------------------------
(***************************************************************************)
(* How a command travels from the control plane to the agent of one host.  *)
(*                                                                         *)
(*   server   CommandQueue (in memory, FIFO) and the socket registry of    *)
(*            WsRegistry; QueueCommand enqueues, then notifies             *)
(*   network  "new_command" notifications on the socket, and a separate    *)
(*            HTTP request that fetches and clears the whole queue         *)
(*   agent    a listener goroutine that owns the socket, the flag          *)
(*            wsConnected, a one-slot notification channel, and a main     *)
(*            loop that polls on a notification, or on a 5s tick while the *)
(*            flag says the socket is down                                 *)
(*                                                                         *)
(* Faults (broken sockets, failed polls, clashing writes, process deaths)  *)
(* are counted so that properties can say what happens without them.       *)
(***************************************************************************)
EXTENDS WsRegistry, Naturals, Sequences, SequencesExt

CONSTANTS
  FaultKinds, \* the kinds of fault that may happen
  MaxFaults   \* how many of them

ASSUME DeliveryAssumption == MaxFaults \in Nat

VARIABLES
  \* server
  queue,      \* cmdQueue.commands[host]
  ticket,     \* history: when each command was enqueued (0: not yet)
  enqueued,   \* history: how many were
  \* network
  inflight,   \* notifications written to a socket and not read yet
  orphans,    \* pending-commands requests the agent gave up on, not yet served
  \* agent
  listener,   \* listenForNotifications: dialing, handshake, reading, lost
  agentConn,  \* the socket it holds
  connected,  \* wsConnected
  notified,   \* a token is in commandNotification (capacity 1)
  request,    \* the main loop's poll: idle, sent, answered, dead
  response,   \* the commands in the answer on its way back
  started,    \* history: commands whose goroutine was started, in order
  faults      \* how many faults have happened

server   == <<queue, ticket, enqueued>>
agentWs  == <<listener, agentConn, connected>>
poll     == <<request, response, started>>
vars     == <<registry, server, inflight, orphans, agentWs, notified, poll, faults>>

Init ==
  /\ RegistryInit
  /\ queue     = <<>>
  /\ ticket    = [c \in Commands |-> 0]
  /\ enqueued  = 0
  /\ inflight  = [k \in Conns |-> 0]
  /\ orphans   = 0
  /\ listener  = "dialing"
  /\ agentConn = NoConn
  /\ connected = FALSE
  /\ notified  = FALSE
  /\ request   = "idle"
  /\ response  = <<>>
  /\ started   = <<>>
  /\ faults    = 0

Fault(kind) ==
  /\ kind \in FaultKinds
  /\ faults < MaxFaults
  /\ faults' = faults + 1
-----------------------------------------------------------------------------
(* Server: queueing a command and notifying the agent. *)

\* QueueCommand up to and including Enqueue.
QueueCommand(c) ==
  /\ NotifyStart(c)
  /\ queue'    = Append(queue, c)
  /\ enqueued' = enqueued + 1
  /\ ticket'   = [ticket EXCEPT ![c] = enqueued']
  /\ UNCHANGED <<inflight, orphans, agentWs, notified, poll, faults>>

NotifySent(c) ==
  /\ WriteOK(c)
  /\ inflight' = IF target[c] \in broken THEN inflight
                 ELSE [inflight EXCEPT ![target[c]] = @ + 1]
  /\ UNCHANGED <<server, orphans, agentWs, notified, poll, faults>>

\* A write on a healthy socket fails only by clashing with another writer.
NotifyFails(c) ==
  /\ \/ WriteError(c)
     \/ WritePanic(c)
  /\ IF Healthy(target[c]) \/ notifier'[c] = "aborted"
     THEN Fault("clash") ELSE UNCHANGED faults
  /\ UNCHANGED <<server, inflight, orphans, agentWs, notified, poll>>

NotifyOther(c) ==
  /\ \/ Lookup(c)
     \/ NotifyUnregister(c)
     \/ NotifyClose(c)
  /\ UNCHANGED <<server, inflight, orphans, agentWs, notified, poll, faults>>

HandlerStep(k) ==
  /\ Handler(k)
  /\ UNCHANGED <<server, inflight, orphans, agentWs, notified, poll, faults>>
-----------------------------------------------------------------------------
(* Agent: the listener goroutine. *)

\* The server has upgraded the connection; its answer is on the way.
Dial(k) ==
  /\ listener = "dialing"
  /\ Upgrade(k)
  /\ agentConn' = k
  /\ listener'  = "handshake"
  /\ UNCHANGED <<server, inflight, orphans, connected, notified, poll, faults>>

\* The answer is lost: the dial fails although the server upgraded.
HandshakeFails ==
  /\ listener = "handshake"
  /\ Fault("break")
  /\ broken'   = broken \union {agentConn}
  /\ listener' = "dialing"
  /\ UNCHANGED <<wsConn, handler, notifier, target, closed, server, inflight,
                 orphans, agentConn, connected, notified, poll>>

\* The dial returns: the flag is set, nothing is polled.
SetConnected ==
  /\ listener = "handshake"
  /\ listener'  = "reading"
  /\ connected' = TRUE
  /\ UNCHANGED <<registry, server, inflight, orphans, agentConn, notified, poll, faults>>

\* A token is put into the channel unless one is there already.
ReadNotification ==
  /\ listener = "reading"
  /\ inflight[agentConn] > 0
  /\ inflight' = [inflight EXCEPT ![agentConn] = @ - 1]
  /\ notified' = TRUE
  /\ UNCHANGED <<registry, server, orphans, agentWs, poll, faults>>

\* ReadJSON fails once the socket is dead and drained; the deferred Close
\* lets the server see it too.
ReadFails ==
  /\ listener = "reading"
  /\ ~Healthy(agentConn)
  /\ inflight[agentConn] = 0
  /\ broken'   = broken \union {agentConn}
  /\ listener' = "lost"
  /\ UNCHANGED <<wsConn, handler, notifier, target, closed, server, inflight,
                 orphans, agentConn, connected, notified, poll, faults>>

\* The flag is cleared, then the listener sleeps its backoff and dials again.
MarkDisconnected ==
  /\ listener = "lost"
  /\ listener'  = "dialing"
  /\ connected' = FALSE
  /\ UNCHANGED <<registry, server, inflight, orphans, agentConn, notified, poll, faults>>
-----------------------------------------------------------------------------
(* Agent: the main loop, and the request it sends. *)

PollOnNotification ==
  /\ request = "idle"
  /\ notified
  /\ notified' = FALSE
  /\ request'  = "sent"
  /\ UNCHANGED <<registry, server, inflight, orphans, agentWs, response, started, faults>>

\* (mutant) the fallback ticker tests the flag the wrong way round
PollOnTickConnected ==
  /\ request = "idle"
  /\ connected
  /\ request' = "sent"
  /\ UNCHANGED <<registry, server, inflight, orphans, agentWs, notified,
                 response, started, faults>>

\* The fallback ticker polls only while the flag is false.
PollOnTick ==
  /\ request = "idle"
  /\ ~connected
  /\ request' = "sent"
  /\ UNCHANGED <<registry, server, inflight, orphans, agentWs, notified,
                 response, started, faults>>

\* (mutant) the pending commands are read without being removed
ServePendingPeek ==
  /\ request = "sent"
  /\ request'  = "answered"
  /\ response' = queue
  /\ UNCHANGED <<registry, server, inflight, orphans, agentWs, notified, started, faults>>

\* GetPendingCommands: DequeueAll returns the queue and clears it.
ServePending ==
  /\ request = "sent"
  /\ request'  = "answered"
  /\ response' = queue
  /\ queue'    = <<>>
  /\ UNCHANGED <<registry, ticket, enqueued, inflight, orphans, agentWs, notified,
                 started, faults>>

\* A request nobody waits for any more empties the queue all the same.
ServeOrphan ==
  /\ orphans > 0
  /\ orphans' = orphans - 1
  /\ queue'   = <<>>
  /\ UNCHANGED <<registry, ticket, enqueued, inflight, agentWs, notified, poll, faults>>

\* (mutant) the channel is drained after the poll instead of before it
ReceiveThenDrain ==
  /\ request = "answered"
  /\ started'  = started \o response
  /\ response' = <<>>
  /\ request'  = "idle"
  /\ notified' = FALSE
  /\ UNCHANGED <<registry, server, inflight, orphans, agentWs, faults>>

\* One goroutine is started per command of the answer.
ReceiveCommands ==
  /\ request = "answered"
  /\ started'  = started \o response
  /\ response' = <<>>
  /\ request'  = "idle"
  /\ UNCHANGED <<registry, server, inflight, orphans, agentWs, notified, faults>>

\* The request may or may not still reach the server after its sender left.
LeaveRequest ==
  /\ request'  = "idle"
  /\ response' = <<>>
  /\ orphans' \in IF request = "sent" THEN {orphans, orphans + 1} ELSE {orphans}

\* An error or the 30s timeout: logged, not retried.
PollFails ==
  /\ request \in {"sent", "answered"}
  /\ Fault("poll")
  /\ LeaveRequest
  /\ UNCHANGED <<registry, server, inflight, agentWs, notified, started>>

\* The server died with the request in its hands; the connection resets.
PollDies ==
  /\ request = "dead"
  /\ LeaveRequest
  /\ UNCHANGED <<registry, server, inflight, agentWs, notified, started, faults>>
-----------------------------------------------------------------------------
(* Faults. *)

\* Notifications still in the pipe may be lost with it.
BreakSocket(k) ==
  /\ Break(k)
  /\ Fault("break")
  /\ \E n \in 0 .. inflight[k] : inflight' = [inflight EXCEPT ![k] = n]
  /\ UNCHANGED <<server, orphans, agentWs, notified, poll>>

\* The queue and the registry live in memory and start empty again.
ServerCrash ==
  /\ Crash
  /\ Fault("server")
  /\ queue'   = <<>>
  /\ orphans' = 0
  /\ request' = IF request = "sent" THEN "dead" ELSE request
  /\ UNCHANGED <<ticket, enqueued, inflight, agentWs, notified, response, started>>

\* Service.Close on the way down; sockets go before the process does.
ServerShutdown ==
  /\ Shutdown
  /\ Fault("server")
  /\ UNCHANGED <<server, inflight, orphans, agentWs, notified, poll>>

AgentCrash ==
  /\ Fault("agent")
  /\ broken'    = IF agentConn = NoConn THEN broken ELSE broken \union {agentConn}
  /\ listener'  = "dialing"
  /\ agentConn' = NoConn
  /\ connected' = FALSE
  /\ notified'  = FALSE
  /\ LeaveRequest
  /\ UNCHANGED <<wsConn, handler, notifier, target, closed, server, inflight, started>>
-----------------------------------------------------------------------------
Notify(c) == NotifySent(c) \/ NotifyFails(c) \/ NotifyOther(c)

Listener == SetConnected \/ ReadNotification \/ ReadFails \/ MarkDisconnected

MainLoop == PollOnNotification \/ PollOnTick \/ ReceiveCommands \/ PollDies

Next ==
  \/ \E c \in Commands : QueueCommand(c) \/ Notify(c)
  \/ \E k \in Conns : HandlerStep(k) \/ Dial(k) \/ BreakSocket(k)
  \/ HandshakeFails
  \/ Listener
  \/ MainLoop
  \/ ServePending
  \/ ServeOrphan
  \/ PollFails
  \/ ServerCrash
  \/ ServerShutdown
  \/ AgentCrash

Spec == Init /\ [][Next]_vars

\* Every goroutine that can run does; a sent request is served.  Dialing is
\* not fair (the server may be unreachable), and no fault ever has to happen.
Fairness ==
  /\ \A c \in Commands : WF_vars(Notify(c))
  /\ \A k \in Conns : WF_vars(HandlerStep(k))
  /\ WF_vars(Listener)
  /\ WF_vars(MainLoop)
  /\ WF_vars(ServePending)

FairSpec == Spec /\ Fairness
-----------------------------------------------------------------------------
TypeOK ==
  /\ RegistryTypeOK
  /\ queue     \in Seq(Commands)
  /\ ticket    \in [Commands -> Nat]
  /\ enqueued  \in Nat
  /\ inflight  \in [Conns -> Nat]
  /\ orphans   \in Nat
  /\ listener  \in {"dialing", "handshake", "reading", "lost"}
  /\ agentConn \in Conns \union {NoConn}
  /\ connected \in BOOLEAN
  /\ notified  \in BOOLEAN
  /\ request   \in {"idle", "sent", "answered", "dead"}
  /\ response  \in Seq(Commands)
  /\ started   \in Seq(Commands)
  /\ faults    \in Nat

\* Every command on its way, in the order the agent starts them.
Pipeline == started \o response \o queue

(* Commands are started in the order they were queued and never twice,
   whatever requests time out, overtake each other or are served after their
   sender gave up.  Only the atomic read-and-clear of DequeueAll and the
   single poller of the agent's main loop provide this: there are no
   acknowledgements and no duplicate filter. *)
InOrderAtMostOnce ==
  \A i, j \in 1 .. Len(Pipeline) :
    i < j => ticket[Pipeline[i]] < ticket[Pipeline[j]]

(* A command disappears only through a fault: without one, each command ever
   queued is in the queue, in an answer, or started. *)
NothingLostWithoutFault ==
  faults = 0 => \A c \in Commands : ticket[c] > 0 => c \in ToSet(Pipeline)

\* The agent is certain to fetch the queue as it stands now.
WakeupPending ==
  \/ notified
  \/ request = "sent"
  \/ \E k \in Conns : inflight[k] > 0 /\ agentConn = k
                      /\ listener \in {"handshake", "reading"}

(* No lost wakeup: as long as no fault has happened, a command that still
   waits after its notification was written has a poll coming, although
   notifications are coalesced into a one-slot channel that the main loop
   empties concurrently. *)
NoLostWakeup ==
  faults = 0 => \A c \in ToSet(queue) : notifier[c] = "sent" => WakeupPending

(* Command delivery behaves as the at-most-once FIFO mailbox. *)
Mailbox == INSTANCE CommandMailbox WITH
             accepted  <- {c \in Commands : ticket[c] > 0},
             box       <- response \o queue,
             delivered <- started

DeliversLikeMailbox == Mailbox!Spec

(* The fallback: a command queued while the agent knows it is disconnected is
   fetched, or the agent gets connected again; failed polls only delay it. *)
FallbackPollFetches ==
  \A c \in Commands : (c \in ToSet(queue)) ~> (c \notin ToSet(queue) \/ connected)

(* The wakeup: while no fault happens, a command whose notification was
   written is fetched. *)
NotifiedCommandFetched ==
  \A c \in Commands :
    (notifier[c] = "sent") ~> (c \notin ToSet(queue) \/ faults > 0)
=============================================================================

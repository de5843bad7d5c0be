----------------------------- MODULE SessionOutput -----------------------------
(***************************************************************************)
(* The terminal output of ONE session on its way to the browsers.          *)
(*                                                                         *)
(*   agent path   the agent posts the pane; the request stores it in the   *)
(*                row and publishes it to the subscribers of the service   *)
(*                (agentmgr/service.go, api/handlers_agent.go)             *)
(*   SSH path     a streamer goroutine captures the pane once a second,    *)
(*                stores it and broadcasts it to its own subscribers       *)
(*                (sessionmgr/streamer.go), from the end of the launch to  *)
(*                the stop                                                 *)
(*   clients      one handleSessionOutputWS goroutine per browser socket   *)
(*                reads the row, chooses one of the two sources,           *)
(*                subscribes, and forwards what its channel brings         *)
(*                                                                         *)
(*   row writers  the launch, a stop and the result of a command write the  *)
(*                whole row, with the output it had when they read it      *)
(*                (sessionmgr/manager.go, UpdateSession)                   *)
(*                                                                         *)
(* Output is a number: the pane shows 1, 2, ... in turn; 0 is empty.  An   *)
(* agent launch that falls back to SSH counts as an SSH launch.            *)
(***************************************************************************)
EXTENDS Naturals, Sequences

CONSTANTS
  Clients,    \* browser sockets
  Posts,      \* POST /agent/sessions/{id}/output requests served at a time
  Writers,    \* requests that write the whole row: a stop, a command's result
  Capacity,   \* of a subscriber's channel (100 and 16 in the code)
  MaxScreen,  \* how often the pane changes
  MaxCrashes  \* how often swoopsd ends and starts again

ASSUME OutputAssumption ==
  Capacity \in Nat \ {0} /\ MaxScreen \in Nat /\ MaxCrashes \in Nat

Outputs == 0 .. MaxScreen

VARIABLES
  path,       \* how the session is launched: none, agent, ssh
  launch,     \* the launch goroutine: none, pending, recorded, done
  screen,     \* what the pane shows
  stored,     \* last_output of the row
  writer,     \* each writer: idle, read, halted, stopping, done
  held,       \* last_output as it has read it
  \* service
  buffer,     \* outputBuffers[session]
  subs,       \* outputSubs[session]: clients with a channel there
  post,       \* each post: idle, sent, stored
  content,    \* its content
  \* session manager
  listed,     \* outputs[session] holds the streamer
  streamer,   \* none, running, stopped (done is closed)
  lastOutput, \* its lastOutput
  streamSubs, \* its subscribers
  capture,    \* its goroutine: ticking, captured, changed, broadcast, ended
  captured,   \* the output it holds
  \* clients
  client,     \* each handler: idle, read, chosen, reading, leaving, done
  source,     \* the source it chose: none, agent, streamer
  chan,       \* its channel
  closes,     \* how often that channel was closed
  shown,      \* what the browser shows
  crashes,
  missed      \* history: clients whose channel was full the last time

outside == <<path, launch, screen, crashes>>
row     == <<stored, writer, held>>
service == <<buffer, subs>>
posts   == <<post, content>>
stream  == <<listed, streamer, lastOutput, streamSubs>>
looper  == <<capture, captured>>
handler == <<client, source, shown>>
channel == <<chan, closes, missed>>
vars    == <<outside, row, service, posts, stream, looper, handler, channel>>

Init ==
  /\ path       = "none"
  /\ launch     = "none"
  /\ screen     = 0
  /\ stored     = 0
  /\ writer     = [w \in Writers |-> "idle"]
  /\ held       = [w \in Writers |-> 0]
  /\ buffer     = 0
  /\ subs       = {}
  /\ post       = [p \in Posts |-> "idle"]
  /\ content    = [p \in Posts |-> 0]
  /\ listed     = FALSE
  /\ streamer   = "none"
  /\ lastOutput = 0
  /\ streamSubs = {}
  /\ capture    = "ended"
  /\ captured   = 0
  /\ client     = [c \in Clients |-> "idle"]
  /\ source     = [c \in Clients |-> "none"]
  /\ chan       = [c \in Clients |-> <<>>]
  /\ closes     = [c \in Clients |-> 0]
  /\ shown      = [c \in Clients |-> 0]
  /\ crashes    = 0
  /\ missed     = {}

Full(c) == Len(chan[c]) = Capacity

\* A send that never blocks: a subscriber whose channel is full goes without.
SendAll(receivers, output) ==
  /\ chan'   = [c \in Clients |-> IF c \in receivers /\ ~Full(c)
                                  THEN Append(chan[c], output) ELSE chan[c]]
  /\ missed' = (missed \ receivers) \union {c \in receivers : Full(c)}

\* A new channel holds the current output, if there is one.
OpenChannel(c, output) ==
  /\ chan'   = [chan EXCEPT ![c] = IF output = 0 THEN <<>> ELSE <<output>>]
  /\ missed' = missed \ {c}

CloseAll(receivers) ==
  closes' = [c \in Clients |-> IF c \in receivers THEN closes[c] + 1 ELSE closes[c]]
-----------------------------------------------------------------------------
(* The host. *)

Launch ==
  /\ path = "none"
  /\ path' \in {"agent", "ssh"}
  /\ launch' = "pending"
  /\ UNCHANGED <<screen, row, service, posts, stream, looper, handler, channel, crashes>>

PaneChanges ==
  /\ path # "none"
  /\ screen < MaxScreen
  /\ screen' = screen + 1
  /\ UNCHANGED <<path, launch, row, service, posts, stream, looper, handler, channel, crashes>>
-----------------------------------------------------------------------------
(* handleAgentSessionOutput.  The agent's poller posts one output at a time, *)
(* but the results of its jobs are posted next to it, and a post it gave up  *)
(* on may still be served.  It never sets EOF.                               *)

PostSent(p) ==
  /\ post[p] = "idle"
  /\ path = "agent"
  /\ screen > 0
  /\ content' = [content EXCEPT ![p] = screen]
  /\ post'    = [post EXCEPT ![p] = "sent"]
  /\ UNCHANGED <<outside, row, service, stream, looper, handler, channel>>

PostStore(p) ==
  /\ post[p] = "sent"
  /\ stored' = content[p]
  /\ post'   = [post EXCEPT ![p] = "stored"]
  /\ UNCHANGED <<outside, writer, held, service, content, stream, looper, handler, channel>>

\* PublishSessionOutput, under outputMu.
PostPublish(p) ==
  /\ post[p] = "stored"
  /\ buffer' = content[p]
  /\ SendAll(subs, content[p])
  /\ post'   = [post EXCEPT ![p] = "idle"]
  /\ UNCHANGED <<outside, row, subs, content, stream, looper, handler, closes>>
-----------------------------------------------------------------------------
(* The streamer. *)

\* The end of launchViaSSH.
StartStreamer ==
  /\ launch = "recorded"
  /\ launch'   = "done"
  /\ streamer' = "running"
  /\ listed'   = TRUE
  /\ capture'  = "ticking"
  /\ UNCHANGED <<path, screen, row, service, posts, lastOutput, streamSubs, captured, handler,
                 channel, crashes>>

\* A tick may be taken although done is closed: select chooses either.  A
\* capture that fails changes nothing.
Capture ==
  /\ capture = "ticking"
  /\ captured' = screen
  /\ capture'  = "captured"
  /\ UNCHANGED <<outside, row, service, posts, stream, handler, channel>>

Compare ==
  /\ capture = "captured"
  /\ lastOutput' = captured
  /\ capture'    = IF captured = lastOutput THEN "ticking" ELSE "changed"
  /\ UNCHANGED <<outside, row, service, posts, listed, streamer, streamSubs, captured, handler,
                 channel>>

Persist ==
  /\ capture = "changed"
  /\ stored'  = captured
  /\ capture' = "broadcast"
  /\ UNCHANGED <<outside, writer, held, service, posts, stream, captured, handler, channel>>

Broadcast ==
  /\ capture = "broadcast"
  /\ SendAll(streamSubs, captured)
  /\ capture' = "ticking"
  /\ UNCHANGED <<outside, row, service, posts, stream, captured, handler, closes>>

\* (mutant) an error of tmux ends the loop
LoopEndsOnError ==
  /\ capture = "ticking"
  /\ capture' = "ended"
  /\ UNCHANGED <<outside, row, service, posts, stream, captured, handler, channel>>

LoopEnds ==
  /\ capture = "ticking"
  /\ streamer = "stopped"
  /\ capture' = "ended"
  /\ UNCHANGED <<outside, row, service, posts, stream, captured, handler, channel>>

\* (mutant) the subscribers stay registered when their channels are closed
StopKeepingSubscribers ==
  /\ streamer'   = "stopped"
  /\ CloseAll(IF streamer = "stopped" THEN {} ELSE streamSubs)
  /\ UNCHANGED streamSubs

\* OutputStreamer.Stop, under o.mu; a second one does nothing.
StopStreamer ==
  /\ streamer' = "stopped"
  /\ CloseAll(IF streamer = "stopped" THEN {} ELSE streamSubs)
  /\ streamSubs' = IF streamer = "stopped" THEN streamSubs ELSE {}

\* Manager.Close, on the way down: the streamer stays in the map.
CloseManager ==
  /\ listed
  /\ StopStreamer
  /\ UNCHANGED <<outside, row, service, posts, listed, lastOutput, looper, handler, chan,
                 missed>>
-----------------------------------------------------------------------------
(* Whole-row writers.  UpdateSession writes last_output along with the rest. *)

\* The last step of the launch: the status, and an empty output.
RecordRunning ==
  /\ launch = "pending"
  /\ stored' = 0
  /\ launch' = IF path = "ssh" THEN "recorded" ELSE "done"
  /\ UNCHANGED <<path, screen, writer, held, service, posts, stream, looper, handler, channel,
                 crashes>>

\* handleStopSession and handleAgentCommandResult read the row first.
WriterReads(w) ==
  /\ writer[w] = "idle"
  /\ path # "none"
  /\ writer' = [writer EXCEPT ![w] = "read"]
  /\ held'   = [held EXCEPT ![w] = stored]
  /\ UNCHANGED <<outside, stored, service, posts, stream, looper, handler, channel>>

\* handleAgentCommandResult: the status.
ResultWrites(w) ==
  /\ writer[w] = "read"
  /\ stored' = held[w]
  /\ writer' = [writer EXCEPT ![w] = "done"]
  /\ UNCHANGED <<outside, held, service, posts, stream, looper, handler, channel>>

\* StopSession, by agent or SSH: takes the streamer out of the map.  A stop
\* that comes before StartStreamer finds none.
StopHalts(w) ==
  /\ writer[w] = "read"
  /\ writer' = [writer EXCEPT ![w] = "halted"]
  /\ listed' = FALSE
  /\ IF listed THEN StopStreamer ELSE UNCHANGED <<streamer, streamSubs, closes>>
  /\ UNCHANGED <<outside, stored, held, service, posts, lastOutput, looper, handler, chan,
                 missed>>

\* Once for the status stopping, and once, when the host is done, for stopped.
StopWrites(w) ==
  /\ writer[w] \in {"halted", "stopping"}
  /\ stored' = held[w]
  /\ writer' = [writer EXCEPT ![w] = IF writer[w] = "halted" THEN "stopping" ELSE "done"]
  /\ UNCHANGED <<outside, held, service, posts, stream, looper, handler, channel>>
-----------------------------------------------------------------------------
(* handleSessionOutputWS. *)

\* The row is read, the socket upgraded, the row's output written to it.
ClientReads(c) ==
  /\ client[c] = "idle"
  /\ shown'  = [shown EXCEPT ![c] = stored]
  /\ client' = [client EXCEPT ![c] = "read"]
  /\ UNCHANGED <<outside, row, service, posts, stream, looper, source, channel>>

\* GetOutputStreamer, once; the choice is final.
ClientChooses(c) ==
  /\ client[c] = "read"
  /\ source' = [source EXCEPT ![c] = IF listed THEN "streamer" ELSE "agent"]
  /\ client' = [client EXCEPT ![c] = "chosen"]
  /\ UNCHANGED <<outside, row, service, posts, stream, looper, shown, channel>>

\* (mutant) the buffered output is not put into the new channel
SubscribeAgentEmpty(c) ==
  /\ client[c] = "chosen"
  /\ source[c] = "agent"
  /\ subs' = subs \union {c}
  /\ OpenChannel(c, 0)
  /\ client' = [client EXCEPT ![c] = "reading"]
  /\ UNCHANGED <<outside, row, buffer, posts, stream, looper, source, closes, shown>>

SubscribeAgent(c) ==
  /\ client[c] = "chosen"
  /\ source[c] = "agent"
  /\ subs' = subs \union {c}
  /\ OpenChannel(c, buffer)
  /\ client' = [client EXCEPT ![c] = "reading"]
  /\ UNCHANGED <<outside, row, buffer, posts, stream, looper, source, closes, shown>>

\* A streamer accepts subscribers even when it has been stopped.
SubscribeStreamer(c) ==
  /\ client[c] = "chosen"
  /\ source[c] = "streamer"
  /\ streamSubs' = streamSubs \union {c}
  /\ OpenChannel(c, lastOutput)
  /\ client' = [client EXCEPT ![c] = "reading"]
  /\ UNCHANGED <<outside, row, service, posts, listed, streamer, lastOutput, looper, source,
                 closes, shown>>

ClientReceives(c) ==
  /\ client[c] = "reading"
  /\ chan[c] # <<>>
  /\ shown' = [shown EXCEPT ![c] = Head(chan[c])]
  /\ chan'  = [chan EXCEPT ![c] = Tail(chan[c])]
  /\ UNCHANGED <<outside, row, service, posts, stream, looper, client, source, closes, missed>>

\* The channel is closed and drained.
ClientEnds(c) ==
  /\ client[c] = "reading"
  /\ chan[c] = <<>>
  /\ closes[c] > 0
  /\ client' = [client EXCEPT ![c] = "leaving"]
  /\ UNCHANGED <<outside, row, service, posts, stream, looper, source, shown, channel>>

\* The browser closes the socket, or a write to it fails.
ClientGone(c) ==
  /\ client[c] = "reading"
  /\ client' = [client EXCEPT ![c] = "leaving"]
  /\ UNCHANGED <<outside, row, service, posts, stream, looper, source, shown, channel>>

\* The deferred cleanup: the service closes the channel if it still has it,
\* the streamer leaves it open.
Unsubscribe(c) ==
  /\ client[c] = "leaving"
  /\ subs' = subs \ {c}
  /\ streamSubs' = streamSubs \ {c}
  /\ CloseAll(subs \intersect {c})
  /\ client' = [client EXCEPT ![c] = "done"]
  /\ UNCHANGED <<outside, row, buffer, posts, listed, streamer, lastOutput, looper, source,
                 shown, chan, missed>>
-----------------------------------------------------------------------------
\* Service.Close; main and Server.Close both call it.
CloseService ==
  /\ subs # {}
  /\ CloseAll(subs)
  /\ subs' = {}
  /\ UNCHANGED <<outside, row, buffer, posts, stream, looper, handler, chan, missed>>

\* The process ends and starts again with nothing but the row; the session
\* on the host runs on.
Crash ==
  /\ crashes < MaxCrashes
  /\ crashes'    = crashes + 1
  /\ launch'     = IF launch = "none" THEN "none" ELSE "done"
  /\ writer'     = [w \in Writers |-> IF writer[w] = "idle" THEN "idle" ELSE "done"]
  /\ buffer'     = 0
  /\ subs'       = {}
  /\ post'       = [p \in Posts |-> "idle"]
  /\ listed'     = FALSE
  /\ streamer'   = "none"
  /\ lastOutput' = 0
  /\ streamSubs' = {}
  /\ capture'    = "ended"
  /\ client'     = [c \in Clients |-> IF client[c] = "idle" THEN "idle" ELSE "done"]
  /\ UNCHANGED <<path, screen, stored, held, content, captured, source, shown, channel>>

Post(p) == PostStore(p) \/ PostPublish(p)

Streaming == Capture \/ Compare \/ Persist \/ Broadcast \/ LoopEnds

Forwarding(c) ==
  \/ ClientChooses(c) \/ SubscribeAgent(c) \/ SubscribeStreamer(c)
  \/ ClientReceives(c) \/ ClientEnds(c) \/ Unsubscribe(c)

Next ==
  \/ Launch \/ PaneChanges
  \/ \E p \in Posts : PostSent(p) \/ Post(p)
  \/ StartStreamer \/ Streaming
  \/ RecordRunning
  \/ \E w \in Writers : WriterReads(w) \/ ResultWrites(w) \/ StopHalts(w) \/ StopWrites(w)
  \/ CloseManager \/ CloseService
  \/ \E c \in Clients : ClientReads(c) \/ Forwarding(c) \/ ClientGone(c)
  \/ Crash

Spec == Init /\ [][Next]_vars

\* Handlers and the streamer's goroutine run; tmux capture-pane answers.
FairSpec ==
  /\ Spec
  /\ WF_vars(Streaming)
  /\ \A p \in Posts : WF_vars(Post(p))
  /\ \A c \in Clients : WF_vars(Forwarding(c))
-----------------------------------------------------------------------------
TypeOK ==
  /\ path       \in {"none", "agent", "ssh"}
  /\ launch     \in {"none", "pending", "recorded", "done"}
  /\ writer     \in [Writers -> {"idle", "read", "halted", "stopping", "done"}]
  /\ held       \in [Writers -> Outputs]
  /\ {screen, stored, buffer, lastOutput, captured} \subseteq Outputs
  /\ subs       \subseteq Clients
  /\ post       \in [Posts -> {"idle", "sent", "stored"}]
  /\ content    \in [Posts -> Outputs]
  /\ listed     \in BOOLEAN
  /\ streamer   \in {"none", "running", "stopped"}
  /\ streamSubs \subseteq Clients
  /\ capture    \in {"ticking", "captured", "changed", "broadcast", "ended"}
  /\ client     \in [Clients -> {"idle", "read", "chosen", "reading", "leaving", "done"}]
  /\ source     \in [Clients -> {"none", "agent", "streamer"}]
  /\ chan       \in [Clients -> Seq(Outputs)]
  /\ closes     \in [Clients -> Nat]
  /\ shown      \in [Clients -> Outputs]
  /\ crashes    \in Nat
  /\ missed     \subseteq Clients

(* Four places close subscribers' channels, and two send on them.  Closing a
   channel twice, or sending on a closed one, panics; so a channel is closed
   at most once, and not while a publisher or the streamer can still find it. *)
ChannelsClosedOnce ==
  \A c \in Clients :
    /\ closes[c] <= 1
    /\ c \in subs \union streamSubs => closes[c] = 0

(* Whoever leaves is forgotten: no publisher keeps filling the channel of a
   browser that has gone. *)
LeaversForgotten ==
  \A c \in Clients : client[c] = "done" => c \notin subs \union streamSubs

(* A client that has read everything its channel holds, and was not too slow
   for the last output, shows what was published last: nothing is lost between
   reading the row and subscribing, or between the streamer's noting a new
   output and its broadcast. *)
DrainedIsCurrent ==
  \A c \in Clients : client[c] = "reading" /\ chan[c] = <<>> /\ c \notin missed =>
    /\ c \in subs /\ buffer # 0 => shown[c] = buffer
    /\ c \in streamSubs /\ lastOutput # 0 /\ capture \notin {"changed", "broadcast"}
         => shown[c] = lastOutput

(* Until a stop or a late result writes the row back, the row has between
   rounds of the streamer what was broadcast last, so that what a reload or a
   restart of the control plane shows is not older than what was on the screen
   before. *)
StreamedIsStored ==
  streamer = "running" /\ lastOutput # 0 /\ capture # "changed"
    /\ (\A w \in Writers : writer[w] = "idle")
    => stored = lastOutput

(* A viewer of a streamed session sees a new screen while it is connected, the
   streamer runs and the screen does not change again. *)
StreamReachesViewer ==
  \A c \in Clients, v \in Outputs :
    (c \in streamSubs /\ client[c] = "reading" /\ streamer = "running" /\ screen = v)
      ~> (shown[c] = v \/ screen # v \/ client[c] # "reading" \/ streamer # "running"
            \/ c \in missed)
=============================================================================

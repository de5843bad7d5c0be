------------------------------ MODULE WsRegistry ------------------------------
(***************************************************************************)
(* The control plane's registry of agent notification sockets for ONE host *)
(* (server/internal/agentmgr/service.go: the map wsConns and the           *)
(* goroutines that touch it).  Every map access of the code uses a single  *)
(* host ID as its key, so one host is one independent copy of this module. *)
(*                                                                         *)
(* Three kinds of goroutine race on the map entry:                         *)
(*   - one HandleAgentWebSocket goroutine per accepted connection;         *)
(*   - one notifyNewCommand call per queued command, which reads the entry *)
(*     under the lock and writes to the connection after releasing it;     *)
(*   - Service.Close at shutdown.                                          *)
(* Each action below is one critical section or one socket operation.      *)
(***************************************************************************)
CONSTANTS
  Commands,  \* commands that may be queued, each at most once: its call of notifyNewCommand
  Conns,     \* connections the agent may ever open; each is used once
  NoConn     \* "no entry in wsConns for this host"

ASSUME ConnAssumption == NoConn \notin Conns

VARIABLES
  wsConn,     \* wsConns[host], or NoConn
  handler,    \* where the handler goroutine of each connection is
  notifier,   \* where each notifyNewCommand call is
  target,     \* the connection a notifier read from the map
  closed,     \* connections on which the server called conn.Close()
  broken      \* connections whose transport died (peer gone, network cut)

registry == <<wsConn, handler, notifier, target, closed, broken>>

HandlerState  == {"none", "upgraded", "serving", "leaving", "closing", "done"}
NotifierState == {"idle", "lookup", "write", "unregister", "close",
                  "sent", "skipped", "failed", "aborted"}

\* (mutant) the nil check before closing is forgotten
RegisteredOrNot == {wsConn}

\* The entry, as the set of connections it holds (at most one).
Registered == {wsConn} \ {NoConn}

\* A connection on which neither end has any trouble.
Healthy(k) == k \notin closed \union broken

\* Another notifier is inside conn.WriteJSON on the same connection.  The
\* code takes no write lock and a gorilla connection supports one writer.
Clash(n) == \E m \in Commands \ {n} :
              notifier[m] = "write" /\ target[m] = target[n]

RegistryInit ==
  /\ wsConn   = NoConn
  /\ handler  = [k \in Conns |-> "none"]
  /\ notifier = [n \in Commands |-> "idle"]
  /\ target   = [n \in Commands |-> NoConn]
  /\ closed   = {}
  /\ broken   = {}
-----------------------------------------------------------------------------
(* The handler goroutine of connection k. *)

\* The upgrade answers the agent's dial; the map is not touched yet.
Upgrade(k) ==
  /\ handler[k] = "none"
  /\ handler' = [handler EXCEPT ![k] = "upgraded"]
  /\ UNCHANGED <<wsConn, notifier, target, closed, broken>>

\* (mutant) take the entry over without closing the connection it held
RegisterKeepingOld(k) ==
  /\ handler[k] = "upgraded"
  /\ handler' = [handler EXCEPT ![k] = "serving"]
  /\ wsConn'  = k
  /\ UNCHANGED <<notifier, target, closed, broken>>

\* RegisterWebSocket: close the previous entry, then take its place.
Register(k) ==
  /\ handler[k] = "upgraded"
  /\ handler' = [handler EXCEPT ![k] = "serving"]
  /\ closed'  = closed \union Registered
  /\ wsConn'  = k
  /\ UNCHANGED <<notifier, target, broken>>

\* The read loop fails, the read deadline passes, or a ping cannot be sent.
Leave(k) ==
  /\ handler[k] = "serving"
  /\ ~Healthy(k)
  /\ handler' = [handler EXCEPT ![k] = "leaving"]
  /\ UNCHANGED <<wsConn, notifier, target, closed, broken>>

\* (mutant) delete the entry whatever it holds
WithoutAny(k) == NoConn

\* UnregisterWebSocket: only if the entry is still this connection.
WithoutConn(k) == IF wsConn = k THEN NoConn ELSE wsConn

\* Deferred calls run last-in first-out: unregister, then close.
LeaveUnregister(k) ==
  /\ handler[k] = "leaving"
  /\ handler' = [handler EXCEPT ![k] = "closing"]
  /\ wsConn'  = WithoutConn(k)
  /\ UNCHANGED <<notifier, target, closed, broken>>

LeaveClose(k) ==
  /\ handler[k] = "closing"
  /\ handler' = [handler EXCEPT ![k] = "done"]
  /\ closed'  = closed \union {k}
  /\ UNCHANGED <<wsConn, notifier, target, broken>>
-----------------------------------------------------------------------------
(* notifyNewCommand n. *)

NotifyStart(n) ==
  /\ notifier[n] = "idle"
  /\ notifier' = [notifier EXCEPT ![n] = "lookup"]
  /\ UNCHANGED <<wsConn, handler, target, closed, broken>>

\* Read the entry under the read lock; without one, "agent will poll".
Lookup(n) ==
  /\ notifier[n] = "lookup"
  /\ target'   = [target EXCEPT ![n] = wsConn]
  /\ notifier' = [notifier EXCEPT ![n] =
                    IF wsConn = NoConn THEN "skipped" ELSE "write"]
  /\ UNCHANGED <<wsConn, handler, closed, broken>>

\* A write on a dead transport may still be accepted by the local kernel.
WriteOK(n) ==
  /\ notifier[n] = "write"
  /\ target[n] \notin closed
  /\ notifier' = [notifier EXCEPT ![n] = "sent"]
  /\ UNCHANGED <<wsConn, handler, target, closed, broken>>

WriteError(n) ==
  /\ notifier[n] = "write"
  /\ ~Healthy(target[n]) \/ Clash(n)
  /\ notifier' = [notifier EXCEPT ![n] = "unregister"]
  /\ UNCHANGED <<wsConn, handler, target, closed, broken>>

\* gorilla panics on a concurrent write.  In a request the router's Recoverer
\* absorbs it and the call ends without unregistering or closing anything; in
\* the launch goroutine nothing recovers it and the process dies (Crash).
WritePanic(n) ==
  /\ notifier[n] = "write"
  /\ Clash(n)
  /\ notifier' = [notifier EXCEPT ![n] = "aborted"]
  /\ UNCHANGED <<wsConn, handler, target, closed, broken>>

NotifyUnregister(n) ==
  /\ notifier[n] = "unregister"
  /\ notifier' = [notifier EXCEPT ![n] = "close"]
  /\ wsConn'   = WithoutConn(target[n])
  /\ UNCHANGED <<handler, target, closed, broken>>

NotifyClose(n) ==
  /\ notifier[n] = "close"
  /\ notifier' = [notifier EXCEPT ![n] = "failed"]
  /\ closed'   = closed \union {target[n]}
  /\ UNCHANGED <<wsConn, handler, target, broken>>
-----------------------------------------------------------------------------
(* The network, shutdown, and the death of the server process. *)

Break(k) ==
  /\ handler[k] # "none"
  /\ k \notin broken
  /\ broken' = broken \union {k}
  /\ UNCHANGED <<wsConn, handler, notifier, target, closed>>

\* Service.Close: close every registered connection and reset the map.
Shutdown ==
  /\ wsConn # NoConn
  /\ closed' = closed \union Registered
  /\ wsConn' = NoConn
  /\ UNCHANGED <<handler, notifier, target, broken>>

\* The process dies and restarts with an empty map: goroutines end where
\* they are and the kernel closes their sockets.
Crash ==
  /\ wsConn'   = NoConn
  /\ handler'  = [k \in Conns |-> IF handler[k] = "none" THEN "none" ELSE "done"]
  /\ closed'   = {k \in Conns : handler[k] # "none"}
  /\ notifier' = [n \in Commands |->
                    IF notifier[n] \in {"lookup", "write", "unregister", "close"}
                    THEN "aborted" ELSE notifier[n]]
  /\ UNCHANGED <<target, broken>>

Handler(k) == Register(k) \/ Leave(k) \/ LeaveUnregister(k) \/ LeaveClose(k)

NotifyNewCommand(n) ==
  \/ Lookup(n)
  \/ WriteOK(n)
  \/ WriteError(n)
  \/ WritePanic(n)
  \/ NotifyUnregister(n)
  \/ NotifyClose(n)

RegistryNext ==
  \/ \E k \in Conns : Upgrade(k) \/ Handler(k) \/ Break(k)
  \/ \E n \in Commands : NotifyStart(n) \/ NotifyNewCommand(n)
  \/ Shutdown
  \/ Crash

RegistrySpec == RegistryInit /\ [][RegistryNext]_registry

\* Goroutines that can run are eventually run; the environment's actions
\* (Upgrade, Break, Shutdown, Crash, a new command) need not happen.
RegistryFairSpec ==
  /\ RegistrySpec
  /\ \A k \in Conns : WF_registry(Handler(k))
  /\ \A n \in Commands : WF_registry(NotifyNewCommand(n))
-----------------------------------------------------------------------------
RegistryTypeOK ==
  /\ wsConn   \in Conns \union {NoConn}
  /\ handler  \in [Conns -> HandlerState]
  /\ notifier \in [Commands -> NotifierState]
  /\ target   \in [Commands -> Conns \union {NoConn}]
  /\ closed   \subseteq Conns
  /\ broken   \subseteq Conns

(* A connection being served is the registered one, or it has been closed,
   or the notifier that unregistered it is about to close it.  An open
   connection that is served but not registered would be a black hole: the
   agent believes it is connected and stops polling, yet no notification can
   reach it.  This is what the identity test in UnregisterWebSocket and the
   close of the old connection in RegisterWebSocket are for. *)
NoZombieConnection ==
  \A k \in Conns :
    handler[k] = "serving" =>
      \/ wsConn = k
      \/ k \in closed
      \/ \E n \in Commands : notifier[n] = "close" /\ target[n] = k

(* The registered connection always has a live handler goroutine that will
   unregister it: IsHostConnected never answers true, routing launches to
   the agent path, on the strength of a goroutine that has already gone. *)
RegisteredHasHandler ==
  wsConn # NoConn => handler[wsConn] \in {"serving", "leaving"}

(* What is of no more use goes away.  A registration of a dead connection does
   not last: the ping/pong deadlines of HandleAgentWebSocket, a failed
   notification or a newer connection remove it.  And a handler whose
   connection is not the registered one ends: a reconnecting agent does not
   accumulate goroutines, one per connection it ever made. *)
DeadAndReplacedGo ==
  \A k \in Conns :
    /\ (wsConn = k /\ k \in broken) ~> (wsConn # k)
    /\ (handler[k] = "serving" /\ wsConn # k) ~> (handler[k] = "done")
=============================================================================

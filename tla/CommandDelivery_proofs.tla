------------------------ MODULE CommandDelivery_proofs ------------------------
(***************************************************************************)
(* Proofs about CommandDelivery and the registry of sockets in it, for any *)
(* sets of commands and sockets, any kinds and any number of faults.       *)
(*                                                                         *)
(*   1. the registry is safe on its own; every step of the system is one   *)
(*      of the registry, so what is proved of it holds here, and every     *)
(*      variable keeps its type;                                           *)
(*   2. the pipeline started \o response \o queue is ordered by ticket:    *)
(*      in order, at most once;                                            *)
(*   3. without a fault no command leaves the pipeline, and no wakeup is   *)
(*      lost;                                                              *)
(*   4. every step is a step of CommandMailbox or a stutter.               *)
(***************************************************************************)
EXTENDS CommandDelivery, SequenceTheorems, TLAPS
-----------------------------------------------------------------------------
(* The registry on its own.  TypeOK and the two safety properties are inductive once it *)
(* is known that a notifier past its lookup holds a real connection (TargetKnown). *)

Touching == {"write", "unregister", "close"}

TargetKnown == \A n \in Commands : notifier[n] \in Touching => target[n] \in Conns

RegistryInv == /\ RegistryTypeOK /\ TargetKnown
               /\ RegisteredHasHandler /\ NoZombieConnection

LEMMA RegistryInvInit == RegistryInit => RegistryInv
  BY DEF RegistryInit, RegistryInv, RegistryTypeOK, TargetKnown, Touching,
    RegisteredHasHandler, NoZombieConnection, HandlerState,
    NotifierState

(* Types, with TargetKnown, are preserved by every step. *)
LEMMA RegistryTypeStep ==
  RegistryTypeOK /\ TargetKnown /\ [RegistryNext]_registry
    => RegistryTypeOK' /\ TargetKnown'
<1> SUFFICES ASSUME RegistryTypeOK, TargetKnown, [RegistryNext]_registry
             PROVE  RegistryTypeOK' /\ TargetKnown'
  OBVIOUS
<1> USE DEF RegistryTypeOK, TargetKnown, Touching, HandlerState,
  NotifierState
<1>1. ASSUME NEW k \in Conns, Upgrade(k) PROVE RegistryTypeOK' /\ TargetKnown'
  BY <1>1 DEF Upgrade
<1>2. ASSUME NEW k \in Conns, Handler(k) PROVE RegistryTypeOK' /\ TargetKnown'
  BY <1>2 DEF Handler, Register, Leave, LeaveUnregister,
    LeaveClose, Registered, WithoutConn
<1>3. ASSUME NEW k \in Conns, Break(k) PROVE RegistryTypeOK' /\ TargetKnown'
  BY <1>3 DEF Break
<1>4. ASSUME NEW n \in Commands, NotifyStart(n) PROVE RegistryTypeOK' /\ TargetKnown'
  BY <1>4 DEF NotifyStart
<1>5. ASSUME NEW n \in Commands, Lookup(n) PROVE RegistryTypeOK' /\ TargetKnown'
  BY <1>5 DEF Lookup
<1>6. ASSUME NEW n \in Commands, WriteOK(n) \/ WriteError(n) \/ WritePanic(n)
      PROVE  RegistryTypeOK' /\ TargetKnown'
  BY <1>6 DEF WriteOK, WriteError, WritePanic
<1>7. ASSUME NEW n \in Commands, NotifyUnregister(n) PROVE RegistryTypeOK' /\ TargetKnown'
  BY <1>7 DEF NotifyUnregister, WithoutConn
<1>8. ASSUME NEW n \in Commands, NotifyClose(n) PROVE RegistryTypeOK' /\ TargetKnown'
  BY <1>8 DEF NotifyClose
<1>9. CASE Shutdown
  BY <1>9 DEF Shutdown, Registered
<1>10. CASE Crash
  BY <1>10 DEF Crash
<1>11. CASE UNCHANGED registry
  BY <1>11 DEF registry
<1> QED
  BY <1>1, <1>2, <1>3, <1>4, <1>5, <1>6, <1>7, <1>8, <1>9, <1>10, <1>11
     DEF RegistryNext, NotifyNewCommand

(* The map entry belongs to a handler that has still to unregister it. *)
LEMMA RegisteredStep ==
  RegistryTypeOK /\ RegisteredHasHandler /\ [RegistryNext]_registry
    => RegisteredHasHandler'
<1> SUFFICES ASSUME RegistryTypeOK, RegisteredHasHandler, [RegistryNext]_registry
             PROVE  RegisteredHasHandler'
  OBVIOUS
<1> USE ConnAssumption DEF RegistryTypeOK, RegisteredHasHandler
<1>1. ASSUME NEW k \in Conns, Upgrade(k) \/ Break(k) PROVE RegisteredHasHandler'
  BY <1>1 DEF Upgrade, Break
<1>2. ASSUME NEW k \in Conns, Register(k) PROVE RegisteredHasHandler'
  BY <1>2 DEF Register
<1>3. ASSUME NEW k \in Conns, Leave(k) PROVE RegisteredHasHandler'
  BY <1>3 DEF Leave
<1>4. ASSUME NEW k \in Conns, LeaveUnregister(k) PROVE RegisteredHasHandler'
  BY <1>4 DEF LeaveUnregister, WithoutConn
<1>5. ASSUME NEW k \in Conns, LeaveClose(k) PROVE RegisteredHasHandler'
  BY <1>5 DEF LeaveClose
<1>6. ASSUME NEW n \in Commands, NotifyStart(n) \/ NotifyNewCommand(n)
      PROVE  RegisteredHasHandler'
  BY <1>6 DEF NotifyStart, NotifyNewCommand, Lookup, WriteOK,
    WriteError, WritePanic, NotifyUnregister,
    NotifyClose, WithoutConn
<1>7. CASE Shutdown \/ Crash
  BY <1>7 DEF Shutdown, Crash
<1>8. CASE UNCHANGED registry
  BY <1>8 DEF registry
<1> QED
  BY <1>1, <1>2, <1>3, <1>4, <1>5, <1>6, <1>7, <1>8 DEF RegistryNext, Handler

(* The interesting steps are the three that take a served connection out of
   the map: Register closes what it replaces, a failing notifier is left at
   "close" with that connection as its target, and Shutdown closes it. *)
LEMMA ZombieStep ==
  RegistryTypeOK /\ TargetKnown /\ NoZombieConnection /\ [RegistryNext]_registry
    => NoZombieConnection'
<1> SUFFICES ASSUME RegistryTypeOK, TargetKnown, NoZombieConnection,
                    [RegistryNext]_registry,
                    NEW j \in Conns, handler'[j] = "serving"
             PROVE  \/ wsConn' = j
                    \/ j \in closed'
                    \/ \E n \in Commands : notifier'[n] = "close" /\ target'[n] = j
  BY DEF NoZombieConnection
<1> DEFINE AboutToClose == \E n \in Commands : notifier[n] = "close" /\ target[n] = j
<1> USE ConnAssumption DEF RegistryTypeOK, TargetKnown, Touching
<1>0. handler[j] = "serving" => wsConn = j \/ j \in closed \/ AboutToClose
  BY DEF NoZombieConnection
<1>1. ASSUME NEW k \in Conns, Upgrade(k) \/ Break(k) \/ Leave(k)
                                 \/ LeaveClose(k)
      PROVE  wsConn' = j \/ j \in closed' \/ AboutToClose'
  BY <1>0, <1>1 DEF Upgrade, Break, Leave, LeaveClose
<1>2. ASSUME NEW k \in Conns, Register(k)
      PROVE  wsConn' = j \/ j \in closed' \/ AboutToClose'
  BY <1>0, <1>2 DEF Register, Registered
<1>3. ASSUME NEW k \in Conns, LeaveUnregister(k)
      PROVE  wsConn' = j \/ j \in closed' \/ AboutToClose'
  BY <1>0, <1>3 DEF LeaveUnregister, WithoutConn
<1>4. ASSUME NEW n \in Commands,
             \/ NotifyStart(n) \/ Lookup(n)
             \/ WriteOK(n) \/ WriteError(n) \/ WritePanic(n)
      PROVE  wsConn' = j \/ j \in closed' \/ AboutToClose'
  BY <1>0, <1>4 DEF NotifyStart, Lookup, WriteOK,
    WriteError, WritePanic
<1>5. ASSUME NEW n \in Commands, NotifyUnregister(n)
      PROVE  wsConn' = j \/ j \in closed' \/ AboutToClose'
  BY <1>0, <1>5 DEF NotifyUnregister, WithoutConn
<1>6. ASSUME NEW n \in Commands, NotifyClose(n)
      PROVE  wsConn' = j \/ j \in closed' \/ AboutToClose'
  BY <1>0, <1>6 DEF NotifyClose
<1>7. CASE Shutdown
  BY <1>0, <1>7 DEF Shutdown, Registered
<1>8. CASE Crash
  BY <1>8 DEF Crash
<1>9. CASE UNCHANGED registry
  BY <1>0, <1>9 DEF registry
<1> QED
  BY <1>1, <1>2, <1>3, <1>4, <1>5, <1>6, <1>7, <1>8, <1>9
     DEF RegistryNext, Handler, NotifyNewCommand

LEMMA RegistryInvStep == RegistryInv /\ [RegistryNext]_registry => RegistryInv'
  BY RegistryTypeStep, RegisteredStep, ZombieStep DEF RegistryInv

LEMMA RegistryInductive == RegistrySpec => []RegistryInv
  BY RegistryInvInit, RegistryInvStep, PTL DEF RegistrySpec

(* However many connections and notifications race on the map entry, no connection is *)
(* left open and served while unregistered (registerWebSocket, notifyAgentViaWebSocket). *)
THEOREM ZombieFree == RegistrySpec => []NoZombieConnection
  BY RegistryInductive, PTL DEF RegistryInv

(* Every variable of the registry keeps its type, and the registered connection always *)
(* has a handler that will unregister it. *)
THEOREM RegistrationOwned ==
  RegistrySpec => []RegistryTypeOK /\ []RegisteredHasHandler
  BY RegistryInductive, PTL DEF RegistryInv
-----------------------------------------------------------------------------
(* The registry with the queue, the agent and the network. *)

LocalType ==
  /\ queue     \in Seq(Commands)
  /\ ticket    \in [Commands -> Nat]
  /\ enqueued  \in Nat
  /\ inflight  \in [Conns -> Nat]
  /\ orphans   \in Nat
  /\ listener  \in {"dialing", "handshake", "reading", "lost"}
  /\ agentConn \in Conns \union {NoConn}
  /\ connected \in BOOLEAN
  /\ notified  \in BOOLEAN
  /\ request   \in {"idle", "sent", "answered", "dead"}
  /\ response  \in Seq(Commands)
  /\ started   \in Seq(Commands)
  /\ faults    \in Nat

\* The agent's socket is one the server has upgraded.
AgentHolds ==
  /\ listener # "dialing" => agentConn # NoConn
  /\ agentConn # NoConn => handler[agentConn] # "none"

TypeInv == RegistryInv /\ LocalType /\ AgentHolds

\* The actions that leave the registry's variables alone.
AgentOnly ==
  \/ SetConnected \/ ReadNotification \/ MarkDisconnected
  \/ PollOnNotification \/ PollOnTick \/ ServePending \/ ReceiveCommands
  \/ ServeOrphan \/ PollFails \/ PollDies

LEMMA AgentOnlyStep == AgentOnly => UNCHANGED registry
  BY DEF AgentOnly, SetConnected, ReadNotification, MarkDisconnected, PollOnNotification,
    PollOnTick, ServePending, ReceiveCommands, ServeOrphan, PollFails, PollDies

(* Every step of the system is a step of the registry, or leaves it alone. *)
LEMMA RegistryStep == TypeInv /\ [Next]_vars => [RegistryNext]_registry
<1> SUFFICES ASSUME TypeInv, [Next]_vars PROVE [RegistryNext]_registry
  OBVIOUS
<1> USE DEF registry
<1>1. ASSUME NEW c \in Commands, QueueCommand(c) PROVE RegistryNext
  BY <1>1 DEF QueueCommand, NotifyStart, RegistryNext
<1>2. ASSUME NEW c \in Commands, Notify(c) PROVE RegistryNext
  <2>1. NotifyNewCommand(c)
    BY <1>2 DEF Notify, NotifySent, NotifyFails, NotifyOther, NotifyNewCommand,
      WriteOK, WriteError, WritePanic, Lookup,
      NotifyUnregister, NotifyClose, Healthy, Clash,
      WithoutConn
  <2> QED BY <2>1 DEF RegistryNext
<1>3. ASSUME NEW k \in Conns, HandlerStep(k) PROVE RegistryNext
  <2>1. Handler(k)
    BY <1>3 DEF HandlerStep, Handler, Register, Leave,
      LeaveUnregister, LeaveClose, Registered, Healthy,
      WithoutConn
  <2> QED BY <2>1 DEF RegistryNext
<1>4. ASSUME NEW k \in Conns, Dial(k) PROVE RegistryNext
  BY <1>4 DEF Dial, Upgrade, RegistryNext
<1>5. ASSUME NEW k \in Conns, BreakSocket(k) PROVE RegistryNext
  BY <1>5 DEF BreakSocket, Break, RegistryNext
<1>6. CASE HandshakeFails \/ ReadFails \/ AgentCrash
  <2>1. /\ UNCHANGED <<wsConn, handler, notifier, target, closed>>
        /\ \/ broken' = broken
           \/ agentConn # NoConn /\ broken' = broken \union {agentConn}
    BY <1>6 DEF HandshakeFails, ReadFails, AgentCrash, TypeInv, LocalType, AgentHolds
  <2>2. CASE UNCHANGED registry
    BY <2>2 DEF registry
  <2>3. CASE agentConn # NoConn /\ broken' = broken \union {agentConn}
             /\ agentConn \notin broken
    <3>1. agentConn \in Conns /\ handler[agentConn] # "none"
      BY <2>3 DEF TypeInv, LocalType, AgentHolds
    <3>2. Break(agentConn)
      BY <2>1, <2>3, <3>1 DEF Break
    <3> QED BY <3>1, <3>2 DEF RegistryNext
  <2> QED BY <2>1, <2>2, <2>3
<1>7. CASE AgentOnly
  BY <1>7, AgentOnlyStep DEF registry
<1>8. CASE ServerCrash
  BY <1>8 DEF ServerCrash, Crash, RegistryNext
<1>9. CASE ServerShutdown
  BY <1>9 DEF ServerShutdown, Shutdown, Registered, RegistryNext
<1>10. CASE UNCHANGED vars
  BY <1>10 DEF vars, registry
<1> QED
  BY <1>1, <1>2, <1>3, <1>4, <1>5, <1>6, <1>7, <1>8, <1>9, <1>10
     DEF Next, Listener, MainLoop, AgentOnly
-----------------------------------------------------------------------------
(* A connection that was upgraded stays so. *)
LEMMA HandlerKept ==
  ASSUME TypeInv, [RegistryNext]_registry, NEW k \in Conns, handler[k] # "none"
  PROVE  handler'[k] # "none"
<1> USE DEF TypeInv, RegistryInv, RegistryTypeOK
<1>1. ASSUME NEW j \in Conns, Upgrade(j) \/ Break(j) PROVE handler'[k] # "none"
  BY <1>1 DEF Upgrade, Break
<1>2. ASSUME NEW j \in Conns, Handler(j) PROVE handler'[k] # "none"
  BY <1>2 DEF Handler, Register, Leave, LeaveUnregister,
    LeaveClose
<1>3. ASSUME NEW n \in Commands, NotifyStart(n) \/ NotifyNewCommand(n)
      PROVE  handler'[k] # "none"
  BY <1>3 DEF NotifyStart, NotifyNewCommand, Lookup, WriteOK,
    WriteError, WritePanic, NotifyUnregister,
    NotifyClose
<1>4. CASE Shutdown \/ Crash
  BY <1>4 DEF Shutdown, Crash
<1>5. CASE UNCHANGED registry
  BY <1>5 DEF registry
<1> QED
  BY <1>1, <1>2, <1>3, <1>4, <1>5 DEF RegistryNext

(* A notification that was started stays so. *)
LEMMA NotifierStarted ==
  ASSUME RegistryTypeOK, [RegistryNext]_registry, NEW c \in Commands, notifier'[c] = "idle"
  PROVE  notifier[c] = "idle"
<1> USE DEF RegistryTypeOK
<1>1. ASSUME NEW k \in Conns, Upgrade(k) \/ Break(k) \/ Handler(k)
      PROVE  notifier[c] = "idle"
  BY <1>1 DEF Upgrade, Break, Handler, Register,
    Leave, LeaveUnregister, LeaveClose
<1>2. ASSUME NEW n \in Commands, NotifyStart(n) \/ NotifyNewCommand(n)
      PROVE  notifier[c] = "idle"
  BY <1>2 DEF NotifyStart, NotifyNewCommand, Lookup, WriteOK,
    WriteError, WritePanic, NotifyUnregister,
    NotifyClose
<1>3. CASE Shutdown \/ Crash \/ UNCHANGED registry
  BY <1>3 DEF Shutdown, Crash, registry
<1> QED
  BY <1>1, <1>2, <1>3 DEF RegistryNext

(* The variables this module adds keep their types. *)
LEMMA LocalTypeStep == TypeInv /\ [Next]_vars => LocalType'
<1> SUFFICES ASSUME TypeInv, [Next]_vars PROVE LocalType'
  OBVIOUS
<1>0. LocalType /\ <<>> \in Seq(Commands)
  BY EmptySeq DEF TypeInv
<1> USE <1>0, ConnAssumption, DeliveryAssumption DEF LocalType, server, agentWs, poll
<1>1. ASSUME NEW c \in Commands, QueueCommand(c) PROVE LocalType'
  BY <1>1 DEF QueueCommand
<1>2. ASSUME NEW c \in Commands, NotifySent(c) PROVE LocalType'
  <2>1. inflight' \in [Conns -> Nat]
    <3>1. \A k \in Conns : inflight[k] + 1 \in Nat
      OBVIOUS
    <3>2. [inflight EXCEPT ![target[c]] = @ + 1] \in [Conns -> Nat]
      BY <3>1
    <3> QED BY <1>2, <3>2 DEF NotifySent
  <2> QED BY <1>2, <2>1 DEF NotifySent
<1>3. ASSUME NEW c \in Commands, NotifyFails(c) \/ NotifyOther(c) PROVE LocalType'
  BY <1>3 DEF NotifyFails, NotifyOther, Fault
<1>4. ASSUME NEW k \in Conns, HandlerStep(k) \/ Dial(k) PROVE LocalType'
  BY <1>4 DEF HandlerStep, Dial
<1>5. ASSUME NEW k \in Conns, BreakSocket(k) PROVE LocalType'
  <2>1. PICK n \in 0 .. inflight[k] : inflight' = [inflight EXCEPT ![k] = n]
    BY <1>5 DEF BreakSocket
  <2>2. inflight' \in [Conns -> Nat]
    BY <2>1
  <2> QED BY <1>5, <2>2 DEF BreakSocket, Fault
<1>6. CASE HandshakeFails \/ SetConnected \/ ReadFails \/ MarkDisconnected
  <2>1. CASE HandshakeFails
    BY <2>1 DEF HandshakeFails, Fault
  <2>2. CASE SetConnected \/ ReadFails \/ MarkDisconnected
    BY <2>2 DEF SetConnected, ReadFails, MarkDisconnected
  <2> QED BY <1>6, <2>1, <2>2
<1>7. CASE ReadNotification
  <2>1. \A k \in Conns : inflight[k] > 0 => inflight[k] - 1 \in Nat
    OBVIOUS
  <2>2. inflight' \in [Conns -> Nat]
    BY <1>7, <2>1 DEF ReadNotification
  <2> QED BY <1>7, <2>2 DEF ReadNotification
<1>8. CASE PollOnNotification \/ PollOnTick \/ ServePending \/ ServeOrphan
  <2>1. orphans > 0 => orphans - 1 \in Nat
    OBVIOUS
  <2> QED
    BY <1>8, <2>1 DEF PollOnNotification, PollOnTick, ServePending, ServeOrphan
<1>9. CASE ReceiveCommands
  BY <1>9 DEF ReceiveCommands
<1>10. ASSUME LeaveRequest
       PROVE  request' = "idle" /\ response' \in Seq(Commands) /\ orphans' \in Nat
  BY <1>10 DEF LeaveRequest
<1>11. CASE PollFails \/ PollDies
  BY <1>10, <1>11 DEF PollFails, PollDies, Fault
<1>12. CASE ServerCrash
  <2>1. request' \in {"idle", "sent", "answered", "dead"} /\ orphans' \in Nat
    BY <1>12 DEF ServerCrash
  <2>2. queue' \in Seq(Commands) /\ faults' \in Nat
    BY <1>12 DEF ServerCrash, Fault
  <2> QED BY <1>12, <2>1, <2>2 DEF ServerCrash
<1>13. CASE ServerShutdown
  BY <1>13 DEF ServerShutdown, Fault
<1>14. CASE AgentCrash
  <2>1. faults' \in Nat
    BY <1>14 DEF AgentCrash, Fault
  <2> QED BY <1>10, <1>14, <2>1 DEF AgentCrash
<1>15. CASE UNCHANGED vars
  BY <1>15 DEF vars
<1> QED
  BY <1>1, <1>2, <1>3, <1>4, <1>5, <1>6, <1>7, <1>8, <1>9, <1>11, <1>12, <1>13, <1>14, <1>15
     DEF Next, Notify, Listener, MainLoop

LEMMA AgentHoldsStep == TypeInv /\ [Next]_vars => AgentHolds'
<1> SUFFICES ASSUME TypeInv, [Next]_vars PROVE AgentHolds'
  OBVIOUS
<1>1. \A k \in Conns : handler[k] # "none" => handler'[k] # "none"
  BY HandlerKept, RegistryStep
<1>2. ASSUME NEW k \in Conns, Dial(k) PROVE AgentHolds'
  <2>1. handler'[k] # "none" /\ agentConn' = k
    BY <1>2 DEF Dial, Upgrade, TypeInv, RegistryInv, RegistryTypeOK
  <2> QED BY <2>1, ConnAssumption DEF AgentHolds
<1>3. CASE AgentCrash
  BY <1>3 DEF AgentCrash, AgentHolds
<1>4. CASE HandshakeFails \/ Listener
  BY <1>1, <1>4 DEF HandshakeFails, Listener, SetConnected, ReadNotification, ReadFails,
    MarkDisconnected, AgentHolds, TypeInv, LocalType, agentWs
<1>5. ASSUME UNCHANGED agentWs PROVE AgentHolds'
  BY <1>1, <1>5 DEF AgentHolds, agentWs, TypeInv, LocalType
<1> QED
  BY <1>2, <1>3, <1>4, <1>5 DEF Next, vars, QueueCommand, Notify, NotifySent, NotifyFails,
    NotifyOther, HandlerStep, BreakSocket, MainLoop, PollOnNotification, PollOnTick,
    ServePending, ReceiveCommands, ServeOrphan, PollFails, PollDies, ServerCrash,
    ServerShutdown

LEMMA TypeInvStep == TypeInv /\ [Next]_vars => TypeInv'
<1> SUFFICES ASSUME TypeInv, [Next]_vars PROVE TypeInv'
  OBVIOUS
<1>1. RegistryInv'
  BY RegistryStep, RegistryInvStep, ConnAssumption DEF TypeInv
<1> QED BY <1>1, LocalTypeStep, AgentHoldsStep DEF TypeInv

LEMMA TypeInvInit == Init => TypeInv
<1> SUFFICES ASSUME Init PROVE TypeInv
  OBVIOUS
<1>1. RegistryInv
  BY RegistryInvInit, ConnAssumption DEF Init, RegistryInit
<1> QED BY <1>1, EmptySeq, ConnAssumption, DeliveryAssumption DEF TypeInv, LocalType, AgentHolds, Init

LEMMA TypeInvAlways == Spec => []TypeInv
  BY TypeInvInit, TypeInvStep, PTL DEF Spec

(* Every variable of the system keeps its type. *)
THEOREM TypeCorrect == Spec => []TypeOK
<1>1. TypeInv => TypeOK
  BY DEF TypeInv, LocalType, TypeOK, RegistryInv, RegistryTypeOK, HandlerState,
    NotifierState
<1> QED BY <1>1, TypeInvAlways, PTL

(* Composed with the queue, the agent and the network, the registry behaves
   as WsRegistry says it does on its own. *)
THEOREM RegistryRefined == Spec => RegistrySpec
<1>1. Init => RegistryInit
  BY DEF Init
<1>2. TypeInv /\ [Next]_vars => [RegistryNext]_registry
  BY RegistryStep
<1> QED BY <1>1, <1>2, TypeInvAlways, PTL DEF Spec, RegistrySpec
-----------------------------------------------------------------------------
(* Sequences of commands, as the steps cut and extend the pipeline. *)

Ordered(t, s) ==
  \A i, j \in 1 .. Len(s) : i < j => t[s[i]] < t[s[j]]

Ticketed(t, s) == \A i \in 1 .. Len(s) : t[s[i]] > 0

LEMMA DropMiddle ==
  ASSUME NEW t, NEW a \in Seq(Commands), NEW b \in Seq(Commands),
         NEW d \in Seq(Commands),
         Ticketed(t, (a \o b) \o d), Ordered(t, (a \o b) \o d)
  PROVE  Ticketed(t, a \o d) /\ Ordered(t, a \o d)
<1> DEFINE old == (a \o b) \o d
           new == a \o d
           f(i) == IF i <= Len(a) THEN i ELSE i + Len(b)
<1>1. /\ Len(a) \in Nat /\ Len(b) \in Nat /\ Len(d) \in Nat
      /\ a \o b \in Seq(Commands) /\ Len(a \o b) = Len(a) + Len(b)
  BY ConcatProperties, LenProperties
<1>2. /\ Len(old) = Len(a) + Len(b) + Len(d)
      /\ \A i \in 1 .. Len(a) + Len(b) : old[i] = (a \o b)[i]
      /\ \A i \in Len(a) + Len(b) + 1 .. Len(old) : old[i] = d[i - Len(a) - Len(b)]
  BY <1>1, ConcatProperties
<1>3. \A i \in 1 .. Len(a) : old[i] = a[i]
  BY <1>1, <1>2, ConcatProperties
<1>4. /\ Len(new) = Len(a) + Len(d)
      /\ \A i \in 1 .. Len(new) : new[i] = IF i <= Len(a) THEN a[i] ELSE d[i - Len(a)]
  BY <1>1, ConcatProperties
<1>5. \A i \in 1 .. Len(new) : f(i) \in 1 .. Len(old) /\ new[i] = old[f(i)]
  BY <1>1, <1>2, <1>3, <1>4
<1>6. \A i, j \in 1 .. Len(new) : i < j => f(i) < f(j)
  BY <1>1, <1>4
<1> HIDE DEF old, new, f
<1>7. Ticketed(t, new) /\ Ordered(t, new)
  BY <1>5, <1>6 DEF Ticketed, Ordered, old
<1> QED BY <1>7 DEF new

LEMMA DropTail ==
  ASSUME NEW t, NEW a \in Seq(Commands), NEW d \in Seq(Commands),
         Ticketed(t, a \o d), Ordered(t, a \o d)
  PROVE  Ticketed(t, a) /\ Ordered(t, a)
<1>1. /\ Len(a) \in Nat /\ Len(d) \in Nat
      /\ Len(a \o d) = Len(a) + Len(d)
      /\ \A i \in 1 .. Len(a) : (a \o d)[i] = a[i]
  BY ConcatProperties, LenProperties
<1> QED BY <1>1 DEF Ticketed, Ordered

LEMMA AppendCommand ==
  ASSUME NEW s \in Seq(Commands), NEW c \in Commands
  PROVE  /\ Append(s, c) \in Seq(Commands)
         /\ Len(Append(s, c)) = Len(s) + 1
         /\ Append(s, c)[Len(s) + 1] = c
         /\ \A i \in 1 .. Len(s) : Append(s, c)[i] = s[i]
         /\ \A x \in ToSet(s) \union {c} : x \in ToSet(Append(s, c))
         /\ \A x \in ToSet(Append(s, c)) : x \in ToSet(s) \union {c}
<1>1. /\ Append(s, c) \in Seq(Commands)
      /\ Len(Append(s, c)) = Len(s) + 1
      /\ Append(s, c)[Len(s) + 1] = c
      /\ \A i \in 1 .. Len(s) : Append(s, c)[i] = s[i]
  OBVIOUS
<1>2. DOMAIN s = 1 .. Len(s) /\ DOMAIN Append(s, c) = 1 .. Len(s) + 1 /\ Len(s) \in Nat
  BY <1>1, LenProperties
<1>3. ASSUME NEW x \in ToSet(s) PROVE x \in ToSet(Append(s, c))
  <2>1. PICK i \in 1 .. Len(s) : x = s[i]
    BY <1>2 DEF ToSet
  <2>2. x = Append(s, c)[i] /\ i \in DOMAIN Append(s, c)
    BY <1>1, <1>2, <2>1
  <2> QED BY <2>2 DEF ToSet
<1>4. c \in ToSet(Append(s, c))
  <2>1. Len(s) + 1 \in DOMAIN Append(s, c)
    BY <1>2
  <2> QED BY <1>1, <2>1 DEF ToSet
<1>5. ASSUME NEW x \in ToSet(Append(s, c)) PROVE x \in ToSet(s) \union {c}
  <2>1. PICK i \in 1 .. Len(s) + 1 : x = Append(s, c)[i]
    BY <1>2 DEF ToSet
  <2>2. CASE i \in 1 .. Len(s)
    BY <1>1, <1>2, <2>1, <2>2 DEF ToSet
  <2>3. CASE i = Len(s) + 1
    BY <1>1, <2>1, <2>3
  <2> QED BY <1>2, <2>1, <2>2, <2>3
<1> QED BY <1>1, <1>3, <1>4, <1>5

LEMMA AppendConcat ==
  ASSUME NEW a \in Seq(Commands), NEW q \in Seq(Commands), NEW c \in Commands
  PROVE  a \o Append(q, c) = Append(a \o q, c)
<1>1. <<c>> \in Seq(Commands) /\ a \o q \in Seq(Commands)
  BY ConcatProperties
<1>2. Append(q, c) = q \o <<c>> /\ Append(a \o q, c) = (a \o q) \o <<c>>
  BY <1>1, AppendIsConcat
<1> QED BY <1>1, <1>2, ConcatAssociative
-----------------------------------------------------------------------------
(* In order, at most once. *)

\* A new ticket is larger than any in the pipeline, and a command without one
\* is not in it; a request that is not answered holds no commands.
PipelineInv ==
  /\ \A c \in Commands : ticket[c] <= enqueued
  /\ \A c \in Commands : notifier[c] = "idle" => ticket[c] = 0
  /\ Ticketed(ticket, Pipeline)
  /\ Ordered(ticket, Pipeline)
  /\ request # "answered" => response = <<>>
-----------------------------------------------------------------------------
(* How the steps move the pipeline. *)

LEMMA PipelineType == LocalType => Pipeline \in Seq(Commands)
  BY ConcatProperties DEF LocalType, Pipeline

(* Queueing puts the command at the end of the pipeline. *)
LEMMA QueuedAtEnd ==
  ASSUME LocalType, NEW c \in Commands, QueueCommand(c)
  PROVE  Pipeline' = Append(Pipeline, c)
<1>1. Pipeline' = (started \o response) \o Append(queue, c)
  BY DEF QueueCommand, Pipeline, poll
<1>2. started \o response \in Seq(Commands)
  BY ConcatProperties DEF LocalType
<1> QED BY <1>1, <1>2, AppendConcat DEF LocalType, Pipeline

(* Serving and receiving an answer move commands along without touching it. *)
LEMMA PipelineKept ==
  ASSUME LocalType, PipelineInv, ServePending \/ ReceiveCommands
  PROVE  Pipeline' = Pipeline
<1> USE DEF LocalType
<1>1. CASE ServePending
  <2>1. response = <<>>
    BY <1>1 DEF ServePending, PipelineInv
  <2>2. Pipeline' = (started \o queue) \o <<>> /\ Pipeline = (started \o <<>>) \o queue
    BY <1>1, <2>1 DEF ServePending, Pipeline
  <2>3. started \o queue \in Seq(Commands)
    BY ConcatProperties
  <2> QED BY <2>2, <2>3, ConcatEmptySeq
<1>2. CASE ReceiveCommands
  <2>1. Pipeline' = ((started \o response) \o <<>>) \o queue
    BY <1>2 DEF ReceiveCommands, Pipeline, server
  <2>2. started \o response \in Seq(Commands)
    BY ConcatProperties
  <2> QED BY <2>1, <2>2, ConcatEmptySeq DEF Pipeline
<1> QED BY <1>1, <1>2

\* The answer is lost, or the queue is.
AnswerLost == started' = started /\ response' = <<>> /\ queue' = queue
QueueLost  == started' = started /\ response' = response /\ queue' = <<>>

LEMMA CutsKeepOrder ==
  ASSUME LocalType, NEW t, Ticketed(t, Pipeline), Ordered(t, Pipeline),
         AnswerLost \/ QueueLost
  PROVE  Ticketed(t, Pipeline') /\ Ordered(t, Pipeline')
<1> USE DEF LocalType
<1>1. CASE AnswerLost
  <2>1. Pipeline' = started \o queue
    BY <1>1, ConcatEmptySeq DEF AnswerLost, Pipeline
  <2>2. Ticketed(t, (started \o response) \o queue) /\ Ordered(t, (started \o response) \o queue)
    BY DEF Pipeline
  <2> QED BY <2>1, <2>2, DropMiddle
<1>2. CASE QueueLost
  <2>1. started \o response \in Seq(Commands)
    BY ConcatProperties
  <2>2. Pipeline' = started \o response
    BY <1>2, <2>1, ConcatEmptySeq DEF QueueLost, Pipeline
  <2>3. Ticketed(t, (started \o response) \o queue) /\ Ordered(t, (started \o response) \o queue)
    BY DEF Pipeline
  <2> QED BY <2>1, <2>2, <2>3, DropTail
<1> QED BY <1>1, <1>2

(* Every step queues a command, moves commands along, loses an answer or the
   queue, or leaves all commands where they are. *)
LEMMA BoxMoves ==
  ASSUME TypeInv, PipelineInv, [Next]_vars
  PROVE  \/ \E c \in Commands : QueueCommand(c)
         \/ ServePending \/ ReceiveCommands
         \/ UNCHANGED <<ticket, enqueued>> /\ (AnswerLost \/ QueueLost)
         \/ UNCHANGED <<ticket, enqueued, queue, response, started>>
<1> DEFINE Still == UNCHANGED <<ticket, enqueued, queue, response, started>>
<1>1. ASSUME NEW c \in Commands, Notify(c) PROVE Still
  BY <1>1 DEF Notify, NotifySent, NotifyFails, NotifyOther, server, poll
<1>2. ASSUME NEW k \in Conns, HandlerStep(k) \/ Dial(k) \/ BreakSocket(k) PROVE Still
  BY <1>2 DEF HandlerStep, Dial, BreakSocket, server, poll
<1>3. CASE HandshakeFails \/ Listener \/ ServerShutdown \/ UNCHANGED vars
  BY <1>3 DEF HandshakeFails, Listener, SetConnected, ReadNotification, ReadFails,
    MarkDisconnected, ServerShutdown, vars, server, poll
<1>4. CASE PollOnNotification \/ PollOnTick
  BY <1>4 DEF PollOnNotification, PollOnTick, server
<1>5. CASE ServeOrphan
  BY <1>5 DEF ServeOrphan, QueueLost, poll
<1>6. CASE PollFails \/ PollDies \/ AgentCrash
  BY <1>6 DEF PollFails, PollDies, AgentCrash, LeaveRequest, AnswerLost, server
<1>7. CASE ServerCrash
  BY <1>7 DEF ServerCrash, QueueLost
<1> QED
  BY <1>1, <1>2, <1>3, <1>4, <1>5, <1>6, <1>7 DEF Next, MainLoop

(* What that does to the pipeline. *)
LEMMA PipelineMoves ==
  ASSUME TypeInv, PipelineInv, [Next]_vars
  PROVE  \/ \E c \in Commands : QueueCommand(c)
         \/ UNCHANGED <<ticket, enqueued>> /\ Pipeline' = Pipeline
         \/ UNCHANGED <<ticket, enqueued>> /\ (AnswerLost \/ QueueLost)
<1>1. CASE ServePending \/ ReceiveCommands
  <2>1. Pipeline' = Pipeline
    BY <1>1, PipelineKept DEF TypeInv
  <2> QED BY <1>1, <2>1 DEF ServePending, ReceiveCommands, server
<1>2. CASE UNCHANGED <<ticket, enqueued, queue, response, started>>
  BY <1>2 DEF Pipeline
<1> QED BY <1>1, <1>2, BoxMoves

(* The history of tickets makes the order inductive. *)
LEMMA PipelineStep == TypeInv /\ PipelineInv /\ [Next]_vars => PipelineInv'
<1> SUFFICES ASSUME TypeInv, PipelineInv, [Next]_vars PROVE PipelineInv'
  OBVIOUS
<1>0. LocalType /\ RegistryTypeOK
  BY DEF TypeInv, RegistryInv
<1>1. request' # "answered" => response' = <<>>
  BY DEF PipelineInv, Next, vars, QueueCommand, Notify, NotifySent, NotifyFails,
    NotifyOther, HandlerStep, Dial, BreakSocket, HandshakeFails, Listener, SetConnected,
    ReadNotification, ReadFails, MarkDisconnected, MainLoop, PollOnNotification, PollOnTick,
    ServePending, ReceiveCommands, ServeOrphan, PollFails, PollDies, LeaveRequest,
    ServerCrash, ServerShutdown, AgentCrash, poll
<1>2. ASSUME NEW c \in Commands, QueueCommand(c) PROVE PipelineInv'
  <2>1. /\ notifier[c] = "idle" /\ notifier' = [notifier EXCEPT ![c] = "lookup"]
        /\ enqueued' = enqueued + 1 /\ ticket' = [ticket EXCEPT ![c] = enqueued + 1]
    BY <1>2 DEF QueueCommand, NotifyStart
  <2>2. Pipeline \in Seq(Commands) /\ Pipeline' = Append(Pipeline, c)
    BY <1>0, <1>2, PipelineType, QueuedAtEnd
  <2>3. /\ Len(Pipeline) \in Nat
        /\ Len(Pipeline') = Len(Pipeline) + 1
        /\ Pipeline'[Len(Pipeline) + 1] = c
        /\ \A i \in 1 .. Len(Pipeline) : Pipeline'[i] = Pipeline[i]
    BY <2>2, AppendCommand, LenProperties
  <2>4. \A i \in 1 .. Len(Pipeline) : Pipeline[i] \in Commands /\ Pipeline[i] # c
    BY <2>1, <2>2, <1>0, ElementOfSeq DEF PipelineInv, Ticketed, LocalType
  <2>5. /\ ticket'[c] = enqueued + 1
        /\ \A d \in Commands \ {c} : ticket'[d] = ticket[d]
        /\ \A d \in Commands : ticket[d] \in Nat /\ ticket[d] <= enqueued
        /\ enqueued \in Nat
    BY <1>0, <2>1 DEF LocalType, PipelineInv
  <2>6. \A d \in Commands : ticket'[d] <= enqueued'
    BY <2>1, <2>5
  <2>7. \A d \in Commands : notifier'[d] = "idle" => ticket'[d] = 0
    BY <1>0, <2>1, <2>5 DEF PipelineInv, RegistryTypeOK
  <2>8. \A i \in 1 .. Len(Pipeline) : /\ ticket'[Pipeline'[i]] = ticket[Pipeline[i]]
                                      /\ ticket[Pipeline[i]] < enqueued + 1
    BY <2>3, <2>4, <2>5
  <2>9. Ticketed(ticket', Pipeline')
    BY <2>3, <2>5, <2>8 DEF PipelineInv, Ticketed
  <2>10. Ordered(ticket', Pipeline')
    <3> SUFFICES ASSUME NEW i \in 1 .. Len(Pipeline'), NEW j \in 1 .. Len(Pipeline'), i < j
                 PROVE  ticket'[Pipeline'[i]] < ticket'[Pipeline'[j]]
      BY DEF Ordered
    <3>1. i \in 1 .. Len(Pipeline)
      BY <2>3
    <3>2. CASE j \in 1 .. Len(Pipeline)
      BY <2>8, <3>1, <3>2 DEF PipelineInv, Ordered
    <3>3. CASE j = Len(Pipeline) + 1
      BY <2>3, <2>5, <2>8, <3>1, <3>3
    <3> QED BY <2>3, <3>2, <3>3
  <2> QED BY <1>1, <2>6, <2>7, <2>9, <2>10 DEF PipelineInv
<1>3. ASSUME UNCHANGED <<ticket, enqueued>>,
             Ticketed(ticket, Pipeline'), Ordered(ticket, Pipeline')
      PROVE  PipelineInv'
  <2>1. \A c \in Commands : notifier'[c] = "idle" => notifier[c] = "idle"
    BY RegistryStep, <1>0, NotifierStarted
  <2> QED BY <1>1, <1>3, <2>1 DEF PipelineInv
<1>4. CASE UNCHANGED <<ticket, enqueued>> /\ Pipeline' = Pipeline
  BY <1>3, <1>4 DEF PipelineInv
<1>5. CASE UNCHANGED <<ticket, enqueued>> /\ (AnswerLost \/ QueueLost)
  BY <1>0, <1>3, <1>5, CutsKeepOrder DEF PipelineInv
<1> QED BY <1>2, <1>4, <1>5, PipelineMoves
-----------------------------------------------------------------------------
(* As long as no fault has happened. *)

\* The server knows at most one socket, the one the agent holds; nothing is
\* closed or broken, and no notification has failed.
Calm ==
  /\ closed = {} /\ broken = {}
  /\ orphans = 0
  /\ request # "dead"
  /\ listener # "lost"
  /\ \A k \in Conns : handler[k] # "none" =>
       /\ agentConn = k
       /\ listener \in {"handshake", "reading"}
       /\ handler[k] \in {"upgraded", "serving"}
  /\ wsConn # NoConn => handler[wsConn] = "serving"
  /\ \A c \in Commands :
       /\ notifier[c] \in {"idle", "lookup", "write", "sent", "skipped"}
       /\ notifier[c] = "write" => handler[target[c]] # "none"

CalmInv == faults = 0 => Calm
LEMMA FaultsGrow == TypeInv /\ [Next]_vars => (faults' = 0 => faults = 0)
  BY DEF TypeInv, LocalType, Next, vars, Fault, QueueCommand, Notify, NotifySent,
    NotifyFails, NotifyOther, HandlerStep, Dial, BreakSocket, HandshakeFails, Listener,
    SetConnected, ReadNotification, ReadFails, MarkDisconnected, MainLoop,
    PollOnNotification, PollOnTick, ServePending, ReceiveCommands, ServeOrphan, PollFails,
    PollDies, ServerCrash, ServerShutdown, AgentCrash

(* Without a fault, only these steps are possible. *)
CalmNext ==
  \/ \E c \in Commands : QueueCommand(c) \/ NotifySent(c) \/ (NotifyOther(c) /\ Lookup(c))
  \/ \E k \in Conns : Dial(k) \/ (HandlerStep(k) /\ Register(k))
  \/ SetConnected \/ ReadNotification
  \/ PollOnNotification \/ PollOnTick \/ ServePending \/ ReceiveCommands
  \/ UNCHANGED vars

LEMMA CalmSteps ==
  ASSUME TypeInv, CalmInv, [Next]_vars, faults' = 0
  PROVE  Calm /\ CalmNext
<1>1. Calm /\ faults = 0
  BY FaultsGrow DEF CalmInv
<1>2. LocalType /\ RegistryTypeOK /\ TargetKnown /\ AgentHolds
  BY DEF TypeInv, RegistryInv
<1>3. ASSUME NEW kind, Fault(kind) PROVE FALSE
  BY <1>1, <1>3 DEF Fault
<1>4. ASSUME NEW c \in Commands, Notify(c) PROVE CalmNext
  <2>1. CASE NotifyFails(c)
    <3>1. notifier[c] = "write"
      BY <2>1 DEF NotifyFails, WriteError, WritePanic
    <3>2. Healthy(target[c])
      BY <1>1 DEF Calm, Healthy
    <3>3. Fault("clash")
      BY <2>1, <3>2 DEF NotifyFails
    <3> QED BY <1>3, <3>3
  <2>2. CASE NotifyOther(c)
    BY <1>1, <2>2 DEF NotifyOther, NotifyUnregister, NotifyClose, Calm,
      CalmNext
  <2> QED BY <1>4, <2>1, <2>2 DEF Notify, CalmNext
<1>5. ASSUME NEW k \in Conns, HandlerStep(k) PROVE CalmNext
  <2>1. handler[k] # "leaving" /\ handler[k] # "closing"
    BY <1>1 DEF Calm
  <2>2. Healthy(k)
    BY <1>1 DEF Calm, Healthy
  <2> QED
    BY <1>5, <2>1, <2>2 DEF HandlerStep, Handler, Leave,
      LeaveUnregister, LeaveClose, CalmNext
<1>6. CASE Listener
  <2>1. ~ReadFails /\ ~MarkDisconnected
    BY <1>1 DEF ReadFails, MarkDisconnected, Calm, Healthy
  <2> QED BY <1>1, <1>6, <2>1 DEF Listener, CalmNext
<1>7. CASE MainLoop \/ ServePending
  <2>1. ~PollDies
    BY <1>1 DEF PollDies, Calm
  <2> QED BY <1>1, <1>7, <2>1 DEF MainLoop, CalmNext
<1>8. ~ServeOrphan
  BY <1>1 DEF ServeOrphan, Calm
<1>9. ~(\E k \in Conns : BreakSocket(k))
  BY <1>3 DEF BreakSocket
<1>10. ~(HandshakeFails \/ PollFails \/ ServerCrash \/ ServerShutdown \/ AgentCrash)
  BY <1>3 DEF HandshakeFails, PollFails, ServerCrash, ServerShutdown, AgentCrash
<1> QED
  BY <1>1, <1>4, <1>5, <1>6, <1>7, <1>8, <1>9, <1>10 DEF Next, CalmNext

LEMMA CalmStep == TypeInv /\ CalmInv /\ [Next]_vars => CalmInv'
<1> SUFFICES ASSUME TypeInv, CalmInv, [Next]_vars, faults' = 0 PROVE Calm'
  BY DEF CalmInv
<1>1. Calm /\ CalmNext
  BY CalmSteps
<1>2. LocalType /\ RegistryTypeOK /\ AgentHolds
  BY DEF TypeInv, RegistryInv
<1> USE DEF Calm, RegistryTypeOK
<1>3. ASSUME NEW c \in Commands, QueueCommand(c) \/ NotifySent(c) PROVE Calm'
  BY <1>1, <1>2, <1>3 DEF QueueCommand, NotifySent, NotifyStart, WriteOK,
    agentWs, poll
<1>4. ASSUME NEW c \in Commands, NotifyOther(c), Lookup(c) PROVE Calm'
  BY <1>1, <1>2, <1>4 DEF NotifyOther, Lookup, agentWs, poll
<1>5. ASSUME NEW k \in Conns, Dial(k) PROVE Calm'
  <2>1. \A j \in Conns : handler[j] = "none"
    BY <1>1, <1>5 DEF Dial
  <2>2. /\ handler' = [handler EXCEPT ![k] = "upgraded"]
        /\ agentConn' = k /\ listener' = "handshake"
        /\ UNCHANGED <<wsConn, notifier, target, closed, broken, orphans, request>>
    BY <1>5 DEF Dial, Upgrade, poll
  <2>3. wsConn = NoConn
    BY <1>1, <1>2, <2>1
  <2>4. \A j \in Conns : handler'[j] # "none" => j = k /\ handler'[j] = "upgraded"
    BY <1>2, <2>1, <2>2
  <2>5. \A c \in Commands : notifier[c] # "write"
    BY <1>1, <2>1 , <1>2 DEF TypeInv, RegistryInv, TargetKnown, Touching
  <2> QED BY <1>1, <2>2, <2>3, <2>4, <2>5
<1>6. ASSUME NEW k \in Conns, HandlerStep(k), Register(k) PROVE Calm'
  <2>1. wsConn = NoConn
    BY <1>1, <1>2, <1>6 DEF Register
  <2>2. closed' = {}
    BY <1>1, <1>6, <2>1 DEF Register, Registered
  <2>3. /\ handler' = [handler EXCEPT ![k] = "serving"] /\ handler[k] = "upgraded"
        /\ wsConn' = k
        /\ UNCHANGED <<notifier, target, broken, orphans, request, agentConn, listener>>
    BY <1>6 DEF Register, HandlerStep, agentWs, poll
  <2> QED BY <1>1, <1>2, <2>2, <2>3
<1>7. CASE SetConnected \/ ReadNotification
  BY <1>1, <1>7 DEF SetConnected, ReadNotification, registry, agentWs, poll
<1>8. CASE PollOnNotification \/ PollOnTick \/ ServePending \/ ReceiveCommands
  BY <1>1, <1>8 DEF PollOnNotification, PollOnTick, ServePending, ReceiveCommands, registry,
    agentWs
<1>9. CASE UNCHANGED vars
  BY <1>1, <1>9 DEF vars, registry, agentWs, poll
<1> QED
  BY <1>1, <1>3, <1>4, <1>5, <1>6, <1>7, <1>8, <1>9 DEF CalmNext

(* Without a fault, the pipeline is never cut. *)
LEMMA NothingLostStep ==
  TypeInv /\ PipelineInv /\ CalmInv /\ NothingLostWithoutFault /\ [Next]_vars
    => NothingLostWithoutFault'
<1> SUFFICES ASSUME TypeInv, PipelineInv, CalmInv, NothingLostWithoutFault,
                    [Next]_vars, faults' = 0,
                    NEW d \in Commands, ticket'[d] > 0
             PROVE  d \in ToSet(Pipeline')
  BY DEF NothingLostWithoutFault
<1>1. CalmNext /\ LocalType /\ faults = 0
  BY CalmSteps, FaultsGrow DEF TypeInv
<1>2. ASSUME NEW c \in Commands, QueueCommand(c) PROVE d \in ToSet(Pipeline')
  <2>1. Pipeline \in Seq(Commands) /\ Pipeline' = Append(Pipeline, c)
    BY <1>1, <1>2, PipelineType, QueuedAtEnd
  <2>2. d = c \/ ticket[d] > 0
    BY <1>1, <1>2 DEF QueueCommand, LocalType
  <2>3. d \in ToSet(Pipeline) \union {c}
    BY <1>1, <2>2 DEF NothingLostWithoutFault
  <2> QED BY <2>1, <2>3, AppendCommand
<1>3. ASSUME Pipeline' = Pipeline, ticket' = ticket PROVE d \in ToSet(Pipeline')
  BY <1>1, <1>3 DEF NothingLostWithoutFault
<1>4. CASE ServePending \/ ReceiveCommands
  <2>1. ticket' = ticket
    BY <1>4 DEF ServePending, ReceiveCommands, server
  <2> QED BY <1>1, <1>3, <1>4, <2>1, PipelineKept
<1>5. ASSUME UNCHANGED <<server, started, response>> PROVE d \in ToSet(Pipeline')
  BY <1>3, <1>5 DEF server, Pipeline
<1> QED
  BY <1>1, <1>2, <1>4, <1>5 DEF CalmNext, NotifySent, NotifyOther, Dial, HandlerStep,
    SetConnected, ReadNotification, PollOnNotification, PollOnTick, vars, poll

(* Without a fault, a written notification turns into a token, the token into
   a poll, and the poll empties the queue. *)
LEMMA WakeupStep ==
  TypeInv /\ CalmInv /\ NoLostWakeup /\ [Next]_vars => NoLostWakeup'
<1> SUFFICES ASSUME TypeInv, CalmInv, NoLostWakeup, [Next]_vars, faults' = 0,
                    NEW d \in ToSet(queue'), notifier'[d] = "sent"
             PROVE  WakeupPending'
  BY DEF NoLostWakeup
<1>1. /\ CalmNext /\ Calm /\ faults = 0
      /\ LocalType /\ RegistryTypeOK /\ TargetKnown
  BY CalmSteps, FaultsGrow DEF TypeInv, RegistryInv
<1>2. ASSUME d \in ToSet(queue), notifier[d] = "sent" PROVE WakeupPending
  BY <1>1, <1>2 DEF NoLostWakeup
<1>3. ASSUME NEW c \in Commands, QueueCommand(c) PROVE WakeupPending'
  <2>1. /\ notifier[c] = "idle" /\ notifier' = [notifier EXCEPT ![c] = "lookup"]
        /\ queue' = Append(queue, c)
        /\ UNCHANGED <<notified, request, inflight, agentConn, listener>>
    BY <1>3 DEF QueueCommand, NotifyStart, agentWs, poll
  <2>2. d # c /\ d \in ToSet(queue) \union {c}
    BY <1>1, <2>1, AppendCommand DEF LocalType, RegistryTypeOK
  <2>3. notifier[d] = "sent"
    BY <1>1, <2>1, <2>2 DEF RegistryTypeOK
  <2> QED BY <1>2, <2>1, <2>2, <2>3 DEF WakeupPending
<1>4. ASSUME NEW c \in Commands, NotifySent(c) PROVE WakeupPending'
  <2>1. target[c] \in Conns /\ handler[target[c]] # "none" /\ target[c] \notin broken
    BY <1>1, <1>4 DEF NotifySent, WriteOK, TargetKnown, Touching, Calm
  <2>2. agentConn = target[c] /\ listener \in {"handshake", "reading"}
    BY <1>1, <2>1 DEF Calm
  <2>3. inflight'[target[c]] > 0
    BY <1>1, <1>4, <2>1 DEF NotifySent, LocalType
  <2>4. UNCHANGED <<agentConn, listener>>
    BY <1>4 DEF NotifySent, agentWs
  <2> QED BY <2>1, <2>2, <2>3, <2>4 DEF WakeupPending
<1>5. ASSUME NEW c \in Commands, NotifyOther(c), Lookup(c) PROVE WakeupPending'
  <2>1. notifier[d] = "sent"
    BY <1>1, <1>5 DEF Lookup, RegistryTypeOK
  <2> QED BY <1>2, <1>5, <2>1 DEF NotifyOther, WakeupPending, server, agentWs, poll
<1>6. ASSUME NEW k \in Conns, Dial(k) PROVE WakeupPending'
  <2>1. listener = "dialing" /\ UNCHANGED <<queue, notifier, notified, request>>
    BY <1>6 DEF Dial, Upgrade, server, poll
  <2> QED BY <1>2, <2>1 DEF WakeupPending
<1>7. ASSUME NEW k \in Conns, HandlerStep(k), Register(k) PROVE WakeupPending'
  BY <1>2, <1>7 DEF HandlerStep, Register, WakeupPending, server, agentWs, poll
<1>8. CASE SetConnected \/ UNCHANGED vars
  BY <1>2, <1>8 DEF SetConnected, vars, WakeupPending, registry, server, poll, agentWs
<1>9. CASE ReadNotification \/ PollOnNotification \/ PollOnTick
  BY <1>9 DEF ReadNotification, PollOnNotification, PollOnTick, WakeupPending
<1>10. CASE ServePending
  BY <1>10, EmptySeq DEF ServePending, ToSet
<1>11. CASE ReceiveCommands
  BY <1>2, <1>11 DEF ReceiveCommands, WakeupPending, registry, server, agentWs
<1> QED
  BY <1>1, <1>3, <1>4, <1>5, <1>6, <1>7, <1>8, <1>9, <1>10, <1>11 DEF CalmNext
-----------------------------------------------------------------------------
IInv == TypeInv /\ PipelineInv /\ CalmInv /\ NothingLostWithoutFault /\ NoLostWakeup

LEMMA InitIInv == Init => IInv
<1> SUFFICES ASSUME Init PROVE IInv
  OBVIOUS
<1>1. TypeInv
  BY TypeInvInit
<1>2. Pipeline = <<>> /\ Len(Pipeline) = 0
  BY ConcatEmptySeq, EmptySeq DEF Init, Pipeline
<1>3. PipelineInv
  BY <1>2 DEF Init, PipelineInv, Ticketed, Ordered
<1>4. CalmInv
  <2>1. /\ \A k \in Conns : handler[k] = "none"
        /\ \A c \in Commands : notifier[c] = "idle"
    BY DEF Init, RegistryInit
  <2> QED BY <2>1 DEF Init, RegistryInit, CalmInv, Calm
<1>5. NothingLostWithoutFault
  BY DEF Init, NothingLostWithoutFault
<1>6. NoLostWakeup
  <2>1. ToSet(queue) = {}
    BY EmptySeq DEF Init, ToSet
  <2> QED BY <2>1 DEF NoLostWakeup
<1> QED BY <1>1, <1>3, <1>4, <1>5, <1>6 DEF IInv

LEMMA Inductive == Spec => []IInv
<1>1. IInv /\ [Next]_vars => IInv'
  BY TypeInvStep, PipelineStep, CalmStep, NothingLostStep, WakeupStep DEF IInv
<1> QED BY <1>1, InitIInv, PTL DEF Spec

(* Whatever fails, commands are started in the order they were queued, and
   none is started twice. *)
THEOREM AtMostOnceInOrder == Spec => []InOrderAtMostOnce
<1>1. IInv => InOrderAtMostOnce
  BY DEF IInv, PipelineInv, Ordered, InOrderAtMostOnce
<1> QED BY <1>1, Inductive, PTL

(* Without a fault, a queued command stays in the queue, an answer, or the
   agent's hands. *)
THEOREM NothingLost == Spec => []NothingLostWithoutFault
  BY Inductive, PTL DEF IInv

(* Without a fault, a notified command has a poll coming. *)
THEOREM WakeupKept == Spec => []NoLostWakeup
  BY Inductive, PTL DEF IInv
-----------------------------------------------------------------------------
(* Delivery implements the mailbox. *)

(* The front and the rest of a concatenation. *)
LEMMA SplitConcat ==
  ASSUME NEW a \in Seq(Commands), NEW d \in Seq(Commands)
  PROVE  /\ SubSeq(a \o d, 1, Len(a)) = a
         /\ SubSeq(a \o d, Len(a) + 1, Len(a \o d)) = d
         /\ Len(a) \in 0 .. Len(a \o d) /\ Len(a \o d) \in Nat
<1>1. /\ a \o d \in Seq(Commands) /\ Len(a) \in Nat /\ Len(d) \in Nat
      /\ Len(a \o d) = Len(a) + Len(d)
      /\ \A i \in 1 .. Len(a) + Len(d) :
           (a \o d)[i] = IF i <= Len(a) THEN a[i] ELSE d[i - Len(a)]
  BY ConcatProperties, LenProperties
<1>2. \A i \in 1 .. Len(a \o d) : (a \o d)[i] \in Commands
  BY <1>1, ElementOfSeq
<1>3. SubSeq(a \o d, 1, Len(a)) = a
  <2> DEFINE front == SubSeq(a \o d, 1, Len(a))
  <2>1. /\ front \in Seq(Commands) /\ Len(front) = Len(a)
        /\ \A i \in 1 .. Len(a) : front[i] = (a \o d)[i]
    BY <1>1, <1>2, SubSeqProperties
  <2>2. \A i \in 1 .. Len(a) : front[i] = a[i]
    BY <1>1, <2>1
  <2> QED BY <2>1, <2>2, SeqEqual
<1>4. SubSeq(a \o d, Len(a) + 1, Len(a \o d)) = d
  <2> DEFINE rest == SubSeq(a \o d, Len(a) + 1, Len(a \o d))
  <2>1. /\ rest \in Seq(Commands) /\ Len(rest) = Len(d)
        /\ \A i \in 1 .. Len(d) : rest[i] = (a \o d)[Len(a) + i]
    BY <1>1, <1>2, SubSeqProperties
  <2>2. \A i \in 1 .. Len(d) : rest[i] = d[i]
    BY <1>1, <2>1
  <2> QED BY <2>1, <2>2, SeqEqual
<1> QED BY <1>1, <1>3, <1>4

LEMMA MailboxStep == IInv /\ [Next]_vars => [Mailbox!Next]_(Mailbox!vars)
<1> SUFFICES ASSUME IInv, [Next]_vars PROVE [Mailbox!Next]_(Mailbox!vars)
  OBVIOUS
<1>0. LocalType /\ TypeInv /\ PipelineInv /\ RegistryTypeOK
  BY DEF IInv, TypeInv, RegistryInv
<1> USE DEF LocalType
<1>1. ASSUME NEW c \in Commands, QueueCommand(c) PROVE Mailbox!Accept(c)
  <2>1. ticket[c] = 0 /\ ticket' = [ticket EXCEPT ![c] = enqueued + 1]
    BY <1>0, <1>1 DEF QueueCommand, NotifyStart, PipelineInv
  <2>2. {d \in Commands : ticket'[d] > 0} = {d \in Commands : ticket[d] > 0} \union {c}
    BY <1>0, <2>1
  <2>3. response' \o queue' = Append(response \o queue, c)
    BY <1>0, <1>1, AppendConcat DEF QueueCommand, poll
  <2> QED BY <1>1, <2>1, <2>2, <2>3 DEF Mailbox!Accept, QueueCommand, poll
<1>2. CASE ReceiveCommands
  <2>1. /\ started' = started \o response /\ response' \o queue' = queue
        /\ ticket' = ticket
    BY <1>0, <1>2, ConcatEmptySeq DEF ReceiveCommands, server
  <2>2. CASE response = <<>>
    BY <1>0, <2>1, <2>2, ConcatEmptySeq DEF Mailbox!vars
  <2>3. CASE response # <<>>
    <3>1. Len(response) \in 1 .. Len(response \o queue)
      BY <1>0, <2>3, SplitConcat, EmptySeq
    <3>2. Mailbox!Deliver(Len(response))
      BY <1>0, <2>1, SplitConcat DEF Mailbox!Deliver
    <3> QED BY <3>1, <3>2 DEF Mailbox!Next
  <2> QED BY <2>2, <2>3
<1>3. CASE ServePending
  <2>1. response = <<>> /\ response' = queue /\ queue' = <<>>
        /\ UNCHANGED <<ticket, started>>
    BY <1>0, <1>3 DEF ServePending, PipelineInv
  <2> QED BY <1>0, <2>1, ConcatEmptySeq DEF Mailbox!vars
<1>4. CASE AnswerLost /\ ticket' = ticket
  <2>1. response' \o queue' = queue
    BY <1>0, <1>4, ConcatEmptySeq DEF AnswerLost
  <2>2. Mailbox!Lose(Len(response) + 1, Len(response \o queue))
    BY <1>0, <1>4, <2>1, SplitConcat DEF AnswerLost, Mailbox!Lose
  <2>3. /\ Len(response) + 1 \in 1 .. Len(response \o queue) + 1
        /\ Len(response \o queue) \in 0 .. Len(response \o queue)
    BY <1>0, SplitConcat
  <2> QED BY <2>2, <2>3 DEF Mailbox!Next
<1>5. CASE QueueLost /\ ticket' = ticket
  <2>1. response' \o queue' = response
    BY <1>0, <1>5, ConcatEmptySeq DEF QueueLost
  <2>2. Mailbox!Lose(1, Len(response))
    BY <1>0, <1>5, <2>1, SplitConcat DEF QueueLost, Mailbox!Lose
  <2>3. 1 \in 1 .. Len(response \o queue) + 1 /\ Len(response) \in 0 .. Len(response \o queue)
    BY <1>0, SplitConcat
  <2> QED BY <2>2, <2>3 DEF Mailbox!Next
<1>6. CASE UNCHANGED <<ticket, queue, response, started>>
  BY <1>6 DEF Mailbox!vars
<1> QED
  BY <1>0, <1>1, <1>2, <1>3, <1>4, <1>5, <1>6, BoxMoves DEF Mailbox!Next

(* Whatever fails, the queue, the answers and the agent together are an
   at-most-once FIFO mailbox. *)
THEOREM ImplementsMailbox == Spec => DeliversLikeMailbox
<1>1. Init => Mailbox!Init
  BY ConcatEmptySeq, EmptySeq DEF Init, Mailbox!Init
<1> QED BY <1>1, MailboxStep, Inductive, PTL DEF Spec, DeliversLikeMailbox, Mailbox!Spec
=============================================================================

------------------------- MODULE ReconnectingWebSocket -------------------------
(***************************************************************************)
(* The browser's side of the output socket: the React hook                 *)
(* useReconnectingWebSocket as TerminalOutput uses it (no retry limit,     *)
(* callbacks written inline).                                              *)
(*                                                                         *)
(* The hook keeps React state, refs, timers and sockets.  Sockets and      *)
(* timers call back later, and the callbacks cannot tell which generation  *)
(* they belong to: they read the refs as they are by then.  A change of    *)
(* state makes React render the component again; the callbacks are new     *)
(* functions then, so connect is one too, and the effect that depends on   *)
(* it is cleaned up and run anew.                                          *)
(*                                                                         *)
(* A render and its effects are one action, which other callbacks may      *)
(* precede.  The length of the backoff is left out: timers fire at any     *)
(* time.                                                                   *)
(***************************************************************************)
EXTENDS Integers

CONSTANTS
  Sockets,   \* sockets the page may open, each used once
  NoSocket

ASSUME SocketAssumption == NoSocket \notin Sockets

VARIABLES
  mounted,          \* the component is: no, yes, gone
  enabled,          \* the prop, as rendered last
  state,            \* React state
  retryCount,       \* React state
  rendered,         \* <<state, retryCount>> as rendered last
  wsRef,            \* wsRef.current
  shouldReconnect,  \* shouldReconnectRef.current
  unmounted,        \* unmountedRef.current
  timer,            \* the timer in reconnectTimeoutRef is pending
  strayTimers,      \* pending timers that are no longer in the ref
  socket            \* each socket: unused, connecting, open, closing, closed

refs   == <<wsRef, shouldReconnect, unmounted>>
timers == <<timer, strayTimers>>
hookVars   == <<mounted, enabled, state, retryCount, rendered, refs, timers, socket>>

HookInit ==
  /\ mounted         = "no"
  /\ enabled         = FALSE
  /\ state           = "closed"
  /\ retryCount      = 0
  /\ rendered        = <<"closed", 0>>
  /\ wsRef           = NoSocket
  /\ shouldReconnect = TRUE
  /\ unmounted       = FALSE
  /\ timer           = FALSE
  /\ strayTimers     = 0
  /\ socket          = [s \in Sockets |-> "unused"]

\* A socket the page still has a connection on, or is making one.
Live(s) == socket[s] \in {"connecting", "open"}

Unused == {s \in Sockets : socket[s] = "unused"}

\* What ws.close() does to the socket in the ref, if there is one.
RefClosed ==
  [s \in Sockets |-> IF s = wsRef /\ Live(s) THEN "closing" ELSE socket[s]]

\* A timer is armed; one that is pending already is forgotten.
RetryLater(pending, strays) ==
  /\ retryCount'  = retryCount + 1
  /\ timer'       = TRUE
  /\ strayTimers' = IF pending THEN strays + 1 ELSE strays

\* The rest of connect() once its guards are passed: the constructor makes a socket, or
\* throws and leaves the ref what it was.
OpenSocket(others, ref, pending, strays) ==
  \E s \in Unused :
    \/ /\ socket' = [others EXCEPT ![s] = "connecting"]
       /\ wsRef'  = s
       /\ state'  = "connecting"
       /\ retryCount' = retryCount /\ timer' = pending /\ strayTimers' = strays
    \/ /\ socket' = [others EXCEPT ![s] = "closed"]
       /\ wsRef'  = ref
       /\ state'  = "closed"
       /\ RetryLater(pending, strays)
-----------------------------------------------------------------------------
(* Rendering. *)

\* The effect's cleanup, then the effect: connect(), or close() if disabled.
\* The cleanup leaves no socket in the ref, so connect's guards pass.
RunEffect(on) ==
  /\ shouldReconnect' = on
  /\ unmounted'       = FALSE
  /\ enabled'         = on
  /\ rendered'        = <<state, retryCount>>
  /\ IF on
     THEN OpenSocket(RefClosed, NoSocket, FALSE, strayTimers)
     ELSE /\ wsRef' = NoSocket /\ socket' = RefClosed /\ state' = "closed"
          /\ timer' = FALSE
          /\ UNCHANGED <<retryCount, strayTimers>>

Mount(on) ==
  /\ mounted = "no"
  /\ mounted' = "yes"
  /\ RunEffect(on)

\* The page renders again, perhaps with another session status.
PageRenders(on) ==
  /\ mounted = "yes"
  /\ RunEffect(on)
  /\ UNCHANGED mounted

\* React renders what the callbacks have set.
StateRenders ==
  /\ mounted = "yes"
  /\ rendered # <<state, retryCount>>
  /\ RunEffect(enabled)
  /\ UNCHANGED mounted

\* (mutant) the cleanup does not touch the refs the callbacks look at
UnmountKeepingRefs ==
  /\ mounted = "yes"
  /\ mounted' = "gone"
  /\ timer'   = FALSE
  /\ socket'  = RefClosed
  /\ wsRef'   = NoSocket
  /\ UNCHANGED <<enabled, state, retryCount, rendered, shouldReconnect, unmounted, strayTimers>>

Unmount ==
  /\ mounted = "yes"
  /\ mounted'         = "gone"
  /\ unmounted'       = TRUE
  /\ shouldReconnect' = FALSE
  /\ timer'           = FALSE
  /\ socket'          = RefClosed
  /\ wsRef'           = NoSocket
  /\ UNCHANGED <<enabled, state, retryCount, rendered, strayTimers>>
-----------------------------------------------------------------------------
(* Callbacks. *)

\* onopen: resetBackoff sets retryCount to 0.
Opens(s) ==
  /\ socket[s] = "connecting"
  /\ IF unmounted
     THEN /\ socket' = [socket EXCEPT ![s] = "closing"]
          /\ UNCHANGED <<state, retryCount>>
     ELSE /\ socket' = [socket EXCEPT ![s] = "open"]
          /\ state' = "open"
          /\ retryCount' = 0
  /\ UNCHANGED <<mounted, enabled, rendered, refs, timers>>

\* (mutant) a lost connection is not retried
ClosesForGood(s) ==
  /\ socket[s] \in {"connecting", "open", "closing"}
  /\ socket' = [socket EXCEPT ![s] = "closed"]
  /\ IF unmounted
     THEN UNCHANGED <<wsRef, state>>
     ELSE wsRef' = NoSocket /\ state' = "closed"
  /\ UNCHANGED <<mounted, enabled, rendered, retryCount, timers, shouldReconnect, unmounted>>

\* onclose, of any socket: it clears the ref even if that holds a newer one,
\* and arms a timer, whose predecessor is forgotten.
Closes(s) ==
  /\ socket[s] \in {"connecting", "open", "closing"}
  /\ socket' = [socket EXCEPT ![s] = "closed"]
  /\ IF unmounted
     THEN UNCHANGED <<wsRef, state, retryCount, timer, strayTimers>>
     ELSE /\ wsRef' = NoSocket
          /\ state' = "closed"
          /\ IF shouldReconnect
             THEN RetryLater(timer, strayTimers)
             ELSE UNCHANGED <<retryCount, timer, strayTimers>>
  /\ UNCHANGED <<mounted, enabled, rendered, shouldReconnect, unmounted>>

\* The callback of a timer: connect() with all its guards.
Retry(pending, strays) ==
  IF ~unmounted /\ shouldReconnect /\ (wsRef = NoSocket \/ ~Live(wsRef))
  THEN OpenSocket(socket, wsRef, pending, strays)
  ELSE /\ timer' = pending /\ strayTimers' = strays
       /\ UNCHANGED <<socket, wsRef, state, retryCount>>

TimerFires ==
  /\ timer
  /\ Retry(FALSE, strayTimers)
  /\ UNCHANGED <<mounted, enabled, rendered, shouldReconnect, unmounted>>

StrayTimerFires ==
  /\ strayTimers > 0
  /\ Retry(timer, strayTimers - 1)
  /\ UNCHANGED <<mounted, enabled, rendered, shouldReconnect, unmounted>>

HookNext ==
  \/ \E on \in BOOLEAN : Mount(on) \/ PageRenders(on)
  \/ StateRenders
  \/ Unmount
  \/ \E s \in Sockets : Opens(s) \/ Closes(s)
  \/ TimerFires
  \/ StrayTimerFires

HookSpec == HookInit /\ [][HookNext]_hookVars

\* React renders what has changed, and timers expire.
HookFairSpec == HookSpec /\ WF_hookVars(StateRenders) /\ WF_hookVars(TimerFires)
-----------------------------------------------------------------------------
HookTypeOK ==
  /\ mounted         \in {"no", "yes", "gone"}
  /\ enabled         \in BOOLEAN
  /\ state           \in {"connecting", "open", "closed"}
  /\ retryCount      \in Nat
  /\ rendered        \in {"connecting", "open", "closed"} \X Nat
  /\ wsRef           \in Sockets \union {NoSocket}
  /\ shouldReconnect \in BOOLEAN
  /\ unmounted       \in BOOLEAN
  /\ timer           \in BOOLEAN
  /\ strayTimers     \in Nat
  /\ socket          \in [Sockets -> {"unused", "connecting", "open", "closing", "closed"}]

(* The socket in the ref is never one that has already closed, or the hook
   would close a dead socket on cleanup and miss the live one. *)
RefNotClosed == wsRef # NoSocket => socket[wsRef] # "closed"

(* Whatever timers and sockets of earlier renders still call back, a socket is
   asked for only while the component is mounted and the session is active. *)
OpensOnlyWhenWanted ==
  [][(\E s \in Sockets : socket[s] = "unused" /\ socket'[s] # "unused")
       => mounted' = "yes" /\ enabled']_hookVars

(* A viewer without a connection gets another attempt, as long as it stays and
   the session is active: no order of callbacks leaves neither a socket nor a
   timer nor a render that would make one.  (The model runs out of sockets.) *)
Retried ==
  (mounted = "yes" /\ enabled /\ ~\E s \in Sockets : Live(s))
    ~> (mounted = "gone" \/ ~enabled \/ Unused = {} \/ \E s \in Sockets : Live(s))
=============================================================================

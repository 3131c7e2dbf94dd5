-------------------------- MODULE BackendConnection --------------------------
(***************************************************************************)
(* The demand-driven backend websocket of Electron main (ipc.cjs).         *)
(*                                                                         *)
(* Main opens the socket only when some caller asks for it, keeps it while *)
(* an agent loop is active, closes it 30 minutes after the loop went       *)
(* quiet, and reconnects after an unexpected close.  JavaScript runs one   *)
(* callback at a time: each action below is one callback, up to its next   *)
(* await, with every call it makes.                                        *)
(*                                                                         *)
(* Sockets are objects of the ws library (external).  A replaced socket    *)
(* goes on emitting events; the handlers drop them (`ws !== socket`).  A   *)
(* socket whose close event was delivered is garbage and its name free.    *)
(***************************************************************************)
CONSTANTS
  Sockets,    \* names for the WebSocket objects alive at one time
  NoSocket,   \* the value null of `ws`
  Requests    \* concurrent callers of ensureBackendConnection

ASSUME SocketAssumption == NoSocket \notin Sockets

VARIABLES
  ws,                   \* the socket the bridge considers current, or NoSocket
  readyState,           \* what each socket is doing, as the ws library sees it
  opened,               \* sockets whose open handler has run (closure variable)
  isConnected,
  shouldMaintainBackendConnection,
  intentionalSocketCloseReason,   \* "none" or "idle-timeout"
  backendReconnectTimer,          \* is the reconnect timer armed?
  backendIdleDisconnectTimer,     \* is the idle timer armed?
  currentSession,       \* socket whose backend session ids main holds, or NoSocket
  installToken,         \* has an install token been obtained?
  phase,                \* response overlay phase
  call                  \* progress of each caller of ensureBackendConnection

connectionVars ==
  <<ws, readyState, opened, isConnected, shouldMaintainBackendConnection,
    intentionalSocketCloseReason, backendReconnectTimer,
    backendIdleDisconnectTimer, currentSession, installToken, phase, call>>

ActivePhases == {"awaiting-first-chunk", "streaming", "tool-call", "tool-output"}
Phases == ActivePhases \cup {"idle", "complete", "error"}

\* "closing": we called close(); "peer-closing": the server or the network did.
ReadyStates == {"unused", "connecting", "open", "closing", "peer-closing"}

\* "auth" awaits ensureInstallAuthState, "waiting" is a pending waiter.
CallStates == {"none", "auth", "waiting", "ready", "failed"}

TypeOK ==
  /\ ws \in Sockets \cup {NoSocket}
  /\ readyState \in [Sockets -> ReadyStates]
  /\ opened \subseteq Sockets
  /\ isConnected \in BOOLEAN
  /\ shouldMaintainBackendConnection \in BOOLEAN
  /\ intentionalSocketCloseReason \in {"none", "idle-timeout"}
  /\ backendReconnectTimer \in BOOLEAN
  /\ backendIdleDisconnectTimer \in BOOLEAN
  /\ currentSession \in Sockets \cup {NoSocket}
  /\ installToken \in BOOLEAN
  /\ phase \in Phases
  /\ call \in [Requests -> CallStates]

Init ==
  /\ ws = NoSocket
  /\ readyState = [s \in Sockets |-> "unused"]
  /\ opened = {}
  /\ isConnected = FALSE
  /\ shouldMaintainBackendConnection = FALSE
  /\ intentionalSocketCloseReason = "none"
  /\ backendReconnectTimer = FALSE
  /\ backendIdleDisconnectTimer = FALSE
  /\ currentSession = NoSocket
  /\ installToken = FALSE
  /\ phase = "idle"
  /\ call = [r \in Requests |-> "none"]

-----------------------------------------------------------------------------
\* Mutants of connect()'s guard: a dialling socket, or a closing one, misjudged.
Live_OpenOnly(s) == s # NoSocket /\ readyState[s] = "open"
Live_AnySocket(s) == s # NoSocket

Live(s) == s # NoSocket /\ readyState[s] \in {"connecting", "open"}

\* isConnected && ws && ws.readyState === OPEN, the test every sender makes.
Usable == isConnected /\ ws # NoSocket /\ readyState[ws] = "open"

Waiting == {r \in Requests : call[r] = "waiting"}

\* What syncBackendIdleDisconnectTimer leaves: the timer is always cleared,
\* then armed only if the socket is wanted, usable and no loop is active.
IdleTimerSynced_IgnoresLoop(maintain, usable, p) == maintain /\ usable \* mutant

IdleTimerSynced(maintain, usable, p) == maintain /\ usable /\ p \notin ActivePhases

\* Mutant: the phase is set without going through the bridge.
SetResponseOverlayPhase_NoSync(p) ==
  phase' = p /\ UNCHANGED backendIdleDisconnectTimer

\* setResponseOverlayPhase: the phase moves and the idle timer is re-evaluated.
SetResponseOverlayPhase(p) ==
  /\ phase' = p
  /\ backendIdleDisconnectTimer' =
       IdleTimerSynced(shouldMaintainBackendConnection, Usable, p)

\* connect(): a live socket is kept; otherwise a new one replaces `ws`, even
\* while the old one has not delivered its close event.
Connect ==
  IF Live(ws)
    THEN UNCHANGED <<ws, readyState, opened>>
    ELSE \E s \in Sockets :
           /\ readyState[s] = "unused"
           /\ ws' = s
           /\ readyState' = [readyState EXCEPT ![s] = "connecting"]
           /\ opened' = opened \ {s}

\* The part of ensureBackendConnection after the install token: callers in
\* `rs` are served at once or become waiters behind one connect().
ServeOrWait(rs) ==
  IF Usable
    THEN /\ call' = [r \in Requests |-> IF r \in rs THEN "ready" ELSE call[r]]
         /\ backendIdleDisconnectTimer' = IdleTimerSynced(TRUE, TRUE, phase)
         /\ UNCHANGED <<ws, readyState, opened>>
    ELSE /\ call' = [r \in Requests |-> IF r \in rs THEN "waiting" ELSE call[r]]
         /\ backendIdleDisconnectTimer' = FALSE
         /\ Connect

-----------------------------------------------------------------------------
\* ensureBackendConnection: demand is raised and both timers are dropped.
\* With a token the rest runs in the same turn of the event loop.
EnsureBackendConnection(r) ==
  /\ call[r] = "none"
  /\ shouldMaintainBackendConnection' = TRUE
  /\ backendReconnectTimer' = FALSE
  /\ IF installToken
       THEN ServeOrWait({r})
       ELSE /\ call' = [call EXCEPT ![r] = "auth"]
            /\ backendIdleDisconnectTimer' = FALSE
            /\ UNCHANGED <<ws, readyState, opened>>
  /\ UNCHANGED <<isConnected, intentionalSocketCloseReason, currentSession,
                 installToken, phase>>

\* The shared promise of ensureInstallAuthState settles for all its callers:
\* a token from disk or from registration, or an error thrown to each.
InstallAuthSettles ==
  /\ \E r \in Requests : call[r] = "auth"
  /\ LET callers == {r \in Requests : call[r] = "auth"} IN
     \/ /\ installToken' = TRUE
        /\ ServeOrWait(callers)
     \/ /\ ~installToken
        /\ call' = [r \in Requests |-> IF r \in callers THEN "failed" ELSE call[r]]
        /\ UNCHANGED <<installToken, ws, readyState, opened, backendIdleDisconnectTimer>>
  /\ UNCHANGED <<isConnected, shouldMaintainBackendConnection, currentSession,
                 intentionalSocketCloseReason, backendReconnectTimer, phase>>

\* initializeIpc reads the cached install state from disk, without awaiting it.
InstallStateLoads ==
  /\ ~installToken
  /\ installToken' = TRUE
  /\ UNCHANGED <<ws, readyState, opened, isConnected, intentionalSocketCloseReason,
                 shouldMaintainBackendConnection, backendReconnectTimer,
                 backendIdleDisconnectTimer, currentSession, phase, call>>

\* The caller takes the outcome, and may set the phase before its next await;
\* the name may call again.
CallReturns(r, p) ==
  /\ call[r] \in {"ready", "failed"}
  /\ call' = [call EXCEPT ![r] = "none"]
  /\ SetResponseOverlayPhase(p) \/ UNCHANGED <<phase, backendIdleDisconnectTimer>>
  /\ UNCHANGED <<ws, readyState, opened, isConnected, intentionalSocketCloseReason,
                 shouldMaintainBackendConnection, backendReconnectTimer,
                 currentSession, installToken>>

\* Mutants: the waiter leaves the set but is not rejected, or not settled in a
\* way its caller knows.
WaiterTimesOut_NotRejected(r) == call[r] = "waiting" /\ UNCHANGED connectionVars
\* BACKEND_CONNECT_TIMEOUT_MS passed: this waiter leaves the set and rejects.
WaiterTimesOut(r) ==
  /\ call[r] = "waiting"
  /\ call' = [call EXCEPT ![r] = "failed"]
  /\ UNCHANGED <<ws, readyState, opened, isConnected, intentionalSocketCloseReason,
                 shouldMaintainBackendConnection, backendReconnectTimer,
                 backendIdleDisconnectTimer, currentSession, installToken, phase>>

-----------------------------------------------------------------------------
\* The open handler.  A handshake that cannot be sent rejects the waiters but
\* leaves the socket connected.
OnOpen(s, handshakeSent) ==
  /\ opened' = opened \cup {s}
  /\ isConnected' = TRUE
  /\ phase' = "idle"
  /\ backendIdleDisconnectTimer' =
       IdleTimerSynced(shouldMaintainBackendConnection, TRUE, "idle")
  /\ backendReconnectTimer' = FALSE
  /\ call' = [r \in Requests |->
                IF r \notin Waiting THEN call[r]
                ELSE IF handshakeSent THEN "ready" ELSE "failed"]
  /\ UNCHANGED <<ws, shouldMaintainBackendConnection, currentSession,
                 intentionalSocketCloseReason, installToken>>

SocketOpens(s, handshakeSent) ==
  /\ readyState[s] = "connecting"
  /\ readyState' = [readyState EXCEPT ![s] = "open"]
  /\ IF ws = s
       THEN OnOpen(s, handshakeSent)
       ELSE UNCHANGED <<ws, opened, isConnected, shouldMaintainBackendConnection,
                        intentionalSocketCloseReason, backendReconnectTimer,
                        backendIdleDisconnectTimer, currentSession, installToken,
                        phase, call>>

\* The server's close frame arrives, or the network fails: CLOSING, and the
\* error handler has nothing to do on a socket that was open.
PeerCloses(s) ==
  /\ readyState[s] = "open"
  /\ readyState' = [readyState EXCEPT ![s] = "peer-closing"]
  /\ UNCHANGED <<ws, opened, isConnected, shouldMaintainBackendConnection,
                 intentionalSocketCloseReason, backendReconnectTimer,
                 backendIdleDisconnectTimer, currentSession, installToken,
                 phase, call>>

\* Was the close not ours, and is the link still wanted?
ShouldReconnect ==
  shouldMaintainBackendConnection /\ intentionalSocketCloseReason = "none"

\* The close handler.  The resolved endpoint list has one entry, so
\* advanceToNextBackendEndpoint never finds another.
OnClose(s) ==
  /\ isConnected' = FALSE
  /\ currentSession' = NoSocket
  /\ phase' = "idle"
  /\ intentionalSocketCloseReason' = "none"
  /\ backendIdleDisconnectTimer' = FALSE
  /\ ws' = NoSocket
  /\ backendReconnectTimer' = (ShouldReconnect \/ backendReconnectTimer)
  /\ call' = IF ~ShouldReconnect /\ s \notin opened
               THEN [r \in Requests |-> IF r \in Waiting THEN "failed" ELSE call[r]]
               ELSE call
  /\ UNCHANGED <<opened, shouldMaintainBackendConnection, installToken>>

\* A close event, for a handshake that failed with its error event first.
SocketCloses(s) ==
  /\ readyState[s] # "unused"
  /\ readyState' = [readyState EXCEPT ![s] = "unused"]
  /\ IF ws = s
       THEN OnClose(s)
       ELSE UNCHANGED <<ws, opened, isConnected, shouldMaintainBackendConnection,
                        intentionalSocketCloseReason, backendReconnectTimer,
                        backendIdleDisconnectTimer, currentSession, installToken,
                        phase, call>>

\* A backend frame may carry the session of the socket it came on and may move
\* the phase; in any case it counts as traffic and re-arms the idle timer.
\* Frames still arrive after our close() until the close event.
BackendMessage(s, p) ==
  /\ readyState[s] \in {"open", "closing"}
  /\ ws = s
  /\ currentSession' \in {currentSession, s}
  /\ SetResponseOverlayPhase(p)
  /\ UNCHANGED <<ws, readyState, opened, isConnected, intentionalSocketCloseReason,
                 shouldMaintainBackendConnection, backendReconnectTimer,
                 installToken, call>>

ReconnectTimerFires ==
  /\ backendReconnectTimer
  /\ backendReconnectTimer' = FALSE
  /\ IF shouldMaintainBackendConnection
       THEN Connect
       ELSE UNCHANGED <<ws, readyState, opened>>
  /\ UNCHANGED <<isConnected, shouldMaintainBackendConnection, currentSession,
                 intentionalSocketCloseReason, backendIdleDisconnectTimer,
                 installToken, phase, call>>

\* 30 minutes passed since the timer was last synced.  The model assumes that
\* no install request lasts that long (the timer is cleared when it starts).
IdleTimerFires ==
  /\ backendIdleDisconnectTimer
  /\ \A r \in Requests : call[r] # "auth"
  /\ intentionalSocketCloseReason' = "idle-timeout"
  /\ shouldMaintainBackendConnection' = FALSE
  /\ backendReconnectTimer' = FALSE
  /\ backendIdleDisconnectTimer' = FALSE
  /\ readyState' = IF Live(ws) THEN [readyState EXCEPT ![ws] = "closing"]
                               ELSE readyState
  /\ UNCHANGED <<ws, opened, isConnected, currentSession, installToken, phase, call>>

\* A caller outside this module (a query, a backend event, stop) sets the phase.
PhaseMoves(p) ==
  /\ SetResponseOverlayPhase(p)
  /\ UNCHANGED <<ws, readyState, opened, isConnected, intentionalSocketCloseReason,
                 shouldMaintainBackendConnection, backendReconnectTimer,
                 currentSession, installToken, call>>

-----------------------------------------------------------------------------
Next ==
  \/ \E r \in Requests : \/ EnsureBackendConnection(r) \/ WaiterTimesOut(r)
                         \/ \E p \in Phases : CallReturns(r, p)
  \/ InstallAuthSettles \/ InstallStateLoads
  \/ \E s \in Sockets : \/ \E sent \in BOOLEAN : SocketOpens(s, sent)
                        \/ PeerCloses(s) \/ SocketCloses(s)
                        \/ \E p \in Phases : BackendMessage(s, p)
  \/ ReconnectTimerFires \/ IdleTimerFires
  \/ \E p \in Phases : PhaseMoves(p)

Spec == Init /\ [][Next]_connectionVars

\* The timers of the event loop fire, sockets deliver their outcome, and the
\* backend is reachable: a socket that keeps being dialled some day opens.
\* Nothing makes the connect timeout of a waiter fire.
LinkFairness ==
  /\ WF_connectionVars(ReconnectTimerFires)
  /\ \A s \in Sockets : /\ WF_connectionVars(SocketCloses(s) /\ readyState[s] # "open")
                       /\ SF_connectionVars(SocketOpens(s, TRUE))

-----------------------------------------------------------------------------
(***************************************************************************)
(* Properties.                                                             *)
(***************************************************************************)

\* connect() replaces `ws` without looking at the events still to come from
\* the old socket: no socket but the current one may be dialling or open.
OneLiveSocket ==
  \A s \in Sockets : readyState[s] \in {"connecting", "open"} => ws = s

\* A caller suspended in waitForBackendConnection always has a dial under way
\* or a reconnect timer behind it, on demand that nobody withdrew: the timeout
\* of the waiter is never the only thing that can wake it.
WaitersAreServed ==
  Waiting # {} =>
    /\ shouldMaintainBackendConnection
    /\ \/ ws # NoSocket /\ readyState[ws] = "connecting"
       \/ ws = NoSocket /\ backendReconnectTimer

\* The idle timer runs exactly while an open socket is quiet.  Every phase
\* change and every demand must leave it so, or the socket leaks (never armed)
\* or is closed under a running loop (not cleared).
IdleTimerTracksQuiet ==
  /\ backendIdleDisconnectTimer => phase \notin ActivePhases
  /\ ws # NoSocket /\ readyState[ws] = "open" =>
       (backendIdleDisconnectTimer <=> phase \notin ActivePhases)

\* A pending reconnect means the link is down and still wanted: it can neither
\* outlive a socket that opened meanwhile nor follow an intentional close.
ReconnectOnlyWhenDown ==
  backendReconnectTimer => shouldMaintainBackendConnection /\ ~isConnected

\* The bridge withdraws demand, and so closes the socket for idleness, only
\* when nobody waits for it and no agent loop is active.
DemandIsWithdrawnOnlyWhenQuiet ==
  [][shouldMaintainBackendConnection /\ ~shouldMaintainBackendConnection'
       => Waiting = {} /\ phase \notin ActivePhases]_connectionVars

\* With a reachable backend every waiter of ensureBackendConnection settles, and
\* needs no timeout for it: the dial and reconnect loop does not stall.
WaitersSettle ==
  \A r \in Requests : call[r] = "waiting" ~> call[r] # "waiting"

\* "Unexpected disconnects only auto-reconnect while a live loop or that grace
\* window still owns the connection" (communication_flow.md): a socket the
\* bridge did not close itself, lost while demand stands, is dialled again.
UnexpectedCloseReconnects ==
  [][\A s \in Sockets :
       /\ ws = s /\ ws' = NoSocket
       /\ readyState[s] # "closing"
       /\ shouldMaintainBackendConnection
       => backendReconnectTimer']_connectionVars
=============================================================================

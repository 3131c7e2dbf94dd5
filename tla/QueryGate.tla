------------------------------ MODULE QueryGate ------------------------------
(***************************************************************************)
(* What Electron main does with a query on top of BackendConnection: the   *)
(* `to-backend` handler and sendAutomatedQuery prepare it, get a           *)
(* connection, gate it behind the settings sync of that connection and     *)
(* send it, while settings updates, stop requests, backend frames and the  *)
(* life of the socket interleave at every await.                           *)
(*                                                                         *)
(* A query reads isFirstQuery and the user id when its handler starts and  *)
(* uses them several awaits later; the socket may have changed meanwhile.  *)
(***************************************************************************)
EXTENDS BackendConnection

CONSTANTS
  Queries,       \* query messages of renderers
  Automated,     \* queries of the VM worker
  Wakewords,     \* wakeword-detected messages: gated, but no turn of their own
  Updates,       \* update-settings messages
  Others,        \* requests that only need a connection (load-settings, ...)
  BackendEvents, \* types of frames the backend streams for a turn
  NoTurn, NoSync

Gated == Queries \cup Automated \cup Wakewords
Syncs == Gated \cup Updates

ASSUME GateAssumption ==
  /\ Requests = Gated \cup Updates \cup Others
  /\ Queries \cap (Automated \cup Wakewords \cup Updates \cup Others) = {}
  /\ Automated \cap (Wakewords \cup Updates \cup Others) = {}
  /\ Wakewords \cap (Updates \cup Others) = {} /\ Updates \cap Others = {}
  /\ NoTurn \notin Queries /\ NoSync \notin Syncs

VARIABLES
  gate,               \* where the handler of each request is suspended
  usesInitialContext, \* isFirstQuery as each handler read it
  hasUser,            \* was the user id known when the handler read it?
  isFirstQuery,
  latestFrontendConfig,             \* is a valid config in memory?
  hasAttemptedInitialSettingsSync,
  pendingSettingsSyncPromise,       \* the update whose ack it stands for, or NoSync
  pendingSettingsSyncs,             \* updates whose ack is outstanding
  waitsFor,           \* the update a request awaits in the gate
  activeTurn,         \* activeTurnRef of the replay buffer
  running,            \* queries the backend is streaming on this connection
  sentContexts        \* history: contexts of the queries this connection carried

settingsVars == <<hasAttemptedInitialSettingsSync, pendingSettingsSyncPromise,
                  pendingSettingsSyncs>>
gateVars == <<gate, usesInitialContext, hasUser, isFirstQuery, latestFrontendConfig,
              settingsVars, waitsFor, activeTurn, running, sentContexts>>
vars == <<connectionVars, gateVars>>

\* The await a handler is suspended in; "lost" is an unhandled rejection.
Suspended == {"auth", "capture", "build", "connect", "load", "resync", "sync", "lastSync"}
Settled == {"sent", "failed", "lost"}

GateTypeOK ==
  /\ gate \in [Gated -> {"new"} \cup Suspended \cup Settled]
  /\ usesInitialContext \in [Gated -> BOOLEAN]
  /\ hasUser \in [Queries -> BOOLEAN]
  /\ isFirstQuery \in BOOLEAN
  /\ latestFrontendConfig \in BOOLEAN
  /\ hasAttemptedInitialSettingsSync \in BOOLEAN
  /\ pendingSettingsSyncPromise \in Syncs \cup {NoSync}
  /\ pendingSettingsSyncs \subseteq Syncs
  /\ waitsFor \in [Gated -> Syncs \cup {NoSync}]
  /\ activeTurn \in Queries \cup {NoTurn}
  /\ running \subseteq Queries \cup Automated
  /\ sentContexts \subseteq {"initial", "sequential"}

GateInit ==
  /\ Init
  /\ gate = [q \in Gated |-> "new"]
  /\ usesInitialContext = [q \in Gated |-> FALSE]
  /\ hasUser = [q \in Queries |-> FALSE]
  /\ isFirstQuery = TRUE
  /\ latestFrontendConfig = FALSE
  /\ hasAttemptedInitialSettingsSync = FALSE
  /\ pendingSettingsSyncPromise = NoSync
  /\ pendingSettingsSyncs = {}
  /\ waitsFor = [q \in Gated |-> NoSync]
  /\ activeTurn = NoTurn
  /\ running = {}
  /\ sentContexts = {}

-----------------------------------------------------------------------------
\* Everything of the connection but the phase and the idle timer it re-arms.
socketVars == <<ws, readyState, opened, isConnected, intentionalSocketCloseReason,
                shouldMaintainBackendConnection, backendReconnectTimer, currentSession>>
exceptPhase == <<socketVars, installToken, call>>

\* What only passing the gate disturbs.
passVars == <<usesInitialContext, isFirstQuery, activeTurn, running, sentContexts,
              phase, backendIdleDisconnectTimer>>

Goto(q, where) == gate' = [gate EXCEPT ![q] = where]

Await(q, id, where) ==
  /\ Goto(q, where)
  /\ waitsFor' = [waitsFor EXCEPT ![q] = id]

\* resetSettingsSyncState: outstanding acks resolve to false and are forgotten.
ResetSettingsSync ==
  /\ hasAttemptedInitialSettingsSync' = FALSE
  /\ pendingSettingsSyncPromise' = NoSync
  /\ pendingSettingsSyncs' = {}

\* sendSettingsUpdate on a usable socket.  The stored promise is never cleared
\* when it settles: .finally compares it with another promise object.
SendSettings(id) ==
  /\ pendingSettingsSyncs' = pendingSettingsSyncs \cup {id}
  /\ pendingSettingsSyncPromise' = id

\* Does the promise the gate looks at make the caller wait?
SyncPending == pendingSettingsSyncPromise \in pendingSettingsSyncs

\* A mutant: the failed query uses up the initial context.
SendFails_UsesUpContext(q) ==
  /\ Goto(q, "failed")
  /\ isFirstQuery' = (isFirstQuery /\ ~usesInitialContext[q])
  /\ UNCHANGED <<activeTurn, phase, backendIdleDisconnectTimer, running, sentContexts>>

\* handleRendererQuerySendFailure: the failure is broadcast; the phase and the
\* replay buffer are reset, whoever they belong to.  Other requests only fail.
SendFails(q) ==
  /\ Goto(q, "failed")
  /\ IF q \in Queries
       THEN activeTurn' = NoTurn /\ SetResponseOverlayPhase("idle")
       ELSE UNCHANGED <<activeTurn, phase, backendIdleDisconnectTimer>>
  /\ UNCHANGED <<running, isFirstQuery, sentContexts>>

\* sendMessageToBackend and what follows it.
Send(q) ==
  \/ /\ Usable
     /\ Goto(q, "sent")
     /\ IF q \in Wakewords
          THEN UNCHANGED <<running, isFirstQuery, sentContexts>>
          ELSE /\ running' = running \cup {q}
               /\ isFirstQuery' = (isFirstQuery /\ ~usesInitialContext[q])
               /\ sentContexts' = sentContexts \cup
                    {IF usesInitialContext[q] THEN "initial" ELSE "sequential"}
     /\ UNCHANGED <<activeTurn, phase, backendIdleDisconnectTimer>>
  \/ SendFails(q)

\* Behind the gate a request is sent; an automated query is built only now.
PassGate(q) ==
  IF q \in Automated
    THEN /\ Goto(q, "build")
         /\ usesInitialContext' = [usesInitialContext EXCEPT ![q] = isFirstQuery]
         /\ UNCHANGED <<isFirstQuery, activeTurn, running, sentContexts, phase,
                        backendIdleDisconnectTimer>>
    ELSE Send(q) /\ UNCHANGED usesInitialContext

\* The last check of the gate: an update still in flight is awaited once.
DrainSettings(q) ==
  IF SyncPending
    THEN Await(q, pendingSettingsSyncPromise, "lastSync") /\ UNCHANGED passVars
    ELSE PassGate(q) /\ UNCHANGED waitsFor

\* ensureInitialSettingsSync on a usable socket, up to its first await or
\* through to the send.  A stored promise, settled or not, counts as a sync.
EnterSettingsGate(q) ==
  /\ hasAttemptedInitialSettingsSync' = TRUE
  /\ IF hasAttemptedInitialSettingsSync \/ pendingSettingsSyncPromise # NoSync
       THEN /\ UNCHANGED <<pendingSettingsSyncPromise, pendingSettingsSyncs>>
            /\ IF SyncPending
                 THEN Await(q, pendingSettingsSyncPromise, "sync") /\ UNCHANGED passVars
                 ELSE PassGate(q) /\ UNCHANGED waitsFor
       ELSE /\ UNCHANGED passVars
            /\ IF latestFrontendConfig
                 THEN SendSettings(q) /\ Await(q, q, "sync")
                 ELSE /\ Goto(q, "load")
                      /\ UNCHANGED <<pendingSettingsSyncPromise, pendingSettingsSyncs,
                                     waitsFor>>

\* Use the usable socket or get one.
ConnectOrGate(q) ==
  \/ Usable /\ EnterSettingsGate(q) /\ UNCHANGED exceptPhase
  \/ /\ ~Usable
     /\ EnsureBackendConnection(q)
     /\ Goto(q, "connect")
     /\ UNCHANGED <<usesInitialContext, isFirstQuery, settingsVars, waitsFor, activeTurn,
                    running, sentContexts>>

-----------------------------------------------------------------------------
\* Promise continuations run before the next callback of the event loop.
MicrotaskPending ==
  \/ \E r \in Requests : call[r] \in {"ready", "failed"}
  \/ \E q \in Gated : gate[q] \in {"sync", "lastSync"} /\ waitsFor[q] \notin pendingSettingsSyncs

\* prepareRendererQuerySend is called: what it will use later is read here.
ReadAtStart(q, user) ==
  /\ Goto(q, "capture")
  /\ usesInitialContext' = [usesInitialContext EXCEPT ![q] = isFirstQuery]
  /\ hasUser' = [hasUser EXCEPT ![q] = user]

QueryArrives(q) ==
  /\ gate[q] = "new"
  /\ IF installToken THEN ReadAtStart(q, TRUE)
                     ELSE Goto(q, "auth") /\ UNCHANGED <<usesInitialContext, hasUser>>
  /\ UNCHANGED <<connectionVars, isFirstQuery, latestFrontendConfig, settingsVars,
                 waitsFor, activeTurn, running, sentContexts>>

\* The install token comes or does not; the handler goes on either way.
QueryAuthSettles(q) ==
  /\ gate[q] = "auth"
  /\ installToken' \in {installToken, TRUE}
  /\ ReadAtStart(q, installToken')
  /\ UNCHANGED <<socketVars, call, phase, backendIdleDisconnectTimer, isFirstQuery,
                 latestFrontendConfig, settingsVars, waitsFor, activeTurn, running,
                 sentContexts>>

\* The pre-capture hook is done: the phase moves, the local echo seeds the
\* replay buffer, and buildQueryPayload throws if the user was unknown.
QueryPrimes(q) ==
  /\ gate[q] = "capture"
  /\ SetResponseOverlayPhase("awaiting-first-chunk")
  /\ activeTurn' = q
  /\ Goto(q, IF hasUser[q] THEN "build" ELSE "lost")
  /\ UNCHANGED <<exceptPhase, usesInitialContext, hasUser, isFirstQuery,
                 latestFrontendConfig, settingsVars, waitsFor, running, sentContexts>>

\* System state and memories are in.
QueryBuilt(q) ==
  /\ gate[q] = "build"
  /\ ConnectOrGate(q)
  /\ UNCHANGED <<hasUser, latestFrontendConfig>>

WakewordArrives(w) ==
  /\ gate[w] = "new"
  /\ ConnectOrGate(w)
  /\ UNCHANGED <<hasUser, latestFrontendConfig>>

\* sendAutomatedQuery asks for the connection first, usable or not.
AutomatedArrives(a) ==
  /\ gate[a] = "new"
  /\ EnsureBackendConnection(a)
  /\ Goto(a, "connect")
  /\ UNCHANGED <<usesInitialContext, hasUser, isFirstQuery, latestFrontendConfig,
                 settingsVars, waitsFor, activeTurn, running, sentContexts>>

AutomatedBuilt(a) ==
  /\ gate[a] = "build"
  /\ Send(a)
  /\ UNCHANGED <<exceptPhase, usesInitialContext, hasUser, latestFrontendConfig,
                 settingsVars, waitsFor>>

CallTaken(q) == call' = [call EXCEPT ![q] = "none"]

RequestConnected(q) ==
  /\ gate[q] = "connect"
  /\ \/ call[q] = "ready" /\ EnterSettingsGate(q)
     \/ /\ call[q] = "failed"
        /\ SendFails(q)
        /\ UNCHANGED <<usesInitialContext, settingsVars, waitsFor>>
  /\ CallTaken(q)
  /\ UNCHANGED <<socketVars, installToken, hasUser, latestFrontendConfig>>

\* The config file was read.  Its content replaces whatever is in memory.
ConfigLoads(q) ==
  /\ gate[q] = "load"
  /\ \E valid \in BOOLEAN :
       /\ latestFrontendConfig' = valid
       /\ \/ /\ valid /\ Usable
             /\ SendSettings(q) /\ Await(q, q, "sync")
             /\ UNCHANGED <<exceptPhase, passVars>>
          \/ /\ valid /\ ~Usable
             /\ EnsureBackendConnection(q)
             /\ Goto(q, "resync")
             /\ UNCHANGED <<usesInitialContext, pendingSettingsSyncPromise, running,
                            pendingSettingsSyncs, waitsFor, isFirstQuery, activeTurn,
                            sentContexts>>
          \/ /\ ~valid
             /\ DrainSettings(q)
             /\ UNCHANGED <<exceptPhase, pendingSettingsSyncPromise, pendingSettingsSyncs>>
  /\ UNCHANGED <<hasUser, hasAttemptedInitialSettingsSync>>

\* sendSettingsUpdate had to reconnect before it could send the loaded config.
RequestReconnected(q) ==
  /\ gate[q] = "resync"
  /\ \/ /\ call[q] = "ready"
        /\ SendSettings(q) /\ Await(q, q, "sync")
        /\ UNCHANGED passVars
     \/ /\ call[q] = "failed"
        /\ DrainSettings(q)
        /\ UNCHANGED <<pendingSettingsSyncPromise, pendingSettingsSyncs>>
  /\ CallTaken(q)
  /\ UNCHANGED <<socketVars, installToken, hasUser, latestFrontendConfig,
                 hasAttemptedInitialSettingsSync>>

\* The awaited ack settled, by an answer, its timeout or a reset.
SettingsSynced(q) ==
  /\ gate[q] \in {"sync", "lastSync"}
  /\ waitsFor[q] \notin pendingSettingsSyncs
  /\ IF gate[q] = "sync" THEN DrainSettings(q)
                         ELSE PassGate(q) /\ UNCHANGED waitsFor
  /\ UNCHANGED <<exceptPhase, hasUser, latestFrontendConfig, settingsVars>>

\* A message id is unused again once nothing refers to it (not in the code: it
\* keeps the set of requests finite).
Forgotten(q) ==
  /\ gate[q] \in Settled
  /\ q \notin running \cup pendingSettingsSyncs
  /\ activeTurn # q /\ pendingSettingsSyncPromise # q
  /\ \A p \in Gated : waitsFor[p] = q => p = q
  /\ Goto(q, "new")
  /\ waitsFor' = [waitsFor EXCEPT ![q] = NoSync]
  /\ UNCHANGED <<connectionVars, usesInitialContext, hasUser, isFirstQuery,
                 latestFrontendConfig, settingsVars, activeTurn, running, sentContexts>>

-----------------------------------------------------------------------------
\* update-settings from a renderer; nobody awaits its promise.
SettingsUpdate(u) ==
  /\ call[u] = "none" /\ u \notin pendingSettingsSyncs
  /\ latestFrontendConfig' = TRUE
  /\ \/ Usable /\ SendSettings(u) /\ UNCHANGED connectionVars
     \/ /\ ~Usable
        /\ EnsureBackendConnection(u)
        /\ UNCHANGED <<pendingSettingsSyncPromise, pendingSettingsSyncs>>
  /\ UNCHANGED <<gate, usesInitialContext, hasUser, isFirstQuery, waitsFor, activeTurn,
                 hasAttemptedInitialSettingsSync, running, sentContexts>>

UpdateConnected(u) ==
  /\ \/ call[u] = "ready" /\ SendSettings(u)
     \/ call[u] = "failed" /\ UNCHANGED <<pendingSettingsSyncPromise, pendingSettingsSyncs>>
  /\ CallTaken(u)
  /\ UNCHANGED <<socketVars, installToken, phase, backendIdleDisconnectTimer, gate,
                 usesInitialContext, hasUser, isFirstQuery, latestFrontendConfig,
                 waitsFor, activeTurn, hasAttemptedInitialSettingsSync, running,
                 sentContexts>>

\* Mutant: the end of a turn moves no phase.
PhaseAfter_IgnoresComplete(e) == IF e = "streaming-response" THEN "streaming" ELSE phase

\* The phase follows the type of a frame, never its turn.
PhaseAfter(e) ==
  CASE e = "streaming-response" -> "streaming"
    [] e = "tool-call"          -> "tool-call"
    [] e = "tool-output"        -> "tool-output"
    [] e = "streaming-complete" -> "complete"
    [] e = "token-count"        -> IF phase \in ActivePhases THEN "complete" ELSE phase
    [] e = "error"              -> IF phase # "idle" THEN "error" ELSE phase
    [] OTHER                    -> phase

Frame(e) == \E s \in Sockets : BackendMessage(s, PhaseAfter(e))

\* settings-updated or an error with its id arrives, or SETTINGS_SYNC_TIMEOUT_MS
\* passes.
SettingsSettle(id) ==
  /\ id \in pendingSettingsSyncs
  /\ pendingSettingsSyncs' = pendingSettingsSyncs \ {id}
  /\ \/ UNCHANGED connectionVars
     \/ Frame("settings-updated") \/ Frame("error")
  /\ UNCHANGED <<gate, usesInitialContext, hasUser, isFirstQuery, latestFrontendConfig,
                 hasAttemptedInitialSettingsSync, pendingSettingsSyncPromise, waitsFor,
                 activeTurn, running, sentContexts>>

\* A frame of a running turn.
BackendEvent(q, e) ==
  /\ q \in running
  /\ Frame(e)
  /\ running' = IF e \in {"streaming-complete", "error"} THEN running \ {q} ELSE running
  /\ UNCHANGED <<gate, usesInitialContext, hasUser, isFirstQuery, latestFrontendConfig,
                 settingsVars, waitsFor, activeTurn, sentContexts>>

\* stop-query, from a renderer or from the global shortcut.
StopQuery ==
  /\ SetResponseOverlayPhase("complete")
  /\ UNCHANGED <<exceptPhase, gateVars>>

\* Mutant: the phase state is set behind the back of the bridge.
PrimeOverlay_Direct ==
  /\ phase \notin {"streaming", "tool-call", "tool-output"}
  /\ phase' = "awaiting-first-chunk"
  /\ UNCHANGED <<backendIdleDisconnectTimer, exceptPhase, gateVars>>

\* prime-response-overlay-awaiting
PrimeOverlay ==
  /\ phase \notin {"streaming", "tool-call", "tool-output"}
  /\ SetResponseOverlayPhase("awaiting-first-chunk")
  /\ UNCHANGED <<exceptPhase, gateVars>>

-----------------------------------------------------------------------------
\* The socket handlers with what they do to the gate.
GateSocketOpens(s, handshakeSent) ==
  /\ SocketOpens(s, handshakeSent)
  /\ IF ws = s
       THEN /\ ResetSettingsSync
            /\ isFirstQuery' = TRUE
            /\ activeTurn' = NoTurn
            /\ running' = {}
            /\ sentContexts' = {}
       ELSE UNCHANGED <<settingsVars, isFirstQuery, activeTurn, running, sentContexts>>
  /\ UNCHANGED <<gate, usesInitialContext, hasUser, latestFrontendConfig, waitsFor>>

GateSocketCloses(s) ==
  /\ SocketCloses(s)
  /\ IF ws = s
       THEN /\ ResetSettingsSync
            /\ activeTurn' = NoTurn
            /\ running' = {}
       ELSE UNCHANGED <<settingsVars, activeTurn, running>>
  /\ UNCHANGED <<gate, usesInitialContext, hasUser, isFirstQuery, latestFrontendConfig,
                 waitsFor, sentContexts>>

\* The rest of the connection does not touch the gate.
ConnectionStep(callers) ==
  /\ \/ InstallAuthSettles \/ InstallStateLoads
     \/ ReconnectTimerFires \/ IdleTimerFires
     \/ \E r \in Requests : WaiterTimesOut(r)
     \/ \E s \in Sockets : PeerCloses(s)
     \/ \E o \in Others \cap callers : ~Usable /\ EnsureBackendConnection(o)
  /\ UNCHANGED gateVars

OtherReturns(o) ==
  /\ CallReturns(o, phase)
  /\ UNCHANGED gateVars

Microtask ==
  \/ \E q \in Gated : RequestConnected(q) \/ RequestReconnected(q) \/ SettingsSynced(q)
  \/ \E u \in Updates : UpdateConnected(u)
  \/ \E o \in Others : OtherReturns(o)

HandlerStep(q) ==
  \/ q \in Queries /\ (QueryAuthSettles(q) \/ QueryPrimes(q) \/ QueryBuilt(q))
  \/ q \in Automated /\ AutomatedBuilt(q)
  \/ ConfigLoads(q)

\* One callback, of those that `callers` make and `events` cause or that come by
\* themselves.
Callback(callers, events) ==
  /\ ~MicrotaskPending
  /\ \/ \E q \in Queries \cap callers : QueryArrives(q)
     \/ \E a \in Automated \cap callers : AutomatedArrives(a)
     \/ \E w \in Wakewords \cap callers : WakewordArrives(w)
     \/ \E q \in Gated : HandlerStep(q) \/ Forgotten(q)
     \/ \E q \in Queries \cup Automated, e \in events : BackendEvent(q, e)
     \/ \E u \in Updates \cap callers : SettingsUpdate(u)
     \/ \E id \in Syncs : SettingsSettle(id)
     \/ StopQuery \/ PrimeOverlay
     \/ \E s \in Sockets : \/ \E sent \in BOOLEAN : GateSocketOpens(s, sent)
                           \/ GateSocketCloses(s)
     \/ ConnectionStep(callers)

GateNext == Microtask \/ Callback(Requests, BackendEvents)

GateSpec == GateInit /\ [][GateNext]_vars

\* Promises run to completion, and every await ends: local reads and the calls
\* of the sidecar are bounded, acks and waiters have timeouts, and the install
\* request is assumed to end; a closing socket delivers its close event.  The
\* event loop serves every callback in the end, though microtasks delay it.
GateFairSpec ==
  /\ GateSpec
  /\ WF_vars(Microtask)
  /\ \A q \in Gated :
       /\ SF_vars(~MicrotaskPending /\ HandlerStep(q))
       /\ SF_vars(~MicrotaskPending /\ WaiterTimesOut(q) /\ UNCHANGED gateVars)
  /\ \A id \in Syncs : SF_vars(~MicrotaskPending /\ SettingsSettle(id))
  /\ SF_vars(~MicrotaskPending /\ InstallAuthSettles /\ UNCHANGED gateVars)
  /\ \A s \in Sockets :
       SF_vars(~MicrotaskPending /\ readyState[s] \in {"closing", "peer-closing"}
               /\ GateSocketCloses(s))

-----------------------------------------------------------------------------
(***************************************************************************)
(* Properties.                                                             *)
(***************************************************************************)

\* Whatever the handlers do with the connection is something the connection
\* allows: everything shown of BackendConnection holds under the gate.
ImplementsConnection == Spec

\* Once main stops marking queries as initial, the connection in use really
\* carried the initial context: a query that fails after reading the flag, or
\* was marked on an earlier connection, does not use it up
\* ("keeps initial query context after transient query send failure").
InitialContextWasSent == ~isFirstQuery => "initial" \in sentContexts

\* The buffer offers late windows a turn that is on its way, or one that the
\* connection in use carried: never one whose send failed, nor one of an earlier
\* connection.  The exception is a query of an unknown user ("lost"): it throws
\* after it was primed, without the handling of a failed send, and its turn and
\* its phase stay until something else resets them.
BufferedTurnIsCurrent ==
  activeTurn # NoTurn =>
    \/ gate[activeTurn] \in (Suspended \ {"auth", "capture"}) \cup {"lost"}
    \/ gate[activeTurn] = "sent" /\ sentContexts # {}

\* What main keeps of its queries, the pending initial context and the turn it
\* replays, follows what was really sent, whichever await a query fails at and
\* whatever becomes of the connection meanwhile.
ContextAndReplayFollowTheSends == InitialContextWasSent /\ BufferedTurnIsCurrent

\* The overlay never shows a stream when no turn is streaming: a frame moved
\* the phase there, and the end of its turn, a failure or the loss of the link
\* must have moved it on, in whatever order they came.
StreamingPhaseHasATurn ==
  phase \in {"streaming", "tool-call", "tool-output"} => running # {}

\* No handler stays suspended: each await of the gate ends by itself or by its
\* timeout, and none waits for an ack or a connection that cannot come any more.
RequestsSettle == \A q \in Gated : gate[q] \in Suspended ~> gate[q] \in Settled

\* "context type (`initial` for first query in connection, `sequential`
\* afterward)" (query_payload_and_relay_reference.md).
FirstQueryInConnectionIsInitial ==
  [][sentContexts = {} /\ sentContexts' # {} => sentContexts' = {"initial"}]_vars
=============================================================================

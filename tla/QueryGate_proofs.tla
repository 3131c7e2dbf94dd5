--------------------------- MODULE QueryGate_proofs ---------------------------
(***************************************************************************)
(* The query gate implements the connection it runs on: each of its steps  *)
(* is a step of BackendConnection or leaves the connection alone, so what  *)
(* is proved of the connection holds under every use the gate makes of it. *)
(* Then what the gate leaves behind when a query fails, when the overlay   *)
(* streams, and that the worker of a VM, whose queries pass the same gate, *)
(* serves its runs.                                                        *)
(***************************************************************************)
EXTENDS QueryGate, VmWorker, BackendConnection_proofs

\* What a gate handler does to the phase up to its next await: nothing, or the
\* reset of a failed send.
PhaseKeptOrReset ==
  UNCHANGED <<phase, backendIdleDisconnectTimer>> \/ SetResponseOverlayPhase("idle")

LEMMA SendPhase ==
  ASSUME NEW q, Send(q) PROVE PhaseKeptOrReset
BY DEF Send, SendFails, PhaseKeptOrReset

LEMMA PassPhase ==
  ASSUME NEW q, PassGate(q) \/ DrainSettings(q) PROVE PhaseKeptOrReset
<1>1. PassGate(q) => PhaseKeptOrReset
    BY SendPhase DEF PassGate, PhaseKeptOrReset
<1> QED
    BY <1>1 DEF DrainSettings, passVars, PhaseKeptOrReset

LEMMA EnterPhase ==
  ASSUME NEW q, EnterSettingsGate(q) PROVE PhaseKeptOrReset
BY PassPhase DEF EnterSettingsGate, passVars, PhaseKeptOrReset

\* A handler that leaves the sockets, the token and the calls alone.
LEMMA PhaseOnly ==
  ASSUME UNCHANGED exceptPhase, PhaseKeptOrReset
  PROVE  [Next]_connectionVars
<1>1. CASE UNCHANGED <<phase, backendIdleDisconnectTimer>>
    BY <1>1 DEF exceptPhase, socketVars, connectionVars
<1>2. CASE SetResponseOverlayPhase("idle")
  <2>1. PhaseMoves("idle")
      BY <1>2 DEF PhaseMoves, exceptPhase, socketVars
  <2>2. "idle" \in Phases
      BY DEF Phases
  <2> QED BY <2>1, <2>2 DEF Next
<1> QED BY <1>1, <1>2 DEF PhaseKeptOrReset

\* A handler that takes the outcome of its call to ensureBackendConnection.
LEMMA OutcomeTaken ==
  ASSUME NEW q \in Requests, call[q] \in {"ready", "failed"}, CallTaken(q),
         UNCHANGED <<socketVars, installToken>>, PhaseKeptOrReset
  PROVE  [Next]_connectionVars
<1>1. CallReturns(q, "idle")
    BY DEF CallReturns, CallTaken, socketVars, PhaseKeptOrReset
<1>2. "idle" \in Phases
    BY DEF Phases
<1> QED BY <1>1, <1>2 DEF Next

LEMMA FrameStep ==
  ASSUME TypeOK, NEW e, Frame(e) PROVE [Next]_connectionVars
<1>1. PhaseAfter(e) \in Phases
    BY DEF PhaseAfter, TypeOK, Phases, ActivePhases
<1> QED BY <1>1 DEF Frame, Next

LEMMA MicrotaskStep ==
  ASSUME TypeOK, Microtask PROVE [Next]_connectionVars
<1> USE GateAssumption DEF Gated
<1>1. ASSUME NEW q \in Gated, RequestConnected(q) PROVE [Next]_connectionVars
  <2>1. PhaseKeptOrReset
      BY <1>1, EnterPhase DEF RequestConnected, SendFails, PhaseKeptOrReset
  <2> QED
      BY <1>1, <2>1, OutcomeTaken DEF RequestConnected
<1>2. ASSUME NEW q \in Gated, RequestReconnected(q) PROVE [Next]_connectionVars
  <2>1. PhaseKeptOrReset
      BY <1>2, PassPhase DEF RequestReconnected, passVars, PhaseKeptOrReset
  <2> QED
      BY <1>2, <2>1, OutcomeTaken DEF RequestReconnected
<1>3. ASSUME NEW q \in Gated, SettingsSynced(q) PROVE [Next]_connectionVars
    BY <1>3, PassPhase, PhaseOnly DEF SettingsSynced
<1>4. ASSUME NEW u \in Updates, UpdateConnected(u) PROVE [Next]_connectionVars
    BY <1>4, OutcomeTaken DEF UpdateConnected, PhaseKeptOrReset
<1>5. ASSUME NEW o \in Others, OtherReturns(o) PROVE [Next]_connectionVars
    BY <1>5 DEF OtherReturns, TypeOK, Next
<1> QED BY <1>1, <1>2, <1>3, <1>4, <1>5 DEF Microtask

\* The callbacks of the handlers of queries and wakewords.
LEMMA HandlerCallback ==
  ASSUME TypeOK, NEW q \in Gated,
         \/ QueryArrives(q) \/ AutomatedArrives(q) \/ WakewordArrives(q)
         \/ HandlerStep(q) \/ Forgotten(q)
  PROVE  [Next]_connectionVars
<1> USE GateAssumption DEF Gated
<1>1. CASE QueryArrives(q) \/ Forgotten(q)
    BY <1>1 DEF QueryArrives, Forgotten
<1>2. CASE AutomatedArrives(q)
    BY <1>2 DEF AutomatedArrives, Next
<1>3. CASE QueryAuthSettles(q)
  <2>1. installToken \/ ~installToken' \/ InstallStateLoads
      BY <1>3 DEF QueryAuthSettles, InstallStateLoads, socketVars, TypeOK
  <2>2. installToken' = installToken => UNCHANGED connectionVars
      BY <1>3 DEF QueryAuthSettles, socketVars, connectionVars
  <2>3. installToken' = installToken \/ InstallStateLoads
      BY <1>3, <2>1 DEF QueryAuthSettles, TypeOK
  <2> QED BY <2>2, <2>3 DEF Next
<1>4. CASE QueryPrimes(q)
  <2>1. PhaseMoves("awaiting-first-chunk")
      BY <1>4 DEF QueryPrimes, PhaseMoves, exceptPhase, socketVars
  <2>2. "awaiting-first-chunk" \in Phases
      BY DEF Phases, ActivePhases
  <2> QED BY <2>1, <2>2 DEF Next
<1>5. CASE QueryBuilt(q) \/ WakewordArrives(q)
  <2>1. CASE EnsureBackendConnection(q)
      BY <2>1 DEF Next
  <2>2. CASE EnterSettingsGate(q) /\ UNCHANGED exceptPhase
      BY <2>2, EnterPhase, PhaseOnly
  <2> QED BY <1>5, <2>1, <2>2 DEF QueryBuilt, WakewordArrives, ConnectOrGate
<1>6. CASE AutomatedBuilt(q)
    BY <1>6, SendPhase, PhaseOnly DEF AutomatedBuilt
<1>7. CASE ConfigLoads(q)
  <2>1. CASE EnsureBackendConnection(q)
      BY <2>1 DEF Next
  <2>2. CASE UNCHANGED exceptPhase /\ PhaseKeptOrReset
      BY <2>2, PhaseOnly
  <2> QED BY <1>7, <2>1, <2>2, PassPhase DEF ConfigLoads, passVars, PhaseKeptOrReset
<1> QED BY <1>1, <1>2, <1>3, <1>4, <1>5, <1>6, <1>7 DEF HandlerStep

LEMMA CallbackStep ==
  ASSUME TypeOK, Callback(Requests, BackendEvents) PROVE [Next]_connectionVars
<1> USE GateAssumption DEF Gated
<1>1. ASSUME NEW q \in Gated,
             \/ QueryArrives(q) \/ AutomatedArrives(q) \/ WakewordArrives(q)
             \/ HandlerStep(q) \/ Forgotten(q)
      PROVE  [Next]_connectionVars
    BY <1>1, HandlerCallback
<1>2. ASSUME NEW q, NEW e, BackendEvent(q, e) PROVE [Next]_connectionVars
    BY <1>2, FrameStep DEF BackendEvent
<1>3. ASSUME NEW u \in Updates, SettingsUpdate(u) PROVE [Next]_connectionVars
    BY <1>3 DEF SettingsUpdate, Next
<1>4. ASSUME NEW id, SettingsSettle(id) PROVE [Next]_connectionVars
    BY <1>4, FrameStep DEF SettingsSettle
<1>5. CASE StopQuery \/ PrimeOverlay
  <2>1. PhaseMoves("complete") \/ PhaseMoves("awaiting-first-chunk")
      BY <1>5 DEF StopQuery, PrimeOverlay, PhaseMoves, exceptPhase, socketVars
  <2>2. {"complete", "awaiting-first-chunk"} \subseteq Phases
      BY DEF Phases, ActivePhases
  <2> QED BY <2>1, <2>2 DEF Next
<1>6. ASSUME NEW s \in Sockets,
             GateSocketCloses(s) \/ \E sent \in BOOLEAN : GateSocketOpens(s, sent)
      PROVE  [Next]_connectionVars
    BY <1>6 DEF GateSocketOpens, GateSocketCloses, Next
<1>7. CASE ConnectionStep(Requests)
    BY <1>7 DEF ConnectionStep, Next
<1> QED BY <1>1, <1>2, <1>3, <1>4, <1>5, <1>6, <1>7 DEF Callback

LEMMA GateStep == TypeOK /\ [GateNext]_vars => [Next]_connectionVars
<1> SUFFICES ASSUME TypeOK, [GateNext]_vars PROVE [Next]_connectionVars
    OBVIOUS
<1>1. CASE UNCHANGED vars
    BY <1>1 DEF vars
<1> QED BY <1>1, MicrotaskStep, CallbackStep DEF GateNext

\* The composition refines the connection: no interleaving of query handlers,
\* settings updates and frames makes it do what BackendConnection does not.
THEOREM GateImplementsConnection == GateSpec => ImplementsConnection
<1>1. GateInit => Init /\ TypeOK
  <2>1. Init => TypeOK
      BY SocketAssumption DEF Init, TypeOK, ReadyStates, CallStates, Phases
  <2> QED BY <2>1 DEF GateInit
<1>2. TypeOK /\ [GateNext]_vars => [Next]_connectionVars /\ TypeOK'
    BY GateStep, TypeStep
<1> QED
    BY <1>1, <1>2, PTL DEF GateSpec, Spec, ImplementsConnection

\* Hence under the gate, too, no caller waits without a dial behind it and the
\* idle timer never runs under an active loop.
THEOREM GateKeepsTheConnectionSafe ==
  GateSpec => [](OneLiveSocket /\ WaitersAreServed /\ IdleTimerTracksQuiet)
<1>1. IInv => OneLiveSocket /\ WaitersAreServed /\ IdleTimerTracksQuiet
    BY DEF IInv
<1>2. GateSpec => Spec
    BY GateImplementsConnection DEF ImplementsConnection
<1> QED
    BY <1>1, <1>2, InvariantHolds, PTL

-----------------------------------------------------------------------------
(***************************************************************************)
(* What the gate leaves behind.  PassOK is what passing the gate disturbs, *)
(* RestOK what it does not.                                                *)
(***************************************************************************)
GateStates == {"new"} \cup Suspended \cup Settled

PassOK ==
  /\ gate \in [Gated -> GateStates]
  /\ usesInitialContext \in [Gated -> BOOLEAN]
  /\ isFirstQuery \in BOOLEAN
  /\ activeTurn \in Queries \cup {NoTurn}
  /\ running \subseteq Queries \cup Automated
  /\ sentContexts \subseteq {"initial", "sequential"}
  /\ InitialContextWasSent
  /\ BufferedTurnIsCurrent
  /\ StreamingPhaseHasATurn

RestOK ==
  /\ hasUser \in [Queries -> BOOLEAN]
  /\ latestFrontendConfig \in BOOLEAN
  /\ hasAttemptedInitialSettingsSync \in BOOLEAN
  /\ pendingSettingsSyncPromise \in Syncs \cup {NoSync}
  /\ pendingSettingsSyncs \subseteq Syncs
  /\ waitsFor \in [Gated -> Syncs \cup {NoSync}]

GateIInv == PassOK /\ RestOK

\* Where a turn may be that is primed and not sent yet.
Primed == (Suspended \ {"auth", "capture"}) \cup {"lost"}

\* A handler moves on without sending; the turn the buffer holds stays primed.
LEMMA Moves ==
  ASSUME PassOK, NEW q \in Gated, NEW where \in GateStates, Goto(q, where),
         activeTurn' = q /\ q # NoTurn => where \in Primed,
         usesInitialContext' \in [Gated -> BOOLEAN],
         isFirstQuery' \in BOOLEAN, isFirstQuery => isFirstQuery',
         activeTurn' \in {activeTurn, NoTurn, q}, activeTurn' \in Queries \cup {NoTurn},
         running' = running, sentContexts' = sentContexts,
         phase' = phase \/ phase' \notin {"streaming", "tool-call", "tool-output"}
  PROVE  PassOK'
<1>1. gate' \in [Gated -> GateStates] /\ gate'[q] = where
      /\ \A p \in Gated \ {q} : gate'[p] = gate[p]
  BY DEF PassOK, Goto
<1>2. BufferedTurnIsCurrent'
  <2>1. CASE activeTurn' = q
    BY <1>1, <2>1 DEF BufferedTurnIsCurrent, Primed
  <2>2. CASE activeTurn' # q
    BY <1>1, <2>2, GateAssumption DEF PassOK, BufferedTurnIsCurrent, Gated
  <2> QED BY <2>1, <2>2
<1>3. InitialContextWasSent' /\ StreamingPhaseHasATurn'
  BY DEF PassOK, InitialContextWasSent, StreamingPhaseHasATurn
<1> QED BY <1>1, <1>2, <1>3 DEF PassOK

LEMMA SendFailsKeeps ==
  ASSUME PassOK, NEW q \in Gated, SendFails(q), usesInitialContext' = usesInitialContext
  PROVE  PassOK'
<1>1. gate' \in [Gated -> GateStates] /\ \A p \in Gated \ {q} : gate'[p] = gate[p]
  BY DEF PassOK, SendFails, Goto, GateStates, Settled
<1>2. CASE q \in Queries
  <2>1. activeTurn' = NoTurn /\ phase' = "idle" /\ UNCHANGED <<running, isFirstQuery, sentContexts>>
    BY <1>2 DEF SendFails, SetResponseOverlayPhase
  <2> QED BY <1>1, <2>1 DEF PassOK, InitialContextWasSent, BufferedTurnIsCurrent,
                            StreamingPhaseHasATurn
<1>3. CASE q \notin Queries
  <2>1. UNCHANGED <<activeTurn, phase, running, isFirstQuery, sentContexts>>
    BY <1>3 DEF SendFails
  <2>2. BufferedTurnIsCurrent'
    BY <1>1, <1>3, <2>1, GateAssumption DEF PassOK, BufferedTurnIsCurrent, Gated
  <2> QED BY <1>1, <2>1, <2>2 DEF PassOK, InitialContextWasSent, StreamingPhaseHasATurn
<1> QED BY <1>2, <1>3

LEMMA SendKeeps ==
  ASSUME PassOK, NEW q \in Gated, Send(q), usesInitialContext' = usesInitialContext
  PROVE  PassOK'
<1>1. CASE SendFails(q)
  BY <1>1, SendFailsKeeps
<1>2. CASE /\ Goto(q, "sent") /\ q \in Wakewords
           /\ UNCHANGED <<activeTurn, phase, running, isFirstQuery, sentContexts>>
  <2>1. q \notin Queries
    BY <1>2, GateAssumption
  <2> QED BY <1>2, <2>1, Moves DEF PassOK, GateStates, Settled
<1>3. CASE /\ Goto(q, "sent") /\ q \notin Wakewords /\ UNCHANGED <<activeTurn, phase>>
           /\ running' = running \cup {q}
           /\ isFirstQuery' = (isFirstQuery /\ ~usesInitialContext[q])
           /\ sentContexts' = sentContexts \cup
                {IF usesInitialContext[q] THEN "initial" ELSE "sequential"}
  <2>1. gate' \in [Gated -> GateStates] /\ \A p \in Gated : gate'[p] = gate[p] \/ gate'[p] = "sent"
    BY <1>3 DEF PassOK, Goto, GateStates, Settled
  <2>2. usesInitialContext[q] \in BOOLEAN
    BY DEF PassOK
  <2>3. isFirstQuery' \in BOOLEAN /\ sentContexts' \subseteq {"initial", "sequential"}
        /\ InitialContextWasSent'
    BY <1>3, <2>2 DEF PassOK, InitialContextWasSent
  <2>4. BufferedTurnIsCurrent'
    <3>1. sentContexts' # {}
      BY <1>3
    <3> QED BY <1>3, <2>1, <3>1, GateAssumption DEF PassOK, BufferedTurnIsCurrent, Gated
  <2>5. running' \subseteq Queries \cup Automated /\ StreamingPhaseHasATurn'
    BY <1>3 DEF PassOK, StreamingPhaseHasATurn, Gated
  <2> QED BY <1>3, <2>1, <2>3, <2>4, <2>5 DEF PassOK
<1> QED BY <1>1, <1>2, <1>3 DEF Send

LEMMA PassGateKeeps ==
  ASSUME PassOK, NEW q \in Gated, PassGate(q)
  PROVE  PassOK'
<1>1. CASE q \in Automated
  <2>1. /\ Goto(q, "build") /\ usesInitialContext' \in [Gated -> BOOLEAN]
        /\ UNCHANGED <<isFirstQuery, activeTurn, running, sentContexts, phase>>
    BY <1>1 DEF PassGate, PassOK
  <2> QED BY <2>1, Moves DEF PassOK, GateStates, Suspended, Primed
<1>2. CASE q \notin Automated
  BY <1>2, SendKeeps DEF PassGate
<1> QED BY <1>1, <1>2

\* The gate up to its next await.
LEMMA WaitKeeps ==
  ASSUME PassOK, NEW q \in Gated, NEW where \in Suspended \ {"auth", "capture"}, Goto(q, where),
         UNCHANGED passVars
  PROVE  PassOK'
BY Moves DEF passVars, PassOK, GateStates, Suspended, Primed

LEMMA DrainKeeps ==
  ASSUME PassOK, RestOK, NEW q \in Gated, DrainSettings(q)
  PROVE  PassOK' /\ waitsFor' \in [Gated -> Syncs \cup {NoSync}]
<1>1. CASE SyncPending
  <2>1. Goto(q, "lastSync") /\ waitsFor' = [waitsFor EXCEPT ![q] = pendingSettingsSyncPromise]
        /\ UNCHANGED passVars
    BY <1>1 DEF DrainSettings, Await
  <2> QED BY <2>1, WaitKeeps DEF Suspended, RestOK
<1>2. CASE ~SyncPending
  BY <1>2, PassGateKeeps DEF DrainSettings, RestOK
<1> QED BY <1>1, <1>2

LEMMA AwaitsOwnUpdate ==
  ASSUME PassOK, RestOK, NEW q \in Gated, SendSettings(q), Await(q, q, "sync"),
         UNCHANGED passVars
  PROVE  /\ PassOK' /\ waitsFor' \in [Gated -> Syncs \cup {NoSync}]
         /\ pendingSettingsSyncPromise' \in Syncs \cup {NoSync} /\ pendingSettingsSyncs' \subseteq Syncs
<1>1. PassOK'
  BY WaitKeeps DEF Await, Suspended
<1> QED BY <1>1 DEF RestOK, SendSettings, Await, Syncs

LEMMA EnterKeeps ==
  ASSUME PassOK, RestOK, NEW q \in Gated, EnterSettingsGate(q),
         UNCHANGED <<hasUser, latestFrontendConfig>>
  PROVE  GateIInv'
<1>1. CASE hasAttemptedInitialSettingsSync \/ pendingSettingsSyncPromise # NoSync
  <2>1. UNCHANGED <<pendingSettingsSyncPromise, pendingSettingsSyncs>>
        /\ hasAttemptedInitialSettingsSync' = TRUE
    BY <1>1 DEF EnterSettingsGate
  <2>2. CASE Await(q, pendingSettingsSyncPromise, "sync") /\ UNCHANGED passVars
    <3>1. PassOK'
      BY <2>2, WaitKeeps DEF Await, Suspended
    <3> QED BY <2>1, <2>2, <3>1 DEF Await, RestOK, GateIInv
  <2>3. CASE PassGate(q) /\ UNCHANGED waitsFor
    BY <2>1, <2>3, PassGateKeeps DEF RestOK, GateIInv
  <2> QED BY <1>1, <2>2, <2>3 DEF EnterSettingsGate
<1>2. CASE ~(hasAttemptedInitialSettingsSync \/ pendingSettingsSyncPromise # NoSync)
  <2>1. UNCHANGED passVars /\ hasAttemptedInitialSettingsSync' = TRUE
    BY <1>2 DEF EnterSettingsGate
  <2>2. CASE latestFrontendConfig
    <3>1. SendSettings(q) /\ Await(q, q, "sync")
      BY <1>2, <2>2 DEF EnterSettingsGate
    <3> QED BY <2>1, <3>1, AwaitsOwnUpdate DEF RestOK, GateIInv
  <2>3. CASE ~latestFrontendConfig
    <3>1. Goto(q, "load")
          /\ UNCHANGED <<pendingSettingsSyncPromise, pendingSettingsSyncs, waitsFor>>
      BY <1>2, <2>3 DEF EnterSettingsGate
    <3> QED BY <2>1, <3>1, WaitKeeps DEF Suspended, RestOK, GateIInv
  <2> QED BY <2>2, <2>3
<1> QED BY <1>1, <1>2

LEMMA ConnectOrGateKeeps ==
  ASSUME PassOK, RestOK, NEW q \in Gated, ConnectOrGate(q),
         UNCHANGED <<hasUser, latestFrontendConfig>>
  PROVE  GateIInv'
<1>1. CASE EnterSettingsGate(q)
  BY <1>1, EnterKeeps
<1>2. CASE /\ EnsureBackendConnection(q) /\ Goto(q, "connect")
           /\ UNCHANGED <<usesInitialContext, isFirstQuery, settingsVars, waitsFor, activeTurn,
                          running, sentContexts>>
  <2>1. phase' = phase
    BY <1>2 DEF EnsureBackendConnection
  <2>2. PassOK'
    BY <1>2, <2>1, Moves DEF PassOK, GateStates, Suspended, Primed
  <2> QED BY <1>2, <2>2 DEF RestOK, GateIInv, settingsVars
<1> QED BY <1>1, <1>2 DEF ConnectOrGate

LEMMA HandlersKeep ==
  ASSUME TypeOK, PassOK, RestOK, NEW q \in Gated,
         \/ q \in Queries /\ (QueryArrives(q) \/ QueryAuthSettles(q) \/ QueryPrimes(q) \/ QueryBuilt(q))
         \/ q \in Automated /\ AutomatedBuilt(q)
         \/ WakewordArrives(q) \/ AutomatedArrives(q) \/ Forgotten(q)
  PROVE  GateIInv'
<1> USE DEF GateStates, Suspended, Settled
<1>1. CASE q \in Queries /\ QueryArrives(q)
  <2>1. \E where \in {"auth", "capture"} : Goto(q, where)
    BY <1>1 DEF QueryArrives, ReadAtStart
  <2>2. usesInitialContext' \in [Gated -> BOOLEAN] /\ hasUser' \in [Queries -> BOOLEAN]
    BY <1>1 DEF QueryArrives, ReadAtStart, PassOK, RestOK
  <2>3. UNCHANGED <<isFirstQuery, latestFrontendConfig, settingsVars, waitsFor, activeTurn,
                    running, sentContexts, phase>>
    BY <1>1 DEF QueryArrives, connectionVars
  <2>4. activeTurn # q
    BY <1>1, GateAssumption DEF QueryArrives, PassOK, BufferedTurnIsCurrent
  <2>5. PassOK'
    BY <2>1, <2>2, <2>3, <2>4, Moves DEF PassOK
  <2> QED BY <2>2, <2>3, <2>5 DEF RestOK, GateIInv, settingsVars
<1>2. CASE q \in Queries /\ QueryAuthSettles(q)
  <2>1. Goto(q, "capture")
    BY <1>2 DEF QueryAuthSettles, ReadAtStart
  <2>2. UNCHANGED <<isFirstQuery, latestFrontendConfig, settingsVars, waitsFor, activeTurn,
                    running, sentContexts, phase>>
    BY <1>2 DEF QueryAuthSettles
  <2>3. usesInitialContext' \in [Gated -> BOOLEAN] /\ hasUser' \in [Queries -> BOOLEAN]
    <3>1. PICK user \in {installToken, TRUE} :
            /\ usesInitialContext' = [usesInitialContext EXCEPT ![q] = isFirstQuery]
            /\ hasUser' = [hasUser EXCEPT ![q] = user]
      BY <1>2 DEF QueryAuthSettles, ReadAtStart
    <3> QED BY <3>1 DEF TypeOK, PassOK, RestOK
  <2>4. activeTurn # q
    BY <1>2, GateAssumption DEF QueryAuthSettles, PassOK, BufferedTurnIsCurrent
  <2>5. PassOK'
    BY <2>1, <2>2, <2>3, <2>4, Moves DEF PassOK
  <2> QED BY <2>2, <2>3, <2>5 DEF RestOK, GateIInv, settingsVars
<1>3. CASE q \in Queries /\ QueryPrimes(q)
  <2>1. /\ \E where \in {"build", "lost"} : Goto(q, where)
        /\ activeTurn' = q /\ phase' = "awaiting-first-chunk"
        /\ UNCHANGED <<usesInitialContext, hasUser, isFirstQuery, latestFrontendConfig,
                       settingsVars, waitsFor, running, sentContexts>>
    BY <1>3 DEF QueryPrimes, SetResponseOverlayPhase
  <2>2. PassOK'
    BY <1>3, <2>1, Moves DEF PassOK, Primed
  <2> QED BY <2>1, <2>2 DEF RestOK, GateIInv, settingsVars
<1>4. CASE QueryBuilt(q) \/ WakewordArrives(q)
  BY <1>4, ConnectOrGateKeeps DEF QueryBuilt, WakewordArrives
<1>5. CASE AutomatedArrives(q)
  <2>1. Goto(q, "connect") /\ phase' = phase
        /\ UNCHANGED <<usesInitialContext, hasUser, isFirstQuery, latestFrontendConfig,
                       settingsVars, waitsFor, activeTurn, running, sentContexts>>
    BY <1>5 DEF AutomatedArrives, EnsureBackendConnection
  <2>2. PassOK'
    BY <2>1, Moves DEF PassOK, Primed
  <2> QED BY <2>1, <2>2 DEF RestOK, GateIInv, settingsVars
<1>6. CASE AutomatedBuilt(q)
  BY <1>6, SendKeeps DEF AutomatedBuilt, RestOK, GateIInv, settingsVars
<1>7. CASE Forgotten(q)
  <2>1. Goto(q, "new") /\ phase' = phase /\ waitsFor' = [waitsFor EXCEPT ![q] = NoSync]
        /\ UNCHANGED <<usesInitialContext, hasUser, isFirstQuery, latestFrontendConfig,
                       settingsVars, activeTurn, running, sentContexts>>
    BY <1>7 DEF Forgotten, connectionVars
  <2>2. PassOK'
    BY <1>7, <2>1, Moves DEF Forgotten, PassOK
  <2> QED BY <2>1, <2>2 DEF RestOK, GateIInv, settingsVars
<1> QED BY <1>1, <1>2, <1>3, <1>4, <1>5, <1>6, <1>7

LEMMA ConfigLoadsKeeps ==
  ASSUME PassOK, RestOK, NEW q \in Gated, ConfigLoads(q)
  PROVE  GateIInv'
<1>1. PICK valid \in BOOLEAN :
       /\ latestFrontendConfig' = valid
       /\ \/ SendSettings(q) /\ Await(q, q, "sync") /\ UNCHANGED passVars
          \/ /\ EnsureBackendConnection(q)
             /\ Goto(q, "resync")
             /\ UNCHANGED <<usesInitialContext, pendingSettingsSyncPromise, running,
                            pendingSettingsSyncs, waitsFor, isFirstQuery, activeTurn,
                            sentContexts>>
          \/ DrainSettings(q) /\ UNCHANGED <<pendingSettingsSyncPromise, pendingSettingsSyncs>>
  BY DEF ConfigLoads
<1>2. UNCHANGED <<hasUser, hasAttemptedInitialSettingsSync>> /\ latestFrontendConfig' \in BOOLEAN
  BY <1>1 DEF ConfigLoads
<1>3. CASE SendSettings(q) /\ Await(q, q, "sync") /\ UNCHANGED passVars
  BY <1>2, <1>3, AwaitsOwnUpdate DEF RestOK, GateIInv
<1>4. CASE /\ EnsureBackendConnection(q)
           /\ Goto(q, "resync")
           /\ UNCHANGED <<usesInitialContext, pendingSettingsSyncPromise, running,
                          pendingSettingsSyncs, waitsFor, isFirstQuery, activeTurn, sentContexts>>
  <2>1. phase' = phase
    BY <1>4 DEF EnsureBackendConnection
  <2>2. PassOK'
    BY <1>4, <2>1, Moves DEF PassOK, GateStates, Suspended, Primed
  <2> QED BY <1>2, <1>4, <2>2 DEF RestOK, GateIInv
<1>5. CASE DrainSettings(q) /\ UNCHANGED <<pendingSettingsSyncPromise, pendingSettingsSyncs>>
  BY <1>2, <1>5, DrainKeeps DEF RestOK, GateIInv
<1> QED BY <1>1, <1>3, <1>4, <1>5

LEMMA MicrotasksKeep ==
  ASSUME PassOK, RestOK, Microtask
  PROVE  GateIInv'
<1>1. ASSUME NEW q \in Gated, RequestConnected(q) PROVE GateIInv'
  <2>1. CASE EnterSettingsGate(q)
    BY <1>1, <2>1, EnterKeeps DEF RequestConnected
  <2>2. CASE SendFails(q) /\ UNCHANGED <<usesInitialContext, settingsVars, waitsFor>>
    BY <1>1, <2>2, SendFailsKeeps DEF RequestConnected, RestOK, GateIInv, settingsVars
  <2> QED BY <1>1, <2>1, <2>2 DEF RequestConnected
<1>2. ASSUME NEW q \in Gated, RequestReconnected(q) PROVE GateIInv'
  <2>1. UNCHANGED <<hasUser, latestFrontendConfig, hasAttemptedInitialSettingsSync>>
    BY <1>2 DEF RequestReconnected
  <2>2. CASE SendSettings(q) /\ Await(q, q, "sync") /\ UNCHANGED passVars
    BY <2>1, <2>2, AwaitsOwnUpdate DEF RestOK, GateIInv
  <2>3. CASE DrainSettings(q) /\ UNCHANGED <<pendingSettingsSyncPromise, pendingSettingsSyncs>>
    BY <2>1, <2>3, DrainKeeps DEF RestOK, GateIInv
  <2> QED BY <1>2, <2>2, <2>3 DEF RequestReconnected
<1>3. ASSUME NEW q \in Gated, SettingsSynced(q) PROVE GateIInv'
  <2>1. UNCHANGED <<hasUser, latestFrontendConfig, settingsVars>>
    BY <1>3 DEF SettingsSynced
  <2>2. CASE gate[q] = "sync"
    BY <1>3, <2>1, <2>2, DrainKeeps DEF SettingsSynced, RestOK, GateIInv, settingsVars
  <2>3. CASE gate[q] # "sync"
    BY <1>3, <2>1, <2>3, PassGateKeeps DEF SettingsSynced, RestOK, GateIInv, settingsVars
  <2> QED BY <2>2, <2>3
<1>4. ASSUME NEW u \in Updates, UpdateConnected(u) PROVE GateIInv'
  <2>1. pendingSettingsSyncPromise' \in Syncs \cup {NoSync} /\ pendingSettingsSyncs' \subseteq Syncs
    BY <1>4 DEF UpdateConnected, SendSettings, RestOK, Syncs
  <2> QED BY <1>4, <2>1
          DEF UpdateConnected, RestOK, GateIInv, PassOK, InitialContextWasSent,
              BufferedTurnIsCurrent, StreamingPhaseHasATurn
<1>5. ASSUME NEW o \in Others, OtherReturns(o) PROVE GateIInv'
  <2>1. UNCHANGED gateVars /\ phase' = phase
    BY <1>5 DEF OtherReturns, CallReturns, SetResponseOverlayPhase
  <2> QED BY <2>1 DEF gateVars, settingsVars, RestOK, GateIInv, PassOK, InitialContextWasSent,
                      BufferedTurnIsCurrent, StreamingPhaseHasATurn
<1> QED BY <1>1, <1>2, <1>3, <1>4, <1>5 DEF Microtask

\* What moves only the phase, and leaves the turns that stream.
LEMMA OnlyPhaseMoves ==
  ASSUME GateIInv,
         UNCHANGED <<gate, usesInitialContext, hasUser, isFirstQuery, latestFrontendConfig,
                     settingsVars, waitsFor, activeTurn, running, sentContexts>>,
         phase' = phase \/ phase' \notin {"streaming", "tool-call", "tool-output"}
  PROVE  GateIInv'
BY DEF settingsVars, RestOK, GateIInv, PassOK, InitialContextWasSent, BufferedTurnIsCurrent,
       StreamingPhaseHasATurn

LEMMA FramesKeep ==
  ASSUME GateIInv, NEW q, NEW e, BackendEvent(q, e)
  PROVE  GateIInv'
<1>1. /\ q \in running /\ phase' = PhaseAfter(e)
      /\ running' = IF e \in {"streaming-complete", "error"} THEN running \ {q} ELSE running
      /\ UNCHANGED <<gate, usesInitialContext, hasUser, isFirstQuery, latestFrontendConfig,
                     settingsVars, waitsFor, activeTurn, sentContexts>>
  BY DEF BackendEvent, Frame, BackendMessage, SetResponseOverlayPhase
<1>2. StreamingPhaseHasATurn'
  <2>1. CASE e \in {"streaming-complete", "error"}
    BY <1>1, <2>1 DEF PhaseAfter, StreamingPhaseHasATurn
  <2>2. CASE e \notin {"streaming-complete", "error"}
    BY <1>1, <2>2 DEF StreamingPhaseHasATurn
  <2> QED BY <2>1, <2>2
<1> QED BY <1>1, <1>2 DEF settingsVars, RestOK, GateIInv, PassOK, InitialContextWasSent,
                          BufferedTurnIsCurrent

LEMMA SettlesKeeps ==
  ASSUME GateIInv, NEW id, SettingsSettle(id)
  PROVE  GateIInv'
<1>1. phase' = phase \/ phase' \notin {"streaming", "tool-call", "tool-output"}
  BY DEF SettingsSettle, connectionVars, Frame, BackendMessage, SetResponseOverlayPhase, PhaseAfter
<1>2. pendingSettingsSyncs' \subseteq Syncs
  BY DEF SettingsSettle, GateIInv, RestOK
<1> QED BY <1>1, <1>2 DEF SettingsSettle, RestOK, GateIInv, PassOK, InitialContextWasSent,
                          BufferedTurnIsCurrent, StreamingPhaseHasATurn

LEMMA SocketsKeep ==
  ASSUME GateIInv, NEW s \in Sockets,
         GateSocketCloses(s) \/ \E sent \in BOOLEAN : GateSocketOpens(s, sent)
  PROVE  GateIInv'
<1>1. UNCHANGED <<gate, usesInitialContext, hasUser, latestFrontendConfig, waitsFor>>
  BY DEF GateSocketCloses, GateSocketOpens
<1>2. CASE ws # s
  <2>1. UNCHANGED <<settingsVars, isFirstQuery, activeTurn, running, sentContexts, phase>>
    BY <1>2 DEF GateSocketCloses, GateSocketOpens, SocketCloses, SocketOpens
  <2> QED BY <1>1, <2>1, OnlyPhaseMoves
<1>3. CASE ws = s
  <2>1. /\ phase' = "idle" /\ activeTurn' = NoTurn /\ running' = {} /\ ResetSettingsSync
        /\ \/ isFirstQuery' = TRUE /\ sentContexts' = {}
           \/ UNCHANGED <<isFirstQuery, sentContexts>>
    BY <1>3 DEF GateSocketCloses, GateSocketOpens, SocketCloses, SocketOpens, OnOpen, OnClose
  <2> QED BY <1>1, <2>1 DEF ResetSettingsSync, RestOK, GateIInv, PassOK, InitialContextWasSent,
                            BufferedTurnIsCurrent, StreamingPhaseHasATurn
<1> QED BY <1>2, <1>3

LEMMA ConnectionStepsKeep ==
  ASSUME GateIInv, ConnectionStep(Requests) \/ StopQuery \/ PrimeOverlay
  PROVE  GateIInv'
<1>1. CASE ConnectionStep(Requests)
  <2>1. phase' = phase
    BY <1>1 DEF ConnectionStep, InstallAuthSettles, InstallStateLoads, ReconnectTimerFires,
                IdleTimerFires, WaiterTimesOut, PeerCloses, EnsureBackendConnection
  <2> QED BY <1>1, <2>1, OnlyPhaseMoves DEF ConnectionStep, gateVars
<1>2. CASE StopQuery \/ PrimeOverlay
  <2>1. phase' \in {"complete", "awaiting-first-chunk"} /\ UNCHANGED gateVars
    BY <1>2 DEF StopQuery, PrimeOverlay, SetResponseOverlayPhase
  <2> QED BY <2>1, OnlyPhaseMoves DEF gateVars
<1> QED BY <1>1, <1>2

LEMMA UpdatesKeep ==
  ASSUME GateIInv, NEW u \in Updates, SettingsUpdate(u)
  PROVE  GateIInv'
<1>1. phase' = phase
  BY DEF SettingsUpdate, connectionVars, EnsureBackendConnection
<1>2. pendingSettingsSyncPromise' \in Syncs \cup {NoSync} /\ pendingSettingsSyncs' \subseteq Syncs
  BY DEF SettingsUpdate, SendSettings, GateIInv, RestOK, Syncs
<1>3. UNCHANGED <<gate, usesInitialContext, hasUser, isFirstQuery, waitsFor, activeTurn,
                  hasAttemptedInitialSettingsSync, running, sentContexts>>
      /\ latestFrontendConfig' = TRUE
  BY DEF SettingsUpdate
<1> QED BY <1>1, <1>2, <1>3 DEF RestOK, GateIInv, PassOK, InitialContextWasSent,
                                BufferedTurnIsCurrent, StreamingPhaseHasATurn

LEMMA GateNextPreserves == TypeOK /\ GateIInv /\ [GateNext]_vars => GateIInv'
<1>1. SUFFICES ASSUME TypeOK, GateIInv, [GateNext]_vars PROVE GateIInv'
  OBVIOUS
<1>2. PassOK /\ RestOK
  BY <1>1 DEF GateIInv
<1>3. CASE UNCHANGED vars
  BY <1>1, <1>3, OnlyPhaseMoves DEF vars, gateVars, connectionVars
<1>4. CASE Microtask
  BY <1>2, <1>4, MicrotasksKeep
<1>5. CASE Callback(Requests, BackendEvents)
  <2>1. ASSUME NEW q \in Gated, HandlerStep(q) \/ Forgotten(q) PROVE GateIInv'
    BY <1>1, <1>2, <2>1, HandlersKeep, ConfigLoadsKeeps DEF HandlerStep
  <2>2. ASSUME NEW q \in Gated,
               \/ q \in Queries /\ QueryArrives(q)
               \/ AutomatedArrives(q) \/ WakewordArrives(q)
        PROVE  GateIInv'
    <3>1. CASE q \in Queries /\ QueryArrives(q)
      BY <1>1, <1>2, <3>1, HandlersKeep
    <3>2. CASE AutomatedArrives(q) \/ WakewordArrives(q)
      BY <1>1, <1>2, <3>2, HandlersKeep
    <3> QED BY <2>2, <3>1, <3>2
  <2>3. Queries \subseteq Gated /\ Automated \subseteq Gated /\ Wakewords \subseteq Gated
    BY DEF Gated
  <2> QED BY <1>1, <1>5, <2>1, <2>2, <2>3, FramesKeep, SettlesKeeps, SocketsKeep,
             ConnectionStepsKeep, UpdatesKeep DEF Callback
<1> QED BY <1>1, <1>3, <1>4, <1>5 DEF GateNext

LEMMA GateInvariant == GateSpec => []GateIInv
<1>1. ASSUME GateInit PROVE GateIInv
  <2>1. PassOK
    BY <1>1 DEF GateInit, Init, PassOK, GateStates, InitialContextWasSent,
                BufferedTurnIsCurrent, StreamingPhaseHasATurn
  <2>2. RestOK
    BY <1>1 DEF GateInit, RestOK
  <2> QED BY <2>1, <2>2 DEF GateIInv
<1>2. GateSpec => []TypeOK
  <2>1. GateSpec => Spec
    BY GateImplementsConnection DEF ImplementsConnection
  <2> QED BY <2>1, TypeCorrect, PTL
<1> QED BY <1>1, <1>2, GateNextPreserves, PTL DEF GateSpec

\* The variables of the gate hold values of their types.
THEOREM GateTypeCorrect == GateSpec => []GateTypeOK
<1>1. GateIInv => GateTypeOK
  BY DEF GateIInv, PassOK, RestOK, GateTypeOK, GateStates
<1> QED BY <1>1, GateInvariant, PTL

\* The initial context is used up only by a query that was sent, and the
\* buffer never holds a turn whose send failed or that an earlier connection
\* carried, for any number of queries and sockets.
THEOREM ContextAndReplayFollowTheSendsHolds == GateSpec => []ContextAndReplayFollowTheSends
<1>1. GateIInv => ContextAndReplayFollowTheSends
  BY DEF GateIInv, PassOK, ContextAndReplayFollowTheSends
<1> QED BY <1>1, GateInvariant, PTL

\* The overlay streams only while a turn does, for any number of queries,
\* sockets and frames of any types.
THEOREM StreamingPhaseHasATurnHolds == GateSpec => []StreamingPhaseHasATurn
<1>1. GateIInv => StreamingPhaseHasATurn
  BY DEF GateIInv, PassOK
<1> QED BY <1>1, GateInvariant, PTL

-----------------------------------------------------------------------------
(***************************************************************************)
(* The worker: no two runs are mapped at a time, and a run that lost its   *)
(* mapping is not the one that will be put as a query.                     *)
(***************************************************************************)
Mapped == {r \in Runs : convOf[r] # NoThread}

\* Only the run that is offered can be mapped, and none is when a query is
\* about to go out.
OneRunAtATime ==
  /\ \A r, s \in Mapped : r = s
  /\ offered # NoRun => Mapped \subseteq {offered}
  /\ tick.at = "beat" /\ tick.ready => Mapped = {}
  /\ tick.at \in {"answered", "control", "dispatch", "refused", "dispatched"}
     => offered \in {tick.next, NoRun}
  /\ tick.at \in {"dispatch", "refused", "dispatched"} => tick.next \in Runs
  /\ tick.at \in {"dispatch", "refused"} => Mapped = {}
  /\ tick.at \in {"answered", "control"} /\ tick.next \in Runs => Mapped \subseteq {tick.next}

\* A run whose assignment is looked at has not been queried, unless it is
\* mapped, or was cleared meanwhile: then it was queried once.
PendingOnce ==
  tick.at \in {"answered", "control", "dispatch"} /\ tick.next \in Runs =>
    IF tick.next \in overtaken
    THEN convOf[tick.next] = NoThread /\ queries[tick.next] <= 1
    ELSE convOf[tick.next] = NoThread => queries[tick.next] = 0

\* A run that is assigned and not mapped has not been queried, and one that
\* was cleared under its assignment is not assigned again.
AssignedOnce ==
  /\ \A r \in Runs : turn[r] = "queued" => queries[r] = 0
  /\ \A r \in Runs : queries[r] <= IF r \in overtaken THEN 2 ELSE 1
  /\ \A r \in overtaken : turn[r] # "queued" /\ r # offered
  /\ offered \in Runs /\ convOf[offered] = NoThread => queries[offered] = 0
  /\ PendingOnce

\* A run is mapped from its query to the answer of its last relay.
MappedTillTheLastRelay ==
  /\ \A r \in Runs : turn[r] = "open" => runOf[threadOf[r]] = r /\ convOf[r] = threadOf[r]
  /\ \A m \in relays : m.thread = threadOf[m.run]
  /\ \A m \in relays : m.last => turn[m.run] = "ended" /\ convOf[m.run] = m.thread
  /\ ~deaf => \A r \in Mapped : turn[r] = "open" \/ \E m \in relays : m.last /\ m.run = r

VmIInv == VmTypeOK /\ (active => OneRunAtATime /\ AssignedOnce /\ MappedTillTheLastRelay)

VmServed == OneRunAtATime /\ AssignedOnce /\ MappedTillTheLastRelay

LEMMA TickTyped == /\ NoTick \in Ticks /\ NoTick.at = "idle"
                   /\ \A f \in Ticks : f.at \in {"idle", "beat", "answered", "control", "dispatch",
                                                 "refused", "dispatched"}
                                       /\ f.ready \in BOOLEAN /\ f.next \in Runs \union {NoRun}
BY DEF NoTick, Ticks

LEMMA MovedTick ==
  ASSUME NEW f \in Ticks, NEW a \in {"answered", "control", "dispatch", "refused", "dispatched"}
  PROVE  /\ [f EXCEPT !.at = a] \in Ticks
         /\ [f EXCEPT !.at = a].at = a /\ [f EXCEPT !.at = a].next = f.next
BY DEF Ticks

LEMMA LossCounted ==
  ASSUME VmTypeOK, Loss
  PROVE  losses' \in 0..MaxLosses
<1>1. losses \in 0..MaxLosses /\ losses < MaxLosses /\ losses' = losses + 1
  BY DEF VmTypeOK, Loss
<1> QED BY <1>1, VmBounds

\* What of VmServed is about the tick.
TickServed ==
  /\ tick.at = "beat" /\ tick.ready => Mapped = {}
  /\ tick.at \in {"answered", "control", "dispatch", "refused", "dispatched"}
     => offered \in {tick.next, NoRun}
  /\ tick.at \in {"dispatch", "refused", "dispatched"} => tick.next \in Runs
  /\ tick.at \in {"dispatch", "refused"} => Mapped = {}
  /\ tick.at \in {"answered", "control"} /\ tick.next \in Runs => Mapped \subseteq {tick.next}
  /\ PendingOnce

\* A tick that ends.
LEMMA IdleTick == tick.at = "idle" => TickServed
BY DEF TickServed, PendingOnce

\* A step of the tick alone: the maps, the runs and the relays rest.
LEMMA TickMoves ==
  ASSUME VmTypeOK, active => VmServed, active' = active, tick' \in Ticks,
         UNCHANGED <<relays, deaf, overtaken, threadOf, offered, turn, chunks, queries>>,
         linked' \in BOOLEAN, losses' \in 0..MaxLosses, MapsRest,
         active => TickServed'
  PROVE  VmIInv'
<1>1. VmTypeOK'
  BY DEF VmTypeOK, MapsRest
<1>2. ASSUME active PROVE VmServed'
  <2>1. Mapped' = Mapped
    BY DEF Mapped, MapsRest
  <2>2. OneRunAtATime'
    BY <1>2, <2>1 DEF VmServed, OneRunAtATime, TickServed, MapsRest
  <2>3. AssignedOnce'
    BY <1>2 DEF VmServed, AssignedOnce, TickServed, MapsRest
  <2>4. MappedTillTheLastRelay'
    BY <1>2, <2>1 DEF VmServed, MappedTillTheLastRelay, MapsRest
  <2> QED BY <2>2, <2>3, <2>4 DEF VmServed
<1> QED BY <1>1, <1>2 DEF VmIInv, VmServed

LEMMA ServedTick ==
  ASSUME VmTypeOK, VmServed PROVE TickServed
BY DEF VmServed, OneRunAtATime, AssignedOnce, TickServed

\* dispatchAssignedRun: a run that is not mapped goes on to its query.
LEMMA DispatchServed ==
  ASSUME VmTypeOK, VmServed, NEW r \in Runs \union {NoRun}, Dispatches(r), MapsRest,
         queries' = queries, overtaken' = overtaken,
         offered' \in {r, NoRun}, r \in Runs => Mapped \subseteq {r},
         r \in Runs /\ convOf[r] = NoThread =>
           queries[r] <= 1 /\ (r \notin overtaken => queries[r] = 0)
  PROVE  tick' \in Ticks /\ TickServed'
<1>0. tick \in Ticks
  BY DEF VmTypeOK
<1>1. CASE r = NoRun \/ convOf[r] # NoThread
  <2>1. tick' = NoTick
    BY <1>1 DEF Dispatches
  <2> QED BY <2>1, TickTyped DEF TickServed, PendingOnce
<1>2. CASE r \in Runs /\ convOf[r] = NoThread
  <2>1. tick' = [tick EXCEPT !.at = "dispatch", !.next = r]
    BY <1>2, VmBounds DEF Dispatches
  <2>2. tick' \in Ticks /\ tick'.at = "dispatch" /\ tick'.next = r
    BY <1>0, <1>2, <2>1 DEF Ticks
  <2>3. Mapped' = {}
    BY <1>2 DEF Mapped, MapsRest
  <2>4. PendingOnce'
    BY <1>2, <2>2 DEF PendingOnce, MapsRest
  <2> QED BY <1>2, <2>2, <2>3, <2>4 DEF TickServed, MapsRest
<1> QED BY <1>1, <1>2

LEMMA TickStepsKeep ==
  ASSUME VmTypeOK, active => VmServed,
         HeartbeatTick \/ HeartbeatAnswered \/ ControlApplied \/ QueryRefused \/ TickFails
  PROVE  VmIInv'
<1>0. tick \in Ticks
  BY DEF VmTypeOK
<1>1. CASE HeartbeatTick
  <2> DEFINE free == \A r \in Runs : convOf[r] = NoThread
  <2>1. tick' = [at |-> "beat", ready |-> free, next |-> NoRun] /\ free \in BOOLEAN
    BY <1>1 DEF HeartbeatTick
  <2>2. free => Mapped' = {}
    BY <1>1 DEF Mapped, HeartbeatTick, MapsRest
  <2> HIDE DEF free
  <2>3. tick' \in Ticks /\ tick'.at = "beat" /\ tick'.ready = free
    BY <2>1 DEF Ticks
  <2>4. TickServed'
    BY <2>2, <2>3 DEF TickServed, PendingOnce
  <2>5. losses' \in 0..MaxLosses /\ linked' \in BOOLEAN
    BY <1>1 DEF HeartbeatTick, VmTypeOK
  <2> QED BY <1>1, <2>3, <2>4, <2>5, TickMoves DEF HeartbeatTick, ServiceRests
<1>2. ASSUME ControlApplied \/ HeartbeatAnswered, Dispatches(tick.next) PROVE VmIInv'
  <2>1. /\ tick.at \in {"answered", "control"} /\ tick.next \in Runs \union {NoRun}
        /\ UNCHANGED <<offered, queries, overtaken>> /\ MapsRest
    BY <1>0, <1>2, TickTyped DEF ControlApplied, HeartbeatAnswered, ServiceRests
  <2>2. losses' \in 0..MaxLosses /\ linked' \in BOOLEAN
    BY <1>2 DEF ControlApplied, HeartbeatAnswered, VmTypeOK
  <2>3. tick' \in Ticks
    <3>1. CASE tick' = NoTick
      BY <3>1, TickTyped
    <3>2. CASE tick' = [tick EXCEPT !.at = "dispatch", !.next = tick.next]
      BY <1>0, <3>2 DEF Ticks
    <3> QED BY <1>2, <3>1, <3>2 DEF Dispatches
  <2>4. ASSUME active PROVE TickServed'
    <3>1. TickServed
      BY <2>4, ServedTick
    <3>2. tick.next \in Runs /\ convOf[tick.next] = NoThread =>
            queries[tick.next] <= 1 /\ (tick.next \notin overtaken => queries[tick.next] = 0)
      BY <2>1, <3>1 DEF TickServed, PendingOnce
    <3>3. offered' \in {tick.next, NoRun} /\ (tick.next \in Runs => Mapped \subseteq {tick.next})
      BY <2>1, <3>1 DEF TickServed
    <3> QED BY <1>2, <2>1, <2>4, <3>2, <3>3, DispatchServed
  <2> QED BY <1>2, <2>2, <2>3, <2>4, TickMoves DEF ControlApplied, HeartbeatAnswered, ServiceRests
<1>5. ASSUME HeartbeatAnswered, tick' = [tick EXCEPT !.at = "control"] PROVE VmIInv'
  <2>1. tick' \in Ticks /\ tick'.at = "control" /\ tick'.next = tick.next /\ tick.at = "answered"
    BY <1>0, <1>5, MovedTick DEF HeartbeatAnswered
  <2>2. losses' \in 0..MaxLosses /\ linked' \in BOOLEAN
    BY <1>5 DEF HeartbeatAnswered, VmTypeOK
  <2>3. ASSUME active PROVE TickServed'
    <3>1. TickServed /\ Mapped' = Mapped
          /\ UNCHANGED <<offered, queries, overtaken, convOf>>
      BY <1>5, <2>3, ServedTick DEF HeartbeatAnswered, ServiceRests, MapsRest, Mapped
    <3>2. PendingOnce'
      BY <2>1, <3>1 DEF TickServed, PendingOnce
    <3> QED BY <2>1, <3>1, <3>2 DEF TickServed
  <2> QED BY <1>5, <2>1, <2>2, <2>3, TickMoves DEF HeartbeatAnswered, ServiceRests
<1>3. CASE QueryRefused
  <2>1. tick' \in Ticks /\ tick'.at = "refused" /\ tick'.next = tick.next /\ tick.at = "dispatch"
    BY <1>0, <1>3, MovedTick DEF QueryRefused
  <2>2. losses' \in 0..MaxLosses /\ linked' \in BOOLEAN
    BY <1>3, LossCounted DEF QueryRefused, VmTypeOK
  <2>3. ASSUME active PROVE TickServed'
    <3>1. TickServed /\ Mapped' = Mapped /\ offered' = offered
      BY <1>3, <2>3, ServedTick DEF QueryRefused, ServiceRests, MapsRest, Mapped
    <3> QED BY <2>1, <3>1 DEF TickServed, PendingOnce
  <2> QED BY <1>3, <2>1, <2>2, <2>3, TickMoves DEF QueryRefused, ServiceRests
<1>4. CASE TickFails
  <2>1. tick' = NoTick
    BY <1>4 DEF TickFails
  <2>2. tick' \in Ticks /\ TickServed'
    BY <2>1, TickTyped DEF TickServed, PendingOnce
  <2>3. losses' \in 0..MaxLosses /\ linked' \in BOOLEAN
    BY <1>4, LossCounted DEF TickFails, VmTypeOK
  <2> QED BY <1>4, <2>2, <2>3, TickMoves DEF TickFails, ServiceRests
<1> QED BY <1>1, <1>2, <1>3, <1>4, <1>5 DEF HeartbeatAnswered, ControlApplied

\* The service assigns a run that has not been queried, or the one that is
\* mapped.
LEMMA HeartbeatServedKeeps ==
  ASSUME VmTypeOK, active => VmServed, HeartbeatServed
  PROVE  VmIInv'
<1>0. /\ tick \in Ticks /\ tick.at = "beat" /\ tick.ready \in BOOLEAN
      /\ UNCHANGED <<overtaken, active, linked, relays, threadOf, turn, chunks, queries, deaf,
                     losses>>
      /\ MapsRest
  BY TickTyped DEF HeartbeatServed, VmTypeOK
<1>1. PICK r \in Runs \union {NoRun} :
        Assigned(r) /\ tick' = [tick EXCEPT !.at = "answered", !.next = r]
  BY DEF HeartbeatServed
<1>2. offered' = r /\ tick' \in Ticks /\ tick'.at = "answered" /\ tick'.next = r
  BY <1>0, <1>1 DEF Assigned, Ticks
<1>3. ASSUME active
      PROVE  /\ r \in Runs => Mapped \subseteq {r}
             /\ r \in Runs => r \notin overtaken
             /\ r \in Runs /\ convOf[r] = NoThread => queries[r] = 0
  <2>1. CASE r = offered
    BY <1>3, <2>1, VmBounds DEF VmServed, OneRunAtATime, AssignedOnce
  <2>2. CASE tick.ready /\ r \in Runs /\ turn[r] = "queued"
    BY <1>0, <1>3, <2>2 DEF VmServed, OneRunAtATime, AssignedOnce
  <2> QED BY <1>1, <2>1, <2>2 DEF Assigned
<1>4. VmTypeOK'
  BY <1>0, <1>2 DEF VmTypeOK, MapsRest
<1>5. ASSUME active PROVE VmServed'
  <2>1. Mapped' = Mapped /\ convOf' = convOf
    BY <1>0 DEF Mapped, MapsRest
  <2>2. OneRunAtATime'
    BY <1>2, <1>3, <1>5, <2>1, VmBounds DEF VmServed, OneRunAtATime
  <2>3. PendingOnce'
    BY <1>0, <1>2, <1>3, <1>5, <2>1 DEF PendingOnce
  <2>4. \A s \in overtaken : s # r
    BY <1>0, <1>3, <1>5, VmBounds DEF VmTypeOK
  <2>5. AssignedOnce'
    BY <1>0, <1>2, <1>3, <1>5, <2>1, <2>3, <2>4 DEF VmServed, AssignedOnce
  <2>6. MappedTillTheLastRelay'
    BY <1>0, <1>5, <2>1 DEF VmServed, MappedTillTheLastRelay, MapsRest
  <2> QED BY <2>2, <2>5, <2>6 DEF VmServed
<1> QED BY <1>0, <1>4, <1>5 DEF VmIInv, VmServed

\* The query is out: no run was mapped, so this one alone is.
LEMMA QuerySentKeeps ==
  ASSUME VmTypeOK, active => VmServed, QuerySent
  PROVE  VmIInv'
<1> DEFINE r == tick.next
           t == threadOf[r]
<1>0. /\ tick \in Ticks /\ r \in Runs \union {NoRun} /\ tick.at = "dispatch"
      /\ UNCHANGED <<overtaken, active, linked, relays, threadOf, offered, chunks, deaf, losses>>
  BY TickTyped DEF QuerySent, VmTypeOK
<1>1. tick' \in Ticks /\ tick'.at = "dispatched" /\ tick'.next = r
  BY <1>0, MovedTick DEF QuerySent
<1>2. /\ runOf' = [runOf EXCEPT ![t] = r] /\ convOf' = [convOf EXCEPT ![r] = t]
      /\ turn' = [turn EXCEPT ![r] = "open"] /\ queries' = [queries EXCEPT ![r] = queries[r] + 1]
  BY DEF QuerySent
<1> HIDE DEF r, t
<1>3. VmTypeOK'
  <2>1. r \in Runs => t \in Threads
    BY DEF VmTypeOK, t
  <2>2. turn' \in [Runs -> {"queued", "open", "ended", "failed"}]
    BY <1>2 DEF VmTypeOK
  <2>3. queries' \in [Runs -> Nat]
    <3>1. r \in Runs => queries[r] + 1 \in Nat
      BY DEF VmTypeOK
    <3> QED BY <1>0, <1>2, <3>1 DEF VmTypeOK
  <2>4. convOf' \in [Runs -> Threads \union {NoThread}]
    BY <1>0, <1>2, <2>1 DEF VmTypeOK
  <2>5. runOf' \in [Threads -> Runs \union {NoRun}]
    BY <1>0, <1>2 DEF VmTypeOK
  <2> QED BY <1>0, <1>1, <2>2, <2>3, <2>4, <2>5 DEF VmTypeOK
<1>4. ASSUME active PROVE VmServed'
  <2>1. /\ r \in Runs /\ t \in Threads /\ t # NoThread /\ Mapped = {} /\ offered \in {r, NoRun}
        /\ queries[r] \in Nat /\ queries[r] <= 1 /\ (r \notin overtaken => queries[r] = 0)
        /\ turn[r] # "queued" \/ r \notin overtaken
    BY <1>0, <1>4, VmBounds
       DEF VmServed, OneRunAtATime, AssignedOnce, PendingOnce, VmTypeOK, Mapped, r, t
  <2>2. /\ convOf'[r] = t /\ runOf'[t] = r /\ turn'[r] = "open"
        /\ \A s \in Runs : s # r => /\ convOf'[s] = NoThread /\ turn'[s] = turn[s]
                                   /\ queries'[s] = queries[s]
    BY <1>2, <2>1 DEF VmTypeOK, Mapped
  <2>3. Mapped' = {r}
    BY <2>1, <2>2 DEF Mapped
  <2>4. OneRunAtATime'
    BY <1>0, <1>1, <2>1, <2>3 DEF OneRunAtATime
  <2>5. queries'[r] <= IF r \in overtaken THEN 2 ELSE 1
    BY <1>2, <2>1 DEF VmTypeOK
  <2>6. AssignedOnce'
    <3>1. \A s \in Runs : turn'[s] = "queued" => queries'[s] = 0
      BY <1>4, <2>2 DEF VmServed, AssignedOnce
    <3>2. \A s \in Runs : queries'[s] <= IF s \in overtaken THEN 2 ELSE 1
      BY <1>4, <2>2, <2>5 DEF VmServed, AssignedOnce
    <3>3. ~(offered \in Runs /\ convOf'[offered] = NoThread)
      BY <2>1, <2>2, VmBounds
    <3>4. PendingOnce' /\ overtaken' = overtaken /\ offered' = offered
      BY <1>0, <1>1 DEF PendingOnce
    <3>5. \A s \in overtaken : turn'[s] # "queued" /\ s # offered
      BY <1>3, <1>4, <2>2, <3>4 DEF VmServed, AssignedOnce, VmTypeOK
    <3> QED BY <3>1, <3>2, <3>3, <3>4, <3>5 DEF AssignedOnce
  <2>7. MappedTillTheLastRelay'
    <3>1. \A s \in Runs : turn[s] # "open"
      BY <1>4, <2>1, VmBounds DEF VmServed, MappedTillTheLastRelay, VmTypeOK, Mapped
    <3>2. \A m \in relays : m.run \in Runs /\ m.thread \in Threads
      BY DEF VmTypeOK, Relays
    <3>3. \A m \in relays : ~m.last
      BY <1>4, <2>1, <3>2, VmBounds DEF VmServed, MappedTillTheLastRelay, Mapped
    <3> QED BY <1>0, <1>4, <2>2, <2>3, <3>1, <3>3 DEF VmServed, MappedTillTheLastRelay, t
  <2> QED BY <2>4, <2>6, <2>7 DEF VmServed
<1> QED BY <1>0, <1>3, <1>4 DEF VmIInv, VmServed

LEMMA TickEndsKeeps ==
  ASSUME VmTypeOK, active => VmServed, TickEnds
  PROVE  VmIInv'
<1> DEFINE r == tick.next
<1>0. /\ tick \in Ticks /\ r \in Runs \union {NoRun} /\ tick.at \in {"dispatched", "refused"}
      /\ offered' = (IF offered = r THEN NoRun ELSE offered)
      /\ turn' = [turn EXCEPT ![r] = IF tick.at = "refused" THEN "failed" ELSE turn[r]]
      /\ tick' = NoTick
      /\ UNCHANGED <<overtaken, active, linked, relays, threadOf, chunks, queries, deaf, losses>>
      /\ MapsRest
  BY TickTyped DEF TickEnds, Heard, VmTypeOK
<1>1. tick' \in Ticks /\ tick'.at = "idle"
  BY <1>0, TickTyped
<1> HIDE DEF r
<1>2. VmTypeOK'
  <2>1. turn' \in [Runs -> {"queued", "open", "ended", "failed"}]
    BY <1>0 DEF VmTypeOK
  <2> QED BY <1>0, <1>1, <2>1 DEF VmTypeOK, MapsRest
<1>3. ASSUME active PROVE VmServed'
  <2>1. Mapped' = Mapped /\ convOf' = convOf /\ runOf' = runOf
    BY <1>0 DEF Mapped, MapsRest
  <2>2. offered' = NoRun
    BY <1>0, <1>3 DEF VmServed, OneRunAtATime, r
  <2>3. /\ \A s \in Runs : turn'[s] = turn[s] \/ turn'[s] = "failed"
        /\ \A s \in Mapped : turn'[s] = turn[s]
    BY <1>0, <1>3 DEF VmTypeOK, VmServed, OneRunAtATime, Mapped, r
  <2>4. OneRunAtATime'
    BY <1>1, <1>3, <2>1, <2>2 DEF VmServed, OneRunAtATime
  <2>5. AssignedOnce'
    <3>1. PendingOnce'
      BY <1>1 DEF PendingOnce
    <3>2. \A s \in overtaken : s \in Runs /\ s # NoRun
      BY VmBounds DEF VmTypeOK
    <3> QED BY <1>0, <1>3, <2>2, <2>3, <3>1, <3>2, VmBounds DEF VmServed, AssignedOnce
  <2>6. MappedTillTheLastRelay'
    <3>1. \A s \in Runs : turn'[s] = "open" => turn[s] = "open"
      BY <2>3
    <3>2. \A m \in relays : m.last => m.run \in Mapped
      BY <1>3, VmBounds DEF VmServed, MappedTillTheLastRelay, Mapped, VmTypeOK, Relays
    <3>3. \A m \in relays : m.last => turn'[m.run] = "ended"
      BY <1>3, <2>3, <3>2 DEF VmServed, MappedTillTheLastRelay
    <3> QED BY <1>0, <1>3, <2>1, <2>3, <3>1, <3>3 DEF VmServed, MappedTillTheLastRelay
  <2> QED BY <2>4, <2>5, <2>6 DEF VmServed
<1> QED BY <1>0, <1>2, <1>3 DEF VmIInv, VmServed

\* The conversation of an open turn is mapped to its run.
LEMMA RelayGoesToItsRun ==
  ASSUME VmTypeOK, active => VmServed, NEW r \in Runs, NEW last \in BOOLEAN,
         active, linked, turn[r] = "open", OnBackendMessage(r, last),
         chunks' \in [Runs -> 0..MaxChunks]
  PROVE  VmIInv'
<1> DEFINE m == [run |-> r, thread |-> threadOf[r], last |-> last]
<1>0. /\ UNCHANGED <<overtaken, active, linked, tick, threadOf, offered, queries, deaf, losses>>
      /\ MapsRest /\ turn' = [turn EXCEPT ![r] = IF last THEN "ended" ELSE turn[r]]
  BY DEF OnBackendMessage
<1>1. runOf[threadOf[r]] = r /\ convOf[r] = threadOf[r] /\ r # NoRun /\ threadOf[r] \in Threads
  BY VmBounds DEF VmServed, MappedTillTheLastRelay, VmTypeOK
<1>2. relays' = relays \union {m}
  BY <1>1 DEF OnBackendMessage
<1>3. m \in Relays /\ m.run = r /\ m.thread = threadOf[r] /\ m.last = last
  BY <1>1 DEF Relays
<1> HIDE DEF m
<1>4. VmTypeOK'
  <2>1. turn' \in [Runs -> {"queued", "open", "ended", "failed"}]
    BY <1>0 DEF VmTypeOK
  <2>2. relays' \subseteq Relays
    BY <1>2, <1>3 DEF VmTypeOK
  <2> QED BY <1>0, <2>1, <2>2 DEF VmTypeOK, MapsRest
<1>5. Mapped' = Mapped /\ convOf' = convOf /\ runOf' = runOf
  BY <1>0 DEF Mapped, MapsRest
<1>6. OneRunAtATime'
  BY <1>0, <1>5 DEF VmServed, OneRunAtATime
<1>7. turn'[r] = (IF last THEN "ended" ELSE "open") /\ \A s \in Runs : s # r => turn'[s] = turn[s]
  BY <1>0 DEF VmTypeOK
<1>8. AssignedOnce'
  BY <1>0, <1>5, <1>7 DEF VmServed, AssignedOnce, PendingOnce, VmTypeOK
<1>9. MappedTillTheLastRelay'
  <2>1. \A n \in relays : n.run \in Runs
    BY DEF VmTypeOK, Relays
  <2>2. \A n \in relays : n.last => n.run # r
    BY DEF VmServed, MappedTillTheLastRelay
  <2>3. \A s \in Runs : turn'[s] = "open" => turn[s] = "open"
    BY <1>7
  <2>4. \A n \in relays' : n.last => turn'[n.run] = "ended" /\ convOf[n.run] = n.thread
    BY <1>1, <1>2, <1>3, <1>7, <2>1, <2>2 DEF VmServed, MappedTillTheLastRelay
  <2>5. \A s \in Mapped : turn[s] = "open" => turn'[s] = "open" \/ (m.last /\ m.run = s)
    BY <1>3, <1>7 DEF Mapped
  <2>6. m \in relays' /\ relays \subseteq relays'
    BY <1>2
  <2>7. ~deaf => \A s \in Mapped : turn'[s] = "open" \/ \E n \in relays' : n.last /\ n.run = s
    <3>1. SUFFICES ASSUME ~deaf, NEW s \in Mapped
                   PROVE  turn'[s] = "open" \/ \E n \in relays' : n.last /\ n.run = s
      OBVIOUS
    <3>2. CASE turn[s] = "open"
      BY <2>5, <2>6, <3>2
    <3>3. CASE \E n \in relays : n.last /\ n.run = s
      BY <2>6, <3>3
    <3> QED BY <3>1, <3>2, <3>3 DEF VmServed, MappedTillTheLastRelay
  <2>8. \A n \in relays' : n.thread = threadOf[n.run]
    BY <1>2, <1>3 DEF VmServed, MappedTillTheLastRelay
  <2>9. \A s \in Runs : turn'[s] = "open" => runOf[threadOf[s]] = s /\ convOf[s] = threadOf[s]
    BY <2>3 DEF VmServed, MappedTillTheLastRelay
  <2> QED BY <1>0, <1>5, <2>4, <2>7, <2>8, <2>9 DEF MappedTillTheLastRelay
<1> QED BY <1>0, <1>4, <1>6, <1>8, <1>9 DEF VmIInv

LEMMA StreamsKeeps ==
  ASSUME VmTypeOK, active => VmServed, NEW r \in Runs, Streams(r) \/ EndsTurn(r)
  PROVE  VmIInv'
<1>1. CASE Streams(r)
  <2>1. chunks \in [Runs -> 0..MaxChunks] /\ chunks[r] < MaxChunks
        /\ chunks' = [chunks EXCEPT ![r] = chunks[r] + 1]
    BY <1>1 DEF Streams, VmTypeOK
  <2>2. chunks[r] + 1 \in 0..MaxChunks
    BY <2>1, VmBounds
  <2>3. chunks' \in [Runs -> 0..MaxChunks]
    BY <2>1, <2>2
  <2>4. active /\ linked /\ turn[r] = "open" /\ OnBackendMessage(r, FALSE)
    BY <1>1 DEF Streams
  <2> QED BY <2>3, <2>4, RelayGoesToItsRun
<1>2. CASE EndsTurn(r)
  <2>1. chunks' \in [Runs -> 0..MaxChunks] /\ active /\ linked /\ turn[r] = "open"
        /\ OnBackendMessage(r, TRUE)
    BY <1>2 DEF EndsTurn, VmTypeOK
  <2> QED BY <2>1, RelayGoesToItsRun
<1> QED BY <1>1, <1>2

\* The answer of the last relay finds its run mapped, and no other.
LEMMA RelayAnsweredKeeps ==
  ASSUME VmTypeOK, active => VmServed, NEW m \in relays, RelayAnswered(m)
  PROVE  VmIInv'
<1>0. /\ relays' = relays \ {m} /\ offered' = (IF offered = m.run THEN NoRun ELSE offered)
      /\ overtaken' = overtaken \union
           IF m.last /\ tick.at \in {"answered", "control"} /\ tick.next = m.run
           THEN {m.run} ELSE {}
      /\ UNCHANGED <<active, linked, tick, threadOf, turn, chunks, queries, deaf, losses>>
      /\ m.run \in Runs /\ m.thread \in Threads /\ m.last \in BOOLEAN
  BY DEF RelayAnswered, Heard, VmTypeOK, Relays
<1>1. runOf' \in [Threads -> Runs \union {NoRun}] /\ convOf' \in [Runs -> Threads \union {NoThread}]
  <2>1. CASE m.last
    BY <1>0, <2>1 DEF RelayAnswered, ClearRun, VmTypeOK
  <2>2. CASE ~m.last
    BY <2>2 DEF RelayAnswered, MapsRest, VmTypeOK
  <2> QED BY <2>1, <2>2
<1>2. overtaken' \subseteq Runs
  BY <1>0 DEF VmTypeOK
<1>3. VmTypeOK'
  BY <1>0, <1>1, <1>2 DEF VmTypeOK
<1>4. ASSUME active, ~m.last PROVE VmServed'
  <2>1. Mapped' = Mapped /\ convOf' = convOf /\ runOf' = runOf
    BY <1>0, <1>4 DEF RelayAnswered, MapsRest, Mapped
  <2> overtaken' = overtaken
    BY <1>0, <1>4 DEF VmTypeOK
  <2>2. OneRunAtATime'
    BY <1>0, <1>4, <2>1 DEF VmServed, OneRunAtATime
  <2>3. AssignedOnce'
    <3>1. PendingOnce'
      BY <1>0, <1>4, <2>1 DEF VmServed, AssignedOnce, PendingOnce
    <3>2. \A s \in overtaken : s # NoRun
      BY VmBounds DEF VmTypeOK
    <3> QED BY <1>0, <1>4, <2>1, <3>1, <3>2, VmBounds DEF VmServed, AssignedOnce
  <2>4. ASSUME NEW s \in Runs, \E n \in relays : n.last /\ n.run = s
        PROVE  \E n \in relays' : n.last /\ n.run = s
    BY <1>0, <1>4, <2>4
  <2>5. MappedTillTheLastRelay'
    BY <1>0, <1>4, <2>1, <2>4 DEF VmServed, MappedTillTheLastRelay, Mapped
  <2> QED BY <2>2, <2>3, <2>5 DEF VmServed
<1>5. ASSUME active, m.last PROVE VmServed'
  <2>1. /\ convOf[m.run] = m.thread /\ turn[m.run] = "ended" /\ Mapped = {m.run}
        /\ offered \in {m.run, NoRun}
    BY <1>0, <1>5, VmBounds DEF VmServed, MappedTillTheLastRelay, OneRunAtATime, Mapped, VmTypeOK
  <2>2. \A s \in Runs : convOf'[s] = NoThread
    <3>1. \A s \in Runs \ {m.run} : convOf[s] = NoThread
      BY <2>1 DEF Mapped
    <3>2. convOf'[m.run] = NoThread
      BY <1>0, <1>5 DEF RelayAnswered, ClearRun
    <3>3. \A s \in Runs : convOf'[s] \in {NoThread, convOf[s]}
      BY <1>5 DEF RelayAnswered, ClearRun
    <3> QED BY <3>1, <3>2, <3>3
  <2>3. Mapped' = {}
    BY <2>2 DEF Mapped
  <2>4. offered' = NoRun
    BY <1>0, <2>1
  <2>5. OneRunAtATime'
    BY <1>0, <1>5, <2>3, <2>4 DEF VmServed, OneRunAtATime
  <2>6. tick.at \in {"answered", "control"} /\ tick.next \in Runs => tick.next = m.run
    BY <1>5, <2>1 DEF VmServed, OneRunAtATime
  <2>7. tick.at # "dispatch"
    BY <1>5, <2>1 DEF VmServed, OneRunAtATime
  <2>8. AssignedOnce'
    <3>1. \A s \in overtaken' : s \in Runs /\ s # NoRun
      BY <1>2, VmBounds
    <3>2. /\ \A s \in Runs : queries[s] \in Nat /\ queries[s] <= IF s \in overtaken' THEN 2 ELSE 1
          /\ \A s \in overtaken' : turn[s] # "queued"
      BY <1>0, <1>5, <2>1 DEF VmServed, AssignedOnce, VmTypeOK
    <3>3. PendingOnce'
      <4>1. SUFFICES ASSUME tick.at \in {"answered", "control"}, tick.next \in Runs
                     PROVE  tick.next \in overtaken' /\ queries[tick.next] <= 1
        BY <1>0, <2>2, <2>7 DEF PendingOnce
      <4>2. tick.next = m.run /\ m.run \in overtaken'
        BY <1>0, <1>5, <2>6, <4>1
      <4>3. m.run \notin overtaken
        BY <1>0, <1>5, <2>1, <4>1, <4>2, VmBounds
           DEF VmServed, AssignedOnce, PendingOnce, VmTypeOK
      <4> QED BY <1>0, <1>5, <4>2, <4>3 DEF VmServed, AssignedOnce
    <3> QED BY <1>0, <1>5, <2>4, <3>1, <3>2, <3>3, VmBounds DEF VmServed, AssignedOnce
  <2>9. MappedTillTheLastRelay'
    <3>1. \A s \in Runs : turn[s] # "open"
      BY <1>5, <2>1, VmBounds DEF VmServed, MappedTillTheLastRelay, Mapped, VmTypeOK
    <3>2. \A n \in relays : n.last => n = m
      <4>1. ASSUME NEW n \in relays, n.last PROVE n = m
        <5>1. n.run = m.run
          BY <1>5, <2>1, <4>1, VmBounds DEF VmServed, MappedTillTheLastRelay, Mapped, VmTypeOK, Relays
        <5>2. n.thread = m.thread /\ n.last = m.last
          BY <1>5, <4>1, <5>1 DEF VmServed, MappedTillTheLastRelay, VmTypeOK, Relays
        <5> QED BY <5>1, <5>2 DEF VmTypeOK, Relays
      <4> QED BY <4>1
    <3> QED BY <1>0, <1>5, <2>3, <3>1, <3>2 DEF VmServed, MappedTillTheLastRelay
  <2> QED BY <2>5, <2>8, <2>9 DEF VmServed
<1> QED BY <1>0, <1>3, <1>4, <1>5 DEF VmIInv, VmServed

\* A relay that fails, or a link that drops, may leave a run mapped for ever.
LEMMA LossesKeep ==
  ASSUME VmTypeOK, active => VmServed, LinkDrops \/ \E m \in relays : RelayFails(m)
  PROVE  VmIInv'
<1>0. /\ UNCHANGED <<overtaken, active, tick, threadOf, chunks, queries>> /\ MapsRest
      /\ Mapped' = Mapped /\ losses' \in 0..MaxLosses
  BY LossCounted DEF LinkDrops, RelayFails, MapsRest, Mapped
<1>1. CASE LinkDrops
  <2>1. /\ UNCHANGED <<relays, offered>> /\ linked' = FALSE
        /\ turn' = [r \in Runs |-> IF turn[r] = "open" THEN "ended" ELSE turn[r]]
        /\ deaf' = (deaf \/ \E r \in Runs : turn[r] = "open")
    BY <1>1 DEF LinkDrops
  <2>2. turn' \in [Runs -> {"queued", "open", "ended", "failed"}] /\ deaf' \in BOOLEAN
    BY <2>1 DEF VmTypeOK
  <2>3. VmTypeOK'
    BY <1>0, <2>1, <2>2 DEF VmTypeOK, MapsRest
  <2>4. /\ \A r \in Runs : turn'[r] # "open" /\ (turn[r] # "open" => turn'[r] = turn[r])
        /\ \A r \in Runs : turn'[r] = "queued" => turn[r] = "queued"
    BY <2>1 DEF VmTypeOK
  <2>5. ASSUME active PROVE VmServed'
    <3>1. OneRunAtATime' /\ AssignedOnce'
      BY <1>0, <2>1, <2>4, <2>5
         DEF VmServed, OneRunAtATime, AssignedOnce, PendingOnce, MapsRest, VmTypeOK
    <3>2. \A m \in relays : m.last => turn'[m.run] = "ended"
      BY <2>4, <2>5 DEF VmServed, MappedTillTheLastRelay, VmTypeOK, Relays
    <3>3. ~deaf' => ~deaf /\ \A s \in Runs : turn[s] # "open"
      BY <2>1
    <3>4. MappedTillTheLastRelay'
      BY <1>0, <2>1, <2>4, <2>5, <3>2, <3>3
         DEF VmServed, MappedTillTheLastRelay, MapsRest, Mapped
    <3> QED BY <3>1, <3>4 DEF VmServed
  <2> QED BY <1>0, <2>3, <2>5 DEF VmIInv, VmServed
<1>2. ASSUME NEW m \in relays, RelayFails(m) PROVE VmIInv'
  <2>1. /\ relays' = relays \ {m} /\ offered' \in {offered, NoRun} /\ UNCHANGED <<linked, turn>>
        /\ deaf' = (deaf \/ m.last) /\ m.last \in BOOLEAN
    BY <1>2 DEF RelayFails, Heard, VmTypeOK, Relays
  <2>2. deaf' \in BOOLEAN
    BY <2>1 DEF VmTypeOK
  <2>3. VmTypeOK'
    BY <1>0, <2>1, <2>2 DEF VmTypeOK, MapsRest
  <2>4. ASSUME active PROVE VmServed'
    <3>0. \A s \in overtaken : s # NoRun
      BY VmBounds DEF VmTypeOK
    <3>1. OneRunAtATime' /\ AssignedOnce'
      BY <1>0, <2>1, <2>4, <3>0, VmBounds
         DEF VmServed, OneRunAtATime, AssignedOnce, PendingOnce, MapsRest
    <3>2. ~deaf' => ~deaf /\ ~m.last
      BY <2>1
    <3>3. MappedTillTheLastRelay'
      BY <1>0, <2>1, <2>4, <3>2 DEF VmServed, MappedTillTheLastRelay, MapsRest
    <3> QED BY <3>1, <3>3 DEF VmServed
  <2> QED BY <1>0, <2>3, <2>4 DEF VmIInv, VmServed
<1> QED BY <1>1, <1>2

LEMMA VmNextPreserves == VmIInv /\ [VmNext]_vmVars => VmIInv'
<1>1. SUFFICES ASSUME VmIInv, [VmNext]_vmVars PROVE VmIInv'
  OBVIOUS
<1>2. VmTypeOK /\ (active => VmServed)
  BY <1>1 DEF VmIInv, VmServed
<1>3. CASE LinkReturns \/ UNCHANGED vmVars
  <2>1. /\ UNCHANGED <<active, tick, relays, deaf, overtaken, threadOf, offered, turn, chunks,
                       queries, losses>>
        /\ MapsRest
    BY <1>3 DEF LinkReturns, vmVars, ServiceRests, MapsRest
  <2>2. linked' \in BOOLEAN /\ tick' \in Ticks /\ losses' \in 0..MaxLosses
    BY <1>2, <1>3, <2>1 DEF LinkReturns, vmVars, VmTypeOK
  <2>3. ASSUME active PROVE TickServed'
    <3>1. TickServed /\ Mapped' = Mapped
      BY <1>2, <2>1, <2>3, ServedTick DEF MapsRest, Mapped
    <3> QED BY <2>1, <3>1 DEF TickServed, PendingOnce, MapsRest
  <2> QED BY <1>2, <2>1, <2>2, <2>3, TickMoves
<1>4. CASE Stop
  <2>1. VmTypeOK'
    BY <1>2, <1>4 DEF Stop, VmTypeOK, ServiceRests
  <2> QED BY <1>4, <2>1 DEF Stop, VmIInv
<1>5. ASSUME NEW m \in relays, RelayAnswered(m) \/ RelayFails(m) PROVE VmIInv'
  BY <1>2, <1>5, RelayAnsweredKeeps, LossesKeep
<1>6. ASSUME NEW r \in Runs, Streams(r) \/ EndsTurn(r) PROVE VmIInv'
  BY <1>2, <1>6, StreamsKeeps
<1>7. CASE HeartbeatTick \/ HeartbeatAnswered \/ ControlApplied \/ QueryRefused \/ TickFails
  BY <1>2, <1>7, TickStepsKeep
<1>8. CASE HeartbeatServed \/ QuerySent \/ TickEnds \/ LinkDrops
  BY <1>2, <1>8, HeartbeatServedKeeps, QuerySentKeeps, TickEndsKeeps, LossesKeep
<1> QED BY <1>1, <1>3, <1>4, <1>5, <1>6, <1>7, <1>8 DEF VmNext

LEMMA VmInvariant == VmSpec => []VmIInv
<1>1. ASSUME VmInit PROVE VmIInv
  <2>1. VmTypeOK
    <3>1. tick \in Ticks /\ relays \subseteq Relays /\ threadOf \in [Runs -> Threads]
      BY <1>1, TickTyped DEF VmInit
    <3>2. /\ runOf \in [Threads -> Runs \union {NoRun}] /\ convOf \in [Runs -> Threads \union {NoThread}]
          /\ turn \in [Runs -> {"queued", "open", "ended", "failed"}]
      BY <1>1 DEF VmInit
    <3>3. chunks \in [Runs -> 0..MaxChunks] /\ queries \in [Runs -> Nat] /\ losses \in 0..MaxLosses
      BY <1>1, VmBounds DEF VmInit
    <3> QED BY <1>1, <3>1, <3>2, <3>3 DEF VmInit, VmTypeOK
  <2>2. Mapped = {} /\ tick.at = "idle" /\ offered = NoRun /\ relays = {}
        /\ \A r \in Runs : turn[r] = "queued" /\ queries[r] = 0
    BY <1>1, TickTyped DEF VmInit, Mapped
  <2>3. OneRunAtATime
    BY <2>2 DEF OneRunAtATime
  <2>4. AssignedOnce
    <3>1. overtaken = {}
      BY <1>1 DEF VmInit
    <3> QED BY <2>2, <3>1, VmBounds DEF AssignedOnce, PendingOnce
  <2>5. MappedTillTheLastRelay
    BY <2>2 DEF MappedTillTheLastRelay
  <2> QED BY <2>1, <2>3, <2>4, <2>5 DEF VmIInv
<1> QED BY <1>1, VmNextPreserves, PTL DEF VmSpec

\* A run is queried once, or twice if its end overtakes an answer that
\* assigns it again, relayed while its turn is open and cleared at its end,
\* for any number of runs and conversations and whatever calls are lost.
THEOREM RunsAreServedHolds == VmSpec => []RunsAreServed
<1>1. ASSUME VmIInv PROVE RunsAreServed
  <2>1. SUFFICES ASSUME active, NEW r \in Runs
                 PROVE  /\ QueriedOnce(r)
                        /\ RelayedWhileOpen(r)
                        /\ relays # {} \/ deaf \/ ClearedAtItsEnd(r)
    BY DEF RunsAreServed
  <2>2. QueriedOnce(r)
    BY <1>1, <2>1 DEF VmIInv, AssignedOnce, QueriedOnce
  <2>3. RelayedWhileOpen(r)
    BY <1>1, <2>1 DEF VmIInv, MappedTillTheLastRelay, RelayedWhileOpen
  <2>4. relays # {} \/ deaf \/ ClearedAtItsEnd(r)
    BY <1>1, <2>1 DEF VmIInv, MappedTillTheLastRelay, Mapped, ClearedAtItsEnd
  <2> QED BY <2>2, <2>3, <2>4
<1> QED BY <1>1, VmInvariant, PTL
=============================================================================

----------------------- MODULE BackendConnection_proofs -----------------------
(***************************************************************************)
(* The safety invariants of BackendConnection hold for any number of       *)
(* sockets and callers.  None of them is inductive alone: whether a waiter *)
(* is served depends on what the timers and the socket can be doing, which *)
(* the conjuncts of Consistent pin down.                                   *)
(***************************************************************************)
EXTENDS BackendConnection, TLAPS

\* What each part of the state says about the others between two callbacks.
Consistent ==
  /\ ws # NoSocket =>
       /\ readyState[ws] # "unused"
       /\ installToken
       /\ readyState[ws] \in {"connecting", "open"} => shouldMaintainBackendConnection
       /\ readyState[ws] = "open" => isConnected
  /\ backendIdleDisconnectTimer =>
       /\ shouldMaintainBackendConnection
       /\ isConnected
       /\ ws # NoSocket /\ readyState[ws] \in {"open", "peer-closing"}
  /\ Waiting # {} \/ backendReconnectTimer => installToken
  /\ (\E r \in Requests : call[r] = "auth") => shouldMaintainBackendConnection
  /\ \A s \in Sockets : readyState[s] = "connecting" => s \notin opened

IInv ==
  /\ TypeOK
  /\ OneLiveSocket
  /\ WaitersAreServed
  /\ IdleTimerTracksQuiet
  /\ ReconnectOnlyWhenDown
  /\ Consistent

-----------------------------------------------------------------------------
\* The typing of the state is kept by every callback.
LEMMA TypeStep == TypeOK /\ [Next]_connectionVars => TypeOK'
<1> SUFFICES ASSUME TypeOK, [Next]_connectionVars PROVE TypeOK'
    OBVIOUS
<1> USE SocketAssumption DEF TypeOK, ReadyStates, CallStates, Phases, ActivePhases
<1>1. ASSUME NEW r \in Requests, EnsureBackendConnection(r) PROVE TypeOK'
    BY <1>1 DEF EnsureBackendConnection, ServeOrWait, Connect, Usable, IdleTimerSynced
<1>2. ASSUME NEW r \in Requests, WaiterTimesOut(r) PROVE TypeOK'
    BY <1>2 DEF WaiterTimesOut
<1>12. ASSUME NEW r \in Requests, NEW p \in Phases, CallReturns(r, p) PROVE TypeOK'
    BY <1>12 DEF CallReturns, SetResponseOverlayPhase, IdleTimerSynced, Usable
<1>3. CASE InstallAuthSettles
    BY <1>3 DEF InstallAuthSettles, ServeOrWait, Connect, Usable, IdleTimerSynced
<1>4. CASE InstallStateLoads
    BY <1>4 DEF InstallStateLoads
<1>5. ASSUME NEW s \in Sockets, NEW sent \in BOOLEAN, SocketOpens(s, sent) PROVE TypeOK'
    BY <1>5 DEF SocketOpens, OnOpen, IdleTimerSynced
<1>6. ASSUME NEW s \in Sockets, PeerCloses(s) PROVE TypeOK'
    BY <1>6 DEF PeerCloses
<1>13. ASSUME NEW s \in Sockets, NEW p \in Phases, BackendMessage(s, p) PROVE TypeOK'
    BY <1>13 DEF BackendMessage, SetResponseOverlayPhase, IdleTimerSynced, Usable
<1>7. ASSUME NEW s \in Sockets, SocketCloses(s) PROVE TypeOK'
    BY <1>7 DEF SocketCloses, OnClose, ShouldReconnect
<1>8. CASE ReconnectTimerFires
    BY <1>8 DEF ReconnectTimerFires, Connect
<1>9. CASE IdleTimerFires
    BY <1>9 DEF IdleTimerFires, Live
<1>10. ASSUME NEW p \in Phases, PhaseMoves(p) PROVE TypeOK'
    BY <1>10 DEF PhaseMoves, SetResponseOverlayPhase, IdleTimerSynced, Usable
<1>11. CASE UNCHANGED connectionVars
    BY <1>11 DEF connectionVars
<1> QED
    BY <1>1, <1>2, <1>3, <1>4, <1>5, <1>6, <1>7, <1>8, <1>9, <1>10, <1>11, <1>12, <1>13
    DEF Next

\* Type correctness of every reachable state, for any sockets and callers.
THEOREM TypeCorrect == Spec => []TypeOK
<1>1. Init => TypeOK
    BY SocketAssumption DEF Init, TypeOK, ReadyStates, CallStates, Phases
<1> QED
    BY <1>1, TypeStep, PTL DEF Spec

-----------------------------------------------------------------------------
\* The conjuncts of IInv a step can disturb, once it is known to keep the types.
Safe ==
  OneLiveSocket /\ WaitersAreServed /\ IdleTimerTracksQuiet /\ ReconnectOnlyWhenDown

\* connect() without a usable socket leaves exactly one socket dialling or open,
\* the current one, and it is dialling.
LEMMA ConnectDials ==
  ASSUME IInv, Connect, ~Usable
  PROVE  /\ ws' \in Sockets
         /\ readyState'[ws'] = "connecting"
         /\ \A s \in Sockets : readyState'[s] \in {"connecting", "open"} => s = ws'
         /\ \A s \in Sockets : readyState'[s] = "connecting" => s \notin opened'
<1> USE SocketAssumption DEF IInv, TypeOK, Consistent, OneLiveSocket, Usable
<1>1. CASE Live(ws)
    BY <1>1 DEF Connect, Live
<1>2. CASE ~Live(ws)
    BY <1>2 DEF Connect, Live
<1> QED BY <1>1, <1>2

LEMMA CallStep ==
  ASSUME IInv, TypeOK', NEW r \in Requests,
         \/ EnsureBackendConnection(r) \/ WaiterTimesOut(r)
         \/ \E p \in Phases : CallReturns(r, p)
  PROVE  Safe' /\ Consistent'
<1> USE SocketAssumption DEF IInv, TypeOK, Consistent, Safe, OneLiveSocket, WaitersAreServed,
        IdleTimerTracksQuiet, ReconnectOnlyWhenDown, Waiting
<1>1. CASE EnsureBackendConnection(r)
  <2>1. CASE ~installToken
    BY <1>1, <2>1 DEF EnsureBackendConnection
  <2>2. CASE installToken /\ Usable
    BY <1>1, <2>2 DEF EnsureBackendConnection, ServeOrWait, Usable, IdleTimerSynced
  <2>3. CASE installToken /\ ~Usable
    BY <1>1, <2>3 DEF EnsureBackendConnection, ServeOrWait, Usable, Connect, Live
  <2> QED BY <2>1, <2>2, <2>3
<1>2. ASSUME NEW p \in Phases, CallReturns(r, p) PROVE Safe' /\ Consistent'
    BY <1>2 DEF CallReturns, SetResponseOverlayPhase, IdleTimerSynced, Usable
<1>3. CASE WaiterTimesOut(r)
    BY <1>3 DEF WaiterTimesOut
<1> QED BY <1>1, <1>2, <1>3

LEMMA AuthStep ==
  ASSUME IInv, TypeOK', InstallAuthSettles \/ InstallStateLoads
  PROVE  Safe' /\ Consistent'
<1> USE SocketAssumption DEF IInv, TypeOK, Consistent, Safe, OneLiveSocket, WaitersAreServed,
        IdleTimerTracksQuiet, ReconnectOnlyWhenDown, Waiting
<1>1. CASE InstallAuthSettles
  <2>1. CASE Usable
    BY <1>1, <2>1 DEF InstallAuthSettles, ServeOrWait, Usable, IdleTimerSynced
  <2>2. CASE ~Usable /\ installToken'
    <3>1. /\ \E r \in Requests : call[r] = "auth"
          /\ Connect
          /\ ~backendIdleDisconnectTimer'
          /\ \A r \in Requests : call'[r] # "auth"
          /\ UNCHANGED <<isConnected, shouldMaintainBackendConnection,
                         backendReconnectTimer, phase>>
        BY <1>1, <2>2 DEF InstallAuthSettles, ServeOrWait
    <3> QED
        BY <2>2, <3>1, ConnectDials
  <2>3. CASE ~Usable /\ ~installToken'
    BY <1>1, <2>3 DEF InstallAuthSettles, ServeOrWait
  <2> QED BY <2>1, <2>2, <2>3
<1>2. CASE InstallStateLoads
    BY <1>2 DEF InstallStateLoads
<1> QED BY <1>1, <1>2

LEMMA SocketStep ==
  ASSUME IInv, TypeOK', NEW s \in Sockets,
         \/ \E sent \in BOOLEAN : SocketOpens(s, sent)
         \/ PeerCloses(s) \/ SocketCloses(s)
         \/ \E p \in Phases : BackendMessage(s, p)
  PROVE  Safe' /\ Consistent'
<1> USE SocketAssumption DEF IInv, TypeOK, Consistent, Safe, OneLiveSocket, WaitersAreServed,
        IdleTimerTracksQuiet, ReconnectOnlyWhenDown, Waiting
<1>1. ASSUME NEW sent \in BOOLEAN, SocketOpens(s, sent) PROVE Safe' /\ Consistent'
    BY <1>1 DEF SocketOpens, OnOpen, IdleTimerSynced, ActivePhases
<1>2. CASE PeerCloses(s)
    BY <1>2 DEF PeerCloses
<1>3. CASE SocketCloses(s)
    BY <1>3 DEF SocketCloses, OnClose, ShouldReconnect
<1>4. ASSUME NEW p \in Phases, BackendMessage(s, p) PROVE Safe' /\ Consistent'
    BY <1>4 DEF BackendMessage, SetResponseOverlayPhase, IdleTimerSynced, Usable
<1> QED BY <1>1, <1>2, <1>3, <1>4

LEMMA TimerStep ==
  ASSUME IInv, TypeOK',
         ReconnectTimerFires \/ IdleTimerFires \/ \E p \in Phases : PhaseMoves(p)
  PROVE  Safe' /\ Consistent'
<1> USE SocketAssumption DEF IInv, TypeOK, Consistent, Safe, OneLiveSocket, WaitersAreServed,
        IdleTimerTracksQuiet, ReconnectOnlyWhenDown, Waiting
<1>1. CASE ReconnectTimerFires
  <2>1. /\ ~Usable /\ ~backendIdleDisconnectTimer
        /\ shouldMaintainBackendConnection
        /\ Connect
    BY <1>1 DEF ReconnectTimerFires, Usable
  <2>2. /\ UNCHANGED <<isConnected, shouldMaintainBackendConnection, installToken,
                       backendIdleDisconnectTimer, phase, call>>
        /\ ~backendReconnectTimer'
    BY <1>1 DEF ReconnectTimerFires
  <2>3. installToken
    BY <1>1 DEF ReconnectTimerFires
  <2> QED
    BY <2>1, <2>2, <2>3, ConnectDials
<1>2. CASE IdleTimerFires
    BY <1>2 DEF IdleTimerFires, Live
<1>3. ASSUME NEW p \in Phases, PhaseMoves(p) PROVE Safe' /\ Consistent'
    BY <1>3 DEF PhaseMoves, SetResponseOverlayPhase, IdleTimerSynced, Usable
<1> QED BY <1>1, <1>2, <1>3

LEMMA InductiveStep == IInv /\ [Next]_connectionVars => IInv'
<1> SUFFICES ASSUME IInv, [Next]_connectionVars PROVE IInv'
    OBVIOUS
<1>1. TypeOK'
    BY TypeStep DEF IInv
<1>2. CASE UNCHANGED connectionVars
    BY <1>2 DEF connectionVars, IInv, TypeOK, Consistent, OneLiveSocket, WaitersAreServed,
       IdleTimerTracksQuiet, ReconnectOnlyWhenDown, Waiting
<1>3. CASE Next
    BY <1>1, <1>3, CallStep, AuthStep, SocketStep, TimerStep DEF Next, Safe, IInv
<1> QED BY <1>2, <1>3

LEMMA InvariantHolds == Spec => []IInv
<1>1. Init => IInv
    BY SocketAssumption DEF Init, IInv, TypeOK, ReadyStates, CallStates, Phases, Consistent,
       OneLiveSocket, WaitersAreServed, IdleTimerTracksQuiet, ReconnectOnlyWhenDown, Waiting
<1> QED BY <1>1, InductiveStep, PTL DEF Spec

\* At most the current socket of the bridge is dialling or open.
THEOREM OneLiveSocketHolds == Spec => []OneLiveSocket
BY InvariantHolds, PTL DEF IInv

\* A caller that waits for the connection always has a dial or a reconnect
\* timer behind it.
THEOREM WaitersAreServedHolds == Spec => []WaitersAreServed
BY InvariantHolds, PTL DEF IInv

\* The idle timer is armed exactly while the open socket is quiet.
THEOREM IdleTimerTracksQuietHolds == Spec => []IdleTimerTracksQuiet
BY InvariantHolds, PTL DEF IInv

\* A reconnect is pending only while the link is down and wanted.
THEOREM ReconnectOnlyWhenDownHolds == Spec => []ReconnectOnlyWhenDown
BY InvariantHolds, PTL DEF IInv

\* Demand is withdrawn by the idle timer alone, and then no loop is active and
\* nobody waits.
THEOREM DemandIsWithdrawnOnlyWhenQuietHolds == Spec => DemandIsWithdrawnOnlyWhenQuiet
<1> DEFINE Withdrawal ==
      shouldMaintainBackendConnection /\ ~shouldMaintainBackendConnection'
        => Waiting = {} /\ phase \notin ActivePhases
<1>1. IInv /\ [Next]_connectionVars => [Withdrawal]_connectionVars
  <2> SUFFICES ASSUME IInv, Next, shouldMaintainBackendConnection,
                      ~shouldMaintainBackendConnection'
               PROVE  Waiting = {} /\ phase \notin ActivePhases
      OBVIOUS
  <2>1. IdleTimerFires
      BY DEF Next, EnsureBackendConnection, CallReturns, WaiterTimesOut, InstallAuthSettles,
         InstallStateLoads, SocketOpens, OnOpen, PeerCloses, SocketCloses, OnClose,
         BackendMessage, ReconnectTimerFires, PhaseMoves
  <2>2. ws # NoSocket /\ readyState[ws] \in {"open", "peer-closing"}
      BY <2>1 DEF IdleTimerFires, IInv, Consistent
  <2> QED
      BY <2>1, <2>2 DEF IdleTimerFires, IInv, WaitersAreServed, IdleTimerTracksQuiet
<1> QED
    BY <1>1, InvariantHolds, PTL DEF Spec, Withdrawal, DemandIsWithdrawnOnlyWhenQuiet
=============================================================================

------------------------------- MODULE VmWorker -------------------------------
(***************************************************************************)
(* The worker of a VM (vm_worker_runtime.cjs): heartbeats over HTTP fetch  *)
(* runs, a run is put as a query on the websocket, and what the websocket  *)
(* streams in the conversation of the run is relayed to it over HTTP until *)
(* the turn has ended.                                                     *)
(*                                                                         *)
(* The service behind the API is external.  It is taken to hand a run to a *)
(* worker that reports ready, and to repeat it until it hears of the run:  *)
(* that is what the status in the heartbeat and the test for a run that is *)
(* active already are for.  A user of the VM types nothing in the          *)
(* conversations of its runs.                                              *)
(***************************************************************************)
EXTENDS Naturals, FiniteSets

CONSTANTS
  Runs, NoRun,
  Threads, NoThread,  \* conversations of runs
  MaxChunks,          \* bound: events a turn streams before it ends
  MaxLosses           \* bound: HTTP calls that fail and links that drop

ASSUME VmBounds == NoRun \notin Runs /\ NoThread \notin Threads 
                   /\ MaxChunks \in Nat /\ MaxLosses \in Nat

VARIABLES
  active,
  linked,      \* isBackendWebSocketConnected
  tick,        \* where heartbeatTick is suspended: see Ticks
  runOf,       \* activeConversationRunMap
  convOf,      \* activeRunConversationMap
  relays,      \* the relays under way: see Relays
  threadOf,    \* the conversation each run was created with
  offered,     \* the run the service has assigned and not heard of
  turn,        \* the turn of each run at the backend
  chunks,      \* what each turn has streamed
  queries,     \* history: how often the query of each run was sent
  deaf,        \* history: an ended run whose last relay failed, or whose link dropped
  overtaken,   \* history: runs cleared under an answer that assigns them
  losses

vmVars == <<active, linked, tick, runOf, convOf, relays, threadOf, offered, turn,
            chunks, queries, deaf, overtaken, losses>>

-----------------------------------------------------------------------------
(* "beat", "control", "dispatch", "refused" and "dispatched" are the       *)
(* awaits of the heartbeat, of run-control-applied, of sendAutomatedQuery, *)
(* of the error event and of worker-dispatched; at "answered" the service  *)
(* has answered the heartbeat, and the answer is on its way.  next is the  *)
(* run the answer assigns.                                                 *)
Ticks == [at : {"idle", "beat", "answered", "control", "dispatch", "refused", "dispatched"},
          ready : BOOLEAN, next : Runs \union {NoRun}]
NoTick == [at |-> "idle", ready |-> FALSE, next |-> NoRun]

Relays == [run : Runs, thread : Threads, last : BOOLEAN]

Loss == losses < MaxLosses /\ losses' = losses + 1
ServiceRests == UNCHANGED <<offered, turn, chunks, queries, threadOf>>
MapsRest == UNCHANGED <<runOf, convOf>>

-----------------------------------------------------------------------------
(* clearRunMapping: the run, whatever conversation it is mapped to, and    *)
(* the conversation, whatever run that is mapped to.                       *)
ClearRun(r, t) ==
  LET conversation == convOf[r]
      runs == [u \in Threads |-> IF u = conversation THEN NoRun ELSE runOf[u]]
      previous == runs[t]
  IN /\ runOf' = [runs EXCEPT ![t] = NoRun]
     /\ convOf' = [s \in Runs |-> IF s \in {r, previous} THEN NoThread ELSE convOf[s]]

(* start and the interval.  A tick while one is under way does nothing.    *)
HeartbeatTick ==
  /\ active /\ tick.at = "idle" /\ linked
  /\ tick' = [at |-> "beat", ready |-> \A r \in Runs : convOf[r] = NoThread, next |-> NoRun]
  /\ UNCHANGED <<overtaken, active, linked, relays, deaf, losses>>
  /\ MapsRest /\ ServiceRests

(* A run that is active already is dispatched again.                       *)
Dispatches_Again(r) ==
  tick' = IF r = NoRun THEN NoTick ELSE [tick EXCEPT !.at = "dispatch", !.next = r]

(* dispatchAssignedRun up to the query: a run that is active already is    *)
(* not dispatched again.                                                   *)
Dispatches(r) ==
  tick' = IF r = NoRun \/ convOf[r] # NoThread
          THEN NoTick ELSE [tick EXCEPT !.at = "dispatch", !.next = r]

(* The service answers the heartbeat: it assigns the run it has not heard  *)
(* of, or a new one if the worker was ready.                               *)
Assigned(r) ==
  /\ offered' = r
  /\ r = offered \/ (offered = NoRun /\ tick.ready /\ r \in Runs /\ turn[r] = "queued")

HeartbeatServed ==
  /\ tick.at = "beat"
  /\ \E r \in Runs \union {NoRun} :
       Assigned(r) /\ tick' = [tick EXCEPT !.at = "answered", !.next = r]
  /\ UNCHANGED <<overtaken, active, linked, relays, threadOf, turn, chunks, queries, deaf,
                 losses>>
  /\ MapsRest

(* The answer arrives, perhaps with a stop for the run the worker has by   *)
(* now, which ends its turn.                                               *)
HeartbeatAnswered ==
  /\ tick.at = "answered"
  /\ \/ Dispatches(tick.next)
     \/ /\ \E s \in Runs : convOf[s] # NoThread
        /\ tick' = [tick EXCEPT !.at = "control"]
  /\ UNCHANGED <<overtaken, active, linked, relays, deaf, losses>>
  /\ MapsRest /\ ServiceRests

(* run-control-applied was posted, and the assigned run is looked at.      *)
ControlApplied ==
  /\ tick.at = "control"
  /\ Dispatches(tick.next)
  /\ UNCHANGED <<overtaken, active, linked, relays, deaf, losses>>
  /\ MapsRest /\ ServiceRests

(* sendAutomatedQuery resolves: the query is out, and the run is mapped in *)
(* the same task.                                                          *)
QuerySent ==
  /\ tick.at = "dispatch" /\ linked
  /\ LET r == tick.next IN
       /\ runOf' = [runOf EXCEPT ![threadOf[r]] = r]
       /\ convOf' = [convOf EXCEPT ![r] = threadOf[r]]
       /\ turn' = [turn EXCEPT ![r] = "open"]
       /\ queries' = [queries EXCEPT ![r] = @ + 1]
  /\ tick' = [tick EXCEPT !.at = "dispatched"]
  /\ UNCHANGED <<overtaken, active, linked, relays, threadOf, offered, chunks, deaf, losses>>

(* sendAutomatedQuery gives up: the run gets an error event.               *)
QueryRefused ==
  /\ tick.at = "dispatch" /\ Loss
  /\ tick' = [tick EXCEPT !.at = "refused"]
  /\ UNCHANGED <<overtaken, active, linked, relays, deaf>>
  /\ MapsRest /\ ServiceRests

(* The service hears of run r.                                             *)
Heard(r) == offered' = IF offered = r THEN NoRun ELSE offered

(* The last call of the tick is answered: the run was dispatched, or has   *)
(* failed before its query was sent.                                       *)
TickEnds ==
  /\ tick.at \in {"dispatched", "refused"}
  /\ Heard(tick.next)
  /\ turn' = [turn EXCEPT ![tick.next] = IF tick.at = "refused" THEN "failed" ELSE @]
  /\ tick' = NoTick
  /\ UNCHANGED <<overtaken, active, linked, relays, threadOf, chunks, queries, deaf, losses>>
  /\ MapsRest

(* A call of the tick fails, before or after the service has heard of it.  *)
TickFails ==
  /\ tick.at \in {"beat", "answered", "control", "dispatched", "refused"} /\ Loss
  /\ tick' = NoTick
  /\ UNCHANGED <<overtaken, active, linked, relays, deaf>>
  /\ MapsRest /\ ServiceRests

-----------------------------------------------------------------------------
(* onBackendMessage: the run of the conversation is looked up, and the     *)
(* event posted to it.  The posts are not kept in order.                   *)
OnBackendMessage(r, last) ==
  LET t == threadOf[r] IN
  /\ relays' = IF runOf[t] = NoRun THEN relays
               ELSE relays \union {[run |-> runOf[t], thread |-> t, last |-> last]}
  /\ turn' = [turn EXCEPT ![r] = IF last THEN "ended" ELSE @]
  /\ UNCHANGED <<overtaken, active, linked, tick, threadOf, offered, queries, deaf, losses>>
  /\ MapsRest

Streams(r) ==
  /\ active /\ linked /\ turn[r] = "open" /\ chunks[r] < MaxChunks
  /\ chunks' = [chunks EXCEPT ![r] = @ + 1]
  /\ OnBackendMessage(r, FALSE)

EndsTurn(r) ==
  /\ active /\ linked /\ turn[r] = "open"
  /\ OnBackendMessage(r, TRUE)
  /\ UNCHANGED chunks

(* A relay is answered; after the last event the run is cleared.           *)
RelayAnswered(m) ==
  /\ m \in relays
  /\ relays' = relays \ {m}
  /\ Heard(m.run)
  /\ IF m.last THEN ClearRun(m.run, m.thread) ELSE MapsRest
  /\ overtaken' = overtaken \union
       IF m.last /\ tick.at \in {"answered", "control"} /\ tick.next = m.run
       THEN {m.run} ELSE {}
  /\ UNCHANGED <<active, linked, tick, threadOf, turn, chunks, queries, deaf, losses>>

(* A relay fails, on its way or on the way back: it is logged, and the run *)
(* stays mapped.                                                           *)
RelayFails(m) ==
  /\ m \in relays /\ Loss
  /\ relays' = relays \ {m}
  /\ (offered' = offered \/ Heard(m.run))
  /\ deaf' = (deaf \/ m.last)
  /\ UNCHANGED <<overtaken, active, linked, tick, threadOf, turn, chunks, queries>>
  /\ MapsRest

(* The websocket drops: the open turn is lost with it, and the worker,     *)
(* which asks for the connection only as it needs it, is not told.         *)
LinkDrops ==
  /\ linked /\ Loss
  /\ linked' = FALSE
  /\ turn' = [r \in Runs |-> IF turn[r] = "open" THEN "ended" ELSE turn[r]]
  /\ deaf' = (deaf \/ \E r \in Runs : turn[r] = "open")
  /\ UNCHANGED <<overtaken, active, tick, relays, threadOf, offered, chunks, queries>>
  /\ MapsRest

LinkReturns ==
  /\ ~linked
  /\ linked' = TRUE
  /\ UNCHANGED <<overtaken, active, tick, relays, deaf, losses>>
  /\ MapsRest /\ ServiceRests

(* stop, as the application quits.                                         *)
Stop ==
  /\ active
  /\ active' = FALSE
  /\ runOf' = [t \in Threads |-> NoRun]
  /\ convOf' = [r \in Runs |-> NoThread]
  /\ UNCHANGED <<overtaken, linked, tick, relays, deaf, losses>>
  /\ ServiceRests

-----------------------------------------------------------------------------
VmInit ==
  /\ active = TRUE /\ linked = TRUE
  /\ tick = NoTick /\ relays = {}
  /\ runOf = [t \in Threads |-> NoRun]
  /\ convOf = [r \in Runs |-> NoThread]
  /\ threadOf \in [Runs -> Threads]
  /\ offered = NoRun
  /\ turn = [r \in Runs |-> "queued"]
  /\ chunks = [r \in Runs |-> 0]
  /\ queries = [r \in Runs |-> 0]
  /\ deaf = FALSE /\ overtaken = {} /\ losses = 0

VmNext ==
  \/ HeartbeatTick \/ HeartbeatServed \/ HeartbeatAnswered \/ ControlApplied
  \/ QuerySent \/ QueryRefused \/ TickEnds \/ TickFails
  \/ \E r \in Runs : Streams(r) \/ EndsTurn(r)
  \/ \E m \in relays : RelayAnswered(m) \/ RelayFails(m)
  \/ LinkDrops \/ LinkReturns \/ Stop

VmSpec == VmInit /\ [][VmNext]_vmVars

-----------------------------------------------------------------------------
(* The variables hold values of their types.                               *)
VmTypeOK ==
  /\ active \in BOOLEAN /\ linked \in BOOLEAN
  /\ tick \in Ticks /\ relays \subseteq Relays
  /\ runOf \in [Threads -> Runs \union {NoRun}]
  /\ convOf \in [Runs -> Threads \union {NoThread}]
  /\ threadOf \in [Runs -> Threads]
  /\ offered \in Runs \union {NoRun}
  /\ turn \in [Runs -> {"queued", "open", "ended", "failed"}]
  /\ chunks \in [Runs -> 0..MaxChunks]
  /\ queries \in [Runs -> Nat]
  /\ deaf \in BOOLEAN /\ overtaken \subseteq Runs /\ losses \in 0..MaxLosses

(* The query of a run is sent once, although the run is handed out again   *)
(* until the service has heard of it: a lost worker-dispatched or a lost   *)
(* relay repeats the assignment, never the query.  An assignment that was  *)
(* repeated before the service heard of the run, and comes to be looked at *)
(* after the end of its turn has cleared it, does query it again: the      *)
(* worker keeps no record of what it has finished.  But then the service   *)
(* has heard of the run, so there is never a third query.                  *)
QueriedOnce(r) == queries[r] <= IF r \in overtaken THEN 2 ELSE 1

(* As long as the turn of a run is open its conversation is mapped to it,  *)
(* both ways, and a relay of an earlier run of the conversation, answered  *)
(* late, takes nothing away.                                               *)
RelayedWhileOpen(r) ==
  turn[r] = "open" => runOf[threadOf[r]] = r /\ convOf[r] = threadOf[r]

(* With no relay under way the worker is busy with r only while r is open: *)
(* unless the last relay of a run, or the link under an open turn, was     *)
(* lost, a run is cleared when its turn has ended.                         *)
ClearedAtItsEnd(r) == convOf[r] # NoThread => turn[r] = "open"

(* Every run the service hands to the worker is queried once, or once more *)
(* if its end overtakes the answer that repeats it; it gets what its turn  *)
(* streams, and makes room for the next, through lost calls, late relays   *)
(* and repeated assignments.                                               *)
RunsAreServed ==
  active => \A r \in Runs :
    /\ QueriedOnce(r)
    /\ RelayedWhileOpen(r)
    /\ relays # {} \/ deaf \/ ClearedAtItsEnd(r)
=============================================================================

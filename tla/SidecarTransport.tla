--------------------------- MODULE SidecarTransport ---------------------------
(***************************************************************************)
(* The bridge from Electron main to its Python sidecar                     *)
(* (local_backend_bridge.cjs): one child process at a time, readiness      *)
(* probed by pings, requests correlated by id over JSON lines, and large   *)
(* lines parsed by a worker thread while the lines behind them queue up.   *)
(*                                                                         *)
(* A process is named by the generation the supervisor attached it with.   *)
(* The event loop runs one callback at a time; the drain loop over queued  *)
(* lines has its own steps, and no callback runs between them (`loop`).    *)
(***************************************************************************)
EXTENDS Naturals, Sequences

CONSTANTS
  RequestIds,       \* calls of sendRequest (uuids)
  MaxAttempts,    \* of the readiness probe (10 in the code)
  MaxGeneration,  \* bound: no process is started above this generation
  WritesFail,     \* may a write to the stdin of the sidecar throw?
  NoCallback      \* readinessCheckCallback === null

Attempts == 1..MaxAttempts
Probes == [token : Nat, attempt : Attempts]

ASSUME SidecarAssumption ==
  /\ MaxAttempts \in Nat \ {0}
  /\ MaxGeneration \in Nat
  /\ WritesFail \in BOOLEAN
  /\ RequestIds \cap Attempts = {}
  /\ NoCallback \notin Probes

VARIABLES
  pythonProcess,   \* generation of the attached process, or 0
  generation, status, ready,        \* state of the supervisor
  killed,          \* was the attached process sent SIGKILL?
  killTimers,      \* processes with a force-kill timer
  readinessCheckToken,
  readinessCheckCallback,  \* the probe whose answer is awaited
  timers,          \* readiness timers that have not fired
  outcome,         \* of each request
  sentTo,          \* the process a request was written to
  owed,            \* ids of probes and requests the process may still answer
  pendingStdoutLines,
  isDrainingStdoutLines,
  workers,         \* large lines being parsed, with the drain that awaits them
  loop             \* the process whose drain loop is on the stack, or 0

processVars == <<pythonProcess, generation, status, ready, killed, killTimers>>
probeVars == <<readinessCheckToken, readinessCheckCallback, timers>>
requestVars == <<outcome, sentTo>>
stdoutVars == <<pendingStdoutLines, isDrainingStdoutLines, workers, loop>>
sidecarVars == <<processVars, probeVars, requestVars, owed, stdoutVars>>

\* An answer: `ok` is "status ok" of a ping, or a result and no error.
Lines == [id : RequestIds \cup Attempts, ok : BOOLEAN, large : BOOLEAN]
Timers == [kind : {"timeout", "retry"}, process : Nat, token : Nat, attempt : Attempts]
Workers == [process : Nat, line : Lines]

SidecarTypeOK ==
  /\ pythonProcess \in Nat /\ generation \in Nat
  /\ status \in {"stopped", "starting", "ready", "stopping", "error"}
  /\ ready \in BOOLEAN /\ killed \in BOOLEAN
  /\ killTimers \subseteq Nat
  /\ readinessCheckToken \in Nat
  /\ readinessCheckCallback \in Probes \cup {NoCallback}
  /\ timers \subseteq Timers
  /\ \A t \in timers : t.kind = "retry" => t.attempt < MaxAttempts
  /\ outcome \in [RequestIds -> {"new", "pending", "resolved", "rejected"}]
  /\ sentTo \in [RequestIds -> Nat]
  /\ owed \subseteq RequestIds \cup Attempts
  /\ pendingStdoutLines \in Seq(Lines)
  /\ isDrainingStdoutLines \in BOOLEAN
  /\ workers \subseteq Workers
  /\ loop \in Nat

SidecarInit ==
  /\ pythonProcess = 0 /\ generation = 0 /\ status = "stopped"
  /\ ready = FALSE /\ killed = FALSE /\ killTimers = {}
  /\ readinessCheckToken = 0 /\ readinessCheckCallback = NoCallback /\ timers = {}
  /\ outcome = [r \in RequestIds |-> "new"]
  /\ sentTo = [r \in RequestIds |-> 0]
  /\ owed = {}
  /\ pendingStdoutLines = <<>> /\ isDrainingStdoutLines = FALSE
  /\ workers = {} /\ loop = 0

-----------------------------------------------------------------------------
Timer(kind, p, token, attempt) ==
  [kind |-> kind, process |-> p, token |-> token, attempt |-> attempt]

MarkBackendReady ==
  IF pythonProcess # 0 THEN ready' = TRUE /\ status' = "ready"
                       ELSE UNCHANGED <<ready, status>>

\* A mutant of ProbeFails: no fail-open.
ProbeFails_FailClosed(p, token, attempt, rest) ==
  /\ timers' = IF attempt < MaxAttempts
                 THEN rest \cup {Timer("retry", p, token, attempt)} ELSE rest
  /\ UNCHANGED <<ready, status>>

\* A probe failed or timed out: another attempt is scheduled, and after the last
\* one the sidecar counts as ready all the same.
ProbeFails(p, token, attempt, rest) ==
  IF attempt < MaxAttempts
    THEN /\ timers' = rest \cup {Timer("retry", p, token, attempt)}
         /\ UNCHANGED <<ready, status>>
    ELSE timers' = rest /\ MarkBackendReady

\* checkReadiness after its guard: a new token, a ping, its callback and its
\* timer; a ping that cannot be written is only scheduled again.
CheckReadiness(p, token, attempt, promised, rest) ==
  /\ readinessCheckToken' = token + 1
  /\ \/ /\ owed' = promised \cup {attempt}
        /\ readinessCheckCallback' = [token |-> token + 1, attempt |-> attempt]
        /\ timers' = rest \cup {Timer("timeout", p, token + 1, attempt)}
     \/ /\ WritesFail
        /\ owed' = promised
        /\ UNCHANGED readinessCheckCallback
        /\ timers' = IF attempt < MaxAttempts
                       THEN rest \cup {Timer("retry", p, token + 1, attempt)} ELSE rest

\* What handlePythonResponse changes when `line` is handled.
handlerVars == <<outcome, readinessCheckCallback, timers, ready, status>>

AnswerProbe(line) ==
  /\ IF /\ readinessCheckCallback # NoCallback
        /\ readinessCheckCallback.token = readinessCheckToken
        /\ readinessCheckCallback.attempt = line.id
       THEN /\ readinessCheckCallback' = NoCallback
            /\ IF line.ok
                 THEN MarkBackendReady /\ UNCHANGED timers
                 ELSE ProbeFails(pythonProcess, readinessCheckToken, line.id, timers)
       ELSE UNCHANGED <<readinessCheckCallback, timers, ready, status>>
  /\ UNCHANGED outcome

AnswerRequest(line) ==
  /\ outcome' = IF outcome[line.id] = "pending"
                  THEN [outcome EXCEPT ![line.id] =
                          IF line.ok THEN "resolved" ELSE "rejected"]
                  ELSE outcome
  /\ UNCHANGED <<readinessCheckCallback, timers, ready, status>>

HandlePythonResponse(line) ==
  IF line.id \in Attempts THEN AnswerProbe(line) ELSE AnswerRequest(line)

-----------------------------------------------------------------------------
\* startLocalBackend found a launch target and spawned it.
StartLocalBackend ==
  /\ loop = 0
  /\ pythonProcess = 0 /\ generation < MaxGeneration
  /\ generation' = generation + 1
  /\ pythonProcess' = generation + 1
  /\ ready' = FALSE /\ status' = "starting" /\ killed' = FALSE
  /\ CheckReadiness(generation + 1, generation + 1, 1, {}, timers)
  /\ UNCHANGED <<killTimers, requestVars, stdoutVars>>

\* The 500 ms of a probe are over.  The timer is never cancelled.
ProbeTimesOut(t) ==
  /\ loop = 0
  /\ t \in timers /\ t.kind = "timeout"
  /\ IF t.token = readinessCheckToken /\ readinessCheckCallback # NoCallback
       THEN /\ readinessCheckCallback' = NoCallback
            /\ ProbeFails(t.process, t.token, t.attempt, timers \ {t})
       ELSE /\ timers' = timers \ {t}
            /\ UNCHANGED <<readinessCheckCallback, ready, status>>
  /\ UNCHANGED <<pythonProcess, generation, killed, killTimers, readinessCheckToken,
                 requestVars, owed, stdoutVars>>

RetryFires(t) ==
  /\ loop = 0
  /\ t \in timers /\ t.kind = "retry"
  /\ IF t.token = readinessCheckToken /\ pythonProcess # 0
       THEN CheckReadiness(pythonProcess, readinessCheckToken, t.attempt + 1, owed,
                           timers \ {t})
       ELSE /\ timers' = timers \ {t}
            /\ UNCHANGED <<readinessCheckToken, readinessCheckCallback, owed>>
  /\ UNCHANGED <<processVars, requestVars, stdoutVars>>

\* Mutant: requests outstanding at the old process are left to their timeouts.
ResetBackendProcessState_KeepsRequests(reason) ==
  /\ pythonProcess' = 0 /\ generation' = generation + 1
  /\ ready' = FALSE /\ status' = reason
  /\ readinessCheckCallback' = NoCallback
  /\ readinessCheckToken' = generation + 1
  /\ UNCHANGED outcome
  /\ pendingStdoutLines' = <<>> /\ isDrainingStdoutLines' = FALSE

\* resetBackendProcessState: timers and workers of the old process are left alone.
ResetBackendProcessState(reason) ==
  /\ pythonProcess' = 0 /\ generation' = generation + 1
  /\ ready' = FALSE /\ status' = reason
  /\ readinessCheckCallback' = NoCallback
  /\ readinessCheckToken' = generation + 1
  /\ outcome' = [r \in RequestIds |->
                   IF outcome[r] = "pending" THEN "rejected" ELSE outcome[r]]
  /\ pendingStdoutLines' = <<>> /\ isDrainingStdoutLines' = FALSE

\* exit or error event of the attached process; those of others are dropped.
ProcessExits ==
  /\ loop = 0
  /\ pythonProcess # 0
  /\ \E reason \in {"stopped", "error"} : ResetBackendProcessState(reason)
  /\ killed' = FALSE /\ owed' = {}
  /\ UNCHANGED <<killTimers, timers, sentTo, workers, loop>>

\* Mutant: SIGTERM without the force-kill timer.
StopLocalBackend_TermOnly ==
  /\ loop = 0
  /\ pythonProcess # 0
  /\ status' = "stopping"
  /\ UNCHANGED <<pythonProcess, generation, ready, killed, killTimers, probeVars,
                 requestVars, owed, stdoutVars>>

\* SIGTERM, and SIGKILL in 5 seconds if it is still this process.
StopLocalBackend ==
  /\ loop = 0
  /\ pythonProcess # 0
  /\ status' = "stopping"
  /\ killTimers' = killTimers \cup {pythonProcess}
  /\ UNCHANGED <<pythonProcess, generation, ready, killed, probeVars, requestVars,
                 owed, stdoutVars>>

KillTimerFires(p) ==
  /\ loop = 0
  /\ p \in killTimers
  /\ killTimers' = killTimers \ {p}
  /\ killed' = (killed \/ p = pythonProcess)
  /\ UNCHANGED <<pythonProcess, generation, status, ready, probeVars, requestVars,
                 owed, stdoutVars>>

-----------------------------------------------------------------------------
SendRequest(r) ==
  /\ loop = 0
  /\ outcome[r] = "new"
  /\ \/ /\ pythonProcess # 0 /\ ready
        /\ outcome' = [outcome EXCEPT ![r] = "pending"]
        /\ sentTo' = [sentTo EXCEPT ![r] = pythonProcess]
        /\ owed' = owed \cup {r}
     \/ /\ pythonProcess = 0 \/ ~ready \/ WritesFail
        /\ outcome' = [outcome EXCEPT ![r] = "rejected"]
        /\ UNCHANGED <<sentTo, owed>>
  /\ UNCHANGED <<processVars, probeVars, stdoutVars>>

RequestTimesOut(r) ==
  /\ loop = 0
  /\ outcome[r] = "pending"
  /\ outcome' = [outcome EXCEPT ![r] = "rejected"]
  /\ UNCHANGED <<processVars, probeVars, sentTo, owed, stdoutVars>>

\* A complete line of the attached process.  Behind a large line everything
\* queues; a probe's answer is a few bytes.
StdoutLine(line) ==
  /\ loop = 0
  /\ pythonProcess # 0
  /\ line.id \in owed
  /\ line.id \in Attempts => ~line.large
  /\ owed' = owed \ {line.id}
  /\ IF line.large \/ isDrainingStdoutLines \/ pendingStdoutLines # <<>>
       THEN /\ pendingStdoutLines' = Append(pendingStdoutLines, line)
            /\ isDrainingStdoutLines' = TRUE
            /\ loop' = IF isDrainingStdoutLines THEN 0 ELSE pythonProcess
            /\ UNCHANGED handlerVars
       ELSE /\ HandlePythonResponse(line)
            /\ UNCHANGED <<pendingStdoutLines, isDrainingStdoutLines, loop>>
  /\ UNCHANGED <<pythonProcess, generation, killed, killTimers, readinessCheckToken,
                 sentTo, workers>>

\* drainStdoutLines, one turn of its loop: it ends with the queue or, for a
\* process that is gone, by emptying it; a large line suspends it.
DrainStep ==
  /\ loop # 0
  /\ IF pendingStdoutLines = <<>> \/ loop # pythonProcess
       THEN /\ pendingStdoutLines' = <<>>
            /\ isDrainingStdoutLines' = FALSE
            /\ loop' = 0
            /\ UNCHANGED <<handlerVars, workers>>
       ELSE /\ pendingStdoutLines' = Tail(pendingStdoutLines)
            /\ UNCHANGED isDrainingStdoutLines
            /\ LET line == Head(pendingStdoutLines) IN
               IF line.large
                 THEN /\ workers' = workers \cup {[process |-> loop, line |-> line]}
                      /\ loop' = 0
                      /\ UNCHANGED handlerVars
                 ELSE HandlePythonResponse(line) /\ UNCHANGED <<workers, loop>>
  /\ UNCHANGED <<pythonProcess, generation, killed, killTimers, readinessCheckToken,
                 sentTo, owed>>

\* Mutant: the drain does not go on after the line it awaited.
WorkerReturns_Once(w) ==
  /\ loop = 0
  /\ w \in workers
  /\ workers' = workers \ {w}
  /\ HandlePythonResponse(w.line)
  /\ isDrainingStdoutLines' = FALSE
  /\ UNCHANGED <<pythonProcess, generation, killed, killTimers, readinessCheckToken,
                 sentTo, owed, pendingStdoutLines, loop>>

\* The worker parsed its line, or failed and the line is lost.  No one asks again
\* whether the process is still attached before the answer is handled.
WorkerReturns(w) ==
  /\ loop = 0
  /\ w \in workers
  /\ workers' = workers \ {w}
  /\ HandlePythonResponse(w.line) \/ UNCHANGED handlerVars
  /\ loop' = w.process
  /\ UNCHANGED <<pythonProcess, generation, killed, killTimers, readinessCheckToken,
                 sentTo, owed, pendingStdoutLines, isDrainingStdoutLines>>

SidecarNext ==
  \/ StartLocalBackend \/ ProcessExits \/ StopLocalBackend
  \/ \E p \in killTimers : KillTimerFires(p)
  \/ \E t \in timers : ProbeTimesOut(t) \/ RetryFires(t)
  \/ \E r \in RequestIds : SendRequest(r) \/ RequestTimesOut(r)
  \/ \E line \in Lines : StdoutLine(line)
  \/ DrainStep
  \/ \E w \in workers : WorkerReturns(w)

SidecarSpec == SidecarInit /\ [][SidecarNext]_sidecarVars

\* Timers fire, the drain loop runs on, workers answer, and SIGKILL is final.
\* Nothing is assumed of a sidecar that was not killed.
SidecarFairness ==
  /\ WF_sidecarVars(DrainStep)
  /\ SF_sidecarVars(\E t \in timers : ProbeTimesOut(t) \/ RetryFires(t))
  /\ SF_sidecarVars(\E p \in killTimers : KillTimerFires(p))
  /\ SF_sidecarVars(\E w \in workers : WorkerReturns(w))
  /\ SF_sidecarVars(killed /\ ProcessExits)

-----------------------------------------------------------------------------
(***************************************************************************)
(* Properties.                                                             *)
(***************************************************************************)

\* The bridge keeps the promise of RequestReply: a request is settled once, and
\* resolved only while the process it was written to is attached.  A response
\* that was being parsed when its process went settles nothing.
Reply == INSTANCE RequestReply WITH Requests <- RequestIds, peer <- pythonProcess, last <- generation
ImplementsRequestReply == Reply!ReplySpec

\* A sidecar that is not ready yet is being probed: an answer is awaited under a
\* timer of the current token, or a retry of that token is scheduled.  Startup
\* cannot stall, whatever timers of earlier processes still fire.
ReadinessIsPursued ==
  pythonProcess # 0 /\ ~ready =>
    \E t \in timers :
      /\ t.token = readinessCheckToken
      /\ t.kind = "retry" \/ readinessCheckCallback # NoCallback

\* A queued line is behind a large one whose drain is still to come back: none
\* is left in the queue with nobody to handle it.
QueuedLinesHaveADrain ==
  pendingStdoutLines # <<>> =>
    loop # 0 \/ \E w \in workers : w.process = pythonProcess

\* Every start of the sidecar ends in ready or in the loss of the process, even
\* if it never answers a ping; and stopLocalBackend gets rid of the process it
\* was called for, even if SIGTERM does nothing and a late ping answer puts the
\* status back to ready.
StartsAndStopsEnd ==
  /\ status = "starting" ~> status # "starting"
  /\ \A p \in 1..MaxGeneration :
       status = "stopping" /\ pythonProcess = p ~> pythonProcess # p
=============================================================================

# A TLA+ model of WindieOS

WindieOS is a desktop agent: an Electron app whose main process holds one
websocket to a hosted backend, relays queries and streamed events between that
backend and the renderer windows, and runs local tools through a Python sidecar
process. This directory holds TLA+ specifications of the parts of it where
ordering, timing and failure matter, TLC configurations that check them on small
instances, and TLAPS proofs for every instance. All paths below are relative to
`src/`; `main/` stands for `frontend/src/main/` and `renderer/` for
`frontend/src/renderer/`.

Every safety property of every passing run is also a theorem. What is left to TLC
alone is liveness, and section 5 says why.

## 1. Inventory

### The parts and what they keep

| part | state it keeps | module |
|---|---|---|
| Backend connection (`main/ipc.cjs`, `main/ipc/ipc_install_auth_state.cjs`) | the current socket, connected and demand flags, reconnect and idle timers, connect waiters, the reason of an intentional close, backend session ids, install token | `BackendConnection` |
| Query gate (`main/ipc.cjs`, `main/ipc/*`) | `isFirstQuery`, settings-sync flags and pending acks, overlay phase, replay buffer | `QueryGate`, over `BackendConnection` |
| VM worker (`main/vm_worker_runtime.cjs`) | run and conversation maps, the tick and the relays in progress | `VmWorker` |
| Sidecar transport (`main/local_backend_bridge.cjs`, `..._request_transport.cjs`, `local_backend_supervisor.cjs`) | process handle, generation, status, readiness token, pending requests, stdout queue | `SidecarTransport`, which implements `RequestReply` |
| Windows (`main/window_*_runtime.cjs`, `surface_runtime.cjs`, `response_overlay_phase_handler.cjs`) | what is visible, click-through, full screen, onboarding surface | `SurfaceWindows` |
| Tool runner and surface orchestrator (`renderer/infrastructure/services/surfaceOrchestrator/`, `renderer/features/chat/utils/toolRunner/`) | tokens, captures, the pending hidden surface, tracked calls | `ToolSurfaces`, over `SurfaceWindows` |
| Places of the overlay windows (`main/overlay_window_helpers_runtime.cjs`, `display_affinity_runtime.cjs`) | active display, manual place, visual anchor, sizes | `OverlayPlaces` |
| Response window (`main/response_overlay_visibility_policy.cjs`, `renderer/features/chat/hooks/useResponseOverlay*.js`) | phase and flag in main; rows, closed answer, last frame in the view | `ResponseOverlay` |
| Stop shortcut (`main/agent_stop_shortcut_runtime.cjs`, `index.cjs`, `ipc.cjs`) | registered and wanted shortcut, its status, the saved setting | `StopShortcut` |
| Permissions and onboarding (`main/permission_service*.cjs`, `renderer/features/onboarding/`) | statuses shown, the watch of the slideshow, completion | `Permissions` |
| Chat stream and store (`renderer/features/chat/utils/chatStream/`, `stores/chatStore.ts`, `session/`) | workspaces with rows, latch, phase and turn; the foreground; conversations of turns | `ChatStream` |
| Composer lock (`renderer/features/chat/hooks/useChatLoopUiState.js`) | the reducer of the turn's lifecycle, its watchdog | `TurnLifecycle` |
| Composer (`renderer/features/chat/hooks/useChatComposerDraft.js`, `useChatMessageSender.ts`) | draft, attachments being read, messages on their way | `Composer` |
| Workspace folder (`renderer/infrastructure/workspace/conversationWorkspaceBinding.js`, `main/app_menu_runtime.cjs`) | active folder, folder of each chat in each window | `WorkspaceBinding` |
| Inference session (`renderer/features/chat/session/conversationInferenceSessionRuntime.ts`) | what each window believes the backend knows of a conversation | `InferenceSession` |
| Transcript queue and session (`renderer/infrastructure/transcript/`, `main/ipc/ipc_transcript_session_sync.cjs`) | entries waiting for a session; the session of each window | `TranscriptQueue`, over `TranscriptSession` |
| Conversation replay (`renderer/infrastructure/transcript/conversationReplayState.ts`) | initialized conversations, bootstraps in flight, epochs; rows in the sidecar | `ConversationReplay` |
| Wakeword listening (`renderer/features/voice/hooks/useWakewordDetection.ts`, `main/wakeword_bridge.cjs`) | the capture, the switch, the service and its readiness | `WakewordListener` |
| Dictation (`renderer/features/voice/hooks/useVoiceMode.ts`) | socket, reconnect timer, microphone | `VoiceSession` |
| Settings (`renderer/app/providers/AppConfigProvider.jsx`, `main/ipc/ipc_frontend_config.cjs`) | copies in windows, localStorage, main and on disk | `ConfigSync` |
| Event replay, bootstrap, tool execution in main, manifests, endpoints, dashboard pages, sidecar in Python, landing page | see section 7 | none |

### How they interact

Renderers send `to-backend` messages; main prepares a query with several awaits
(window capture, sidecar system state, memory search), gets a connection, syncs
settings on it and sends. The hosted backend streams frames that move the
overlay phase, feed the replay buffer and are broadcast to all windows; tool
calls among them go from a renderer back to main (`execute-tool`), to the
sidecar over JSON lines on stdio, and their results return as new `to-backend`
messages. The VM worker polls runs over HTTP and injects queries through
`sendAutomatedQuery`. The overlay phase feeds back into the connection (it decides
whether the idle timer may run), into the windows, and into the stop shortcut.
Every message of a chat is stored by the renderer in the sidecar's database, and
a second time as a replay row; when a conversation is resumed, the backend's
history is rebuilt from these. Windows talk to each other only through main and
through localStorage.

### What is hard here

Main runs on one event loop and so does each renderer: a step is a callback up to
its next `await`. What is hard is everything module-wide that is read before an
`await` and used after it, events of sockets, processes or turns that were
already replaced, timers that fire for a generation that is gone, effects of a
render that run after the next message, and copies of one thing in several
windows. `PROJECT.json` lists the hazards at their lines; section 6 lists what was
met beyond them.

### What makes each part correct

- Connection: one socket is live; every waiter has something under way that wakes
  it; the idle timer runs exactly while the link is quiet.
- Gate: what main keeps of its queries (initial context, replay buffer) follows what was
  really sent; a stream shown is a stream of a turn; every handler settles.
- Worker: a run is queried once, relayed and let go.
- Sidecar: each request settles once, by the process it was written to; a sidecar
  that is not ready is being probed; a queued line has a drain.
- Windows, places and response: window, pill, mouse and wakeword listener follow
  the phase; the response stands on the pill; it is on the screen when its view
  has something to show.
- Tools: every call the runner takes up is answered while its turn goes on; nothing is left
  held but a surface a failed release could not show, which the next restore brings back.
- Chat: rows of a turn stay in its conversation; an older turn never takes a
  workspace back; what is shown as busy is; an answer is in the transcript.
- Transcript: every entry is stored once, in the session's conversation, and
  reaches the replay rows; nothing deleted comes back.
- Inference session: a query meets a backend that has the history.
- Settings: what the user chose last is never overwritten, though windows never stop
  answering each other's stores.
- Folder, permissions, shortcut: what the user chose last is what every copy says once
  all is quiet.
- Voice: microphone and sockets are what the switch asks for.

## 2. Modules

Each component is one module; the module comment says what it abstracts. Names of
state and operations are the code's where TLA+ allows it. A name with a suffix after
an underscore (`MainSyncs_DropsResets`) is a plausible wrong version of the
definition after it, kept to show that a property notices it; no specification
uses it. `MC*` modules instantiate for TLC; `*_proofs` modules hold the theorems.

Common conventions:

- An operation that awaits is several actions; the calls of it that may overlap are
  a constant set (`Requests`, `Writes`, `Tools`, `Flushes`, `Calls`, ...) whose
  members are reused where the code has no bound on them.
- "history" variables exist for the properties only: the code has no such state.
- `Max...` constants are bounds on acts, losses or turns of one behaviour, named
  "bound" where declared. The proofs are for every value of them.

### Connection, gate and worker

Sockets are names for the WebSocket objects alive at one time; a name whose close
event was delivered is reused. `call[r]` is the progress of one caller of
`ensureBackendConnection`. `readyState` distinguishes a close of ours (`closing`)
from one of the peer. The ws library is external: its events come in any order it
can produce. In `QueryGate` each handler is a request name with a program counter
`gate[q]`, the await it is suspended in; promise continuations run before the
next callback, so `Callback` steps need `~MicrotaskPending`. `VmWorker` has the
heartbeat suspended at its awaits (`tick`) and the set of relays under way; the answer to a
heartbeat is fixed when the service gives it and delivered later.

### Sidecar

A process is named by the generation the supervisor attached it with, which is also
where `readinessCheckToken` restarts, so tokens are the numbers the code computes.
A line of stdout is the id of what it answers, whether it succeeded and whether it
is large enough for the worker thread. The drain loop is on the stack while `loop`
is set. `sentTo` is a history variable the refinement of `RequestReply` needs.

### Windows and tools

`SurfaceWindows` has every handler that shows or hides a window as one action, the
window operations as functions of what is visible (`ShowChat`, `ShowMain`, ...).
`ToolSurfaces` adds the two orchestrators and the tool runner on Linux, where a
window is hidden for a screenshot; a hide waits on two timers, so main takes it in
three steps. Preparations, captures, restores and releases may all fail
(`ToolReleaseFails`, `CaptureRestoreFails`); a call the runner does not take up is
`ToolDropped`. `OverlayPlaces` has coordinates as small integers on monitors side by
side, and work areas that change under a kept affinity; `ResponseOverlay` the two
channels between main and the view.

### Settings

`ConfigSync` has two kinds of keys: those a window keeps from the backend and those it
sends at once. The model keys, which go with a query, are left out: the copy a query
leaves in main is `NoConfig`. Every merge is stored and every commit sent, as in the
code, so the windows' answers to each other's stores never end; the property is about what
they say, and a window with a storage event under way may be behind.

### Chat

`ChatStream` handles an event in the step that emits it, since websocket and IPC
keep their order and the handling does not await; `Hear...` is an event and its
handler, `StaleTurn` the gate of `chatStreamEventRuntime.ts`. `TurnLifecycle` takes the effects of a
render as steps of their own. `Composer` takes a message through `Stages`.

### Transcript

`ConversationReplay` follows one conversation. A job is one call, suspended at a
request to the sidecar; `job[j]` holds what its closure holds. The sidecar works
through requests one after the other, so a request takes effect when it is sent and
`ahead[j]` are the answers before j's. A failure may come at any time and says
nothing of whether the work was done. `Settles` resumes the owner of a promise and
all that joined it in one step. `TranscriptQueue` extends `TranscriptSession`, since
each change of a session starts a flush.

### Code and model

| code | model |
|---|---|
| `ws`, `ws.readyState`, `opened` closure | `ws`, `readyState`, `opened` |
| `pendingBackendConnectWaiters` | `Waiting` |
| `to-backend` handler, query part | `QueryArrives` ... `SettingsSynced` |
| `sendAutomatedQuery` | `AutomatedArrives` ... `AutomatedBuilt` |
| `pendingSettingsSyncs` and its timers | `pendingSettingsSyncs`, `SettingsSettle` |
| `ipcEventReplayState` | `activeTurn` (which turn the buffer holds) |
| `heartbeatTick`, `activeConversationRunMap` | `HeartbeatTick` ..., `runOf`, `convOf` |
| `pythonProcess`, supervisor `process` | `pythonProcess` (a generation, or 0) |
| `pendingRequests`; `await parseJsonInWorker` | requests whose `outcome` is "pending"; `workers` |
| `responseOverlayVisible`, `setIgnoreMouseEvents`, `wakeword-toggle` | `surface.overlay`, `pointer`, `surface.wakeword` |
| `activeSurfaceTokens`, `pendingHiddenSurfaceRestore`, `activeScreenshotCaptureCount` | `tokens`, `pending`, `captures` |
| `trackedExecutionTurnsRef` | `tracked` |
| `activeDisplayAffinity`, `manualChatWindowPosition` | `affinity`, `manual` |
| `lastFrameRef`, `closedResponseId` | `frame`, `view.closed` |
| `currentGlobalAgentStopShortcutStatus` | `told` |
| `statusesByPermissionId`, the refs of the slideshow | `shown`, `hooks` |
| workspaces of the chat store, `turnConversationRefs` | `spaces`, `turnConversation` |
| the reducer of `useChatLoopUiState.js` | `machine`, `OnDisconnect`, `OnReconnect`, ... |
| `inputValue`, `clipboardImages`, `selectedReadableFiles` | `draft` |
| `bindingCache`, `activeWorkspaceRef` | `bound`, `display` |
| `ensureConversationInferenceSessionHydrated` | `Ensures` and the steps after it |
| `applyTranscriptSessionUpdate`, `transcript-session-sync` | `UpdateSession`, `MainSyncs`, ... |
| `pending*` queues, `flushPending*` | `pending`, `flush` |
| `inFlightReplayInitializations`, `replayMutationEpochs` | `inFlight`, `epoch` |
| `storeTranscriptEntry` | `Write`, `StoreAnswered`, `ReplayLoaded`, `TranscriptLoaded`, `AppendAnswered` |
| `startAudioCapture` and its generation | `calls`, `current` |
| `connectWebSocket` of `useVoiceMode.ts` | `Connects` |
| `configRef`, localStorage, `latestFrontendConfig`, the file | `config`, `storage`, `latest`, `disk` |

`PROJECT.json` "map" gives the lines of each definition.

## 3. Runs

| run | what is explored | properties |
|---|---|---|
| `lifecycles` | `BackendConnection`, start and stop of `SidecarTransport`, `TurnLifecycle` | sockets, waiters, idle timer, readiness; liveness of waiters, of start and stop, of the composer lock |
| `main_parts` | `QueryGate` with two mixes of callers, `VmWorker` | initial context and replay buffer against the sends, the streaming phase, runs of the worker |
| `gate_liveness` | `QueryGate` with one query | the gate implements the connection; every handler settles |
| `transcript_parts` | `ConversationReplay`, `TranscriptQueue`, `TranscriptSession` | bootstraps, rows and replay rows, sessions; writes settle |
| `desktop_parts` | `SidecarTransport`, `ToolSurfaces`, `SurfaceWindows`, `ChatStream` | requests and lines, windows, jobs and answers, the chat |
| `renderer_parts` | `WakewordListener`, `VoiceSession`, `InferenceSession`, `ConfigSync` | microphone, dictation, history of queries, settings |
| `pages_parts` | `Permissions`, `WorkspaceBinding`, `StopShortcut`, `Composer`, `OverlayPlaces`, `ResponseOverlay` | one property of each |
| `connection_reconnect_finding` | `BackendConnection` | a socket lost while wanted is dialled again: violated |
| `gate_context_finding` | `QueryGate` | the first query of a connection carries the initial context: violated |
| `replay_reseed_finding` | `ConversationReplay` | deleted entries stay out of the replay rows: violated |
| `microphone_finding` | `WakewordListener` | an overtaken start never opens the microphone: violated |
| `stop_shortcut_finding` | `StopShortcut` | the shortcut the user chose survives a restart: violated |

A violated run states what a document of the repository says; PROJECT.json
"findings" quotes it and tells the counterexample.

**Runs of several parts.** The `...Parts` and `MCLifecycles` modules put components
that share no variable side by side: a variable `part` names the one a behaviour
belongs to and the others stay in their initial states. The state space is the sum
of the parts', not their product, and each invariant is evaluated with the other
parts at rest. A part at rest starts in one of its initial states only. Parts that
do share state are composed by EXTENDS (`QueryGate` over `BackendConnection`,
`ToolSurfaces` over `SurfaceWindows`, `TranscriptQueue` over `TranscriptSession`)
and explored together. Two restrictions bound the composed ones: `SessionsFollow`
(in the "queue" part the other window says nothing of its own) and `FewJobs` (at
most `MaxBegun = 2` calls and captures begin in one behaviour); the proofs have
neither.

**Bounds.** They limit how much happens at once, or how many acts a behaviour has, and are
the least that let the hazards happen:

- Two sockets are a replaced one whose events are still to come and its successor.
  Two queries let one overtake or fail under the other. Requests restart for ever.
- `MaxGeneration = 3` gives two processes (losing one counts too): an old timer or
  drain meets a new process. `MaxAttempts = 3` (10 in the code) is the least for
  which the token of an old process reaches one of its successor's. The part that
  counts attempts has writes succeed: a last ping that cannot be written is not
  rescheduled, so `ReadinessIsPursued` would not hold.
- Two writes and one old row allow a join, two bootstraps of which a reset has
  outdated one, and a rewrite of two rows that something falls between.
- Two flushes and three entries of two categories allow a requeue behind an entry
  that was queued meanwhile. `MaxUpdates = 3` allows a change, its repetition and one
  that crosses it.
- Two turns in two conversations, two chunks of text, one tool row: a newer query
  overtakes an older turn, an answer is split by a tool. `MaxChatActs = 2`.
- Two jobs that overlap on the windows, one turn that goes on and ends.
- Two device checks of the microphone, three sockets of the dictation, two windows
  with settings, two saves and `MaxConfigActs = 3`: each pair one that overtakes and one
  overtaken; a choice, a query and a report of the shortcut follow each other.
- In `pages_parts`: two calls to the permission service and two openings of the
  slideshow; three chats and two folders with two dialogs; a catalog of three
  shortcuts, so that a fallback may be taken too; two messages and three
  attachments; two monitors of two heights; four acts around the response.
- The acts of users, programs and the system have a bound each (`Max...Acts`). The
  inductive invariants were also checked by TLC alone with larger ones where a
  property needs a longer story: the attempt to prove `WatchedGrantsAreShown` and
  `WindowFollowsTheView` found violations at 7 and at 9 acts, beyond the bounds of the
  run. What they show is now said in the history variables `crossed` and `parted`
  and listed in section 6; the proofs hold for every bound.

Runs end when the acts are used up or everything has returned, hence no deadlock
checks, except in `connection_reconnect_finding`, `gate_context_finding` and
`gate_liveness`.

**Fairness.** `LinkFairness` and `GateFairSpec` assume that timers of the event loop
fire, that a closing socket delivers its close event (the ws library's close
timeout), that continuations run, and that bounded awaits end. For `WaitersSettle`
the backend must also be reachable: a socket dialled again and again opens (`SF` on
`SocketOpens`), since the property is that the dial loop does not stall; no fairness
is put on the waiter's timeout. `RequestsSettle` assumes nothing of the backend, but
does assume that the install registration ends: it has no timeout in the code.
`SidecarFairness` assumes that timers fire, drains run on, workers answer and a
process that was sent SIGKILL exits; strong fairness where a callback is enabled
only between drain loops or where other timers may fire first.
`LifecycleFairness` assumes that effects of a render run, that the link comes back
and is reported, and that the watchdog's timer fires. `WritesSettle`
assumes that while requests are out some are answered: the transport's timeout
answers for a sidecar that does not.

## 4. Assumptions about the environment

The ws library, HTTP services, the operating system, localStorage and the file
system are external and are modelled from how the code uses them. Where a property
rests on more than that, the module says so:

- `TurnLifecycle`: the effects of a render have run before a reconnect, which takes at
  least the reconnect delay, is reported.
- `WakewordListener`: effects are rendered before the user toggles again; loading the
  service takes longer than messages and renders.
- `VoiceSession`: a socket closed while it connects fails before a later one opens.
- `InferenceSession`: while one window rewrites the conversation no window sends.
- `Permissions`: channels never fail; the answer of a probe that runs no program comes
  before the next poll for the same permission, two seconds later.
- `ToolSurfaces`: the hook of the runner stays mounted.
- `ConfigSync`: messages of a window reach main before anything else happens.
- `WorkspaceBinding`: the property speaks of a user who lets each act end (`hurried`).
- `StopShortcut`: nobody acts before the config of the start has come; saves end in
  order.
- `Composer`: ensures end in the order of the submits.
- `VmWorker`: the service repeats an assignment until it hears of the run.
- `ChatStream`: events of one turn arrive in order; the backend never answers in another
  conversation.

Conditional properties name a history variable (`crossed`, `raced`, `cut`, `doubled`,
`overlapped`, `givenUp`, `aged`, `overtaken`, `hurried`, `parted`, `severed`, `astray`,
`deaf`, ...). Each stands for a race that the code loses or a failure it does not make good;
section 6 says which.

## 5. Proofs

For every safety property of the passing runs there is a theorem, for all values of
the constants that the named ASSUMEs allow: sets that do not overlap, null values outside
them, bounds that are natural numbers. Nothing else is assumed. PROJECT.json
"theorems" lists them.

The argument is always the same: a strengthening `...IInv` that holds initially, is
kept by every step and implies the property. TLC checked each of them as an
invariant before it was proved. For most actions there is an "effect" lemma (`XDoes`) that
says elementwise what the action changes; each part of the invariant is then
kept by one small step per action. Laws of sequences that the provers do not find
(heads, tails and appends of queues, elements after a removal) are lemmas at the top of
a module.

| module | invariant | why the property alone is not inductive |
|---|---|---|
| `BackendConnection_proofs` | `IInv` | the connected flag and the state of `ws` agree, demand stands while a call is under way, an armed timer matches the link |
| `QueryGate_proofs` | `GateIInv` | `PassOK` says which handlers may have passed the gate with what flags, `RestOK` what one that has ended left; a failing query takes back only what is its own |
| | `VmIInv` | only the offered run can be mapped (`OneRunAtATime`); an assigned run that is not mapped has not been queried, or was cleared under its assignment and is not assigned again (`AssignedOnce`); a run stays mapped till its last relay |
| `DesktopParts_proofs` | `ReplyInv`, `DrainInv`, `ProbeInv` | a pending request was sent to the process attached now, which is why a late answer settles nothing; a set draining flag has a drain that clears it, whatever a stale drain did |
| | `SurfaceIInv` | the pill takes focus by phase; nothing waits for full screen off macOS |
| | `HeldIInv` | the count of captures is the number of jobs that count, one job hides, each token, pending surface and debt has a job that will return it, or a failed release has left it |
| | `AnswersIInv` | an accepted call of the current turn stays tracked and unanswered until the step that answers it |
| | `BackIInv` | unless two jobs overlapped or a failed capture restore gave the window up, every missing window is held by a pending surface |
| `ConversationReplay_proofs` | `IInv` | the promise in the map belongs to a call still initializing; nobody holds an epoch of the future |
| | `ReachIInv` | `ReadingsAreComplete`: a reading lacks only rows whose store is answered after it; `RowsAreCovered`: each row not in the replay rows has a call that brings it |
| `TranscriptQueue_proofs` | `SessionIInv` | until changes cross, one window speaks and its last message under way carries its session |
| | `QueueIInv` | an entry is in one place (a queue, a batch, a direct store), and its rows are counted by the place |
| `RendererParts_proofs` | `ConfigIInv` | a single save owns the temporary file; whatever is under way (saves, loads, main's copy) says nothing but the last choice |
| | `DictationIInv`, `ListenerIInv` | sockets and captures follow the switch as it was last rendered; the last message of each channel says what its sender holds |
| | `InferenceIInv` | a window that claims the backend has the history is right unless it has not heard of the loss |
| `ChatStream_proofs` | `HomeIInv`, `WorkIInv`, `KeptIInv` | homes of turns are known to the store and rows mention turns of their conversation only; a latch or a busy phase has a query or a turn behind it; a followed turn is the newest one, so its text is heard until it is recorded |
| `PageParts_proofs` | `ComposerIInv` | attachments are apart; orders follow the submits while nobody rushes |
| | `PlacesIInv` | a visible pill is seated on the affinity's monitor; the affinity describes that monitor as it is unless its work area changed under it |
| | `BindingIInv` | while nobody hurries there is one choice, one send or one message under way, and the copies of a folder agree but for it |
| | `ShortcutIInv` | the registered shortcut is the one of the status; main knows the status and the window will; a fallback that was heard is answered by a save |
| | `PermissionIInv` | a watch that began beside no older call has but its own polls to meet, one at a time; what is due is watched, or shown with no contrary answer under way |
| | `OverlayIInv` | the last phase said is main's; a drawn frame has been reported or its hiding is said; main believes in what is drawn, visible or said |

Refinements: `GateImplementsConnection` (each step of the gate is a step of the
connection or leaves it alone) and with it `GateKeepsTheConnectionSafe`, which
carries the connection's invariants over; `SidecarImplementsRequestReply` (each
request settles once, by the process it was written to).

Action properties: `DemandIsWithdrawnOnlyWhenQuiet`, `RewritesBeginFromTheTranscript`,
`QueriesHaveHistory` and `EventsKeepTheirPlace`, each from the invariant of its module.

The theorems are about the component's own specification (`ChatSpec`, `PlacesSpec`, ...),
not the sum of parts a run explores; a step of a part is a step of its component.

Model-checked only, and why:

- `WaitersSettle`, `StartsAndStopsEnd`, `OrphansUnlock`, `RequestsSettle`,
  `WritesSettle`: liveness under fairness needs ENABLED, which the prover does not treat.
- The refinements under fairness, for the same reason; the theorems are about the
  safety part.
- Nothing is proved by induction over data. Where a queue matters, its invariant
  speaks of all indices; the selections of the standard modules (`SelectSeq`) are not
  used in a module that is proved about.
- `TurnLifecycle` has no safety property of its own, hence no theorem.

## 6. Divergences and hazards seen while modelling

Five have a run (section 3). The others are excluded from a property by a history
variable or an assumption, or were met while reading.

Connection, gate and replay buffer:

- The backend session ids outlive a socket that is replaced instead of closed
  (`main/ipc.cjs:646`).
- A handler suspended in the settings gate when its link is lost sends on the next one,
  whose gate it did not enter
  (`docs/frontend/main/websocket_handshake_and_settings_sync_reference.md:139`).
- A failing query clears the shared replay buffer when another turn may own it
  (`main/ipc/ipc_query_send_runtime.cjs:130`; same document, `:162`).
- A query without a user id throws after the overlay was primed (`main/ipc.cjs:1063`):
  the phase goes on awaiting and its turn stays in the replay buffer, since the code that
  takes both back is only reached by a send that fails.
- The replay buffer is sent to a window that opens late; a reloaded dashboard gets
  streaming-complete twice and records the answer again
  (`main/ipc/ipc_renderer_windows.cjs:24-51`).
- The worker: a link lost under an open run leaves it "running" for ever, a failed
  terminal relay leaves it mapped for ever; relays may arrive out of order. A run whose end
  overtakes the heartbeat answer that repeats it is queried twice
  (`main/vm_worker_runtime.cjs:182`, `:296-313`).

Sidecar:

- A readiness timer of an old sidecar can hold the token of the new one's probe
  (`main/local_backend_bridge.cjs:206`, `:269-273`).
- A drain that resumes after its process was replaced clears the lines of the new one
  (`main/local_backend_bridge.cjs:140-142`); none is stranded.

Windows and tools:

- A second preparation that overlaps the first overwrites the pending surface, also by a
  tool whose token outlives the call that hid the surface; the window stays hidden
  (`docs/frontend/runtime/tool_execution_and_streaming.md:116`).
- A release that fails leaves the pending surface without a token or a job
  (`renderer/infrastructure/services/surfaceOrchestrator/toolLifecycle.ts:187-207`), to be shown
  by the next restore; the restore of a capture that fails forgets its window.
- A call with an empty bundle, a malformed one or one that is marked
  `skip_frontend_execution` is given up without an answer
  (`renderer/features/chat/hooks/useToolRunner.ts:212-214`, `:271-276`).
- The permission prompt of macOS shows the dashboard over the pill
  (`main/main_window_controls_handler.cjs:12`, `:78`); a terminal phase restores the response
  without a visibility broadcast (`main/response_overlay_phase_handler.cjs:128`); the
  surface to hide is resolved before the wait (`main/overlay_visibility_handler.cjs:192-197`).
- The tray shows the dashboard during onboarding (`main/main_window_runtime.cjs:480`;
  `docs/frontend/main/window_and_overlay_lifecycle.md:75`).
- When the display metrics change nothing resolves the affinity: `main/index.cjs:234-275`
  does not pass `syncWindowDisplayAffinity`, so the lifecycle runtime calls its no-op
  (`main/main_process_lifecycle_runtime.cjs:134`) and a visible pill keeps its place by the old
  work area, although
  `docs/frontend/main/display_affinity_runtime_monitor_selection_and_screenshot_bounds_reference.md:101`
  says the affinity follows. A manual y is not clamped. The full-screen ghost, the context label and `setChatWindowBounds` are dead code.
- The response window: a pill hidden while a reply is awaited, when the turn ends
  without a row, leads to a blank window at the next show; so does priming and stopping
  before the first animation frame, and a late chunk or tool after the answer of a
  stopped turn was closed. The echo of an own report that there is nothing to see can
  cross a newer one that there is. Animation frames may not run in a hidden window.
- The stop shortcut: each choice makes two overlapping saves that share a temporary
  file; activating the app on macOS in VM mode calls `initializeIpc` twice. The way of
  `setAccelerator` back to the old shortcut is never taken (`SetAcceleratorDoes`).

Chat:

- After a link lost mid-stream the store keeps phase and turn; the next send of the
  dashboard only sets the latch, and every event of its turn is dropped as stale
  (`renderer/features/chat/utils/chatStream/chatStreamEventRuntime.ts:48-75`).
- The watchdog's snapshot is cleared by its own effect
  (`renderer/features/chat/hooks/useChatLoopUiState.js:111-117`), so it can unlock a turn that
  streams again; `forceIdle` survives into a next query of equal signature.
- Late events of an older turn are accepted while the newer awaits its first chunk;
  a duplicate streaming-complete is written twice; reopening a conversation while it
  streams truncates the answer that is recorded; deleting one with an open turn
  resurrects it; opening has no request id (`useDashboardConversations.js:155-190`).
- A second submit while the first ensures its session; speech that erases typed text in
  the pill; a stop during an upload, after which the query goes out; uploads without
  a timeout; a draft that is lost when the ensure throws
  (`renderer/features/chat/hooks/useChatMessageSender.ts:158-162`).
- A link that drops between the ensure and the query sends it without history
  (`docs/architecture/frontend_architecture.md:291`); a failed rewrite loses rows.
- The query uses the folder read before the ensure (`useChatMessageSender.ts:160`, `:268`);
  a folder dialog of the menu that is cancelled announces that there is none
  (`main/app_menu_runtime.cjs:121`); a chat can end up with rows of two folders
  (`docs/frontend/renderer/chat/chat_store_state_and_new_session_rotation_reference.md:97`).

Transcript:

- A reset during a flush drops the drained entries; an entry queued again goes behind
  later ones; a store that is refused is never repeated
  (`renderer/infrastructure/transcript/transcriptEntryPersistence.ts:88`;
  `docs/frontend/renderer/transcript/transcript_writer_queue_flush_and_session_event_reference.md:138`);
  one rejected after it was stored is stored twice.
- Changes of the session in two windows cross and swap
  (`docs/frontend/main/window_and_overlay_lifecycle.md:217`).
- The answer to an append sent before a rewind marks the conversation initialized after
  it (`conversationReplayState.ts:219`); a wipe forgets the epochs (`:122`).

Settings, permissions, voice:

- Configs are compared by reference and rebuilt each time
  (`renderer/app/providers/configComparison.ts:15-16`), so a storage event is always answered by
  a store and two windows answer each other without end, although
  `docs/frontend/runtime/config_sync_and_settings_lifecycle_reference.md:69` says that the check
  avoids redundant re-renders and writes to the network.
- A query replaces main's copy of the settings by the two model keys
  (`renderer/features/chat/hooks/useChatMessageSender.ts:254-257`, `main/ipc.cjs:530`, `:1026-1029`),
  and a report of the shortcut then saves that copy to disk.
- The whole settings object is written by whoever is last; the disk overwrites a newer
  localStorage; a link that opens sends settings without instructions
  (`renderer/app/providers/AppConfigProvider.jsx:193-194`, `main/ipc.cjs:530`).
- Permissions: a late poll ends the watch of another permission
  (`renderer/features/onboarding/hooks/useOnboardingPermissionActions.js:58`), one under way
  across the deadline ends it with what it has read; a slow osascript
  answer overwrites a newer grant (`:97`), as does a recheck of all; polls of a slideshow
  that was left go on for two minutes and may end a later watch; a cancelled folder
  dialog shows needs-action although a folder is stored.
- Dictation: attempts are not reset when it is switched off; an unmount during
  getUserMedia leaves the stream open.

## 7. Not modelled

- The replay buffer of late windows: `QueryGate` knows only whether it is held.
- Tool execution in main: one sequential function per call; its effect on windows
  is in `ToolSurfaces`, its request in `SidecarTransport`.
- Bootstrap, stacking, content protection, opacity; monitors that come and go.
- Payload content, formatting and logging; HTTP endpoints (the resolved candidate list
  has one entry, so there is no falling back); manifests and OAuth.
- Presentation of the dashboard; markdown; the landing page and build scripts.
- The sidecar's own code in Python, drivers of Chrome and of the desktop.
- The hosted backend is outside the repository: it is the frames it may send.

## 8. Plan

Done: all modules of section 2, their runs, and proofs of all safety properties the runs check.

Left:

1. The content of a query (memory, system state, repository instructions) in front
   of the gate; the draft of the dictation; browser sessions.
2. `TurnLifecycle`: the safety part of `OrphansUnlock` (a lost turn has an armed
   watchdog or an effect that arms it) as an invariant with its proof.
3. Ranking arguments for the liveness properties stay on paper; safety parts of them
   (something enabled is always there to do) can be stated as invariants and proved, as
   `WaitersAreServed` and `JoinersAreNeverStranded` do.
4. The rows of the transcript with their order.

--------------------------- MODULE ResponseOverlay ---------------------------
(***************************************************************************)
(* The window with the answer above the chat pill.  The main process shows *)
(* and hides it by the phase of the turn and with the pill; its renderer   *)
(* decides from the phase and the rows of the turn whether there is        *)
(* something to see, and reports the size of that, or that there is        *)
(* nothing, back to main, which shows or hides the window again.  What     *)
(* main says to the renderer arrives in order, and so do the reports.      *)
(*                                                                         *)
(* Abstracted: sizes and places (OverlayPlaces), the dashboard, and the    *)
(* windows as far as SurfaceWindows has them; tool-call and tool-output    *)
(* are one phase.  The transport is up in the renderer: what it adds is    *)
(* TurnLifecycle.                                                          *)
(***************************************************************************)
EXTENDS Naturals, Sequences, SequencesExt

CONSTANTS
  MaxOverlayActs,  \* bound: what the users and the backend do
  MaxInFlight      \* bound: messages to the renderer

ASSUME OverlayAssumption == {MaxOverlayActs, MaxInFlight} \subseteq Nat \ {0}

VARIABLES
  main,       \* the phase, and whether pill and window are on the screen
  turn,       \* the backend works on a query
  toView,     \* messages to the renderer of the window
  view,       \* what its stores hold
  frame,      \* layoutMode of lastFrameRef
  scheduled,  \* an animation frame that will report the size
  toMain,     \* set-responsebox-size in transit: is there something to see?
  overlayActs,
  parted      \* history: window and view went apart by design; see below

overlayVars == <<main, turn, toView, view, frame, scheduled, toMain, overlayActs, parted>>

TerminalPhases == {"complete", "error"}
OverlayPhases == {"idle", "awaiting", "streaming", "tool"} \union TerminalPhases
Entries == {"text", "done", "tool", "error"}

(* flag is responseOverlayVisible.                                         *)
MainStates == [phase : OverlayPhases, chat : BOOLEAN, flag : BOOLEAN, response : BOOLEAN]

(* closed is the place of the entry that closedResponseId names, 0 for     *)
(* none.                                                                   *)
Views == [phase : OverlayPhases, sending : BOOLEAN, entries : Seq(Entries), closed : Nat]

OverlayMessages ==
  [kind : {"phase"}, value : OverlayPhases]
    \union [kind : {"visibility"}, value : BOOLEAN]
    \union [kind : {"event"}, value : Entries \union {"user", "complete", "usage"}]

OverlayTypeOK ==
  /\ main \in MainStates /\ turn \in BOOLEAN /\ view \in Views
  /\ frame \in {"hidden", "typing", "response"} /\ scheduled \in BOOLEAN
  /\ toMain \in Seq(BOOLEAN) /\ toView \in Seq(OverlayMessages)
  /\ parted \in BOOLEAN

Visibility(up) == [kind |-> "visibility", value |-> up]
Phase(phase) == [kind |-> "phase", value |-> phase]
Event(type) == [kind |-> "event", value |-> type]

-----------------------------------------------------------------------------
(* What there is to see.                                                   *)

(* findLatestVisibleAssistantReply                                         *)
Replies(v) == {i \in DOMAIN v.entries : v.entries[i] # "tool"}

(* resolveOverlayTurnLifecycle                                             *)
Lifecycle(v) ==
  CASE v.phase \in TerminalPhases ->
         IF v.sending /\ Replies(v) = {} THEN "preflight" ELSE "terminal"
    [] v.phase = "awaiting" -> "awaiting"
    [] v.phase \in {"streaming", "tool"} -> "active"
    [] OTHER -> IF v.sending THEN "preflight" ELSE "idle"

(* resolveChatLoopUiState: a reply is awaited.                             *)
Awaits(v) ==
  \/ Lifecycle(v) \in {"preflight", "awaiting"}
  \/ Lifecycle(v) = "active" /\ (v.phase = "tool" \/ Replies(v) = {})

(* isChatLoopBusy                                                          *)
Busy(v) == Lifecycle(v) \notin {"idle", "terminal"}

(* resolveResponseOverlayViewContract: the row of the turn before is not   *)
(* shown while the next turn awaits its first.                             *)
ShowsResponse(v) ==
  LET last  == Len(v.entries)
      stale == Lifecycle(v) \in {"preflight", "awaiting"} /\ last \in Replies(v)
  IN  last > 0 /\ v.closed # last /\ ~stale

(* resolveResponseOverlayLayoutMode                                        *)
Layout(v) == IF ShowsResponse(v) THEN "response" ELSE IF Awaits(v) THEN "typing" ELSE "hidden"

Visible(v) == Layout(v) # "hidden"

(* The effects of useResponseOverlayWindowSync when the view becomes v.    *)
Reports(v) ==
  IF Layout(v) = Layout(view) /\ v.entries = view.entries
  THEN UNCHANGED <<frame, scheduled, toMain>>
  ELSE IF Visible(v)
  THEN scheduled' = TRUE /\ UNCHANGED <<frame, toMain>>
  ELSE /\ scheduled' = FALSE
       /\ frame' = "hidden"
       /\ toMain' = IF frame = "hidden" THEN toMain ELSE Append(toMain, FALSE)

Renders(v) ==
  /\ view' = v
  /\ Reports(v)
  /\ parted' = (parted \/ (scheduled /\ frame = "hidden" /\ ~Visible(v)))

-----------------------------------------------------------------------------
(* The main process.                                                       *)

WindowMode(phase) ==
  CASE phase = "idle" -> "hidden"
    [] phase \in TerminalPhases -> "terminal"
    [] OTHER -> "active-loop"

(* applyResponseOverlayWindowMode, in the state that setPhase has reached. *)
Applied_Reopens(m, mode) ==
  CASE mode = "hidden" -> [m EXCEPT !.flag = FALSE, !.response = FALSE]
    [] mode = "active-loop" -> [m EXCEPT !.flag = TRUE, !.response = @ \/ m.chat]
    [] OTHER -> [m EXCEPT !.response = @ \/ m.chat]

Applied(m, mode) ==
  CASE mode = "hidden" -> [m EXCEPT !.flag = FALSE, !.response = FALSE]
    [] mode = "active-loop" -> [m EXCEPT !.flag = TRUE, !.response = @ \/ m.chat]
    [] OTHER -> [m EXCEPT !.response = @ \/ (m.flag /\ m.chat)]

(* What the renderer hears of it: first of the window, then of the phase.  *)
Announced(phase) ==
  (IF WindowMode(phase) = "terminal" THEN << >>
   ELSE <<Visibility(WindowMode(phase) = "active-loop")>>) \o <<Phase(phase)>>

(* setPhase, and then what follows it to the renderer.  The phase of a     *)
(* tool comes with its call's metadata and is never the same.              *)
SetPhase(phase, after) ==
  LET changes == phase # main.phase \/ phase = "tool"
  IN  /\ main' = IF changes THEN Applied([main EXCEPT !.phase = phase], WindowMode(phase))
                 ELSE main
      /\ toView' = toView \o (IF changes THEN Announced(phase) ELSE << >>) \o after
      /\ parted' = (parted /\ ~(changes /\ phase = "awaiting" /\ main.chat))
      /\ UNCHANGED <<view, frame, scheduled, toMain>>

(* The pill is about to send a query.                                      *)
PrimeAwaiting ==
  main.phase \notin {"streaming", "tool"} /\ SetPhase("awaiting", << >>) /\ UNCHANGED turn

(* A query of another renderer, whose message the window is told.          *)
Query == SetPhase("awaiting", <<Event("user")>>) /\ turn' = TRUE

QueryFails == turn /\ SetPhase("idle", <<Event("error")>>) /\ turn' = FALSE

StopQuery == SetPhase("complete", << >>) /\ UNCHANGED turn

(* The link has been lost or opened.                                       *)
LinkChanges == SetPhase("idle", << >>) /\ turn' = FALSE

(* resolveBackendOverlayPhaseTransition; usage stands for the events that  *)
(* come after the last chunk.                                              *)
PhaseAfterEvent(type) ==
  CASE type = "text" -> "streaming"
    [] type = "tool" -> "tool"
    [] type = "complete" -> "complete"
    [] type = "error" -> IF main.phase = "idle" THEN "idle" ELSE "error"
    [] type = "usage" -> IF main.phase \in {"idle", "complete", "error"} THEN main.phase
                         ELSE "complete"

BackendEvent(type) ==
  /\ turn \/ type = "usage"
  /\ SetPhase(PhaseAfterEvent(type), <<Event(type)>>)
  /\ turn' = (turn /\ type \notin {"complete", "error"})

(* showChatWindow                                                          *)
ShowPill(focus) ==
  LET looping  == WindowMode(main.phase) = "active-loop"
      restores == focus /\ (main.flag \/ looping)
  IN  /\ main' = [main EXCEPT !.chat = TRUE, !.flag = @ \/ (restores /\ looping),
                              !.response = @ \/ restores]
      /\ toView' = Append(toView, Visibility(main.response \/ restores))
      /\ UNCHANGED <<turn, view, frame, scheduled, toMain, parted>>

(* hideChatWindow                                                          *)
HidePill ==
  /\ main.chat
  /\ main' = [main EXCEPT !.chat = FALSE, !.response = FALSE]
  /\ toView' = Append(toView, Visibility(FALSE))
  /\ parted' = TRUE
  /\ UNCHANGED <<turn, view, frame, scheduled, toMain>>

(* handleSetResponseboxSize                                                *)
HandleSize ==
  /\ toMain # << >>
  /\ LET sees == Head(toMain)
     IN  /\ main' = [main EXCEPT !.flag = sees, !.response = sees /\ (@ \/ main.chat)]
         /\ toView' = Append(toView, Visibility(sees))
  /\ toMain' = Tail(toMain)
  /\ UNCHANGED <<turn, view, frame, scheduled, overlayActs, parted>>

-----------------------------------------------------------------------------
(* The renderer of the window.                                             *)

(* The handlers of the chat stream, as far as the window shows their rows. *)
AfterEvent(v, type) ==
  LET last == Len(v.entries)
      open == last > 0 /\ v.entries[last] = "text"
  IN  CASE type = "user" -> {[v EXCEPT !.entries = << >>, !.closed = 0, !.sending = TRUE]}
        [] type = "text" ->
             {[v EXCEPT !.entries = IF open THEN @ ELSE Append(@, "text"),
                        !.sending = FALSE]}
        [] type = "tool" ->
             {[v EXCEPT !.entries = rows, !.sending = FALSE] :
                rows \in {v.entries, Append(v.entries, "tool")}}
        [] type = "complete" ->
             {[v EXCEPT !.entries = IF open THEN [@ EXCEPT ![last] = "done"] ELSE @,
                        !.sending = FALSE]}
        [] type = "error" ->
             {[v EXCEPT !.entries = Append(@, "error"), !.sending = FALSE]}
        [] OTHER -> {v}

(* The effect of useResponseOverlayViewModel on the awaiting phase.        *)
AfterPhase(v, phase) ==
  [v EXCEPT !.phase = phase, !.closed = IF phase = "awaiting" THEN 0 ELSE @]

(* overlayPhaseListener, from-backend, and the listener of the window's    *)
(* visibility: a window that is hidden has no frame any more.              *)
Receive ==
  /\ toView # << >>
  /\ toView' = Tail(toView)
  /\ LET message == Head(toView)
     IN  CASE message.kind = "phase" ->
                Renders(AfterPhase(view, message.value))
           [] message.kind = "event" ->
                \E v \in AfterEvent(view, message.value) : Renders(v)
           [] message.kind = "visibility" ->
                /\ frame' = IF message.value THEN frame ELSE "hidden"
                /\ scheduled' = (scheduled \/ (message.value /\ Visible(view)))
                /\ parted' = (parted \/ (~message.value /\ frame # "hidden"))
                /\ UNCHANGED <<view, toMain>>
  /\ UNCHANGED <<main, turn, overlayActs>>

(* reportOverlaySize, in the animation frame.                              *)
ReportSize ==
  /\ scheduled
  /\ scheduled' = FALSE
  /\ IF Visible(view) /\ frame # Layout(view)
     THEN /\ frame' = Layout(view) /\ toMain' = Append(toMain, TRUE)
          /\ parted' = (parted /\ ~(main.chat /\ view.closed = 0))
     ELSE UNCHANGED <<frame, toMain, parted>>
  /\ UNCHANGED <<main, turn, toView, view, overlayActs>>

(* isResponseCloseable, and an answer of tools only                        *)
Closeable(v) ==
  /\ ShowsResponse(v) /\ ~Busy(v)
  /\ "tool" \in ToSet(v.entries) \/ Last(v.entries) \in {"done", "error"}

(* handleCloseResponse, in the window that shows it                        *)
CloseAnswer ==
  /\ main.response /\ frame = "response"
  /\ Closeable(view)
  /\ view' = [view EXCEPT !.closed = Len(view.entries)]
  /\ Reports(view')
  /\ parted' = (parted \/ turn)
  /\ UNCHANGED <<main, turn, toView>>

-----------------------------------------------------------------------------
OverlayInit ==
  /\ main \in [phase : {"idle"}, chat : BOOLEAN, flag : {FALSE}, response : {FALSE}]
  /\ turn = FALSE
  /\ view = [phase |-> "idle", sending |-> FALSE, entries |-> << >>, closed |-> 0]
  /\ toView = << >> /\ toMain = << >>
  /\ frame = "hidden" /\ scheduled = FALSE
  /\ overlayActs = 0
  /\ parted = ~main.chat

UsersAct ==
  \/ PrimeAwaiting \/ Query \/ StopQuery \/ CloseAnswer \/ HidePill
  \/ \E focus \in BOOLEAN : ShowPill(focus)

BackendActs ==
  QueryFails \/ LinkChanges \/
  \E type \in {"text", "tool", "complete", "error", "usage"} : BackendEvent(type)

OverlayNext ==
  \/ Receive \/ ReportSize \/ HandleSize
  \/ /\ overlayActs < MaxOverlayActs /\ Len(toView) < MaxInFlight
     /\ overlayActs' = overlayActs + 1
     /\ UsersAct \/ BackendActs

OverlaySpec == OverlayInit /\ [][OverlayNext]_overlayVars

-----------------------------------------------------------------------------
InTransit == toView # << >> \/ toMain # << >> \/ scheduled

(* When nothing is on its way, no empty window stands above the pill, and  *)
(* what the view has to show is on the screen, whatever queries, stops,    *)
(* closes and events have crossed.  Not so once the two have parted: when  *)
(* the pill was hidden, when the window was hidden under a view that had   *)
(* reported (a change of the link does that), when the view had nothing to *)
(* show before its first frame was drawn, and when the answer of a stopped *)
(* turn was closed that still goes on.  The next awaiting phase brings     *)
(* them together, and the next report of the view unless it was closed.    *)
WindowFollowsTheView ==
  ~InTransit /\ ~parted => main.response = Visible(view)
=============================================================================

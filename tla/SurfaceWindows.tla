--------------------------- MODULE SurfaceWindows ---------------------------
(***************************************************************************)
(* The windows of the main process: the dashboard (main window), the chat  *)
(* pill and the response window above it.  Every handler here runs to its  *)
(* end without giving up control, except two that wait for macOS to leave  *)
(* full screen.                                                            *)
(*                                                                         *)
(* Abstracted: bounds, displays, opacity, stacking and focus; the windows  *)
(* exist from the start (none is destroyed before quitting); a phase is    *)
(* the window mode it stands for.                                          *)
(***************************************************************************)
VARIABLES
  surface,     \* which windows are visible, and what they are used for
  phase,       \* the window mode of responseOverlayPhase
  pointer,     \* how the pill's window takes the mouse
  fullScreen,  \* the dashboard in native full screen; "unsupported" off macOS
  leaving,     \* the callbacks waiting for leave-full-screen
  onboarding   \* "running" or "done" in the renderer, and whether App has asked
               \* the main process for the surface that goes with it

surfaceVars == <<surface, phase, pointer, fullScreen, leaving, onboarding>>

Phases == {"hidden", "active-loop", "terminal"}

(* overlay is state.responseOverlayVisible, wakeword the last              *)
(* wakeword-toggle sent to the dashboard.                                  *)
Surfaces == [main : BOOLEAN, chat : BOOLEAN, response : BOOLEAN,
             overlay : BOOLEAN, wakeword : BOOLEAN,
             primary : {"dashboard", "onboarding", "chat"},
             mode : {"dashboard", "onboarding"}]

(* hitTest is chatboxHitTestActive; ignored is the last argument of        *)
(* chatWindow.setIgnoreMouseEvents, focusable that of setFocusable.        *)
Pointers == [hitTest : BOOLEAN, ignored : BOOLEAN, focusable : BOOLEAN]

InLoop == phase = "active-loop"

-----------------------------------------------------------------------------
(* The window operations, as functions of what is visible.                 *)

ShowChat(w, focus, restore) ==
  LET restores == (focus \/ restore) /\ (w.overlay \/ InLoop)
  IN  [w EXCEPT !.primary  = "chat",
                !.main     = FALSE,
                !.chat     = TRUE,
                !.overlay  = w.overlay \/ (restores /\ InLoop),
                !.response = w.response \/ restores,
                !.wakeword = FALSE]

HideChat(w) ==
  [w EXCEPT !.chat = FALSE, !.response = FALSE, !.wakeword = TRUE]

HideMain(w) == [w EXCEPT !.main = FALSE]

ShowMain(w, open) ==
  LET mode   == IF open = "onboarding" THEN "onboarding" ELSE "dashboard"
      behind == IF w.chat \/ w.response THEN HideChat(w) ELSE w
  IN  [behind EXCEPT !.main = TRUE, !.mode = mode, !.primary = mode]

SetResponseOverlayVisibilityState(w, visible) ==
  [w EXCEPT !.overlay = visible]

ShowResponseWhenChatVisible(w) == [w EXCEPT !.response = w.response \/ w.chat]

HideResponse(w) == [w EXCEPT !.response = FALSE]

(* What handleResponseOverlayPhaseEvent does to the response window.       *)
ApplyWindowMode(w, mode) ==
  CASE mode = "hidden"      -> HideResponse(SetResponseOverlayVisibilityState(w, FALSE))
    [] mode = "active-loop" -> ShowResponseWhenChatVisible(
                                 SetResponseOverlayVisibilityState(w, TRUE))
    [] mode = "terminal"    -> [w EXCEPT !.response = w.response \/ (w.overlay /\ w.chat)]

HitTested(p, looping) == [p EXCEPT !.ignored = looping \/ ~p.hitTest]

-----------------------------------------------------------------------------
(* The operations of the main process.                                     *)

Windowing(w) ==
  /\ surface' = w
  /\ UNCHANGED <<phase, fullScreen, leaving, onboarding>>

(* Showing the pill syncs its hit test.                                    *)
ShowsChat(focus, restore) ==
  /\ Windowing(ShowChat(surface, focus, restore))
  /\ pointer' = HitTested(pointer, InLoop)

ShowsMain(open) == Windowing(ShowMain(surface, open)) /\ UNCHANGED pointer

HidesChat == Windowing(HideChat(surface)) /\ UNCHANGED pointer

(* show-chatbox, by the renderers (a dashboard query does not focus) and by *)
(* the wakeword bridge.                                                    *)
ShowChatbox == \E focus \in BOOLEAN : ShowsChat(focus, FALSE)

(* hide-chatbox, and the pill's close button.                              *)
HideChatbox == HidesChat

(* The global shortcut.                                                    *)
ToggleChat == IF surface.chat THEN HidesChat ELSE ShowsChat(TRUE, FALSE)

(* show-main-window, and the tray, which never passes open.                *)
ShowMainWindow == ShowsMain("")

(* A second instance is started, or macOS activates the application.       *)
FocusPrimarySurface ==
  CASE surface.main -> ShowsMain(surface.mode)
    [] ~surface.main /\ surface.primary = "onboarding" -> ShowsMain("onboarding")
    [] OTHER -> ShowsChat(TRUE, FALSE)

(* finishCollapse: hide the dashboard, show and focus the pill.            *)
Collapsed(w) == ShowChat(HideMain(w), TRUE, FALSE)

(* The dashboard's close button.  During onboarding it only hides; in full *)
(* screen the collapse waits for the event.                                *)
CloseMainWindow ==
  /\ surface.main
  /\ IF surface.mode = "onboarding"
     THEN Windowing(HideMain(surface)) /\ UNCHANGED pointer
     ELSE IF fullScreen = "on"
     THEN /\ leaving' = leaving \union {"collapse"}
          /\ fullScreen' = "leaving"
          /\ UNCHANGED <<surface, phase, pointer, onboarding>>
     ELSE /\ Windowing(Collapsed(surface))
          /\ pointer' = HitTested(pointer, InLoop)

(* A permission prompt on macOS wants the dashboard in front.              *)
FocusForPermissionPrompt ==
  /\ fullScreen # "unsupported"
  /\ surface.main
  /\ IF fullScreen \in {"on", "leaving"}
     THEN /\ leaving' = leaving \union {"prompt"}
          /\ fullScreen' = "leaving"
          /\ UNCHANGED <<surface, phase, pointer, onboarding>>
     ELSE /\ Windowing([surface EXCEPT !.main = TRUE])
          /\ UNCHANGED pointer

(* leave-full-screen: the waiting callbacks run, the collapse before the   *)
(* prompt.  focusAvailableMainWindow shows the window as it is.            *)
LeaveFullScreen ==
  /\ fullScreen = "leaving"
  /\ fullScreen' = "off"
  /\ leaving' = {}
  /\ LET w == IF "collapse" \in leaving THEN Collapsed(surface) ELSE surface
     IN  surface' = [w EXCEPT !.main = w.main \/ "prompt" \in leaving]
  /\ pointer' = IF "collapse" \in leaving THEN HitTested(pointer, InLoop) ELSE pointer
  /\ UNCHANGED <<phase, onboarding>>

(* The prompt does not wait for the event longer than its timer.           *)
PromptTimesOut ==
  /\ "prompt" \in leaving
  /\ leaving' = leaving \ {"prompt"}
  /\ surface' = [surface EXCEPT !.main = TRUE]
  /\ UNCHANGED <<phase, pointer, fullScreen, onboarding>>

(* window-toggle-maximize on macOS.                                        *)
EnterFullScreen ==
  /\ fullScreen = "off" /\ surface.main
  /\ fullScreen' = "on"
  /\ UNCHANGED <<surface, phase, pointer, leaving, onboarding>>

(* Mutant: the end of a loop leaves the pill as it is.                     *)
PhaseChanges_Sticky(mode) ==
  /\ phase' = mode
  /\ surface' = ApplyWindowMode(surface, mode)
  /\ pointer' = IF mode = "active-loop" THEN [pointer EXCEPT !.ignored = TRUE, !.focusable = FALSE]
                                        ELSE pointer
  /\ UNCHANGED <<fullScreen, leaving, onboarding>>

(* handleResponseOverlayPhaseEvent: the mouse first, then the windows.     *)
PhaseChanges(mode) ==
  /\ phase' = mode
  /\ surface' = ApplyWindowMode(surface, mode)
  /\ pointer' = [HitTested(pointer, mode = "active-loop") EXCEPT !.focusable = mode # "active-loop"]
  /\ UNCHANGED <<fullScreen, leaving, onboarding>>

(* set-chatbox-hit-test-active, as the pointer enters or leaves the pill.  *)
SetHitTest(active) ==
  /\ pointer' = HitTested([pointer EXCEPT !.hitTest = active], InLoop)
  /\ UNCHANGED <<surface, phase, fullScreen, leaving, onboarding>>

(* set-responsebox-size, by the response window's renderer.                *)
SetResponseboxSize(visible) ==
  LET w == SetResponseOverlayVisibilityState(surface, visible)
  IN  /\ Windowing(IF visible THEN ShowResponseWhenChatVisible(w) ELSE HideResponse(w))
      /\ UNCHANGED pointer

(* The response window's close button.                                     *)
CloseResponse ==
  /\ surface.response
  /\ Windowing(HideResponse(SetResponseOverlayVisibilityState(surface, FALSE)))
  /\ UNCHANGED pointer

(* The effect of AppContent: it asks for its startup surface once, and     *)
(* again when onboarding is over.                                          *)
ApplyStartupSurface ==
  /\ ~onboarding.applied
  /\ surface' = IF onboarding.running THEN ShowMain(surface, "onboarding")
                ELSE ShowChat(surface, TRUE, FALSE)
  /\ pointer' = IF onboarding.running THEN pointer ELSE HitTested(pointer, InLoop)
  /\ onboarding' = [onboarding EXCEPT !.applied = TRUE]
  /\ UNCHANGED <<phase, fullScreen, leaving>>

FinishOnboarding ==
  /\ onboarding.running /\ onboarding.applied /\ surface.main
  /\ onboarding' = [running |-> FALSE, applied |-> FALSE]
  /\ UNCHANGED <<surface, phase, pointer, fullScreen, leaving>>

-----------------------------------------------------------------------------
SurfaceInit ==
  /\ surface = [main |-> FALSE, chat |-> FALSE, response |-> FALSE,
                overlay |-> FALSE, wakeword |-> TRUE,
                primary |-> "dashboard", mode |-> "dashboard"]
  /\ phase = "hidden"
  /\ pointer = [hitTest |-> FALSE, ignored |-> FALSE, focusable |-> TRUE]
  /\ fullScreen \in {"unsupported", "off"}
  /\ leaving = {}
  /\ onboarding \in [running : BOOLEAN, applied : {FALSE}]

SurfaceNext ==
  \/ ShowChatbox
  \/ HideChatbox
  \/ ToggleChat
  \/ ShowMainWindow
  \/ FocusPrimarySurface
  \/ CloseMainWindow
  \/ FocusForPermissionPrompt
  \/ LeaveFullScreen
  \/ PromptTimesOut
  \/ EnterFullScreen
  \/ \E mode \in Phases : PhaseChanges(mode)
  \/ \E active \in BOOLEAN : SetHitTest(active)
  \/ \E visible \in BOOLEAN : SetResponseboxSize(visible)
  \/ CloseResponse
  \/ ApplyStartupSurface
  \/ FinishOnboarding

SurfaceSpec == SurfaceInit /\ [][SurfaceNext]_surfaceVars

-----------------------------------------------------------------------------
(* Types.                                                                  *)
SurfaceTypeOK ==
  /\ surface \in Surfaces
  /\ phase \in Phases
  /\ pointer \in Pointers
  /\ fullScreen \in {"unsupported", "off", "on", "leaving"}
  /\ leaving \subseteq {"collapse", "prompt"}
  /\ onboarding \in [running : BOOLEAN, applied : BOOLEAN]

(* The response window is never on the screen without the pill it belongs  *)
(* to, whichever of the six handlers that show or hide one of them ran     *)
(* last, and away from macOS neither is the dashboard together with the    *)
(* pill (there a permission prompt brings the dashboard forward over it).  *)
SurfacesStayApart ==
  /\ surface.response => surface.chat
  /\ fullScreen = "unsupported" => ~(surface.main /\ surface.chat)

(* Once shown, the pill lets the mouse through exactly while the agent     *)
(* loop runs or the pointer is off its shape, and refuses the focus        *)
(* exactly while the loop runs: no order of phases, hovers and hide/show   *)
(* cycles leaves it stuck.                                                 *)
ClickThroughFollowsPhase ==
  surface.chat => /\ pointer.ignored = (InLoop \/ ~pointer.hitTest)
                  /\ pointer.focusable = ~InLoop

(* The dashboard listens for the wakeword exactly while no pill is shown:  *)
(* its last wakeword-toggle agrees with the pill's visibility.             *)
WakewordFollowsThePill == surface.wakeword = ~surface.chat

(* The three windows, the mouse and the wakeword listener stay in step     *)
(* under every handler that shows, hides, focuses or replaces a window.    *)
WindowsStayInStep ==
  SurfacesStayApart /\ ClickThroughFollowsPhase /\ WakewordFollowsThePill
=============================================================================

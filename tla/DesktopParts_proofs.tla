------------------------ MODULE DesktopParts_proofs ------------------------
(***************************************************************************)
(* Proofs about the windows of the main process (SurfaceWindows), about the*)
(* tool calls and captures that hide them (ToolSurfaces), and about the    *)
(* transport to the sidecar (SidecarTransport), for any set of requests,   *)
(* any number of probe attempts and of restarts.                           *)
(***************************************************************************)
EXTENDS ToolSurfaces, SidecarTransport, FiniteSetTheorems, TLAPS

(* What the steps preserve beside WindowsStayInStep: the pill refuses the  *)
(* focus by the phase even while it is hidden, and away from macOS nothing *)
(* waits for the end of full screen, so no prompt can show the dashboard.  *)
SurfaceIInv ==
  /\ SurfaceTypeOK
  /\ WindowsStayInStep
  /\ pointer.focusable = ~InLoop
  /\ fullScreen = "unsupported" => leaving = {}

-----------------------------------------------------------------------------
(* The window operations keep a surface well formed and its windows apart. *)

(* The pill is shown over nothing but its own response window.             *)
WellFormed(w) ==
  /\ w \in Surfaces
  /\ w.response => w.chat
  /\ w.wakeword = ~w.chat

LEMMA ShowChatKeeps ==
  ASSUME NEW w \in Surfaces, NEW focus \in BOOLEAN, NEW restore \in BOOLEAN
  PROVE  /\ WellFormed(ShowChat(w, focus, restore))
         /\ ShowChat(w, focus, restore).chat
         /\ ~ShowChat(w, focus, restore).main
<1>1. InLoop \in BOOLEAN
  BY DEF InLoop
<1> QED BY <1>1 DEF WellFormed, Surfaces, ShowChat

LEMMA ShowMainKeeps ==
  ASSUME NEW w \in Surfaces, WellFormed(w), NEW open
  PROVE  /\ WellFormed(ShowMain(w, open))
         /\ ~ShowMain(w, open).chat
<1> QED BY DEF WellFormed, Surfaces, ShowMain, HideChat

LEMMA HideChatKeeps ==
  ASSUME NEW w \in Surfaces
  PROVE  /\ WellFormed(HideChat(w))
         /\ ~HideChat(w).chat
<1> QED BY DEF WellFormed, Surfaces, HideChat

(* A phase or a report of the response renderer moves that window only.    *)
LEMMA ApplyWindowModeKeeps ==
  ASSUME NEW w \in Surfaces, WellFormed(w), NEW mode \in Phases
  PROVE  /\ WellFormed(ApplyWindowMode(w, mode))
         /\ ApplyWindowMode(w, mode).chat = w.chat
         /\ ApplyWindowMode(w, mode).main = w.main
<1> USE DEF WellFormed, Surfaces, HideResponse, SetResponseOverlayVisibilityState,
            ShowResponseWhenChatVisible
<1>1. CASE mode = "hidden"
  BY <1>1 DEF ApplyWindowMode
<1>2. CASE mode = "active-loop"
  BY <1>2 DEF ApplyWindowMode
<1>3. CASE mode = "terminal"
  BY <1>3 DEF ApplyWindowMode
<1> QED BY <1>1, <1>2, <1>3 DEF Phases

LEMMA HitTestedType ==
  ASSUME NEW p \in Pointers, NEW looping \in BOOLEAN
  PROVE  HitTested(p, looping) = [hitTest |-> p.hitTest, ignored |-> looping \/ ~p.hitTest,
                                  focusable |-> p.focusable]
BY DEF Pointers, HitTested

-----------------------------------------------------------------------------
(* A step that shows the pill, hides it, or shows the dashboard.           *)
LEMMA ShowsChatKeeps ==
  ASSUME SurfaceIInv, NEW w \in Surfaces, NEW focus \in BOOLEAN, NEW restore \in BOOLEAN,
         surface' = ShowChat(w, focus, restore), pointer' = HitTested(pointer, InLoop),
         UNCHANGED phase, fullScreen' = fullScreen \/ fullScreen' = "off",
         leaving' \subseteq leaving,
         onboarding' \in [running : BOOLEAN, applied : BOOLEAN]
  PROVE  SurfaceIInv'
<1>1. InLoop \in BOOLEAN /\ InLoop' = InLoop
  BY DEF InLoop
<1>2. /\ WellFormed(surface') /\ surface'.chat /\ ~surface'.main
  BY ShowChatKeeps
<1>3. /\ pointer' \in Pointers
      /\ pointer'.ignored = (InLoop \/ ~pointer.hitTest)
      /\ pointer'.hitTest = pointer.hitTest
      /\ pointer'.focusable = pointer.focusable
  BY <1>1 DEF SurfaceIInv, SurfaceTypeOK, HitTested, Pointers
<1>4. SurfaceTypeOK'
  BY <1>2, <1>3 DEF SurfaceIInv, SurfaceTypeOK, WellFormed
<1>5. WindowsStayInStep'
  BY <1>1, <1>2, <1>3 DEF SurfaceIInv, WindowsStayInStep, SurfacesStayApart, WellFormed,
                          ClickThroughFollowsPhase, WakewordFollowsThePill
<1> QED BY <1>1, <1>3, <1>4, <1>5 DEF SurfaceIInv

(* A step that hides the pill or leaves it hidden.                         *)
LEMMA PillHiddenKeeps ==
  ASSUME SurfaceIInv, WellFormed(surface'), ~surface'.chat,
         UNCHANGED <<phase, pointer, fullScreen, leaving>>,
         onboarding' \in [running : BOOLEAN, applied : BOOLEAN]
  PROVE  SurfaceIInv'
<1>1. InLoop' = InLoop
  BY DEF InLoop
<1> QED BY <1>1 DEF SurfaceIInv, SurfaceTypeOK, WindowsStayInStep, SurfacesStayApart,
                    WellFormed, ClickThroughFollowsPhase, WakewordFollowsThePill

(* A step that leaves pill and dashboard as they are.                      *)
LEMMA ResponseMovesKeeps ==
  ASSUME SurfaceIInv, WellFormed(surface'), surface'.chat = surface.chat,
         surface'.main => surface.main,
         UNCHANGED <<phase, pointer, fullScreen, leaving>>,
         onboarding' \in [running : BOOLEAN, applied : BOOLEAN]
  PROVE  SurfaceIInv'
<1>1. InLoop' = InLoop
  BY DEF InLoop
<1> QED BY <1>1 DEF SurfaceIInv, SurfaceTypeOK, WindowsStayInStep, SurfacesStayApart,
                    WellFormed, ClickThroughFollowsPhase, WakewordFollowsThePill

LEMMA SurfaceIsWellFormed == SurfaceIInv => WellFormed(surface)
BY DEF SurfaceIInv, SurfaceTypeOK, WindowsStayInStep, SurfacesStayApart, WellFormed,
       WakewordFollowsThePill

(* On macOS a window operation may bring the dashboard over the pill.      *)
LEMMA DashboardComesForwardKeeps ==
  ASSUME SurfaceIInv, NEW w \in Surfaces, WellFormed(w), NEW main \in BOOLEAN,
         w.chat = surface.chat, surface' = [w EXCEPT !.main = main],
         fullScreen # "unsupported", fullScreen' \in {"off", "on", "leaving"},
         leaving' \subseteq {"collapse", "prompt"}, UNCHANGED <<phase, pointer, onboarding>>
  PROVE  SurfaceIInv'
<1>1. InLoop' = InLoop
  BY DEF InLoop
<1>2. WellFormed(surface') /\ surface'.chat = surface.chat
  BY DEF WellFormed, Surfaces
<1> QED BY <1>1, <1>2 DEF SurfaceIInv, SurfaceTypeOK, WindowsStayInStep, SurfacesStayApart,
                    WellFormed, ClickThroughFollowsPhase, WakewordFollowsThePill

-----------------------------------------------------------------------------
LEMMA SurfaceInitEstablishes == SurfaceInit => SurfaceIInv
<1> SUFFICES ASSUME SurfaceInit PROVE SurfaceIInv
  OBVIOUS
<1>1. /\ surface \in Surfaces /\ ~surface.response /\ ~surface.chat /\ surface.wakeword
  BY DEF SurfaceInit, Surfaces
<1>2. pointer \in Pointers /\ pointer.focusable
  BY DEF SurfaceInit, Pointers
<1>3. phase \in Phases /\ ~InLoop
  BY DEF SurfaceInit, Phases, InLoop
<1>4. /\ onboarding \in [running : BOOLEAN, applied : BOOLEAN]
      /\ fullScreen \in {"unsupported", "off"} /\ leaving = {}
  BY DEF SurfaceInit
<1> QED BY <1>1, <1>2, <1>3, <1>4
    DEF SurfaceIInv, SurfaceTypeOK, WindowsStayInStep, SurfacesStayApart,
        ClickThroughFollowsPhase, WakewordFollowsThePill

LEMMA SurfaceNextPreserves == SurfaceIInv /\ [SurfaceNext]_surfaceVars => SurfaceIInv'
<1> SUFFICES ASSUME SurfaceIInv, [SurfaceNext]_surfaceVars PROVE SurfaceIInv'
  OBVIOUS
<1>0. /\ surface \in Surfaces /\ WellFormed(surface)
      /\ onboarding \in [running : BOOLEAN, applied : BOOLEAN]
  BY SurfaceIsWellFormed DEF SurfaceIInv, SurfaceTypeOK
<1>a. ASSUME NEW focus \in BOOLEAN, ShowsChat(focus, FALSE) PROVE SurfaceIInv'
  BY <1>0, <1>a, ShowsChatKeeps DEF ShowsChat, Windowing
<1>b. ASSUME HidesChat PROVE SurfaceIInv'
  BY <1>0, <1>b, HideChatKeeps, PillHiddenKeeps DEF HidesChat, Windowing
<1>c. ASSUME NEW open, ShowsMain(open) PROVE SurfaceIInv'
  BY <1>0, <1>c, ShowMainKeeps, PillHiddenKeeps DEF ShowsMain, Windowing
<1>d. ASSUME UNCHANGED <<surface, phase, pointer>>,
             onboarding' \in [running : BOOLEAN, applied : BOOLEAN],
             fullScreen' \in {"unsupported", "off", "on", "leaving"},
             leaving' \subseteq {"collapse", "prompt"},
             fullScreen' = "unsupported" => fullScreen = "unsupported" /\ leaving' = leaving
      PROVE  SurfaceIInv'
  BY <1>d DEF SurfaceIInv, SurfaceTypeOK, WindowsStayInStep, SurfacesStayApart, InLoop,
              ClickThroughFollowsPhase, WakewordFollowsThePill
<1>e. ASSUME surface' = HideMain(surface), UNCHANGED <<phase, pointer, fullScreen, leaving, onboarding>>
      PROVE  SurfaceIInv'
  <2>1. /\ WellFormed(surface') /\ surface'.chat = surface.chat /\ ~surface'.main
    BY <1>0, <1>e DEF WellFormed, Surfaces, HideMain
  <2> QED BY <1>0, <1>e, <2>1, ResponseMovesKeeps
<1>f. HideMain(surface) \in Surfaces
  BY <1>0 DEF Surfaces, HideMain
<1>1. CASE ShowChatbox
  BY <1>1, <1>a DEF ShowChatbox
<1>2. CASE HideChatbox
  BY <1>2, <1>b DEF HideChatbox
<1>3. CASE ToggleChat
  BY <1>3, <1>a, <1>b DEF ToggleChat
<1>4. CASE ShowMainWindow
  BY <1>4, <1>c DEF ShowMainWindow
<1>5. CASE FocusPrimarySurface
  BY <1>5, <1>a, <1>c DEF FocusPrimarySurface
<1>6. CASE CloseMainWindow
  <2>1. CASE surface.mode = "onboarding"
    BY <1>6, <1>e, <2>1 DEF CloseMainWindow, Windowing
  <2>2. CASE surface.mode # "onboarding" /\ fullScreen = "on"
    BY <1>0, <1>6, <1>d, <2>2 DEF CloseMainWindow, SurfaceIInv, SurfaceTypeOK
  <2>3. CASE surface.mode # "onboarding" /\ fullScreen # "on"
    BY <1>0, <1>6, <1>f, <2>3, ShowsChatKeeps DEF CloseMainWindow, Windowing, Collapsed
  <2> QED BY <2>1, <2>2, <2>3
<1>7. CASE FocusForPermissionPrompt
  <2>1. CASE fullScreen \in {"on", "leaving"}
    BY <1>0, <1>7, <1>d, <2>1 DEF FocusForPermissionPrompt, SurfaceIInv, SurfaceTypeOK
  <2>2. CASE fullScreen \notin {"on", "leaving"}
    BY <1>0, <1>7, <2>2, DashboardComesForwardKeeps
    DEF FocusForPermissionPrompt, Windowing, SurfaceIInv, SurfaceTypeOK
  <2> QED BY <2>1, <2>2
<1>8. CASE LeaveFullScreen
  <2> DEFINE shown == Collapsed(surface)
             main(w) == w.main \/ "prompt" \in leaving
  <2>1. CASE "collapse" \in leaving
    <3>1. /\ WellFormed(surface') /\ surface'.chat
      <4>1. WellFormed(shown) /\ shown.chat
        BY <1>f, ShowChatKeeps DEF Collapsed
      <4>2. surface' = [shown EXCEPT !.main = main(shown)]
        BY <1>8, <2>1 DEF LeaveFullScreen
      <4> QED BY <4>1, <4>2 DEF WellFormed, Surfaces
    <3>2. /\ pointer' = HitTested(pointer, InLoop) /\ phase' = phase
          /\ fullScreen' = "off" /\ leaving' = {} /\ onboarding' = onboarding
      BY <1>8, <2>1 DEF LeaveFullScreen
    <3>3. /\ pointer' \in Pointers /\ InLoop' = InLoop
          /\ pointer'.ignored = (InLoop \/ ~pointer'.hitTest)
          /\ pointer'.focusable = ~InLoop
      <4>1. pointer \in Pointers /\ InLoop \in BOOLEAN /\ pointer.focusable = ~InLoop
        BY DEF SurfaceIInv, SurfaceTypeOK, InLoop
      <4>2. InLoop' = InLoop
        BY <3>2 DEF InLoop
      <4> QED BY <3>2, <4>1, <4>2 DEF HitTested, Pointers
    <3> QED BY <1>0, <3>1, <3>2, <3>3
        DEF SurfaceIInv, SurfaceTypeOK, WindowsStayInStep, SurfacesStayApart,
            WellFormed, ClickThroughFollowsPhase, WakewordFollowsThePill
  <2>2. CASE "collapse" \notin leaving
    <3>1. /\ surface' = [surface EXCEPT !.main = main(surface)] /\ main(surface) \in BOOLEAN
          /\ fullScreen = "leaving" /\ fullScreen' = "off" /\ leaving' = {}
          /\ UNCHANGED <<pointer, phase, onboarding>>
      BY <1>0, <1>8, <2>2 DEF LeaveFullScreen, Surfaces
    <3> HIDE DEF main
    <3> QED BY <1>0, <3>1, DashboardComesForwardKeeps
  <2> QED BY <2>1, <2>2
<1>9. CASE PromptTimesOut
  <2>1. fullScreen \in {"off", "on", "leaving"} /\ leaving' \subseteq {"collapse", "prompt"}
    BY <1>9 DEF PromptTimesOut, SurfaceIInv, SurfaceTypeOK
  <2> QED BY <1>0, <1>9, <2>1, DashboardComesForwardKeeps DEF PromptTimesOut
<1>10. CASE EnterFullScreen
  BY <1>0, <1>10, <1>d DEF EnterFullScreen, SurfaceIInv, SurfaceTypeOK
<1>11. ASSUME NEW mode \in Phases, PhaseChanges(mode) PROVE SurfaceIInv'
  <2>1. /\ WellFormed(surface') /\ surface'.chat = surface.chat /\ surface'.main = surface.main
    BY <1>0, <1>11, ApplyWindowModeKeeps DEF PhaseChanges
  <2>2. /\ phase' = mode /\ InLoop' = (mode = "active-loop")
        /\ UNCHANGED <<fullScreen, leaving, onboarding>>
    BY <1>11 DEF PhaseChanges, InLoop
  <2>3. /\ pointer' \in Pointers
        /\ pointer'.ignored = (mode = "active-loop" \/ ~pointer'.hitTest)
        /\ pointer'.focusable = (mode # "active-loop")
    <3>1. pointer \in Pointers
      BY DEF SurfaceIInv, SurfaceTypeOK
    <3> QED BY <1>11, <3>1 DEF PhaseChanges, HitTested, Pointers
  <2> QED BY <1>0, <2>1, <2>2, <2>3
      DEF SurfaceIInv, SurfaceTypeOK, WindowsStayInStep, SurfacesStayApart,
          WellFormed, ClickThroughFollowsPhase, WakewordFollowsThePill
<1>12. ASSUME NEW active \in BOOLEAN, SetHitTest(active) PROVE SurfaceIInv'
  <2>1. /\ pointer \in Pointers /\ InLoop \in BOOLEAN /\ pointer.focusable = ~InLoop
        /\ InLoop' = InLoop
    BY <1>12 DEF SetHitTest, SurfaceIInv, SurfaceTypeOK, InLoop
  <2>2. /\ pointer' \in Pointers
        /\ pointer'.ignored = (InLoop \/ ~pointer'.hitTest)
        /\ pointer'.focusable = ~InLoop
    BY <1>12, <2>1 DEF SetHitTest, HitTested, Pointers
  <2> QED BY <1>12, <2>1, <2>2
      DEF SetHitTest, SurfaceIInv, SurfaceTypeOK, WindowsStayInStep, SurfacesStayApart,
          ClickThroughFollowsPhase, WakewordFollowsThePill
<1>13. ASSUME NEW visible \in BOOLEAN, SetResponseboxSize(visible) PROVE SurfaceIInv'
  <2>1. /\ WellFormed(surface') /\ surface'.chat = surface.chat /\ surface'.main = surface.main
    BY <1>0, <1>13 DEF SetResponseboxSize, Windowing, WellFormed, Surfaces, HideResponse,
                       SetResponseOverlayVisibilityState, ShowResponseWhenChatVisible
  <2> QED BY <1>0, <1>13, <2>1, ResponseMovesKeeps DEF SetResponseboxSize, Windowing
<1>14. CASE CloseResponse
  <2>1. /\ WellFormed(surface') /\ surface'.chat = surface.chat /\ surface'.main = surface.main
    BY <1>0, <1>14 DEF CloseResponse, Windowing, WellFormed, Surfaces, HideResponse,
                       SetResponseOverlayVisibilityState
  <2> QED BY <1>0, <1>14, <2>1, ResponseMovesKeeps DEF CloseResponse, Windowing
<1>15. CASE ApplyStartupSurface
  <2>1. onboarding' \in [running : BOOLEAN, applied : BOOLEAN]
    BY <1>0, <1>15 DEF ApplyStartupSurface
  <2>2. CASE onboarding.running
    BY <1>0, <1>15, <2>1, <2>2, ShowMainKeeps, PillHiddenKeeps DEF ApplyStartupSurface
  <2>3. CASE ~onboarding.running
    BY <1>0, <1>15, <2>1, <2>3, ShowsChatKeeps DEF ApplyStartupSurface
  <2> QED BY <2>2, <2>3
<1>16. CASE FinishOnboarding
  BY <1>0, <1>16, <1>d DEF FinishOnboarding, SurfaceIInv, SurfaceTypeOK
<1>17. CASE UNCHANGED surfaceVars
  BY <1>0, <1>17, <1>d DEF surfaceVars, SurfaceIInv, SurfaceTypeOK
<1> QED BY <1>1, <1>2, <1>3, <1>4, <1>5, <1>6, <1>7, <1>8, <1>9, <1>10, <1>11, <1>12,
           <1>13, <1>14, <1>15, <1>16, <1>17 DEF SurfaceNext

LEMMA SurfaceInvariant == SurfaceSpec => []SurfaceIInv
BY SurfaceInitEstablishes, SurfaceNextPreserves, PTL DEF SurfaceSpec

(* Whatever handlers run in whatever order, the response window is never   *)
(* on the screen without the pill, the dashboard not with it away from     *)
(* macOS, the mouse passes the pill exactly while the loop runs or the     *)
(* pointer is off its shape, and the dashboard listens for the wakeword    *)
(* exactly while no pill is shown.                                         *)
THEOREM WindowsStayInStepHolds == SurfaceSpec => []WindowsStayInStep
<1>1. SurfaceIInv => WindowsStayInStep
  BY DEF SurfaceIInv
<1> QED BY <1>1, SurfaceInvariant, PTL

-----------------------------------------------------------------------------
(* The tool calls and captures (ToolSurfaces).                             *)

Stages == Working \union {"idle", "done", "dropped"}

(* The surfaces that are ever hidden: never the response window alone.     *)
Screens == {"main-window", "chatbox", "chatbox-response"}
MaybeScreen == Screens \union {"none"}

WindowsApart ==
  /\ surface \in Surfaces /\ fullScreen = "unsupported"
  /\ surface.response => surface.chat
  /\ ~(surface.main /\ surface.chat)

JobTypes ==
  /\ job \in [Jobs -> JobRecords]
  /\ \A j \in Jobs : job[j].surface \in MaybeScreen
  /\ tokens \subseteq Tools /\ tracked \subseteq Tools
  /\ pending \in [Renderers -> MaybeScreen]
  /\ captures \in [Renderers -> Nat]
  /\ owing \in [Renderers -> BOOLEAN]
  /\ turn \in [active : 0..MaxTurn, ended : BOOLEAN]
  /\ replies \in [Tools -> Nat]
  /\ stranded \in MaybeScreen
  /\ overlapped \in BOOLEAN

(* Only calls own tokens and are tracked; a capture that hides is counted. *)
RolesAreKept ==
  /\ \A j \in Jobs \ Tools : At(j, {"idle", "hiding", "shooting", "restoring", "done"})
  /\ \A j \in Jobs : At(j, {"hiding"}) => job[j].prepared

(* What an orchestrator counts.                                            *)
Counts(j) == At(j, {"hiding"}) \/ (At(j, {"shooting"}) /\ job[j].prepared)
Counted(r) == {j \in Jobs : Renderer(j) = r /\ Counts(j)}
CountIsTrue ==
  \A r \in Renderers : IsFiniteSet(Counted(r)) /\ captures[r] = Cardinality(Counted(r))

(* A capture that hides was the first.                                     *)
OneHides ==
  \A j, k \in Jobs :
    Renderer(j) = Renderer(k) /\ At(j, {"hiding"}) /\ At(k, {"hiding"}) => j = k

(* Who will restore what a renderer owes: a capture that restores already, *)
(* or one that shoots while none hides.                                    *)
Restores(r) == \E j \in Jobs : Renderer(j) = r /\ At(j, {"restoring"})
OwingIsHeld ==
  \A r \in Renderers : owing[r] /\ ~Restores(r) =>
    /\ \E j \in Jobs : Renderer(j) = r /\ At(j, {"shooting"}) /\ job[j].prepared
    /\ \A j \in Jobs : Renderer(j) = r => ~At(j, {"hiding"})

(* A pending surface is restored with the last token or what is owed, or a *)
(* failed release has left it; what one has left is pending.               *)
PendingIsHeld ==
  /\ stranded # "none" => pending["dashboard"] = stranded
  /\ \A r \in Renderers : pending[r] # "none" =>
       \/ owing[r]
       \/ /\ r = "dashboard"
          /\ \/ tokens # {}
             \/ stranded = pending[r]
             \/ \E t \in Tools : At(t, {"releasing"})

WithToken == {"running", "waiting", "hiding", "shooting", "restoring", "reporting"}
TokensAtWork == \A t \in tokens : At(t, WithToken)
CallsAtWork == \A t \in tracked : At(t, Working \ {"releasing"})

HeldIInv ==
  /\ WindowsApart /\ JobTypes /\ RolesAreKept /\ CountIsTrue /\ OneHides /\ OwingIsHeld
  /\ PendingIsHeld /\ TokensAtWork /\ CallsAtWork

LEMMA WhoHoldsPending ==
  ASSUME HeldIInv, NEW r \in Renderers, pending[r] # "none", ~owing[r]
  PROVE  /\ r = "dashboard"
         /\ \/ tokens # {} \/ stranded = pending[r]
            \/ \E t \in Tools : At(t, {"releasing"})
<1>1. PendingIsHeld
  BY DEF HeldIInv
<1>. QED
  BY <1>1, Zenon DEF PendingIsHeld

-----------------------------------------------------------------------------
LEMMA Going ==
  ASSUME job \in [Jobs -> JobRecords], NEW j \in Jobs, NEW next \in JobRecords, NEW q,
         Proceeds(j, next, q)
  PROVE  /\ job' \in [Jobs -> JobRecords] /\ job'[j] = next
         /\ \A k \in Jobs \ {j} : job'[k] = job[k]
BY DEF Proceeds

LEMMA Moving ==
  ASSUME job \in [Jobs -> JobRecords], NEW j \in Jobs, NEW a \in Stages
  PROVE  /\ Moved(j, a) \in JobRecords
         /\ Moved(j, a).at = a /\ Moved(j, a).stage = "sent"
         /\ Moved(j, a).turn = job[j].turn /\ Moved(j, a).surface = job[j].surface
         /\ Moved(j, a).prepared = job[j].prepared
         /\ Moved(j, a).collapses = job[j].collapses
BY DEF Moved, JobRecords, Stages

LEMMA RendererKinds ==
  /\ \A j \in Jobs : Renderer(j) \in Renderers
  /\ \A t \in Tools : t \in Jobs /\ Renderer(t) = "dashboard"
BY JobsAreApart DEF Renderer, Renderers, Jobs

(* The windows: a step shows none that was not visible, or nothing is      *)
(* missing after it.                                                       *)
Uncovers ==
  \/ taken' = {}
  \/ taken' = taken /\ givenUp' = givenUp /\ Visible(surface') \subseteq Visible(surface)

LEMMA ShowingUncovers ==
  ASSUME NEW w, Shows(w)
  PROVE  Uncovers /\ surface' = w /\ fullScreen' = fullScreen /\ overlapped' = overlapped
BY DEF Shows, Uncovers

LEMMA SameWindowsUncover ==
  ASSUME SameWindows
  PROVE  /\ Uncovers
         /\ surface' = surface /\ fullScreen' = fullScreen /\ overlapped' = overlapped
BY DEF SameWindows, Uncovers, surfaceVars, Visible

LEMMA ShowingChat ==
  ASSUME NEW w \in Surfaces, NEW focus \in BOOLEAN, NEW restore \in BOOLEAN
  PROVE  /\ ShowChat(w, focus, restore) \in Surfaces
         /\ ShowChat(w, focus, restore).chat /\ ~ShowChat(w, focus, restore).main
BY DEF Surfaces, ShowChat, InLoop

LEMMA ShowingMain ==
  ASSUME NEW w \in Surfaces, w.response => w.chat, NEW open
  PROVE  /\ ShowMain(w, open) \in Surfaces
         /\ ~ShowMain(w, open).chat /\ ~ShowMain(w, open).response /\ ShowMain(w, open).main
BY DEF Surfaces, ShowMain, HideChat

LEMMA Restoring ==
  ASSUME WindowsApart, NEW target \in MaybeScreen, NEW w, w = Restore(surface, target)
  PROVE  /\ w \in Surfaces /\ (w.response => w.chat) /\ ~(w.main /\ w.chat)
         /\ target # "none" => Visible(w) # {}
<1>1. CASE target = "none"
  BY <1>1 DEF Restore, WindowsApart
<1>2. CASE target = "main-window"
  BY <1>2, ShowingMain DEF Restore, WindowsApart, Visible
<1>3. CASE target \in {"chatbox", "chatbox-response"}
  BY <1>3, ShowingChat DEF Restore, WindowsApart, Visible
<1>. QED
  BY <1>1, <1>2, <1>3 DEF MaybeScreen, Screens

LEMMA HidingHides ==
  ASSUME WindowsApart, NEW target \in MaybeScreen, NEW w, w = Hide(surface, target)
  PROVE  /\ w \in Surfaces /\ (w.response => w.chat) /\ ~(w.main /\ w.chat)
         /\ Visible(w) \subseteq Visible(surface)
         /\ target = "none" => w = surface
         /\ Visible(w) # Visible(surface) => Visible(w) = {}
<1>1. CASE target = "none"
  BY <1>1 DEF Hide, WindowsApart
<1>2. CASE target = "main-window"
  BY <1>2 DEF Hide, HideMain, WindowsApart, Visible, Surfaces
<1>3. CASE target \in {"chatbox", "chatbox-response"}
  BY <1>3 DEF Hide, HideChat, WindowsApart, Visible, Surfaces
<1>. QED
  BY <1>1, <1>2, <1>3 DEF MaybeScreen, Screens

LEMMA ScreensAreHidden ==
  ASSUME WindowsApart, NEW r \in Renderers
  PROVE  ResolveHiddenSurface(r) \in MaybeScreen
BY DEF WindowsApart, ResolveHiddenSurface, MaybeScreen, Screens, Surfaces

-----------------------------------------------------------------------------
(* A step of a call outside its captures.                                  *)

Early == {"idle", "checking", "handing", "running"}
Later == {"done", "dropped", "checking", "handing", "collapsing", "running", "waiting", "reporting"}

Plain(t) ==
  /\ t \in Tools
  /\ job' \in [Jobs -> JobRecords]
  /\ At(t, Early) /\ job'[t].at \in Later /\ job'[t].stage = "sent"
  /\ At(t, {"running"}) => job'[t].at \in {"waiting", "reporting"}
  /\ job'[t].surface = job[t].surface
  /\ \A k \in Jobs \ {t} : job'[k] = job[k]
  /\ UNCHANGED <<captures, owing, pending, stranded>>
  /\ tokens \subseteq tokens' /\ tokens' \subseteq tokens \union {t}
  /\ t \in tokens' => t \in tokens \/ job'[t].at = "running"
  /\ tracked \ {t} \subseteq tracked' /\ tracked' \subseteq tracked \union {t}
  /\ t \in tracked' => t \in tracked \/ job'[t].at \in Working
  /\ job'[t].at \in {"done", "dropped"} => At(t, {"idle"}) \/ t \notin tracked'

(* No job of a capture changes under such a step.                          *)
LEMMA PlainLeavesCaptures ==
  ASSUME NEW t, Plain(t), NEW j \in Jobs, NEW S,
         S \subseteq {"hiding", "shooting", "restoring", "releasing"}
  PROVE  /\ At(j, S)' = At(j, S)
         /\ At(j, S) => job'[j] = job[j]
BY DEF Plain, At, Early, Later

LEMMA PlainKeepsHeld ==
  ASSUME HeldIInv, NEW t, Plain(t), WindowsApart',
         turn' \in [active : 0..MaxTurn, ended : BOOLEAN], replies' \in [Tools -> Nat],
         overlapped' \in BOOLEAN
  PROVE  HeldIInv'
<1>. USE DEF HeldIInv
<1>1. /\ t \in Tools /\ t \in Jobs /\ Renderer(t) = "dashboard"
      /\ \A k \in Jobs \ {t} : job'[k] = job[k]
      /\ UNCHANGED <<captures, owing, pending, stranded>>
  BY RendererKinds DEF Plain
<1>2. JobTypes'
  BY <1>1 DEF Plain, JobTypes
<1>3. \A j \in Jobs : (At(j, {"hiding"}))' = At(j, {"hiding"})
  BY PlainLeavesCaptures
<1>4. \A j \in Jobs : /\ (At(j, {"shooting"}))' = At(j, {"shooting"})
                      /\ At(j, {"hiding"}) \/ At(j, {"shooting"}) => job'[j] = job[j]
  BY PlainLeavesCaptures
<1>5. \A j \in Jobs : (At(j, {"restoring"}))' = At(j, {"restoring"})
  BY PlainLeavesCaptures
<1>6. \A j \in Jobs : (At(j, {"releasing"}))' = At(j, {"releasing"})
  BY PlainLeavesCaptures
<1>7. RolesAreKept'
  BY <1>1, <1>3, <1>4 DEF RolesAreKept, At
<1>8. \A r \in Renderers : Counted(r)' = Counted(r)
  BY <1>3, <1>4 DEF Counted, Counts
<1>9. CountIsTrue'
  BY <1>1, <1>8 DEF CountIsTrue
<1>10. OneHides'
  BY <1>3 DEF OneHides
<1>11. OwingIsHeld'
  BY <1>1, <1>3, <1>4, <1>5 DEF OwingIsHeld, Restores
<1>12. PendingIsHeld'
  BY <1>1, <1>6, RendererKinds DEF PendingIsHeld, Plain
<1>13. TokensAtWork'
  BY <1>1, RendererKinds DEF TokensAtWork, Plain, JobTypes, At, WithToken, Early
<1>14. CallsAtWork'
  BY <1>1, RendererKinds DEF CallsAtWork, Plain, JobTypes, At, Early, Later, Working, Asking, Hiding
<1>. QED
  BY <1>2, <1>7, <1>9, <1>10, <1>11, <1>12, <1>13, <1>14

LEMMA ToolArrivesIsPlain ==
  ASSUME HeldIInv, NEW t \in Tools, NEW mode \in {"none", "interactive", "screenshot"},
         NEW ref \in 0..MaxTurn, ToolArrives(t, mode, ref)
  PROVE  /\ Plain(t)
         /\ Uncovers /\ surface' = surface /\ fullScreen' = fullScreen /\ overlapped' = overlapped
         /\ turn' = turn /\ replies' \in [Tools -> Nat]
         /\ job'[t].turn = IF ref = 0 THEN turn.active ELSE ref
         /\ IF Stale(ref) THEN /\ job'[t].at = "done" /\ tracked' = tracked
                              /\ replies'[t] = replies[t] + 1
            ELSE /\ job'[t].at \in {"running", "checking"}
                 /\ tracked' = tracked \union {t} /\ replies' = replies
         /\ \A k \in Tools \ {t} : replies'[k] = replies[k]
         /\ At(t, {"idle"})
<1>1. t \in Jobs /\ JobTypes
  BY RendererKinds DEF HeldIInv
<1>. DEFINE under == IF ref = 0 THEN turn.active ELSE ref
            next == IF Stale(ref) THEN Moved(t, "done")
                    ELSE IF mode = "none" \/ tokens # {} THEN Moved(t, "running")
                    ELSE [Moved(t, "checking") EXCEPT !.collapses = mode = "screenshot"]
            rec == [next EXCEPT !.turn = under]
<1>2. under \in 0..MaxTurn
  BY <1>1 DEF JobTypes
<1>3. /\ next \in JobRecords /\ next.stage = "sent" /\ next.surface = job[t].surface
      /\ next.at = (IF Stale(ref) THEN "done"
                    ELSE IF mode = "none" \/ tokens # {} THEN "running" ELSE "checking")
  <2>1. \A a \in Stages : /\ Moved(t, a) \in JobRecords
                          /\ Moved(t, a).at = a /\ Moved(t, a).stage = "sent"
                          /\ Moved(t, a).surface = job[t].surface
    BY <1>1, Moving DEF JobTypes
  <2>2. {"done", "running", "checking"} \subseteq Stages
    BY DEF Stages, Working, Asking
  <2>3. (mode = "screenshot") \in BOOLEAN
    OBVIOUS
  <2>4. CASE Stale(ref)
    BY <2>1, <2>2, <2>4
  <2>5. CASE ~Stale(ref) /\ (mode = "none" \/ tokens # {})
    BY <2>1, <2>2, <2>5
  <2>6. CASE ~Stale(ref) /\ ~(mode = "none" \/ tokens # {})
    <3>1. PICK rec0 \in JobRecords : rec0 = Moved(t, "checking") /\ rec0.at = "checking"
                                    /\ rec0.stage = "sent" /\ rec0.surface = job[t].surface
      BY <2>1, <2>2
    <3>2. next = [rec0 EXCEPT !.collapses = (mode = "screenshot")]
      BY <2>6, <3>1
    <3>3. [rec0 EXCEPT !.collapses = (mode = "screenshot")] \in JobRecords
      BY <2>3 DEF JobRecords
    <3>4. next.at = rec0.at /\ next.stage = rec0.stage /\ next.surface = rec0.surface
      BY <3>2 DEF JobRecords
    <3>. QED
      BY <2>6, <3>1, <3>2, <3>3, <3>4
  <2>. QED
    BY <2>4, <2>5, <2>6
<1>. HIDE DEF next, under
<1>4. /\ rec \in JobRecords /\ rec.at = next.at /\ rec.stage = "sent"
      /\ rec.surface = job[t].surface /\ rec.turn = under
  BY <1>2, <1>3 DEF JobRecords
<1>5. Locally(t, rec)
  BY DEF ToolArrives, next, under
<1>. HIDE DEF rec
<1>6. /\ job' \in [Jobs -> JobRecords] /\ job'[t] = rec
      /\ \A k \in Jobs \ {t} : job'[k] = job[k]
  BY <1>1, <1>4, <1>5, Going DEF Locally, JobTypes
<1>7. /\ At(t, {"idle"}) /\ UNCHANGED <<captures, owing, pending, stranded, turn>>
      /\ IF Stale(ref) THEN Answered(t) /\ UNCHANGED <<tracked, tokens>>
         ELSE /\ tracked' = tracked \union {t}
              /\ tokens' = IF mode # "none" /\ tokens # {} THEN tokens \union {t} ELSE tokens
              /\ UNCHANGED replies
      /\ SameWindows
  BY DEF ToolArrives
<1>8. /\ replies' \in [Tools -> Nat] /\ \A k \in Tools \ {t} : replies'[k] = replies[k]
      /\ Stale(ref) => replies'[t] = replies[t] + 1
  BY <1>1, <1>7 DEF Answered, JobTypes
<1>9. job'[t].at = (IF Stale(ref) THEN "done"
                    ELSE IF mode = "none" \/ tokens # {} THEN "running" ELSE "checking")
  BY <1>3, <1>4, <1>6
<1>10. t \notin tokens
  BY <1>7 DEF HeldIInv, TokensAtWork, At, WithToken
<1>11. Plain(t)
  BY <1>1, <1>4, <1>6, <1>7, <1>9, <1>10 DEF Plain, At, Early, Later, Working, Asking
<1>. QED
  BY <1>4, <1>6, <1>7, <1>8, <1>9, <1>11, SameWindowsUncover DEF under

(* A call that ends before its tool runs.                                  *)
LEMMA EarlyEndsArePlain ==
  ASSUME HeldIInv, NEW t \in Tools,
         HandoffFails(t) \/ \E ref \in 0..MaxTurn : ToolDropped(t, ref)
  PROVE  /\ Plain(t)
         /\ Uncovers /\ surface' = surface /\ fullScreen' = fullScreen /\ overlapped' = overlapped
         /\ turn' = turn /\ replies' \in [Tools -> Nat]
         /\ \A k \in Tools \ {t} : replies'[k] = replies[k]
         /\ \/ /\ At(t, {"handing"}) /\ job'[t].at = "done"
               /\ tracked' = tracked \ {t} /\ replies'[t] = replies[t] + 1
            \/ At(t, {"idle"}) /\ job'[t].at = "dropped" /\ UNCHANGED <<tracked, replies>>
<1>1. t \in Jobs /\ JobTypes /\ job \in [Jobs -> JobRecords]
  BY RendererKinds DEF HeldIInv, JobTypes
<1>2. PICK a \in {"done", "dropped"} :
        /\ \E q : Proceeds(t, Moved(t, a), q)
        /\ \/ a = "done" /\ At(t, {"handing"}) /\ Unprepared(t)
           \/ a = "dropped" /\ At(t, {"idle"}) /\ UNCHANGED <<tracked, turn, replies>>
        /\ UNCHANGED <<tokens, pending, stranded, captures, owing>>
        /\ SameWindows
  BY DEF HandoffFails, ToolDropped, Served, Locally, orchestrator, runner
<1>3. /\ Moved(t, a) \in JobRecords /\ Moved(t, a).at = a /\ Moved(t, a).stage = "sent"
      /\ Moved(t, a).surface = job[t].surface
  BY <1>1, Moving DEF Stages
<1>4. /\ job' \in [Jobs -> JobRecords] /\ job'[t] = Moved(t, a)
      /\ \A k \in Jobs \ {t} : job'[k] = job[k]
  BY <1>1, <1>2, <1>3, Going
<1>5. t \notin tokens /\ (At(t, {"idle"}) => t \notin tracked)
  BY <1>2 DEF HeldIInv, TokensAtWork, CallsAtWork, At, WithToken, Working, Asking, Hiding
<1>6. /\ turn' = turn /\ replies' \in [Tools -> Nat]
      /\ \A k \in Tools \ {t} : replies'[k] = replies[k]
      /\ \/ /\ At(t, {"handing"}) /\ a = "done"
            /\ tracked' = tracked \ {t} /\ replies'[t] = replies[t] + 1
         \/ At(t, {"idle"}) /\ a = "dropped" /\ UNCHANGED <<tracked, replies>>
  BY <1>1, <1>2 DEF Unprepared, Answered, JobTypes
<1>7. Plain(t)
  BY <1>2, <1>3, <1>4, <1>5, <1>6 DEF Plain, At, Early, Later
<1>. QED
  BY <1>2, <1>3, <1>4, <1>6, <1>7, SameWindowsUncover

LEMMA AfterHandoffMoves ==
  ASSUME HeldIInv, NEW t \in Tools, AfterHandoff(t)
  PROVE  /\ job' \in [Jobs -> JobRecords]
         /\ job'[t].at \in {"collapsing", "running"} /\ job'[t].stage = "sent"
         /\ job'[t].surface = job[t].surface /\ job'[t].turn = job[t].turn
         /\ \A k \in Jobs \ {t} : job'[k] = job[k]
         /\ tokens \subseteq tokens' /\ tokens' \subseteq tokens \union {t}
         /\ tokens' = tokens \/ job'[t].at = "running"
<1>1. t \in Jobs /\ job \in [Jobs -> JobRecords]
  BY RendererKinds DEF HeldIInv, JobTypes
<1>2. PICK a \in {"collapsing", "running"} :
        /\ a = IF job[t].collapses THEN "collapsing" ELSE "running"
        /\ Served(t, Moved(t, a))
        /\ IF job[t].collapses THEN UNCHANGED tokens ELSE TakesToken(t)
  BY DEF AfterHandoff
<1>3. a \in Stages
  BY DEF Stages, Working, Asking, Hiding
<1>4. /\ Moved(t, a) \in JobRecords /\ Moved(t, a).at = a /\ Moved(t, a).stage = "sent"
      /\ Moved(t, a).turn = job[t].turn /\ Moved(t, a).surface = job[t].surface
  BY <1>1, <1>3, Moving
<1>5. /\ job' \in [Jobs -> JobRecords] /\ job'[t] = Moved(t, a)
      /\ \A k \in Jobs \ {t} : job'[k] = job[k]
  BY <1>1, <1>2, <1>4, Going DEF Served
<1>. QED
  BY <1>2, <1>4, <1>5 DEF TakesToken

LEMMA ToolStartsArePlain ==
  ASSUME HeldIInv, NEW t \in Tools, VisibilityChecked(t) \/ HandoffSurface(t) \/ ToolReturns(t)
  PROVE  /\ Plain(t) /\ WindowsApart'
         /\ Uncovers /\ overlapped' = overlapped
         /\ UNCHANGED <<turn, replies, tracked>>
         /\ job'[t].turn = job[t].turn /\ At(t, {"checking", "handing", "running"})
         /\ job'[t].at \in Working
<1>1. t \in Jobs /\ JobTypes /\ job \in [Jobs -> JobRecords]
  BY RendererKinds DEF HeldIInv, JobTypes
<1>2. \A a \in {"handing", "waiting", "reporting"} :
        /\ Moved(t, a) \in JobRecords /\ Moved(t, a).at = a /\ Moved(t, a).stage = "sent"
        /\ Moved(t, a).turn = job[t].turn /\ Moved(t, a).surface = job[t].surface
  BY <1>1, Moving DEF Stages, Working, Asking
<1>3. CASE VisibilityChecked(t)
  <2>1. /\ At(t, {"checking"}) /\ UNCHANGED <<pending, stranded, captures, owing, tracked, turn, replies>>
        /\ SameWindows
        /\ \/ Served(t, Moved(t, "handing")) /\ UNCHANGED tokens
           \/ AfterHandoff(t)
    BY <1>3 DEF VisibilityChecked, runner
  <2>2. /\ job' \in [Jobs -> JobRecords]
        /\ job'[t].at \in {"handing", "collapsing", "running"} /\ job'[t].stage = "sent"
        /\ job'[t].surface = job[t].surface /\ job'[t].turn = job[t].turn
        /\ \A k \in Jobs \ {t} : job'[k] = job[k]
        /\ tokens \subseteq tokens' /\ tokens' \subseteq tokens \union {t}
        /\ tokens' = tokens \/ job'[t].at = "running"
    <3>1. CASE Served(t, Moved(t, "handing")) /\ UNCHANGED tokens
      <4>1. /\ job' \in [Jobs -> JobRecords] /\ job'[t] = Moved(t, "handing")
            /\ \A k \in Jobs \ {t} : job'[k] = job[k]
        BY <1>1, <1>2, <3>1, Going DEF Served
      <4>. QED
        BY <1>2, <3>1, <4>1
    <3>2. CASE AfterHandoff(t)
      BY <3>2, AfterHandoffMoves
    <3>. QED
      BY <2>1, <3>1, <3>2
  <2>3. Plain(t)
    BY <2>1, <2>2 DEF Plain, At, Early, Later
  <2>4. WindowsApart'
    BY <2>1, SameWindowsUncover DEF HeldIInv, WindowsApart
  <2>. QED
    BY <2>1, <2>2, <2>3, <2>4, SameWindowsUncover DEF At, Working, Asking, Hiding
<1>4. CASE HandoffSurface(t)
  <2>1. /\ At(t, {"handing"}) /\ UNCHANGED <<pending, stranded, captures, owing, tracked, turn, replies>>
        /\ AfterHandoff(t)
        /\ Shows(IF surface.main THEN ShowChat(surface, FALSE, TRUE) ELSE surface)
    BY <1>4 DEF HandoffSurface, runner
  <2>2. Plain(t)
    BY <2>1, AfterHandoffMoves DEF Plain, At, Early, Later
  <2>0. PICK w : w = IF surface.main THEN ShowChat(surface, FALSE, TRUE) ELSE surface
    OBVIOUS
  <2>3. /\ Uncovers /\ fullScreen' = fullScreen /\ overlapped' = overlapped
        /\ surface' = w
    <3>1. Shows(w)
      BY <2>0, <2>1 DEF Shows
    <3>. QED
      BY <3>1, ShowingUncovers
  <2>4. WindowsApart'
    BY <2>0, <2>3, ShowingChat DEF HeldIInv, WindowsApart
  <2>. QED
    BY <2>1, <2>2, <2>3, <2>4, AfterHandoffMoves DEF At, Working, Asking, Hiding
<1>5. CASE ToolReturns(t)
  <2>1. PICK a \in {"waiting", "reporting"} :
          /\ At(t, {"running"}) /\ Locally(t, Moved(t, a))
          /\ UNCHANGED <<pending, stranded, captures, owing, tokens, tracked, turn, replies>>
          /\ SameWindows
    BY <1>5 DEF ToolReturns, AutoCapture, orchestrator, runner
  <2>2. /\ job' \in [Jobs -> JobRecords] /\ job'[t] = Moved(t, a)
        /\ \A k \in Jobs \ {t} : job'[k] = job[k]
    BY <1>1, <1>2, <2>1, Going DEF Locally
  <2>3. Plain(t)
    BY <1>2, <2>1, <2>2 DEF Plain, At, Early, Later
  <2>4. WindowsApart'
    BY <2>1, SameWindowsUncover DEF HeldIInv, WindowsApart
  <2>. QED
    BY <1>2, <2>1, <2>2, <2>3, <2>4, SameWindowsUncover DEF At, Working, Asking, Hiding
<1>. QED
  BY <1>3, <1>4, <1>5

-----------------------------------------------------------------------------
(* What the steps of a capture do.                                         *)

OthersStay(j) == job' \in [Jobs -> JobRecords] /\ \A k \in Jobs \ {j} : job'[k] = job[k]

LEMMA ResolvesDoes ==
  ASSUME HeldIInv, NEW j \in Jobs, ResolvesSurface(j)
  PROVE  /\ OthersStay(j) /\ At(j, Hiding) /\ job[j].stage = "sent"
         /\ job'[j].at = job[j].at /\ job'[j].stage = "resolved"
         /\ job'[j].surface \in MaybeScreen /\ job'[j].prepared = job[j].prepared
         /\ job'[j].turn = job[j].turn
         /\ overlapped' = (overlapped \/ Overlaps(j)) /\ overlapped' \in BOOLEAN
         /\ UNCHANGED <<tokens, pending, stranded, captures, owing, tracked, turn, replies, surfaceVars,
                        taken, givenUp>>
<1>1. job[j] \in JobRecords /\ job \in [Jobs -> JobRecords] /\ overlapped \in BOOLEAN
  BY DEF HeldIInv, JobTypes
<1>2. PICK s \in MaybeScreen : s = ResolveHiddenSurface(Renderer(j))
  BY ScreensAreHidden, RendererKinds DEF HeldIInv
<1>. DEFINE next == [job[j] EXCEPT !.stage = "resolved", !.surface = s]
<1>3. /\ next \in JobRecords /\ next.at = job[j].at /\ next.stage = "resolved"
      /\ next.surface = s /\ next.prepared = job[j].prepared /\ next.turn = job[j].turn
  BY <1>1, <1>2 DEF JobRecords, MaybeScreen, Screens, HiddenSurfaces
<1>4. Served(j, next)
  BY <1>2 DEF ResolvesSurface
<1>. HIDE DEF next
<1>5. job' \in [Jobs -> JobRecords] /\ job'[j] = next /\ \A k \in Jobs \ {j} : job'[k] = job[k]
  BY <1>1, <1>3, <1>4, Going DEF Served
<1>6. Overlaps(j) \in BOOLEAN
  BY DEF Overlaps
<1>7. overlapped' = (overlapped \/ Overlaps(j))
  BY DEF ResolvesSurface
<1>8. overlapped' \in BOOLEAN
  BY <1>1, <1>6, <1>7
<1>9. /\ At(j, Hiding) /\ job[j].stage = "sent"
      /\ UNCHANGED <<tokens, pending, stranded, captures, owing, tracked, turn, replies, surfaceVars,
                        taken, givenUp>>
  BY DEF ResolvesSurface, orchestrator, runner
<1>. QED
  BY <1>3, <1>5, <1>7, <1>8, <1>9 DEF OthersStay

LEMMA HidesDoes ==
  ASSUME HeldIInv, NEW j \in Jobs, HidesSurface(j)
  PROVE  /\ OthersStay(j) /\ At(j, Hiding) /\ job[j].stage = "resolved"
         /\ job'[j].at = job[j].at /\ job'[j].stage = "hidden"
         /\ job'[j].surface = job[j].surface /\ job'[j].prepared = job[j].prepared
         /\ job'[j].turn = job[j].turn
         /\ WindowsApart'
         /\ Visible(surface') \subseteq Visible(surface)
         /\ Visible(surface') # Visible(surface) => /\ Visible(surface') = {}
                                                    /\ job[j].surface # "none"
         /\ taken' = taken \union (Visible(surface) \ Visible(surface'))
         /\ UNCHANGED <<tokens, pending, stranded, captures, owing, tracked, turn, replies, overlapped,
                        givenUp>>
<1>1. job[j] \in JobRecords /\ job \in [Jobs -> JobRecords] /\ job[j].surface \in MaybeScreen
      /\ WindowsApart
  BY DEF HeldIInv, JobTypes
<1>2. /\ job' \in [Jobs -> JobRecords] /\ job'[j] = [job[j] EXCEPT !.stage = "hidden"]
      /\ \A k \in Jobs \ {j} : job'[k] = job[k]
  BY <1>1 DEF HidesSurface, JobRecords
<1>3. /\ job'[j].at = job[j].at /\ job'[j].stage = "hidden"
      /\ job'[j].surface = job[j].surface /\ job'[j].prepared = job[j].prepared
      /\ job'[j].turn = job[j].turn
  BY <1>1, <1>2 DEF JobRecords
<1>4. PICK w : w = Hide(surface, job[j].surface)
  OBVIOUS
<1>5. /\ At(j, Hiding) /\ job[j].stage = "resolved" /\ surface' = w
      /\ taken' = taken \union (Visible(surface) \ Visible(w))
      /\ UNCHANGED <<tokens, pending, stranded, captures, owing, tracked, turn, replies, overlapped,
                     givenUp, fullScreen>>
  BY <1>4 DEF HidesSurface, Hides, orchestrator, runner
<1>6. /\ w \in Surfaces /\ (w.response => w.chat) /\ ~(w.main /\ w.chat)
      /\ Visible(w) \subseteq Visible(surface)
      /\ job[j].surface = "none" => w = surface
      /\ Visible(w) # Visible(surface) => Visible(w) = {}
  BY <1>1, <1>4, HidingHides
<1>7. WindowsApart'
  BY <1>1, <1>5, <1>6 DEF WindowsApart
<1>. QED
  BY <1>2, <1>3, <1>5, <1>6, <1>7 DEF OthersStay

LEMMA SurfaceHiddenDoes ==
  ASSUME HeldIInv, NEW j \in Jobs, SurfaceHidden(j)
  PROVE  /\ OthersStay(j) /\ At(j, Hiding) /\ job[j].stage = "hidden"
         /\ job'[j].surface = job[j].surface /\ job'[j].prepared = job[j].prepared
         /\ job'[j].turn = job[j].turn
         /\ pending'[Renderer(j)] = job[j].surface /\ pending' \in [Renderers -> MaybeScreen]
         /\ \A r \in Renderers \ {Renderer(j)} : pending'[r] = pending[r]
         /\ stranded' = IF Renderer(j) = "dashboard" THEN "none" ELSE stranded
         /\ \/ At(j, {"collapsing"}) /\ job'[j].at = "running" /\ tokens' = tokens \union {j}
               /\ owing' = owing /\ j \in Tools
            \/ At(j, {"hiding"}) /\ job'[j].at = "shooting" /\ tokens' = tokens
               /\ owing'[Renderer(j)] = TRUE /\ owing' \in [Renderers -> BOOLEAN]
               /\ \A r \in Renderers \ {Renderer(j)} : owing'[r] = owing[r]
         /\ UNCHANGED <<captures, tracked, turn, replies>>
         /\ SameWindows
<1>1. job \in [Jobs -> JobRecords] /\ job[j].surface \in MaybeScreen /\ Renderer(j) \in Renderers
      /\ pending \in [Renderers -> MaybeScreen] /\ owing \in [Renderers -> BOOLEAN]
  BY RendererKinds DEF HeldIInv, JobTypes
<1>2. PICK a \in {"running", "shooting"} :
        /\ Locally(j, Moved(j, a))
        /\ a = (IF At(j, {"collapsing"}) THEN "running" ELSE "shooting")
        /\ IF At(j, {"collapsing"}) THEN TakesToken(j) /\ UNCHANGED owing
           ELSE owing' = [owing EXCEPT ![Renderer(j)] = TRUE] /\ UNCHANGED tokens
  BY DEF SurfaceHidden
<1>3. /\ Moved(j, a) \in JobRecords /\ Moved(j, a).at = a /\ Moved(j, a).turn = job[j].turn
      /\ Moved(j, a).surface = job[j].surface /\ Moved(j, a).prepared = job[j].prepared
  BY <1>1, Moving DEF Stages, Working
<1>4. /\ job' \in [Jobs -> JobRecords] /\ job'[j] = Moved(j, a)
      /\ \A k \in Jobs \ {j} : job'[k] = job[k]
  BY <1>1, <1>2, <1>3, Going DEF Locally
<1>5. /\ At(j, Hiding) /\ job[j].stage = "hidden"
      /\ pending' = [pending EXCEPT ![Renderer(j)] = job[j].surface]
      /\ stranded' = IF Renderer(j) = "dashboard" THEN "none" ELSE stranded
      /\ UNCHANGED <<captures, tracked, turn, replies>> /\ SameWindows
  BY DEF SurfaceHidden, Remembers, runner
<1>6. At(j, {"collapsing"}) => j \in Tools
  BY DEF HeldIInv, RolesAreKept, At
<1>7. At(j, {"collapsing"}) \/ At(j, {"hiding"})
  BY <1>5 DEF At, Hiding
<1>8. CASE At(j, {"collapsing"})
  BY <1>1, <1>2, <1>3, <1>4, <1>5, <1>6, <1>8 DEF OthersStay, TakesToken
<1>9. CASE ~At(j, {"collapsing"})
  BY <1>1, <1>2, <1>3, <1>4, <1>5, <1>7, <1>9 DEF OthersStay
<1>. QED
  BY <1>8, <1>9

LEMMA HidingFailsDoes ==
  ASSUME HeldIInv, NEW j \in Jobs, HidingFails(j)
  PROVE  /\ OthersStay(j) /\ At(j, Hiding) /\ job[j].stage = "resolved"
         /\ job'[j].surface = job[j].surface /\ job'[j].turn = job[j].turn
         /\ \/ /\ At(j, {"collapsing"}) /\ j \in Tools /\ job'[j].at = "done"
               /\ captures' = captures /\ replies' = [replies EXCEPT ![j] = @ + 1]
               /\ tracked' = tracked \ {j}
            \/ /\ At(j, {"hiding"}) /\ job'[j].at = "shooting" /\ ~job'[j].prepared
               /\ captures' = [captures EXCEPT ![Renderer(j)] = IF @ > 0 THEN @ - 1 ELSE 0]
               /\ UNCHANGED <<replies, tracked>>
         /\ UNCHANGED <<tokens, pending, stranded, owing, turn>>
         /\ SameWindows
<1>1. job \in [Jobs -> JobRecords]
  BY DEF HeldIInv, JobTypes
<1>2. /\ At(j, Hiding) /\ job[j].stage = "resolved"
      /\ UNCHANGED <<tokens, pending, stranded, owing, turn>> /\ SameWindows
  BY DEF HidingFails, Unprepared, runner
<1>3. \A a \in {"done", "shooting"} :
        /\ Moved(j, a) \in JobRecords /\ Moved(j, a).at = a /\ Moved(j, a).turn = job[j].turn
        /\ Moved(j, a).surface = job[j].surface
  BY <1>1, Moving DEF Stages, Working
<1>4. At(j, {"collapsing"}) \/ At(j, {"hiding"})
  BY <1>2 DEF At, Hiding
<1>5. CASE At(j, {"collapsing"})
  <2>1. /\ Locally(j, Moved(j, "done")) /\ captures' = captures
        /\ replies' = [replies EXCEPT ![j] = @ + 1] /\ tracked' = tracked \ {j}
    BY <1>5 DEF HidingFails, Unprepared, Answered
  <2>2. /\ job' \in [Jobs -> JobRecords] /\ job'[j] = Moved(j, "done")
        /\ \A k \in Jobs \ {j} : job'[k] = job[k]
    BY <1>1, <1>3, <2>1, Going DEF Locally
  <2>3. j \in Tools
    BY <1>5 DEF HeldIInv, RolesAreKept, At
  <2>. QED
    BY <1>2, <1>3, <1>5, <2>1, <2>2, <2>3 DEF OthersStay
<1>6. CASE ~At(j, {"collapsing"})
  <2>. DEFINE next == [Moved(j, "shooting") EXCEPT !.prepared = FALSE]
  <2>1. /\ Locally(j, next)
        /\ captures' = [captures EXCEPT ![Renderer(j)] = IF @ > 0 THEN @ - 1 ELSE 0]
        /\ UNCHANGED <<replies, tracked>>
    BY <1>6 DEF HidingFails, runner
  <2>2. /\ next \in JobRecords /\ next.at = "shooting" /\ ~next.prepared
        /\ next.turn = job[j].turn /\ next.surface = job[j].surface
    BY <1>3 DEF JobRecords
  <2>. HIDE DEF next
  <2>3. /\ job' \in [Jobs -> JobRecords] /\ job'[j] = next
        /\ \A k \in Jobs \ {j} : job'[k] = job[k]
    BY <1>1, <2>1, <2>2, Going DEF Locally
  <2>. QED
    BY <1>2, <1>4, <1>6, <2>1, <2>2, <2>3 DEF OthersStay
<1>. QED
  BY <1>5, <1>6

LEMMA CaptureBeginsDoes ==
  ASSUME HeldIInv, NEW j \in Jobs, CaptureBegins(j)
  PROVE  /\ OthersStay(j)
         /\ IF j \in Tools THEN At(j, {"waiting"}) ELSE At(j, {"idle"})
         /\ job'[j].surface = "none" /\ job'[j].prepared /\ job'[j].stage = "sent"
         /\ job'[j].turn = job[j].turn
         /\ captures' = [captures EXCEPT ![Renderer(j)] = @ + 1]
         /\ job'[j].at \in {"hiding", "shooting"}
         /\ job'[j].at = "hiding" => captures[Renderer(j)] = 0 /\ pending[Renderer(j)] = "none"
         /\ owing' \in [Renderers -> BOOLEAN]
         /\ \A r \in Renderers \ {Renderer(j)} : owing'[r] = owing[r]
         /\ \/ owing'[Renderer(j)] = owing[Renderer(j)]
            \/ captures[Renderer(j)] = 0 /\ job'[j].at = "shooting" /\ owing'[Renderer(j)] = TRUE
         /\ UNCHANGED <<tokens, pending, stranded, tracked, turn, replies>>
         /\ SameWindows
<1>1. job \in [Jobs -> JobRecords] /\ Renderer(j) \in Renderers /\ owing \in [Renderers -> BOOLEAN]
  BY RendererKinds DEF HeldIInv, JobTypes
<1>2. PICK a \in {"hiding", "shooting"} :
        a = IF captures[Renderer(j)] = 0 /\ ~(pending[Renderer(j)] # "none")
            THEN "hiding" ELSE "shooting"
  OBVIOUS
<1>. DEFINE next == [Moved(j, a) EXCEPT !.surface = "none", !.prepared = TRUE]
<1>3. /\ Moved(j, a) \in JobRecords /\ Moved(j, a).at = a /\ Moved(j, a).turn = job[j].turn
      /\ Moved(j, a).stage = "sent"
  BY <1>1, Moving DEF Stages, Working, Asking, Hiding
<1>4. /\ next \in JobRecords /\ next.at = a /\ next.surface = "none" /\ next.prepared
      /\ next.stage = "sent" /\ next.turn = job[j].turn
  BY <1>3 DEF JobRecords, HiddenSurfaces
<1>5. /\ Locally(j, next)
      /\ IF j \in Tools THEN At(j, {"waiting"}) ELSE At(j, {"idle"})
      /\ captures' = [captures EXCEPT ![Renderer(j)] = @ + 1]
      /\ owing' = [owing EXCEPT ![Renderer(j)] =
                     @ \/ (captures[Renderer(j)] = 0 /\ pending[Renderer(j)] # "none")]
      /\ UNCHANGED <<tokens, pending, stranded, tracked, turn, replies>> /\ SameWindows
  BY <1>2 DEF CaptureBegins, runner
<1>. HIDE DEF next
<1>6. /\ job' \in [Jobs -> JobRecords] /\ job'[j] = next
      /\ \A k \in Jobs \ {j} : job'[k] = job[k]
  BY <1>1, <1>4, <1>5, Going DEF Locally
<1>7. PICK nested \in BOOLEAN :
        nested = (captures[Renderer(j)] = 0 /\ pending[Renderer(j)] # "none")
  OBVIOUS
<1>8. /\ owing' \in [Renderers -> BOOLEAN]
      /\ \A r \in Renderers \ {Renderer(j)} : owing'[r] = owing[r]
      /\ owing'[Renderer(j)] = (owing[Renderer(j)] \/ nested)
  BY <1>1, <1>5, <1>7
<1>9. CASE ~nested
  <2>1. owing'[Renderer(j)] = owing[Renderer(j)]
    BY <1>1, <1>8, <1>9
  <2>. QED
    BY <1>2, <1>4, <1>5, <1>6, <1>8, <2>1 DEF OthersStay
<1>10. CASE nested
  <2>1. captures[Renderer(j)] = 0 /\ a = "shooting" /\ owing'[Renderer(j)] = TRUE
    BY <1>2, <1>7, <1>8, <1>10
  <2>. QED
    BY <1>2, <1>4, <1>5, <1>6, <1>8, <2>1 DEF OthersStay
<1>. QED
  BY <1>9, <1>10

LEMMA ScreenshotTakenDoes ==
  ASSUME HeldIInv, NEW j \in Jobs, ScreenshotTaken(j)
  PROVE  /\ OthersStay(j) /\ At(j, {"shooting"})
         /\ job'[j].turn = job[j].turn /\ job'[j].prepared = job[j].prepared
         /\ job'[j].stage = "sent"
         /\ captures' = IF job[j].prepared
                        THEN [captures EXCEPT ![Renderer(j)] = IF @ > 0 THEN @ - 1 ELSE 0]
                        ELSE captures
         /\ \/ /\ job'[j].at = "restoring" /\ job'[j].surface \in MaybeScreen
               /\ pending[Renderer(j)] # "none" => job'[j].surface = pending[Renderer(j)]
               /\ owing[Renderer(j)] /\ job[j].prepared /\ captures[Renderer(j)] <= 1
            \/ /\ job'[j].at = (IF j \in Tools THEN "reporting" ELSE "done")
               /\ job'[j].surface = job[j].surface
               /\ ~(job[j].prepared /\ owing[Renderer(j)] /\ captures[Renderer(j)] <= 1)
         /\ UNCHANGED <<tokens, pending, stranded, owing, tracked, turn, replies>>
         /\ SameWindows
<1>1. /\ job \in [Jobs -> JobRecords] /\ Renderer(j) \in Renderers
      /\ captures[Renderer(j)] \in Nat
      /\ pending[Renderer(j)] \in MaybeScreen /\ job[j].surface \in MaybeScreen
  BY RendererKinds DEF HeldIInv, JobTypes
<1>. DEFINE left == IF captures[Renderer(j)] > 0 THEN captures[Renderer(j)] - 1 ELSE 0
            back == IF pending[Renderer(j)] # "none" THEN pending[Renderer(j)] ELSE job[j].surface
<1>2. left = 0 <=> captures[Renderer(j)] <= 1
  BY <1>1
<1>3. \A a \in {"restoring", "reporting", "done"} :
        /\ Moved(j, a) \in JobRecords /\ Moved(j, a).at = a /\ Moved(j, a).turn = job[j].turn
        /\ Moved(j, a).stage = "sent" /\ Moved(j, a).prepared = job[j].prepared
        /\ Moved(j, a).surface = job[j].surface
  BY <1>1, Moving DEF Stages, Working, Asking
<1>4. /\ At(j, {"shooting"})
      /\ captures' = IF job[j].prepared THEN [captures EXCEPT ![Renderer(j)] = left] ELSE captures
      /\ UNCHANGED <<tokens, pending, stranded, owing, tracked, turn, replies>> /\ SameWindows
      /\ Locally(j, IF job[j].prepared /\ left = 0 /\ owing[Renderer(j)]
                    THEN [Moved(j, "restoring") EXCEPT !.surface = back]
                    ELSE Moved(j, Afterwards(j)))
  BY DEF ScreenshotTaken, runner
<1>5. captures' = IF job[j].prepared
                  THEN [captures EXCEPT ![Renderer(j)] = IF @ > 0 THEN @ - 1 ELSE 0]
                  ELSE captures
  BY <1>4
<1>6. CASE job[j].prepared /\ left = 0 /\ owing[Renderer(j)]
  <2>. DEFINE next == [Moved(j, "restoring") EXCEPT !.surface = back]
  <2>1. Locally(j, next)
    BY <1>4, <1>6
  <2>2. back \in MaybeScreen /\ back \in HiddenSurfaces
    BY <1>1 DEF MaybeScreen, Screens, HiddenSurfaces
  <2>3. /\ next \in JobRecords /\ next.at = "restoring" /\ next.surface = back
        /\ next.turn = job[j].turn /\ next.stage = "sent" /\ next.prepared = job[j].prepared
    <3>. HIDE DEF back
    <3>. QED
      BY <1>3, <2>2 DEF JobRecords
  <2>. HIDE DEF next
  <2>4. /\ job' \in [Jobs -> JobRecords] /\ job'[j] = next
        /\ \A k \in Jobs \ {j} : job'[k] = job[k]
    BY <1>1, <2>1, <2>3, Going DEF Locally
  <2>. QED
    BY <1>1, <1>2, <1>4, <1>5, <1>6, <2>2, <2>3, <2>4 DEF OthersStay
<1>7. CASE ~(job[j].prepared /\ left = 0 /\ owing[Renderer(j)])
  <2>1. PICK a \in {"reporting", "done"} :
          a = (IF j \in Tools THEN "reporting" ELSE "done") /\ Locally(j, Moved(j, a))
    BY <1>4, <1>7 DEF Afterwards
  <2>2. /\ job' \in [Jobs -> JobRecords] /\ job'[j] = Moved(j, a)
        /\ \A k \in Jobs \ {j} : job'[k] = job[k]
    BY <1>1, <1>3, <2>1, Going DEF Locally
  <2>. QED
    BY <1>1, <1>2, <1>3, <1>4, <1>5, <1>7, <2>1, <2>2 DEF OthersStay
<1>. QED
  BY <1>6, <1>7

LEMMA CaptureRestoredDoes ==
  ASSUME HeldIInv, NEW j \in Jobs, CaptureRestored(j) \/ CaptureRestoreFails(j)
  PROVE  /\ OthersStay(j) /\ At(j, {"restoring"})
         /\ job'[j].turn = job[j].turn /\ job'[j].surface = job[j].surface
         /\ job'[j].prepared = job[j].prepared /\ job'[j].stage = "sent"
         /\ job'[j].at = (IF j \in Tools THEN "reporting" ELSE "done")
         /\ WindowsApart' /\ overlapped' = overlapped
         /\ \/ Uncovers /\ (job[j].surface # "none" => Visible(surface') # {})
            \/ /\ taken' = taken /\ surface' = surface
               /\ givenUp' = (givenUp \/ (taken # {} /\ job[j].surface # "none"))
         /\ owing' = [owing EXCEPT ![Renderer(j)] = FALSE]
         /\ pending' = [pending EXCEPT ![Renderer(j)] = "none"]
         /\ stranded' = IF Renderer(j) = "dashboard" THEN "none" ELSE stranded
         /\ UNCHANGED <<tokens, captures, tracked, turn, replies>>
<1>1. /\ job \in [Jobs -> JobRecords] /\ job[j].surface \in MaybeScreen /\ WindowsApart
  BY DEF HeldIInv, JobTypes
<1>2. PICK a \in {"reporting", "done"} :
        a = (IF j \in Tools THEN "reporting" ELSE "done") /\ Served(j, Moved(j, a))
  BY DEF CaptureRestored, CaptureRestoreFails, Afterwards
<1>3. /\ Moved(j, a) \in JobRecords /\ Moved(j, a).at = a /\ Moved(j, a).turn = job[j].turn
      /\ Moved(j, a).surface = job[j].surface /\ Moved(j, a).prepared = job[j].prepared
      /\ Moved(j, a).stage = "sent"
  BY <1>1, Moving DEF Stages, Working
<1>4. /\ job' \in [Jobs -> JobRecords] /\ job'[j] = Moved(j, a)
      /\ \A k \in Jobs \ {j} : job'[k] = job[k]
  BY <1>1, <1>2, <1>3, Going DEF Served
<1>5. /\ At(j, {"restoring"})
      /\ owing' = [owing EXCEPT ![Renderer(j)] = FALSE]
      /\ pending' = [pending EXCEPT ![Renderer(j)] = "none"]
      /\ stranded' = IF Renderer(j) = "dashboard" THEN "none" ELSE stranded
      /\ UNCHANGED <<tokens, captures, tracked, turn, replies>>
  BY DEF CaptureRestored, CaptureRestoreFails, CaptureForgets, Remembers, runner
<1>6. /\ WindowsApart' /\ overlapped' = overlapped
      /\ \/ Uncovers /\ (job[j].surface # "none" => Visible(surface') # {})
         \/ /\ taken' = taken /\ surface' = surface
            /\ givenUp' = (givenUp \/ (taken # {} /\ job[j].surface # "none"))
  <2>1. CASE CaptureRestored(j)
    <3>1. PICK w : w = Restore(surface, job[j].surface)
      OBVIOUS
    <3>2. Shows(w)
      BY <2>1, <3>1 DEF CaptureRestored, Shows
    <3>3. Uncovers /\ surface' = w /\ fullScreen' = fullScreen /\ overlapped' = overlapped
      BY <3>2, ShowingUncovers
    <3>4. /\ w \in Surfaces /\ (w.response => w.chat) /\ ~(w.main /\ w.chat)
          /\ job[j].surface # "none" => Visible(w) # {}
      BY <1>1, <3>1, Restoring
    <3>. QED
      BY <1>1, <3>3, <3>4 DEF WindowsApart
  <2>2. CASE CaptureRestoreFails(j)
    <3>1. /\ UNCHANGED <<surface, fullScreen, taken, overlapped>>
          /\ givenUp' = (givenUp \/ (taken # {} /\ job[j].surface # "none"))
      BY <2>2 DEF CaptureRestoreFails, surfaceVars
    <3>. QED
      BY <1>1, <3>1 DEF WindowsApart
  <2>. QED
    BY <2>1, <2>2
<1>. QED
  BY <1>2, <1>3, <1>4, <1>5, <1>6 DEF OthersStay

LEMMA ToolReleasedDoes ==
  ASSUME HeldIInv, NEW t \in Tools, ToolReleased(t) \/ ToolReleaseFails(t)
  PROVE  /\ OthersStay(t) /\ At(t, {"releasing"})
         /\ job'[t].at = "done" /\ job'[t].surface = job[t].surface
         /\ WindowsApart' /\ Uncovers /\ overlapped' = overlapped
         /\ \/ /\ job[t].surface # "none" => Visible(surface') # {}
               /\ pending' = [pending EXCEPT !["dashboard"] = "none"] /\ stranded' = "none"
            \/ pending' = pending /\ stranded' = pending["dashboard"]
         /\ UNCHANGED <<tokens, captures, owing, tracked, turn, replies>>
<1>1. /\ job \in [Jobs -> JobRecords] /\ t \in Jobs /\ WindowsApart /\ job[t].surface \in MaybeScreen
  BY RendererKinds DEF HeldIInv, JobTypes
<1>2. /\ At(t, {"releasing"}) /\ Served(t, Moved(t, "done"))
      /\ UNCHANGED <<tokens, captures, owing, tracked, turn, replies>>
  BY DEF ToolReleased, ToolReleaseFails, runner
<1>3. /\ Moved(t, "done") \in JobRecords /\ Moved(t, "done").at = "done"
      /\ Moved(t, "done").surface = job[t].surface
  BY <1>1, Moving DEF Stages
<1>4. /\ job' \in [Jobs -> JobRecords] /\ job'[t] = Moved(t, "done")
      /\ \A k \in Jobs \ {t} : job'[k] = job[k]
  BY <1>1, <1>2, <1>3, Going DEF Served
<1>5. /\ WindowsApart' /\ Uncovers /\ overlapped' = overlapped
      /\ \/ /\ job[t].surface # "none" => Visible(surface') # {}
            /\ pending' = [pending EXCEPT !["dashboard"] = "none"] /\ stranded' = "none"
         \/ pending' = pending /\ stranded' = pending["dashboard"]
  <2>1. CASE ToolReleased(t)
    <3>1. PICK w : w = Restore(surface, job[t].surface)
      OBVIOUS
    <3>2. Shows(w)
      BY <2>1, <3>1 DEF ToolReleased, Shows
    <3>3. Uncovers /\ surface' = w /\ fullScreen' = fullScreen /\ overlapped' = overlapped
      BY <3>2, ShowingUncovers
    <3>4. /\ w \in Surfaces /\ (w.response => w.chat) /\ ~(w.main /\ w.chat)
          /\ job[t].surface # "none" => Visible(w) # {}
      BY <1>1, <3>1, Restoring
    <3>5. pending' = [pending EXCEPT !["dashboard"] = "none"] /\ stranded' = "none"
      BY <2>1 DEF ToolReleased, Remembers
    <3>. QED
      BY <1>1, <3>3, <3>4, <3>5 DEF WindowsApart
  <2>2. CASE ToolReleaseFails(t)
    <3>1. pending' = pending /\ stranded' = pending["dashboard"] /\ SameWindows
      BY <2>2 DEF ToolReleaseFails
    <3>. QED
      BY <1>1, <3>1, SameWindowsUncover DEF WindowsApart
  <2>. QED
    BY <2>1, <2>2
<1>. QED
  BY <1>2, <1>3, <1>4, <1>5 DEF OthersStay

LEMMA ToolReportsDoes ==
  ASSUME HeldIInv, NEW t \in Tools, ToolReports(t)
  PROVE  /\ OthersStay(t) /\ At(t, {"reporting"}) /\ job'[t].stage = "sent"
         /\ IF Accepts(t) THEN replies' = [replies EXCEPT ![t] = @ + 1] ELSE replies' = replies
         /\ tracked' = tracked \ {t} /\ tokens' = tokens \ {t}
         /\ \/ /\ tokens = {t} /\ pending["dashboard"] # "none"
               /\ job'[t].at = "releasing" /\ job'[t].surface = pending["dashboard"]
            \/ /\ ~(tokens = {t} /\ pending["dashboard"] # "none")
               /\ job'[t].at = "done" /\ job'[t].surface = job[t].surface
         /\ UNCHANGED <<pending, stranded, captures, owing, turn>>
         /\ SameWindows
<1>1. /\ job \in [Jobs -> JobRecords] /\ t \in Jobs /\ pending["dashboard"] \in MaybeScreen
  BY RendererKinds DEF HeldIInv, JobTypes, Renderers
<1>2. /\ At(t, {"reporting"})
      /\ IF Accepts(t) THEN replies' = [replies EXCEPT ![t] = @ + 1] ELSE replies' = replies
      /\ tracked' = tracked \ {t} /\ tokens' = tokens \ {t}
      /\ UNCHANGED <<pending, stranded, captures, owing, turn>> /\ SameWindows
      /\ Locally(t, IF (t \in tokens /\ tokens = {t}) /\ pending["dashboard"] # "none"
                    THEN [Moved(t, "releasing") EXCEPT !.surface = pending["dashboard"]]
                    ELSE Moved(t, "done"))
  BY DEF ToolReports, Answered
<1>3. \A a \in {"releasing", "done"} :
        /\ Moved(t, a) \in JobRecords /\ Moved(t, a).at = a /\ Moved(t, a).stage = "sent"
        /\ Moved(t, a).surface = job[t].surface
  BY <1>1, Moving DEF Stages, Working, Asking
<1>4. CASE tokens = {t} /\ pending["dashboard"] # "none"
  <2>. DEFINE next == [Moved(t, "releasing") EXCEPT !.surface = pending["dashboard"]]
  <2>1. Locally(t, next)
    BY <1>2, <1>4
  <2>2. /\ next \in JobRecords /\ next.at = "releasing" /\ next.stage = "sent"
        /\ next.surface = pending["dashboard"]
    BY <1>1, <1>3 DEF JobRecords, MaybeScreen, Screens, HiddenSurfaces
  <2>. HIDE DEF next
  <2>3. /\ job' \in [Jobs -> JobRecords] /\ job'[t] = next
        /\ \A k \in Jobs \ {t} : job'[k] = job[k]
    BY <1>1, <2>1, <2>2, Going DEF Locally
  <2>. QED
    BY <1>2, <1>4, <2>2, <2>3 DEF OthersStay
<1>5. CASE ~(tokens = {t} /\ pending["dashboard"] # "none")
  <2>1. Locally(t, Moved(t, "done"))
    BY <1>2, <1>5
  <2>2. /\ job' \in [Jobs -> JobRecords] /\ job'[t] = Moved(t, "done")
        /\ \A k \in Jobs \ {t} : job'[k] = job[k]
    BY <1>1, <1>3, <2>1, Going DEF Locally
  <2>. QED
    BY <1>2, <1>3, <1>5, <2>2 DEF OthersStay
<1>. QED
  BY <1>4, <1>5

-----------------------------------------------------------------------------
(* The count of captures.                                                  *)

LEMMA CountStays ==
  ASSUME CountIsTrue, captures' = captures, \A k \in Jobs : Counts(k)' = Counts(k)
  PROVE  CountIsTrue'
<1>1. \A r \in Renderers : Counted(r)' = Counted(r)
  BY DEF Counted
<1>. QED
  BY <1>1 DEF CountIsTrue

LEMMA CountGrows ==
  ASSUME CountIsTrue, captures \in [Renderers -> Nat], NEW j \in Jobs, OthersStay(j),
         ~Counts(j), Counts(j)', captures' = [captures EXCEPT ![Renderer(j)] = @ + 1]
  PROVE  CountIsTrue'
<1>1. \A k \in Jobs \ {j} : Counts(k)' = Counts(k)
  BY DEF OthersStay, Counts, At
<1>2. \A r \in Renderers \ {Renderer(j)} : Counted(r)' = Counted(r)
  BY <1>1 DEF Counted
<1>3. Counted(Renderer(j))' = Counted(Renderer(j)) \union {j} /\ j \notin Counted(Renderer(j))
  BY <1>1 DEF Counted
<1>4. Renderer(j) \in Renderers
  BY RendererKinds
<1>5. IsFiniteSet(Counted(Renderer(j))) /\ captures[Renderer(j)] = Cardinality(Counted(Renderer(j)))
  BY <1>4 DEF CountIsTrue
<1>6. /\ IsFiniteSet(Counted(Renderer(j)) \union {j})
      /\ Cardinality(Counted(Renderer(j)) \union {j}) = Cardinality(Counted(Renderer(j))) + 1
  BY <1>3, <1>5, FS_AddElement
<1>. QED
  BY <1>2, <1>3, <1>4, <1>5, <1>6 DEF CountIsTrue

LEMMA CountShrinks ==
  ASSUME CountIsTrue, captures \in [Renderers -> Nat], NEW j \in Jobs, OthersStay(j),
         Counts(j), ~Counts(j)',
         captures' = [captures EXCEPT ![Renderer(j)] = IF @ > 0 THEN @ - 1 ELSE 0]
  PROVE  /\ CountIsTrue'
         /\ captures[Renderer(j)] > 1 =>
              \E k \in Jobs \ {j} : Renderer(k) = Renderer(j) /\ Counts(k)
         /\ captures[Renderer(j)] <= 1 =>
              \A k \in Jobs : Renderer(k) = Renderer(j) /\ Counts(k) => k = j
<1>1. \A k \in Jobs \ {j} : Counts(k)' = Counts(k)
  BY DEF OthersStay, Counts, At
<1>2. \A r \in Renderers \ {Renderer(j)} : Counted(r)' = Counted(r)
  BY <1>1 DEF Counted
<1>3. Counted(Renderer(j))' = Counted(Renderer(j)) \ {j} /\ j \in Counted(Renderer(j))
  BY <1>1 DEF Counted
<1>4. Renderer(j) \in Renderers
  BY RendererKinds
<1>5. IsFiniteSet(Counted(Renderer(j))) /\ captures[Renderer(j)] = Cardinality(Counted(Renderer(j)))
      /\ captures[Renderer(j)] \in Nat
  BY <1>4 DEF CountIsTrue
<1>6. /\ IsFiniteSet(Counted(Renderer(j)) \ {j})
      /\ Cardinality(Counted(Renderer(j)) \ {j}) = Cardinality(Counted(Renderer(j))) - 1
  BY <1>3, <1>5, FS_RemoveElement
<1>7. Cardinality(Counted(Renderer(j)) \ {j}) \in Nat
  BY <1>6, FS_CardinalityType
<1>8. CountIsTrue'
  BY <1>2, <1>3, <1>4, <1>5, <1>6, <1>7 DEF CountIsTrue
<1>9. Cardinality(Counted(Renderer(j)) \ {j}) = 0 <=> Counted(Renderer(j)) \ {j} = {}
  BY <1>6, FS_EmptySet
<1>10. captures[Renderer(j)] > 1 =>
         \E k \in Jobs \ {j} : Renderer(k) = Renderer(j) /\ Counts(k)
  BY <1>5, <1>6, <1>9 DEF Counted
<1>11. captures[Renderer(j)] <= 1 =>
         \A k \in Jobs : Renderer(k) = Renderer(j) /\ Counts(k) => k = j
  BY <1>5, <1>6, <1>7, <1>9 DEF Counted
<1>. QED
  BY <1>8, <1>10, <1>11

LEMMA NoneCounted ==
  ASSUME CountIsTrue, NEW r \in Renderers
  PROVE  captures[r] = 0 <=> \A k \in Jobs : Renderer(k) = r => ~Counts(k)
<1>1. IsFiniteSet(Counted(r)) /\ captures[r] = Cardinality(Counted(r))
  BY DEF CountIsTrue
<1>2. Cardinality(Counted(r)) = 0 <=> Counted(r) = {}
  BY <1>1, FS_EmptySet
<1>. QED
  BY <1>1, <1>2 DEF Counted

-----------------------------------------------------------------------------
(* What is held, over the steps of a capture.                              *)

LEMMA ResolvesKeepsHeld ==
  ASSUME HeldIInv, NEW j \in Jobs, ResolvesSurface(j) \/ HidesSurface(j)
  PROVE  HeldIInv'
<1>. USE DEF HeldIInv
<1>1. /\ OthersStay(j) /\ job'[j].at = job[j].at
      /\ job'[j].surface \in MaybeScreen /\ job'[j].prepared = job[j].prepared
      /\ overlapped' \in BOOLEAN /\ WindowsApart'
      /\ UNCHANGED <<tokens, pending, stranded, captures, owing, tracked, turn, replies>>
  <2>1. CASE ResolvesSurface(j)
    BY <2>1, ResolvesDoes DEF WindowsApart, surfaceVars
  <2>2. CASE HidesSurface(j)
    BY <2>2, HidesDoes DEF JobTypes
  <2>. QED
    BY <2>1, <2>2
<1>2. JobTypes'
  BY <1>1 DEF JobTypes, OthersStay
<1>3. \A k \in Jobs : job'[k].at = job[k].at /\ job'[k].prepared = job[k].prepared
  BY <1>1 DEF OthersStay
<1>4. RolesAreKept' /\ OneHides' /\ OwingIsHeld' /\ PendingIsHeld' /\ TokensAtWork' /\ CallsAtWork'
  <2>1. RolesAreKept' /\ OneHides'
    BY <1>3 DEF RolesAreKept, OneHides, At
  <2>2. OwingIsHeld'
    BY <1>1, <1>3 DEF OwingIsHeld, Restores, At
  <2>3. PendingIsHeld'
    BY <1>1, <1>3, RendererKinds DEF PendingIsHeld, At
  <2>4. TokensAtWork' /\ CallsAtWork'
    BY <1>1, <1>3, RendererKinds DEF TokensAtWork, CallsAtWork, At, JobTypes
  <2>. QED
    BY <2>1, <2>2, <2>3, <2>4
<1>5. CountIsTrue'
  BY <1>1, <1>3, CountStays DEF Counts, At
<1>. QED
  BY <1>1, <1>2, <1>4, <1>5

LEMMA SurfaceHiddenKeepsHeld ==
  ASSUME HeldIInv, NEW j \in Jobs, SurfaceHidden(j)
  PROVE  HeldIInv'
<1>. USE DEF HeldIInv
<1>1. /\ OthersStay(j) /\ At(j, Hiding)
      /\ job'[j].surface = job[j].surface /\ job'[j].prepared = job[j].prepared
      /\ pending' \in [Renderers -> MaybeScreen]
      /\ \A r \in Renderers \ {Renderer(j)} : pending'[r] = pending[r]
      /\ stranded' = IF Renderer(j) = "dashboard" THEN "none" ELSE stranded
      /\ \/ At(j, {"collapsing"}) /\ job'[j].at = "running" /\ tokens' = tokens \union {j}
            /\ owing' = owing /\ j \in Tools
         \/ At(j, {"hiding"}) /\ job'[j].at = "shooting" /\ tokens' = tokens
            /\ owing'[Renderer(j)] = TRUE /\ owing' \in [Renderers -> BOOLEAN]
            /\ \A r \in Renderers \ {Renderer(j)} : owing'[r] = owing[r]
      /\ UNCHANGED <<captures, tracked, turn, replies>>
      /\ SameWindows
  BY SurfaceHiddenDoes
<1>2. WindowsApart' /\ overlapped' = overlapped
  BY <1>1, SameWindowsUncover DEF WindowsApart
<1>3. JobTypes'
  BY <1>1, <1>2 DEF JobTypes, OthersStay, MaybeScreen
<1>4. job[j].prepared \/ At(j, {"collapsing"})
  BY <1>1 DEF RolesAreKept, At
<1>5. CountIsTrue'
  <2>1. \A k \in Jobs : Counts(k)' = Counts(k)
    BY <1>1, <1>4 DEF OthersStay, Counts, At
  <2>. QED
    BY <1>1, <2>1, CountStays
<1>6. \A k \in Jobs : (At(k, {"hiding"}))' => At(k, {"hiding"}) /\ k # j
  BY <1>1 DEF OthersStay, At
<1>7. RolesAreKept' /\ OneHides'
  BY <1>1, <1>6 DEF RolesAreKept, OneHides, OthersStay, At, Hiding
<1>8. OwingIsHeld'
  <2>1. CASE At(j, {"collapsing"})
    BY <1>1, <2>1 DEF OwingIsHeld, Restores, OthersStay, At
  <2>2. CASE At(j, {"hiding"})
    <3>1. \A k \in Jobs : Renderer(k) = Renderer(j) => ~(At(k, {"hiding"}))'
      BY <1>6, <2>2 DEF OneHides
    <3>2. (At(j, {"shooting"}))' /\ job'[j].prepared
      BY <1>1, <1>4, <2>2 DEF At
    <3>3. \A r \in Renderers \ {Renderer(j)} :
            /\ \A k \in Jobs : Renderer(k) = r => k # j
            /\ owing'[r] = owing[r]
      BY <1>1, <2>2 DEF At
    <3>. QED
      BY <1>1, <3>1, <3>2, <3>3 DEF OwingIsHeld, Restores, OthersStay, At
  <2>. QED
    BY <1>1, <2>1, <2>2
<1>9. PendingIsHeld'
  <2>1. CASE At(j, {"collapsing"})
    BY <1>1, <2>1, RendererKinds DEF PendingIsHeld, OthersStay, At
  <2>2. CASE At(j, {"hiding"})
    <3>1. stranded' # "none" => pending'["dashboard"] = stranded'
      BY <1>1, RendererKinds DEF PendingIsHeld, Renderers
    <3>2. ASSUME NEW r \in Renderers, pending'[r] # "none", ~owing'[r]
          PROVE  /\ r = "dashboard"
                 /\ \/ tokens' # {} \/ stranded' = pending'[r]
                    \/ \E t \in Tools : (At(t, {"releasing"}))'
      <4>1. r # Renderer(j) /\ pending'[r] = pending[r] /\ owing'[r] = owing[r]
        BY <1>1, <2>2, <3>2 DEF At
      <4>2. stranded' = stranded \/ Renderer(j) = "dashboard"
        BY <1>1
      <4>3. r = "dashboard" => Renderer(j) # "dashboard"
        BY <4>1
      <4>4. \A t \in Tools : At(t, {"releasing"}) => (At(t, {"releasing"}))'
        BY <1>1, RendererKinds DEF OthersStay, At, Hiding
      <4>5. /\ r = "dashboard"
            /\ \/ tokens # {} \/ stranded = pending[r]
               \/ \E t \in Tools : At(t, {"releasing"})
        BY <3>2, <4>1, WhoHoldsPending
      <4>6. tokens' = tokens
        BY <1>1, <2>2 DEF At
      <4>. QED
        BY <4>1, <4>2, <4>3, <4>4, <4>5, <4>6
    <3>. QED
      BY <3>1, <3>2 DEF PendingIsHeld
  <2>. QED
    BY <1>1, <2>1, <2>2
<1>10. TokensAtWork'
  BY <1>1, RendererKinds DEF TokensAtWork, OthersStay, At, JobTypes, WithToken, Hiding
<1>11. CallsAtWork'
  BY <1>1, RendererKinds DEF CallsAtWork, OthersStay, At, JobTypes, Working
<1>. QED
  BY <1>2, <1>3, <1>5, <1>7, <1>8, <1>9, <1>10, <1>11

LEMMA HidingFailsKeepsHeld ==
  ASSUME HeldIInv, NEW j \in Jobs, HidingFails(j)
  PROVE  HeldIInv'
<1>. USE DEF HeldIInv
<1>1. /\ OthersStay(j) /\ At(j, Hiding) /\ job'[j].surface = job[j].surface
      /\ \/ /\ At(j, {"collapsing"}) /\ j \in Tools /\ job'[j].at = "done"
            /\ captures' = captures /\ replies' = [replies EXCEPT ![j] = @ + 1]
            /\ tracked' = tracked \ {j}
         \/ /\ At(j, {"hiding"}) /\ job'[j].at = "shooting" /\ ~job'[j].prepared
            /\ captures' = [captures EXCEPT ![Renderer(j)] = IF @ > 0 THEN @ - 1 ELSE 0]
            /\ UNCHANGED <<replies, tracked>>
      /\ UNCHANGED <<tokens, pending, stranded, owing, turn>>
      /\ SameWindows
  BY HidingFailsDoes
<1>2. WindowsApart' /\ overlapped' = overlapped
  BY <1>1, SameWindowsUncover DEF WindowsApart
<1>3. captures' \in [Renderers -> Nat] /\ replies' \in [Tools -> Nat] /\ tracked' \subseteq Tools
  BY <1>1 DEF JobTypes
<1>4. JobTypes'
  BY <1>1, <1>2, <1>3 DEF JobTypes, OthersStay
<1>5. CountIsTrue'
  <2>1. CASE At(j, {"collapsing"})
    <3>1. \A k \in Jobs : Counts(k)' = Counts(k)
      BY <1>1, <2>1 DEF OthersStay, Counts, At
    <3>. QED
      BY <1>1, <2>1, <3>1, CountStays DEF At
  <2>2. CASE At(j, {"hiding"})
    <3>1. Counts(j) /\ ~Counts(j)'
      BY <1>1, <2>2 DEF Counts, At
    <3>. QED
      BY <1>1, <2>2, <3>1, CountShrinks DEF At, JobTypes
  <2>. QED
    BY <1>1, <2>1, <2>2
<1>6. \A k \in Jobs : (At(k, {"hiding"}))' => At(k, {"hiding"}) /\ k # j
  BY <1>1 DEF OthersStay, At
<1>7. RolesAreKept' /\ OneHides'
  BY <1>1, <1>6 DEF RolesAreKept, OneHides, OthersStay, At, Hiding
<1>8. OwingIsHeld'
  <2>1. \A k \in Jobs : At(k, {"shooting"}) \/ At(k, {"restoring"}) => job'[k] = job[k]
    BY <1>1 DEF OthersStay, At, Hiding
  <2>. QED
    BY <1>1, <1>6, <2>1 DEF OwingIsHeld, Restores, At
<1>9. PendingIsHeld'
  BY <1>1, RendererKinds DEF PendingIsHeld, OthersStay, At, Hiding
<1>10. TokensAtWork'
  BY <1>1, RendererKinds DEF TokensAtWork, OthersStay, At, JobTypes, WithToken, Hiding
<1>11. CallsAtWork'
  BY <1>1, RendererKinds DEF CallsAtWork, OthersStay, At, JobTypes, Working
<1>. QED
  BY <1>2, <1>4, <1>5, <1>7, <1>8, <1>9, <1>10, <1>11

LEMMA CaptureBeginsKeepsHeld ==
  ASSUME HeldIInv, NEW j \in Jobs, CaptureBegins(j)
  PROVE  HeldIInv'
<1>. USE DEF HeldIInv
<1>1. /\ OthersStay(j)
      /\ IF j \in Tools THEN At(j, {"waiting"}) ELSE At(j, {"idle"})
      /\ job'[j].surface = "none" /\ job'[j].prepared
      /\ captures' = [captures EXCEPT ![Renderer(j)] = @ + 1]
      /\ job'[j].at \in {"hiding", "shooting"}
      /\ job'[j].at = "hiding" => captures[Renderer(j)] = 0
      /\ owing' \in [Renderers -> BOOLEAN]
      /\ \A r \in Renderers \ {Renderer(j)} : owing'[r] = owing[r]
      /\ \/ owing'[Renderer(j)] = owing[Renderer(j)]
         \/ captures[Renderer(j)] = 0 /\ job'[j].at = "shooting" /\ owing'[Renderer(j)] = TRUE
      /\ UNCHANGED <<tokens, pending, stranded, tracked, turn, replies>>
      /\ SameWindows
  BY CaptureBeginsDoes
<1>2. WindowsApart' /\ overlapped' = overlapped
  BY <1>1, SameWindowsUncover DEF WindowsApart
<1>3. captures' \in [Renderers -> Nat] /\ Renderer(j) \in Renderers
  BY <1>1, RendererKinds DEF JobTypes
<1>4. JobTypes'
  BY <1>1, <1>2, <1>3 DEF JobTypes, OthersStay, MaybeScreen
<1>5. ~Counts(j) /\ Counts(j)' /\ ~At(j, {"hiding", "shooting", "restoring", "releasing"})
  BY <1>1 DEF Counts, At
<1>6. CountIsTrue'
  BY <1>1, <1>5, CountGrows DEF JobTypes
<1>7. captures[Renderer(j)] = 0 => \A k \in Jobs : Renderer(k) = Renderer(j) => ~Counts(k)
  BY <1>3, NoneCounted
<1>8. OneHides'
  <2>1. \A k \in Jobs \ {j} : (At(k, {"hiding"}))' => Counts(k)
    BY <1>1 DEF OthersStay, At, Counts
  <2>. QED
    BY <1>1, <1>7, <2>1 DEF OneHides, OthersStay, At
<1>9. RolesAreKept'
  BY <1>1 DEF RolesAreKept, OthersStay, At
<1>10. OwingIsHeld'
  <2>1. \A k \in Jobs : At(k, {"shooting"}) \/ At(k, {"restoring"}) => job'[k] = job[k] /\ k # j
    BY <1>1, <1>5 DEF OthersStay, At
  <2>2. \A r \in Renderers \ {Renderer(j)} : \A k \in Jobs : Renderer(k) = r => k # j
    OBVIOUS
  <2>3. \A r \in Renderers \ {Renderer(j)} :
          owing'[r] /\ ~Restores(r)' =>
            /\ \E k \in Jobs : Renderer(k) = r /\ (At(k, {"shooting"}))' /\ job'[k].prepared
            /\ \A k \in Jobs : Renderer(k) = r => ~(At(k, {"hiding"}))'
    BY <1>1, <2>1, <2>2 DEF OwingIsHeld, Restores, At, OthersStay
  <2>4. ASSUME owing'[Renderer(j)], ~Restores(Renderer(j))'
        PROVE  /\ \E k \in Jobs : Renderer(k) = Renderer(j) /\ (At(k, {"shooting"}))' /\ job'[k].prepared
               /\ \A k \in Jobs : Renderer(k) = Renderer(j) => ~(At(k, {"hiding"}))'
    <3>1. CASE captures[Renderer(j)] = 0 /\ job'[j].at = "shooting"
      BY <1>1, <1>7, <3>1 DEF OthersStay, At, Counts
    <3>2. CASE owing'[Renderer(j)] = owing[Renderer(j)]
      <4>1. ~Restores(Renderer(j))
        BY <2>1, <2>4 DEF Restores, At
      <4>2. /\ \E k \in Jobs : Renderer(k) = Renderer(j) /\ At(k, {"shooting"}) /\ job[k].prepared
            /\ \A k \in Jobs : Renderer(k) = Renderer(j) => ~At(k, {"hiding"})
        BY <1>3, <2>4, <3>2, <4>1 DEF OwingIsHeld
      <4>3. job'[j].at # "hiding"
        BY <1>1, <1>7, <4>2 DEF Counts
      <4>. QED
        BY <1>1, <2>1, <4>2, <4>3 DEF OthersStay, At
    <3>. QED
      BY <1>1, <3>1, <3>2
  <2>. QED
    BY <2>3, <2>4 DEF OwingIsHeld
<1>11. PendingIsHeld'
  <2>1. \A r \in Renderers : owing[r] => owing'[r]
    BY <1>1
  <2>. QED
    BY <1>1, <1>5, <2>1, RendererKinds DEF PendingIsHeld, OthersStay, At
<1>12. TokensAtWork'
  BY <1>1, RendererKinds DEF TokensAtWork, OthersStay, At, JobTypes, WithToken
<1>13. CallsAtWork'
  BY <1>1, RendererKinds DEF CallsAtWork, OthersStay, At, JobTypes, Working, Asking, Hiding
<1>. QED
  BY <1>2, <1>4, <1>6, <1>8, <1>9, <1>10, <1>11, <1>12, <1>13

LEMMA ScreenshotTakenKeepsHeld ==
  ASSUME HeldIInv, NEW j \in Jobs, ScreenshotTaken(j)
  PROVE  HeldIInv'
<1>. USE DEF HeldIInv
<1>1. /\ OthersStay(j) /\ At(j, {"shooting"}) /\ job'[j].prepared = job[j].prepared
      /\ captures' = IF job[j].prepared
                     THEN [captures EXCEPT ![Renderer(j)] = IF @ > 0 THEN @ - 1 ELSE 0]
                     ELSE captures
      /\ \/ job'[j].at = "restoring" /\ job'[j].surface \in MaybeScreen
         \/ /\ job'[j].at = (IF j \in Tools THEN "reporting" ELSE "done")
            /\ job'[j].surface = job[j].surface
            /\ ~(job[j].prepared /\ owing[Renderer(j)] /\ captures[Renderer(j)] <= 1)
      /\ UNCHANGED <<tokens, pending, stranded, owing, tracked, turn, replies>>
      /\ SameWindows
  BY ScreenshotTakenDoes
<1>2. WindowsApart' /\ overlapped' = overlapped
  BY <1>1, SameWindowsUncover DEF WindowsApart
<1>3. captures' \in [Renderers -> Nat] /\ Renderer(j) \in Renderers
  BY <1>1, RendererKinds DEF JobTypes
<1>4. JobTypes'
  BY <1>1, <1>2, <1>3 DEF JobTypes, OthersStay
<1>5. ~Counts(j)' /\ (Counts(j) <=> job[j].prepared)
  BY <1>1 DEF Counts, At
<1>6. CountIsTrue'
  <2>1. CASE job[j].prepared
    BY <1>1, <1>5, <2>1, CountShrinks DEF JobTypes
  <2>2. CASE ~job[j].prepared
    <3>1. \A k \in Jobs : Counts(k)' = Counts(k)
      BY <1>1, <1>5, <2>2 DEF OthersStay, Counts, At
    <3>. QED
      BY <1>1, <2>2, <3>1, CountStays
  <2>. QED
    BY <2>1, <2>2
<1>7. \A k \in Jobs : (At(k, {"hiding"}))' => At(k, {"hiding"}) /\ k # j
  BY <1>1 DEF OthersStay, At
<1>8. RolesAreKept' /\ OneHides'
  BY <1>1, <1>7 DEF RolesAreKept, OneHides, OthersStay, At
<1>9. OwingIsHeld'
  <2>1. \A r \in Renderers \ {Renderer(j)} :
          owing'[r] /\ ~Restores(r)' =>
            /\ \E k \in Jobs : Renderer(k) = r /\ (At(k, {"shooting"}))' /\ job'[k].prepared
            /\ \A k \in Jobs : Renderer(k) = r => ~(At(k, {"hiding"}))'
    <3>1. \A k \in Jobs : Renderer(k) # Renderer(j) => job'[k] = job[k]
      BY <1>1 DEF OthersStay
    <3>. QED
      BY <1>1, <3>1 DEF OwingIsHeld, Restores, At
  <2>2. ASSUME owing'[Renderer(j)], ~Restores(Renderer(j))'
        PROVE  /\ \E k \in Jobs : Renderer(k) = Renderer(j) /\ (At(k, {"shooting"}))' /\ job'[k].prepared
               /\ \A k \in Jobs : Renderer(k) = Renderer(j) => ~(At(k, {"hiding"}))'
    <3>1. job'[j].at # "restoring"
      BY <2>2 DEF Restores, At
    <3>2. ~(job[j].prepared /\ captures[Renderer(j)] <= 1)
      BY <1>1, <2>2, <3>1
    <3>3. ~Restores(Renderer(j))
      BY <1>1, <2>2 DEF Restores, At, OthersStay
    <3>4. /\ \E k \in Jobs : Renderer(k) = Renderer(j) /\ At(k, {"shooting"}) /\ job[k].prepared
          /\ \A k \in Jobs : Renderer(k) = Renderer(j) => ~At(k, {"hiding"})
      BY <1>1, <1>3, <2>2, <3>3 DEF OwingIsHeld
    <3>5. \E k \in Jobs \ {j} : Renderer(k) = Renderer(j) /\ At(k, {"shooting"}) /\ job[k].prepared
      <4>1. CASE job[j].prepared
        <5>1. captures[Renderer(j)] > 1
          BY <1>3, <3>2, <4>1 DEF JobTypes
        <5>2. PICK k \in Jobs \ {j} : Renderer(k) = Renderer(j) /\ Counts(k)
          BY <1>1, <1>5, <4>1, <5>1, CountShrinks DEF JobTypes
        <5>. QED
          BY <3>4, <5>2 DEF Counts
      <4>2. CASE ~job[j].prepared
        BY <3>4, <4>2
      <4>. QED
        BY <4>1, <4>2
    <3>6. \E k \in Jobs : Renderer(k) = Renderer(j) /\ (At(k, {"shooting"}))' /\ job'[k].prepared
      BY <1>1, <3>5 DEF OthersStay, At
    <3>7. \A k \in Jobs : Renderer(k) = Renderer(j) => ~(At(k, {"hiding"}))'
      BY <1>7, <3>4
    <3>. QED
      BY <3>6, <3>7
  <2>. QED
    BY <2>1, <2>2 DEF OwingIsHeld
<1>10. PendingIsHeld'
  BY <1>1, RendererKinds DEF PendingIsHeld, OthersStay, At
<1>11. TokensAtWork'
  BY <1>1, RendererKinds DEF TokensAtWork, OthersStay, At, JobTypes, WithToken
<1>12. CallsAtWork'
  BY <1>1, RendererKinds DEF CallsAtWork, OthersStay, At, JobTypes, Working, Asking
<1>. QED
  BY <1>2, <1>4, <1>6, <1>8, <1>9, <1>10, <1>11, <1>12

LEMMA CaptureRestoredKeepsHeld ==
  ASSUME HeldIInv, NEW j \in Jobs, CaptureRestored(j) \/ CaptureRestoreFails(j)
  PROVE  HeldIInv'
<1>. USE DEF HeldIInv
<1>1. /\ OthersStay(j) /\ At(j, {"restoring"})
      /\ job'[j].surface = job[j].surface
      /\ job'[j].at = (IF j \in Tools THEN "reporting" ELSE "done")
      /\ WindowsApart' /\ overlapped' = overlapped
      /\ owing' = [owing EXCEPT ![Renderer(j)] = FALSE]
      /\ pending' = [pending EXCEPT ![Renderer(j)] = "none"]
      /\ stranded' = IF Renderer(j) = "dashboard" THEN "none" ELSE stranded
      /\ UNCHANGED <<tokens, captures, tracked, turn, replies>>
  BY CaptureRestoredDoes
<1>2. Renderer(j) \in Renderers /\ "none" \in MaybeScreen
  BY RendererKinds DEF MaybeScreen
<1>3. JobTypes'
  BY <1>1, <1>2 DEF JobTypes, OthersStay
<1>4. CountIsTrue'
  <2>1. \A k \in Jobs : Counts(k)' = Counts(k)
    BY <1>1 DEF OthersStay, Counts, At
  <2>. QED
    BY <1>1, <2>1, CountStays
<1>5. RolesAreKept' /\ OneHides'
  BY <1>1 DEF RolesAreKept, OneHides, OthersStay, At
<1>6. \A k \in Jobs : Renderer(k) # Renderer(j) => job'[k] = job[k]
  BY <1>1 DEF OthersStay
<1>7. ~owing'[Renderer(j)] /\ pending'[Renderer(j)] = "none"
      /\ \A r \in Renderers \ {Renderer(j)} : owing'[r] = owing[r] /\ pending'[r] = pending[r]
  BY <1>1, <1>2 DEF JobTypes
<1>8. OwingIsHeld'
  BY <1>6, <1>7 DEF OwingIsHeld, Restores, At
<1>9. PendingIsHeld'
  BY <1>1, <1>7, RendererKinds DEF PendingIsHeld, OthersStay, At
<1>10. TokensAtWork'
  BY <1>1, RendererKinds DEF TokensAtWork, OthersStay, At, JobTypes, WithToken
<1>11. CallsAtWork'
  BY <1>1, RendererKinds DEF CallsAtWork, OthersStay, At, JobTypes, Working, Asking
<1>. QED
  BY <1>1, <1>3, <1>4, <1>5, <1>8, <1>9, <1>10, <1>11

LEMMA ToolReleasedKeepsHeld ==
  ASSUME HeldIInv, NEW t \in Tools, ToolReleased(t) \/ ToolReleaseFails(t)
  PROVE  HeldIInv'
<1>. USE DEF HeldIInv
<1>1. /\ OthersStay(t) /\ At(t, {"releasing"})
      /\ job'[t].at = "done" /\ job'[t].surface = job[t].surface
      /\ WindowsApart' /\ overlapped' = overlapped
      /\ \/ pending' = [pending EXCEPT !["dashboard"] = "none"] /\ stranded' = "none"
         \/ pending' = pending /\ stranded' = pending["dashboard"]
      /\ UNCHANGED <<tokens, captures, owing, tracked, turn, replies>>
  BY ToolReleasedDoes
<1>2. t \in Jobs /\ Renderer(t) = "dashboard" /\ "none" \in MaybeScreen /\ "dashboard" \in Renderers
  BY RendererKinds DEF MaybeScreen, Renderers
<1>3. JobTypes'
  BY <1>1, <1>2 DEF JobTypes, OthersStay
<1>4. \A k \in Jobs : /\ Counts(k)' = Counts(k)
                      /\ (At(k, {"hiding"}))' = At(k, {"hiding"})
                      /\ (At(k, {"restoring"}))' = At(k, {"restoring"})
                      /\ At(k, {"hiding"}) \/ At(k, {"shooting"}) => job'[k] = job[k]
  BY <1>1, <1>2 DEF OthersStay, Counts, At
<1>5. CountIsTrue'
  BY <1>1, <1>4, CountStays
<1>6. RolesAreKept' /\ OneHides'
  BY <1>1, <1>2, <1>4 DEF RolesAreKept, OneHides, OthersStay, At
<1>7. OwingIsHeld'
  BY <1>1, <1>4 DEF OwingIsHeld, Restores, At
<1>8. /\ pending'["dashboard"] = stranded'
      /\ \A r \in Renderers \ {"dashboard"} : pending'[r] = pending[r]
  BY <1>1, <1>2 DEF JobTypes
<1>9. PendingIsHeld'
  <2>1. \A r \in Renderers : pending'[r] # "none" => owing'[r] \/ r = "dashboard"
    BY <1>1, <1>8, WhoHoldsPending
  <2>. QED
    BY <1>8, <2>1 DEF PendingIsHeld
<1>10. TokensAtWork'
  BY <1>1, RendererKinds DEF TokensAtWork, OthersStay, At, JobTypes, WithToken
<1>11. CallsAtWork'
  BY <1>1, RendererKinds DEF CallsAtWork, OthersStay, At, JobTypes, Working, Asking
<1>. QED
  BY <1>1, <1>3, <1>5, <1>6, <1>7, <1>9, <1>10, <1>11

LEMMA ToolReportsKeepsHeld ==
  ASSUME HeldIInv, NEW t \in Tools, ToolReports(t)
  PROVE  HeldIInv'
<1>. USE DEF HeldIInv
<1>1. /\ OthersStay(t) /\ At(t, {"reporting"})
      /\ IF Accepts(t) THEN replies' = [replies EXCEPT ![t] = @ + 1] ELSE replies' = replies
      /\ tracked' = tracked \ {t} /\ tokens' = tokens \ {t}
      /\ \/ /\ tokens = {t} /\ pending["dashboard"] # "none"
            /\ job'[t].at = "releasing" /\ job'[t].surface = pending["dashboard"]
         \/ /\ ~(tokens = {t} /\ pending["dashboard"] # "none")
            /\ job'[t].at = "done" /\ job'[t].surface = job[t].surface
      /\ UNCHANGED <<pending, stranded, captures, owing, turn>>
      /\ SameWindows
  BY ToolReportsDoes
<1>2. WindowsApart' /\ overlapped' = overlapped
  BY <1>1, SameWindowsUncover DEF WindowsApart
<1>3. t \in Jobs /\ Renderer(t) = "dashboard" /\ "dashboard" \in Renderers
  BY RendererKinds DEF Renderers
<1>4. replies' \in [Tools -> Nat] /\ job'[t].surface \in MaybeScreen
  BY <1>1, <1>3 DEF JobTypes
<1>5. JobTypes'
  BY <1>1, <1>2, <1>4 DEF JobTypes, OthersStay
<1>6. \A k \in Jobs : /\ Counts(k)' = Counts(k)
                      /\ (At(k, {"hiding"}))' = At(k, {"hiding"})
                      /\ (At(k, {"restoring"}))' = At(k, {"restoring"})
                      /\ At(k, {"hiding"}) \/ At(k, {"shooting"}) => job'[k] = job[k]
                      /\ At(k, {"releasing"}) => (At(k, {"releasing"}))'
  BY <1>1, <1>3 DEF OthersStay, Counts, At
<1>7. CountIsTrue'
  BY <1>1, <1>6, CountStays
<1>8. RolesAreKept' /\ OneHides'
  BY <1>1, <1>3, <1>6 DEF RolesAreKept, OneHides, OthersStay, At
<1>9. OwingIsHeld'
  BY <1>1, <1>6 DEF OwingIsHeld, Restores, At
<1>10. PendingIsHeld'
  <2>1. pending["dashboard"] # "none" /\ tokens # {} =>
          tokens' # {} \/ (At(t, {"releasing"}))'
    BY <1>1 DEF At
  <2>. QED
    BY <1>1, <1>3, <1>6, <2>1, RendererKinds DEF PendingIsHeld
<1>11. TokensAtWork'
  BY <1>1, RendererKinds DEF TokensAtWork, OthersStay, At, JobTypes
<1>12. CallsAtWork'
  BY <1>1, RendererKinds DEF CallsAtWork, OthersStay, At, JobTypes
<1>. QED
  BY <1>2, <1>5, <1>7, <1>8, <1>9, <1>10, <1>11, <1>12

-----------------------------------------------------------------------------
(* The turn and the user.                                                  *)

LEMMA TurnMovesDoes ==
  ASSUME HeldIInv, TurnMoves
  PROVE  /\ turn' \in [active : 0..MaxTurn, ended : BOOLEAN]
         /\ turn' # [active |-> 1, ended |-> FALSE]
         /\ UNCHANGED <<job, requests, tokens, pending, stranded, captures, owing, tracked, replies>>
         /\ SameWindows
<1>1. turn \in [active : 0..MaxTurn, ended : BOOLEAN] /\ MaxTurn \in Nat
  BY BoundsAreNat DEF HeldIInv, JobTypes
<1>2. /\ turn' \in {[active |-> turn.active + 1, ended |-> FALSE],
                    [active |-> turn.active, ended |-> TRUE],
                    [active |-> 0, ended |-> FALSE]}
      /\ turn.active > 0 /\ turn'.active <= MaxTurn
      /\ UNCHANGED <<job, requests, tokens, pending, stranded, captures, owing, tracked, replies>>
      /\ SameWindows
  BY DEF TurnMoves, orchestrator
<1>3. CASE turn' = [active |-> turn.active + 1, ended |-> FALSE]
  <2>1. turn'.active = turn.active + 1 /\ turn'.ended = FALSE
    BY <1>3
  <2>2. turn'.active \in 0..MaxTurn /\ turn'.active # 1
    BY <1>1, <1>2, <2>1
  <2>. QED
    BY <1>2, <1>3, <2>1, <2>2
<1>4. CASE turn' = [active |-> turn.active, ended |-> TRUE]
  BY <1>1, <1>2, <1>4
<1>5. CASE turn' = [active |-> 0, ended |-> FALSE]
  BY <1>1, <1>2, <1>5
<1>. QED
  BY <1>2, <1>3, <1>4, <1>5

LEMMA UserActsDoes ==
  ASSUME HeldIInv, UserActs
  PROVE  /\ WindowsApart' /\ Uncovers
         /\ UNCHANGED <<job, requests, tokens, pending, stranded, captures, owing, tracked, turn, replies,
                        overlapped>>
<1>1. /\ surface \in Surfaces /\ (surface.response => surface.chat)
      /\ ~(surface.main /\ surface.chat) /\ fullScreen = "unsupported"
  BY DEF HeldIInv, WindowsApart
<1>2. /\ ToggleChat \/ ShowMainWindow \/ CloseMainWindow
      /\ IF Visible(surface') \subseteq Visible(surface)
         THEN UNCHANGED <<taken, givenUp>>
         ELSE taken' = {} /\ givenUp' = FALSE
      /\ UNCHANGED <<job, requests, tokens, pending, stranded, captures, owing, tracked, turn, replies,
                     overlapped>>
  BY DEF UserActs, orchestrator, runner
<1>3. WindowsApart'
  <2>1. CASE ToggleChat
    <3>1. fullScreen' = fullScreen
          /\ (surface' = HideChat(surface) \/ surface' = ShowChat(surface, TRUE, FALSE))
      BY <2>1 DEF ToggleChat, HidesChat, ShowsChat, Windowing
    <3>2. CASE surface' = HideChat(surface)
      BY <1>1, <3>1, <3>2 DEF WindowsApart, HideChat, Surfaces
    <3>3. CASE surface' = ShowChat(surface, TRUE, FALSE)
      BY <1>1, <3>1, <3>3, ShowingChat DEF WindowsApart
    <3>. QED
      BY <3>1, <3>2, <3>3
  <2>2. CASE ShowMainWindow
    BY <1>1, <2>2, ShowingMain DEF WindowsApart, ShowMainWindow, ShowsMain, Windowing
  <2>3. CASE CloseMainWindow
    <3>1. surface.main /\ fullScreen' = fullScreen
          /\ (surface' = HideMain(surface) \/ surface' = Collapsed(surface))
      BY <1>1, <2>3 DEF CloseMainWindow, Windowing
    <3>2. HideMain(surface) \in Surfaces
      BY <1>1 DEF HideMain, Surfaces
    <3>3. CASE surface' = HideMain(surface)
      BY <1>1, <3>1, <3>3 DEF WindowsApart, HideMain, Surfaces
    <3>4. CASE surface' = Collapsed(surface)
      BY <1>1, <3>1, <3>2, <3>4, ShowingChat DEF WindowsApart, Collapsed
    <3>. QED
      BY <3>1, <3>3, <3>4
  <2>. QED
    BY <1>2, <2>1, <2>2, <2>3
<1>. QED
  BY <1>2, <1>3 DEF Uncovers

(* Nothing that a job holds changes.                                       *)
LEMMA JobsStandStill ==
  ASSUME HeldIInv, WindowsApart', turn' \in [active : 0..MaxTurn, ended : BOOLEAN],
         overlapped' = overlapped,
         UNCHANGED <<job, tokens, pending, stranded, captures, owing, tracked, replies>>
  PROVE  HeldIInv'
<1>. USE DEF HeldIInv, At
<1>1. JobTypes' /\ RolesAreKept' /\ OneHides'
  BY DEF JobTypes, RolesAreKept, OneHides
<1>2. CountIsTrue'
  BY CountStays DEF Counts
<1>3. OwingIsHeld'
  BY DEF OwingIsHeld, Restores
<1>4. PendingIsHeld' /\ TokensAtWork' /\ CallsAtWork'
  BY DEF PendingIsHeld, TokensAtWork, CallsAtWork
<1>. QED
  BY <1>1, <1>2, <1>3, <1>4

(* The steps of ToolNext, as the proofs split them.                        *)
LEMMA StepsSplit ==
  ASSUME ToolNext
  PROVE  \/ \E t \in Tools, mode \in {"none", "interactive", "screenshot"}, ref \in 0..MaxTurn :
              ToolArrives(t, mode, ref)
         \/ \E t \in Tools, ref \in 0..MaxTurn : ToolDropped(t, ref)
         \/ \E t \in Tools : VisibilityChecked(t) \/ HandoffSurface(t) \/ ToolReturns(t)
         \/ \E t \in Tools : HandoffFails(t)
         \/ \E t \in Tools : ToolReports(t)
         \/ \E t \in Tools : ToolReleased(t) \/ ToolReleaseFails(t)
         \/ \E j \in Jobs : ResolvesSurface(j)
         \/ \E j \in Jobs : HidesSurface(j)
         \/ \E j \in Jobs : SurfaceHidden(j)
         \/ \E j \in Jobs : HidingFails(j)
         \/ \E j \in Jobs : ScreenshotTaken(j)
         \/ \E j \in Jobs : CaptureRestored(j) \/ CaptureRestoreFails(j)
         \/ \E j \in Jobs : CaptureBegins(j)
         \/ TurnMoves
         \/ UserActs
BY DEF ToolNext, ToolStep, CaptureStep

LEMMA HeldAtFirst ==
  ASSUME ToolInit
  PROVE  HeldIInv
<1>. USE DEF ToolInit, NoToolYet
<1>1. WindowsApart
  BY DEF WindowsApart, Surfaces
<1>2. Idle \in JobRecords
  BY BoundsAreNat DEF Idle, JobRecords, HiddenSurfaces
<1>3. \A j \in Jobs : job[j] = Idle /\ job[j].at = "idle" /\ job[j].surface = "none"
  BY DEF Idle
<1>4. JobTypes
  <2>1. turn \in [active : 0..MaxTurn, ended : BOOLEAN]
    BY BoundsAreNat
  <2>2. job \in [Jobs -> JobRecords] /\ \A j \in Jobs : job[j].surface \in MaybeScreen
    BY <1>2, <1>3 DEF MaybeScreen
  <2>3. /\ tokens \subseteq Tools /\ tracked \subseteq Tools /\ overlapped \in BOOLEAN
        /\ stranded \in MaybeScreen
    BY DEF MaybeScreen
  <2>4. /\ pending \in [Renderers -> MaybeScreen] /\ captures \in [Renderers -> Nat]
        /\ owing \in [Renderers -> BOOLEAN] /\ replies \in [Tools -> Nat]
    BY DEF MaybeScreen
  <2>. QED
    BY <2>1, <2>2, <2>3, <2>4 DEF JobTypes
<1>5. RolesAreKept /\ OneHides /\ OwingIsHeld /\ PendingIsHeld /\ TokensAtWork /\ CallsAtWork
  BY <1>3 DEF RolesAreKept, OneHides, OwingIsHeld, PendingIsHeld, TokensAtWork, CallsAtWork, At
<1>6. \A r \in Renderers : Counted(r) = {}
  BY <1>3 DEF Counted, Counts, At
<1>7. CountIsTrue
  BY <1>6, FS_EmptySet DEF CountIsTrue
<1>. QED
  BY <1>1, <1>4, <1>5, <1>7 DEF HeldIInv

LEMMA HeldIsKept ==
  ASSUME HeldIInv, [ToolNext]_<<surfaceVars, toolVars>>
  PROVE  HeldIInv'
<1>1. ASSUME NEW t \in Tools, NEW mode \in {"none", "interactive", "screenshot"},
             NEW ref \in 0..MaxTurn, ToolArrives(t, mode, ref)
      PROVE  HeldIInv'
  <2>1. /\ Plain(t) /\ surface' = surface /\ fullScreen' = fullScreen /\ overlapped' = overlapped
        /\ turn' = turn /\ replies' \in [Tools -> Nat]
    BY <1>1, ToolArrivesIsPlain
  <2>. QED
    BY <2>1, PlainKeepsHeld DEF HeldIInv, WindowsApart, JobTypes
<1>2. ASSUME NEW t \in Tools, VisibilityChecked(t) \/ HandoffSurface(t) \/ ToolReturns(t)
      PROVE  HeldIInv'
  <2>1. Plain(t) /\ WindowsApart' /\ overlapped' = overlapped /\ UNCHANGED <<turn, replies>>
    BY <1>2, ToolStartsArePlain
  <2>. QED
    BY <2>1, PlainKeepsHeld DEF HeldIInv, JobTypes
<1>6. ASSUME NEW t \in Tools, HandoffFails(t) \/ \E ref \in 0..MaxTurn : ToolDropped(t, ref)
      PROVE  HeldIInv'
  <2>1. /\ Plain(t) /\ surface' = surface /\ fullScreen' = fullScreen /\ overlapped' = overlapped
        /\ turn' = turn /\ replies' \in [Tools -> Nat]
    BY <1>6, EarlyEndsArePlain
  <2>. QED
    BY <2>1, PlainKeepsHeld DEF HeldIInv, WindowsApart, JobTypes
<1>3. TurnMoves => HeldIInv'
  <2>1. SUFFICES ASSUME TurnMoves PROVE HeldIInv'
    OBVIOUS
  <2>2. /\ turn' \in [active : 0..MaxTurn, ended : BOOLEAN]
        /\ UNCHANGED <<job, tokens, pending, stranded, captures, owing, tracked, replies>>
        /\ SameWindows
    BY <2>1, TurnMovesDoes
  <2>3. WindowsApart' /\ overlapped' = overlapped
    BY <2>2, SameWindowsUncover DEF HeldIInv, WindowsApart
  <2>. QED
    BY <2>2, <2>3, JobsStandStill
<1>4. UserActs => HeldIInv'
  <2>1. SUFFICES ASSUME UserActs PROVE HeldIInv'
    OBVIOUS
  <2>2. /\ WindowsApart'
        /\ UNCHANGED <<job, tokens, pending, stranded, captures, owing, tracked, turn, replies, overlapped>>
    BY <2>1, UserActsDoes
  <2>. QED
    BY <2>2, JobsStandStill DEF HeldIInv, JobTypes
<1>5. UNCHANGED <<surfaceVars, toolVars>> => HeldIInv'
  <2>1. SUFFICES ASSUME UNCHANGED <<surfaceVars, toolVars>> PROVE HeldIInv'
    OBVIOUS
  <2>2. /\ UNCHANGED <<job, tokens, pending, stranded, captures, owing, tracked, turn, replies, overlapped>>
        /\ UNCHANGED <<surface, fullScreen>>
    BY <2>1 DEF surfaceVars, toolVars, orchestrator, runner
  <2>3. WindowsApart'
    BY <2>2 DEF HeldIInv, WindowsApart
  <2>. QED
    BY <2>2, <2>3, JobsStandStill DEF HeldIInv, JobTypes
<1>. QED
  BY <1>1, <1>2, <1>3, <1>4, <1>5, <1>6, StepsSplit, ToolReportsKeepsHeld, ToolReleasedKeepsHeld,
     ResolvesKeepsHeld, SurfaceHiddenKeepsHeld, HidingFailsKeepsHeld, ScreenshotTakenKeepsHeld,
     CaptureRestoredKeepsHeld, CaptureBeginsKeepsHeld

LEMMA HeldMeansNothingAtRest ==
  ASSUME HeldIInv
  PROVE  NothingHeldAtRest
<1>. USE DEF HeldIInv
<1>1. SUFFICES ASSUME NEW r \in Renderers, Resting(r)
               PROVE  /\ captures[r] = 0 /\ ~owing[r]
                      /\ pending[r] = IF r = "dashboard" THEN stranded ELSE "none"
                      /\ r = "dashboard" => tokens = {} /\ tracked = {}
  BY DEF NothingHeldAtRest
<1>2. \A j \in Jobs : Renderer(j) = r => ~At(j, Working)
  BY <1>1 DEF Resting
<1>3. captures[r] = 0
  BY <1>2, NoneCounted DEF Counts, At, Working, Asking, Hiding
<1>4. ~owing[r]
  BY <1>2 DEF OwingIsHeld, Restores, At, Working, Asking
<1>5. r = "dashboard" => tokens = {} /\ tracked = {}
  BY <1>2, RendererKinds
     DEF TokensAtWork, CallsAtWork, JobTypes, At, WithToken, Working, Asking, Hiding
<1>6. pending[r] = IF r = "dashboard" THEN stranded ELSE "none"
  <2>1. r = "dashboard" => \A t \in Tools : ~At(t, {"releasing"})
    BY <1>2, RendererKinds DEF At, Working, Asking
  <2>2. pending[r] # "none" => r = "dashboard" /\ stranded = pending[r]
    BY <1>4, <1>5, <2>1, WhoHoldsPending
  <2>3. r = "dashboard" /\ stranded # "none" => pending[r] = stranded
    BY DEF PendingIsHeld
  <2>. QED
    BY <2>2, <2>3
<1>. QED
  BY <1>3, <1>4, <1>5, <1>6

-----------------------------------------------------------------------------
(* The answers of the calls.                                               *)

AtTurnOne == turn = [active |-> 1, ended |-> FALSE]
Unanswered == Working \ {"releasing"}

(* A call of the turn that was streaming at first stays tracked and        *)
(* without an answer until the step that answers it.                       *)
AnswersIInv ==
  /\ \A t \in Tools : At(t, {"idle"}) => replies[t] = 0
  /\ AtTurnOne => \A t \in Tools :
       /\ At(t, Unanswered) => t \in tracked /\ job[t].turn = 1 /\ replies[t] = 0
       /\ At(t, {"releasing", "done"}) => replies[t] = 1

(* A step of one job that answers nothing.                                 *)
LEMMA GoingOnKeepsAnswers ==
  ASSUME AnswersIInv, NEW j \in Jobs, OthersStay(j), UNCHANGED <<tracked, turn, replies>>,
         job'[j].turn = job[j].turn,
         j \in Tools => \/ At(j, Unanswered) /\ (At(j, Unanswered))'
                        \/ At(j, {"releasing"}) /\ (At(j, {"done"}))'
  PROVE  AnswersIInv'
<1>1. \A t \in Tools \ {j} : job'[t] = job[t]
  BY RendererKinds DEF OthersStay
<1>2. \A t \in Tools : (At(t, {"idle"}))' => replies'[t] = 0
  BY <1>1 DEF AnswersIInv, At, Unanswered, Working, Asking, Hiding
<1>3. ASSUME AtTurnOne', NEW t \in Tools
      PROVE  /\ (At(t, Unanswered))' => t \in tracked' /\ job'[t].turn = 1 /\ replies'[t] = 0
             /\ (At(t, {"releasing", "done"}))' => replies'[t] = 1
  <2>1. AtTurnOne
    BY <1>3 DEF AtTurnOne
  <2>2. CASE t # j
    BY <1>1, <2>1, <2>2 DEF AnswersIInv, At
  <2>3. CASE t = j /\ At(j, Unanswered) /\ (At(j, Unanswered))'
    BY <2>1, <2>3 DEF AnswersIInv, At, Unanswered, Working, Asking, Hiding
  <2>4. CASE t = j /\ At(j, {"releasing"}) /\ (At(j, {"done"}))'
    BY <2>1, <2>4 DEF AnswersIInv, At, Unanswered, Working, Asking, Hiding
  <2>. QED
    BY <2>2, <2>3, <2>4
<1>. QED
  BY <1>2, <1>3 DEF AnswersIInv

(* A step of one call that answers it, once.                               *)
LEMMA AnsweringKeepsAnswers ==
  ASSUME HeldIInv, AnswersIInv, NEW t \in Tools, OthersStay(t), turn' = turn,
         tracked' = tracked \/ tracked' = tracked \ {t},
         \A k \in Tools \ {t} : replies'[k] = replies[k],
         AtTurnOne => replies'[t] = replies[t] + 1,
         At(t, Unanswered \union {"idle"}), (At(t, {"releasing", "done"}))'
  PROVE  AnswersIInv'
<1>1. \A k \in Tools \ {t} : job'[k] = job[k]
  BY RendererKinds DEF OthersStay
<1>2. \A k \in Tools : (At(k, {"idle"}))' => replies'[k] = 0
  BY <1>1 DEF AnswersIInv, At
<1>3. ASSUME AtTurnOne', NEW k \in Tools
      PROVE  /\ (At(k, Unanswered))' => k \in tracked' /\ job'[k].turn = 1 /\ replies'[k] = 0
             /\ (At(k, {"releasing", "done"}))' => replies'[k] = 1
  <2>1. AtTurnOne
    BY <1>3 DEF AtTurnOne
  <2>2. CASE k # t
    BY <1>1, <2>1, <2>2 DEF AnswersIInv, At
  <2>3. CASE k = t
    <3>1. replies[t] = 0
      BY <2>1 DEF AnswersIInv, At, Unanswered
    <3>2. replies'[t] = 1
      BY <2>1, <3>1
    <3>. QED
      BY <2>3, <3>2 DEF At, Unanswered, Working, Asking, Hiding
  <2>. QED
    BY <2>2, <2>3
<1>. QED
  BY <1>2, <1>3 DEF AnswersIInv

(* A result that belongs to the streaming turn is accepted.                *)
LEMMA CurrentResultsAreAccepted ==
  ASSUME AnswersIInv, AtTurnOne, NEW t \in Tools, At(t, {"reporting"})
  PROVE  Accepts(t)
<1>1. t \in tracked /\ job[t].turn = 1 /\ turn.active = 1 /\ ~turn.ended
  BY DEF AnswersIInv, AtTurnOne, At, Unanswered, Working
<1>. QED
  BY <1>1 DEF Accepts

LEMMA AnswersAtFirst ==
  ASSUME ToolInit
  PROVE  AnswersIInv
<1>1. \A t \in Tools : job[t].at = "idle" /\ replies[t] = 0
  BY RendererKinds DEF ToolInit, NoToolYet, Idle
<1>. QED
  BY <1>1 DEF AnswersIInv, At, Unanswered, Working, Asking, Hiding

LEMMA ArrivalKeepsAnswers ==
  ASSUME HeldIInv, AnswersIInv, NEW t \in Tools,
         NEW mode \in {"none", "interactive", "screenshot"},
         NEW ref \in 0..MaxTurn, ToolArrives(t, mode, ref)
  PROVE  AnswersIInv'
<1>1. /\ OthersStay(t) /\ turn' = turn /\ At(t, {"idle"})
      /\ job'[t].turn = IF ref = 0 THEN turn.active ELSE ref
      /\ IF Stale(ref) THEN /\ job'[t].at = "done" /\ tracked' = tracked
                            /\ replies'[t] = replies[t] + 1
         ELSE /\ job'[t].at \in {"running", "checking"}
              /\ tracked' = tracked \union {t} /\ replies' = replies
      /\ \A k \in Tools \ {t} : replies'[k] = replies[k]
  BY ToolArrivesIsPlain DEF Plain, OthersStay
<1>2. CASE Stale(ref)
  BY <1>1, <1>2, AnsweringKeepsAnswers DEF At
<1>3. CASE ~Stale(ref)
  <2>1. \A k \in Tools \ {t} : job'[k] = job[k]
    BY <1>1, RendererKinds DEF OthersStay
  <2>2. AtTurnOne => job'[t].turn = 1
    BY <1>1, <1>3 DEF AtTurnOne, Stale
  <2>3. replies[t] = 0
    BY <1>1 DEF AnswersIInv
  <2>. QED
    BY <1>1, <1>3, <2>1, <2>2, <2>3
       DEF AnswersIInv, AtTurnOne, At, Unanswered
<1>. QED
  BY <1>2, <1>3

LEMMA AnswersAreKept ==
  ASSUME HeldIInv, AnswersIInv, [ToolNext]_<<surfaceVars, toolVars>>
  PROVE  AnswersIInv'
<1>1. ASSUME NEW t \in Tools, VisibilityChecked(t) \/ HandoffSurface(t) \/ ToolReturns(t)
      PROVE  AnswersIInv'
  <2>1. /\ OthersStay(t) /\ UNCHANGED <<tracked, turn, replies>> /\ job'[t].turn = job[t].turn
        /\ At(t, {"checking", "handing", "running"}) /\ job'[t].at \in Working \intersect Later
    BY <1>1, ToolStartsArePlain DEF Plain, OthersStay
  <2>2. At(t, Unanswered) /\ (At(t, Unanswered))' /\ t \in Jobs
    BY <2>1, RendererKinds DEF At, Unanswered, Later, Working, Asking, Hiding
  <2>. QED
    BY <2>1, <2>2, GoingOnKeepsAnswers
<1>2. ASSUME NEW t \in Tools, ToolReports(t) PROVE AnswersIInv'
  <2>1. /\ OthersStay(t) /\ At(t, {"reporting"}) /\ turn' = turn
        /\ IF Accepts(t) THEN replies' = [replies EXCEPT ![t] = @ + 1] ELSE replies' = replies
        /\ tracked' = tracked \ {t} /\ job'[t].at \in {"releasing", "done"}
    BY <1>2, ToolReportsDoes
  <2>2. /\ \A k \in Tools \ {t} : replies'[k] = replies[k]
        /\ AtTurnOne => replies'[t] = replies[t] + 1
    BY <2>1, CurrentResultsAreAccepted DEF HeldIInv, JobTypes
  <2>. QED
    BY <2>1, <2>2, AnsweringKeepsAnswers DEF At, Unanswered, Working
<1>3. ASSUME NEW t \in Tools, ToolReleased(t) \/ ToolReleaseFails(t) PROVE AnswersIInv'
  <2>1. /\ OthersStay(t) /\ At(t, {"releasing"}) /\ job'[t].at = "done"
        /\ UNCHANGED <<tracked, turn, replies>>
    BY <1>3, ToolReleasedDoes
  <2>2. \A k \in Tools \ {t} : job'[k] = job[k]
    BY <2>1, RendererKinds DEF OthersStay
  <2>. QED
    BY <2>1, <2>2 DEF AnswersIInv, AtTurnOne, At, Unanswered, Working, Asking, Hiding
<1>9. ASSUME NEW t \in Tools, HandoffFails(t) PROVE AnswersIInv'
  <2>1. /\ OthersStay(t) /\ turn' = turn /\ At(t, {"handing", "idle"})
        /\ \A k \in Tools \ {t} : replies'[k] = replies[k]
        /\ \/ /\ At(t, {"handing"}) /\ job'[t].at = "done"
              /\ tracked' = tracked \ {t} /\ replies'[t] = replies[t] + 1
           \/ At(t, {"idle"}) /\ job'[t].at = "dropped" /\ UNCHANGED <<tracked, replies>>
    BY <1>9, EarlyEndsArePlain DEF Plain, OthersStay, At
  <2>2. At(t, {"handing"})
    BY <1>9 DEF HandoffFails
  <2>3. tracked' = tracked \ {t} /\ replies'[t] = replies[t] + 1 /\ job'[t].at = "done"
    BY <2>1, <2>2 DEF At
  <2>. QED
    BY <2>1, <2>2, <2>3, AnsweringKeepsAnswers DEF At, Unanswered, Working, Asking
<1>10. ASSUME NEW t \in Tools, NEW ref \in 0..MaxTurn, ToolDropped(t, ref) PROVE AnswersIInv'
  <2>1. /\ OthersStay(t) /\ turn' = turn /\ At(t, {"idle"})
    BY <1>10, EarlyEndsArePlain DEF Plain, OthersStay, ToolDropped
  <2>2. job'[t].at = "dropped" /\ UNCHANGED <<tracked, replies>>
    BY <1>10, <2>1, EarlyEndsArePlain DEF At
  <2>3. \A k \in Tools \ {t} : job'[k] = job[k]
    BY <2>1, RendererKinds DEF OthersStay
  <2>. QED
    BY <2>1, <2>2, <2>3 DEF AnswersIInv, AtTurnOne, At, Unanswered, Working, Asking, Hiding
<1>4. ASSUME NEW j \in Jobs, HidingFails(j) PROVE AnswersIInv'
  <2>1. /\ OthersStay(j) /\ At(j, Hiding) /\ job'[j].turn = job[j].turn /\ turn' = turn
        /\ \/ /\ At(j, {"collapsing"}) /\ j \in Tools /\ job'[j].at = "done"
              /\ replies' = [replies EXCEPT ![j] = @ + 1]
              /\ tracked' = tracked \ {j}
           \/ /\ At(j, {"hiding"}) /\ job'[j].at = "shooting"
              /\ UNCHANGED <<replies, tracked>>
    BY <1>4, HidingFailsDoes
  <2>2. CASE At(j, {"collapsing"})
    <3>1. /\ j \in Tools /\ tracked' = tracked \ {j} /\ (At(j, {"done"}))'
          /\ replies'[j] = replies[j] + 1 /\ \A k \in Tools \ {j} : replies'[k] = replies[k]
      BY <2>1, <2>2 DEF At, HeldIInv, JobTypes
    <3>. QED
      BY <2>1, <2>2, <3>1, AnsweringKeepsAnswers DEF At, Unanswered, Working, Asking, Hiding
  <2>3. CASE At(j, {"hiding"})
    <3>1. UNCHANGED <<replies, tracked>> /\ At(j, Unanswered) /\ (At(j, Unanswered))'
      BY <2>1, <2>3 DEF At, Unanswered, Working, Asking, Hiding
    <3>. QED
      BY <2>1, <3>1, GoingOnKeepsAnswers
  <2>. QED
    BY <2>1, <2>2, <2>3
<1>5. ASSUME NEW j \in Jobs, \/ ResolvesSurface(j) \/ HidesSurface(j) \/ SurfaceHidden(j)
                             \/ ScreenshotTaken(j) \/ CaptureRestored(j) \/ CaptureRestoreFails(j)
                             \/ CaptureBegins(j)
      PROVE  AnswersIInv'
  <2>1. /\ OthersStay(j) /\ job'[j].turn = job[j].turn /\ UNCHANGED <<tracked, turn, replies>>
        /\ j \in Tools => At(j, Unanswered) /\ (At(j, Unanswered))'
    <3>1. CASE ResolvesSurface(j)
      BY <3>1, ResolvesDoes DEF At, Unanswered, Working, Asking, Hiding
    <3>2. CASE HidesSurface(j)
      BY <3>2, HidesDoes DEF At, Unanswered, Working, Asking, Hiding
    <3>3. CASE SurfaceHidden(j)
      BY <3>3, SurfaceHiddenDoes DEF At, Unanswered, Working, Asking, Hiding
    <3>4. CASE ScreenshotTaken(j)
      BY <3>4, ScreenshotTakenDoes DEF At, Unanswered, Working, Asking
    <3>5. CASE CaptureRestored(j) \/ CaptureRestoreFails(j)
      BY <3>5, CaptureRestoredDoes DEF At, Unanswered, Working, Asking
    <3>6. CASE CaptureBegins(j)
      BY <3>6, CaptureBeginsDoes DEF At, Unanswered, Working, Asking, Hiding
    <3>. QED
      BY <1>5, <3>1, <3>2, <3>3, <3>4, <3>5, <3>6
  <2>. QED
    BY <2>1, GoingOnKeepsAnswers
<1>6. TurnMoves => AnswersIInv'
  BY TurnMovesDoes DEF AnswersIInv, AtTurnOne, At
<1>7. UserActs => AnswersIInv'
  BY UserActsDoes DEF AnswersIInv, AtTurnOne, At
<1>8. UNCHANGED <<surfaceVars, toolVars>> => AnswersIInv'
  BY DEF AnswersIInv, AtTurnOne, At, toolVars, runner
<1>. QED
  BY <1>1, <1>2, <1>3, <1>4, <1>5, <1>6, <1>7, <1>8, <1>9, <1>10, StepsSplit, ArrivalKeepsAnswers

-----------------------------------------------------------------------------
(* The windows that were hidden for a screenshot.                          *)

(* Main has decided what to hide for k; it gives a surface back for k.     *)
Resolved(k) == At(k, Hiding) /\ job[k].stage # "sent"
GivesBack(k) == At(k, {"restoring", "releasing"})
Holds(k) == Resolved(k) /\ job[k].stage = "hidden"

(* While no renderer has hidden a surface for two jobs at once, a surface  *)
(* is being hidden for one job only, with none hidden before it; what is   *)
(* given back is the pending surface; and some job or orchestrator holds   *)
(* every window that is missing.                                           *)
Alone ==
  \A k \in Jobs : Resolved(k) =>
    /\ pending[Renderer(k)] = "none" /\ ~owing[Renderer(k)]
    /\ \A i \in Jobs \ {k} : Renderer(i) = Renderer(k) => ~Resolved(i) /\ ~GivesBack(i)
BackIsPending ==
  \A k \in Jobs : GivesBack(k) =>
    pending[Renderer(k)] = "none" \/ job[k].surface = pending[Renderer(k)]
Held ==
  \/ \E k \in Jobs : Holds(k) /\ job[k].surface \in Screens
  \/ \E r \in Renderers : pending[r] \in Screens

NothingCovered == taken # {} => Visible(surface) = {}

(* A window is missing that no capture's failed restore has given up.      *)
Missing == taken # {} /\ ~givenUp
BackIInv ==
  /\ NothingCovered
  /\ ~overlapped => Alone /\ BackIsPending /\ (Missing => Held)

LEMMA UncoveringKeepsCovered ==
  ASSUME NothingCovered, Uncovers
  PROVE  NothingCovered' /\ (Missing' => Missing /\ Visible(surface') = {})
BY DEF NothingCovered, Missing, Uncovers

LEMMA HiddenSurfaceKinds ==
  ASSUME HeldIInv
  PROVE  /\ \A j \in Jobs : job[j].surface \in Screens \/ job[j].surface = "none"
         /\ \A r \in Renderers : pending[r] \in Screens \/ pending[r] = "none"
         /\ "none" \notin Screens
BY DEF HeldIInv, JobTypes, MaybeScreen, Screens

(* A step of a job that hides nothing and gives nothing back.              *)
LEMMA QuietKeepsBack ==
  ASSUME BackIInv, NEW j \in Jobs, OthersStay(j), pending' = pending,
         overlapped' = overlapped, Uncovers,
         \A r \in Renderers : owing'[r] => owing[r] \/ pending[r] # "none",
         ~Holds(j), ~Resolved(j)',
         GivesBack(j)' => /\ owing[Renderer(j)] \/ pending[Renderer(j)] # "none"
                          /\ \/ pending[Renderer(j)] = "none"
                             \/ job'[j].surface = pending[Renderer(j)]
  PROVE  BackIInv'
<1>1. NothingCovered' /\ (Missing' => Missing)
  BY UncoveringKeepsCovered DEF BackIInv
<1>2. SUFFICES ASSUME ~overlapped'
               PROVE  Alone' /\ BackIsPending' /\ (Missing' => Held')
  BY <1>1 DEF BackIInv
<1>3. Alone /\ BackIsPending /\ (Missing => Held)
  BY <1>2 DEF BackIInv
<1>4. \A k \in Jobs \ {j} : /\ Resolved(k)' = Resolved(k) /\ GivesBack(k)' = GivesBack(k)
                            /\ Holds(k)' = Holds(k) /\ job'[k].surface = job[k].surface
  BY DEF OthersStay, Resolved, GivesBack, Holds, At
<1>5. Alone'
  BY <1>3, <1>4, RendererKinds DEF Alone
<1>6. BackIsPending'
  BY <1>3, <1>4 DEF BackIsPending
<1>7. Held => Held'
  BY <1>4 DEF Held
<1>. QED
  BY <1>1, <1>3, <1>5, <1>6, <1>7

LEMMA ResolvingKeepsBack ==
  ASSUME HeldIInv, BackIInv, NEW j \in Jobs, ResolvesSurface(j)
  PROVE  BackIInv'
<1>1. /\ OthersStay(j) /\ At(j, Hiding) /\ job[j].stage = "sent"
      /\ job'[j].at = job[j].at /\ job'[j].stage = "resolved"
      /\ overlapped' = (overlapped \/ Overlaps(j))
      /\ UNCHANGED <<pending, owing, surfaceVars, taken, givenUp>>
  BY ResolvesDoes
<1>2. NothingCovered'
  BY <1>1 DEF BackIInv, NothingCovered, Visible, surfaceVars
<1>3. SUFFICES ASSUME ~overlapped'
               PROVE  Alone' /\ BackIsPending' /\ (Missing' => Held')
  BY <1>2 DEF BackIInv
<1>4. ~overlapped /\ ~Overlaps(j)
  BY <1>1, <1>3
<1>5. Alone /\ BackIsPending /\ (Missing => Held)
  BY <1>4 DEF BackIInv
<1>6. \A k \in Jobs \ {j} : /\ Resolved(k)' = Resolved(k) /\ GivesBack(k)' = GivesBack(k)
                            /\ Holds(k)' = Holds(k) /\ job'[k].surface = job[k].surface
  BY <1>1 DEF OthersStay, Resolved, GivesBack, Holds, At
<1>7. /\ ~Resolved(j) /\ Resolved(j)' /\ ~Holds(j)
      /\ ~GivesBack(j) /\ ~GivesBack(j)'
  BY <1>1 DEF Resolved, GivesBack, Holds, At, Hiding
<1>8. /\ pending[Renderer(j)] = "none"
      /\ \A k \in Jobs \ {j} : Renderer(k) = Renderer(j) =>
           ~Resolved(k) /\ ~At(k, {"shooting"}) /\ ~At(k, {"restoring", "releasing"})
  BY <1>4 DEF Overlaps, Resolved, At
<1>9. ~owing[Renderer(j)]
  BY <1>1, <1>8, RendererKinds DEF HeldIInv, OwingIsHeld, Restores, At, Hiding
<1>10. Alone'
  BY <1>1, <1>5, <1>6, <1>7, <1>8, <1>9 DEF Alone, GivesBack
<1>11. BackIsPending'
  BY <1>1, <1>5, <1>6, <1>7 DEF BackIsPending
<1>12. Held => Held'
  BY <1>1, <1>6, <1>7 DEF Held
<1>. QED
  BY <1>1, <1>5, <1>10, <1>11, <1>12 DEF Missing

LEMMA HidingKeepsBack ==
  ASSUME HeldIInv, BackIInv, NEW j \in Jobs, HidesSurface(j)
  PROVE  BackIInv'
<1>1. /\ OthersStay(j) /\ At(j, Hiding) /\ job[j].stage = "resolved"
      /\ job'[j].at = job[j].at /\ job'[j].stage = "hidden"
      /\ job'[j].surface = job[j].surface
      /\ Visible(surface') # Visible(surface) => Visible(surface') = {} /\ job[j].surface # "none"
      /\ taken' = taken \union (Visible(surface) \ Visible(surface'))
      /\ UNCHANGED <<pending, owing, overlapped, givenUp>>
  BY HidesDoes
<1>2. NothingCovered'
  BY <1>1 DEF BackIInv, NothingCovered
<1>3. SUFFICES ASSUME ~overlapped'
               PROVE  Alone' /\ BackIsPending' /\ (Missing' => Held')
  BY <1>2 DEF BackIInv
<1>4. Alone /\ BackIsPending /\ (Missing => Held)
  BY <1>1, <1>3 DEF BackIInv
<1>5. \A k \in Jobs : /\ Resolved(k)' = Resolved(k) /\ GivesBack(k)' = GivesBack(k)
                      /\ job'[k].surface = job[k].surface /\ (Holds(k) => Holds(k)')
  BY <1>1 DEF OthersStay, Resolved, GivesBack, Holds, At
<1>6. Alone' /\ BackIsPending' /\ (Held => Held')
  BY <1>1, <1>4, <1>5 DEF Alone, BackIsPending, Held
<1>7. Holds(j)'
  BY <1>1 DEF Holds, Resolved, At
<1>8. Missing' => Held'
  <2>1. CASE Visible(surface') = Visible(surface)
    BY <1>1, <1>4, <1>6, <2>1 DEF Missing
  <2>2. CASE Visible(surface') # Visible(surface)
    BY <1>1, <1>7, <2>2, HiddenSurfaceKinds DEF Held
  <2>. QED
    BY <2>1, <2>2
<1>. QED
  BY <1>6, <1>8

LEMMA HiddenKeepsBack ==
  ASSUME HeldIInv, BackIInv, NEW j \in Jobs, SurfaceHidden(j)
  PROVE  BackIInv'
<1>1. /\ OthersStay(j) /\ At(j, Hiding) /\ job[j].stage = "hidden"
      /\ job'[j].surface = job[j].surface /\ job'[j].at \in {"running", "shooting"}
      /\ pending'[Renderer(j)] = job[j].surface
      /\ \A r \in Renderers \ {Renderer(j)} : pending'[r] = pending[r] /\ owing'[r] = owing[r]
      /\ SameWindows
  BY SurfaceHiddenDoes DEF HeldIInv
<1>2. Uncovers /\ overlapped' = overlapped
  BY <1>1, SameWindowsUncover
<1>3. NothingCovered' /\ (Missing' => Missing)
  BY <1>2, UncoveringKeepsCovered DEF BackIInv
<1>4. SUFFICES ASSUME ~overlapped'
               PROVE  Alone' /\ BackIsPending' /\ (Missing' => Held')
  BY <1>3 DEF BackIInv
<1>5. Alone /\ BackIsPending /\ (Missing => Held)
  BY <1>2, <1>4 DEF BackIInv
<1>6. \A k \in Jobs \ {j} : /\ Resolved(k)' = Resolved(k) /\ GivesBack(k)' = GivesBack(k)
                            /\ Holds(k)' = Holds(k) /\ job'[k].surface = job[k].surface
  BY <1>1 DEF OthersStay, Resolved, GivesBack, Holds, At
<1>7. Resolved(j) /\ ~Resolved(j)' /\ ~GivesBack(j) /\ ~GivesBack(j)'
  BY <1>1 DEF Resolved, GivesBack, At, Hiding
<1>8. /\ pending[Renderer(j)] = "none"
      /\ \A i \in Jobs \ {j} : Renderer(i) = Renderer(j) => ~Resolved(i) /\ ~GivesBack(i)
  BY <1>5, <1>7 DEF Alone
<1>9. Alone'
  BY <1>1, <1>5, <1>6, <1>7, <1>8, RendererKinds DEF Alone
<1>10. BackIsPending'
  BY <1>1, <1>5, <1>6, <1>7, <1>8, RendererKinds DEF BackIsPending
<1>11. Held => Held'
  <2>1. CASE job[j].surface \in Screens
    BY <1>1, <2>1, RendererKinds DEF Held
  <2>2. CASE job[j].surface \notin Screens
    BY <1>1, <1>6, <1>7, <1>8, <2>2, RendererKinds, HiddenSurfaceKinds DEF Held
  <2>. QED
    BY <2>1, <2>2
<1>. QED
  BY <1>3, <1>5, <1>9, <1>10, <1>11

(* A surface is given back: what the job or the orchestrator held is shown.*)
LEMMA GivingBackKeepsBack ==
  ASSUME HeldIInv, BackIInv, NEW j \in Jobs, OthersStay(j), GivesBack(j),
         ~GivesBack(j)', ~Resolved(j)', overlapped' = overlapped,
         NothingCovered', Missing' => Missing, job[j].surface # "none" => ~Missing',
         pending'[Renderer(j)] = "none",
         \A r \in Renderers \ {Renderer(j)} : pending'[r] = pending[r],
         \A r \in Renderers : owing'[r] => owing[r]
  PROVE  BackIInv'
<1>1. SUFFICES ASSUME ~overlapped'
               PROVE  Alone' /\ BackIsPending' /\ (Missing' => Held')
  BY DEF BackIInv
<1>2. Alone /\ BackIsPending /\ (Missing => Held)
  BY <1>1 DEF BackIInv
<1>3. \A k \in Jobs \ {j} : /\ Resolved(k)' = Resolved(k) /\ GivesBack(k)' = GivesBack(k)
                            /\ Holds(k)' = Holds(k) /\ job'[k].surface = job[k].surface
  BY DEF OthersStay, Resolved, GivesBack, Holds, At
<1>4. ~Holds(j)
  BY DEF Holds, Resolved, GivesBack, At, Hiding
<1>5. Alone' /\ BackIsPending'
  <2>1. Alone'
    BY <1>2, <1>3, RendererKinds DEF Alone
  <2>2. BackIsPending'
    BY <1>2, <1>3, RendererKinds DEF BackIsPending
  <2>. QED
    BY <2>1, <2>2
<1>6. Missing' => Held'
  <2>1. SUFFICES ASSUME Missing' PROVE Held'
    OBVIOUS
  <2>2. job[j].surface = "none" /\ Held
    BY <1>2, <2>1
  <2>3. pending[Renderer(j)] = "none"
    BY <1>2, <2>2 DEF BackIsPending
  <2>. QED
    BY <1>3, <1>4, <2>2, <2>3, HiddenSurfaceKinds, RendererKinds DEF Held
<1>. QED
  BY <1>5, <1>6

LEMMA StandingStillKeepsBack ==
  ASSUME BackIInv, Uncovers, UNCHANGED <<job, pending, owing, overlapped>>
  PROVE  BackIInv'
<1>1. NothingCovered' /\ (Missing' => Missing)
  BY UncoveringKeepsCovered DEF BackIInv
<1>. QED
  BY <1>1 DEF BackIInv, Alone, BackIsPending, Held, Holds, Resolved, GivesBack, At

LEMMA BackAtFirst ==
  ASSUME ToolInit
  PROVE  BackIInv
<1>1. taken = {} /\ \A j \in Jobs : job[j].at = "idle"
  BY DEF ToolInit, NoToolYet, Idle
<1>. QED
  BY <1>1 DEF BackIInv, NothingCovered, Missing, Alone, BackIsPending, Resolved, GivesBack, At, Hiding

LEMMA BackIsKept ==
  ASSUME HeldIInv, BackIInv, [ToolNext]_<<surfaceVars, toolVars>>
  PROVE  BackIInv'
<1>1. ASSUME NEW t \in Tools, Plain(t), Uncovers, overlapped' = overlapped
      PROVE  BackIInv'
  <2>1. /\ OthersStay(t) /\ t \in Jobs /\ UNCHANGED <<pending, owing>>
        /\ ~Holds(t) /\ ~Resolved(t)' /\ ~GivesBack(t)'
    BY <1>1, RendererKinds
       DEF Plain, OthersStay, Holds, Resolved, GivesBack, At, Early, Later, Hiding
  <2>. QED
    BY <1>1, <2>1, QuietKeepsBack
<1>2. ASSUME NEW t \in Tools, NEW mode \in {"none", "interactive", "screenshot"},
             NEW ref \in 0..MaxTurn, ToolArrives(t, mode, ref)
      PROVE  BackIInv'
  BY <1>1, <1>2, ToolArrivesIsPlain
<1>3. ASSUME NEW t \in Tools, VisibilityChecked(t) \/ HandoffSurface(t) \/ ToolReturns(t)
      PROVE  BackIInv'
  BY <1>1, <1>3, ToolStartsArePlain
<1>13. ASSUME NEW t \in Tools, HandoffFails(t) \/ \E ref \in 0..MaxTurn : ToolDropped(t, ref)
       PROVE  BackIInv'
  BY <1>1, <1>13, EarlyEndsArePlain
<1>4. ASSUME NEW t \in Tools, ToolReports(t) PROVE BackIInv'
  <2>1. /\ OthersStay(t) /\ At(t, {"reporting"})
        /\ \/ /\ pending["dashboard"] # "none"
              /\ job'[t].at = "releasing" /\ job'[t].surface = pending["dashboard"]
           \/ job'[t].at = "done"
        /\ UNCHANGED <<pending, owing>> /\ SameWindows
    BY <1>4, ToolReportsDoes
  <2>2. t \in Jobs /\ Renderer(t) = "dashboard"
    BY RendererKinds
  <2>3. ~Holds(t) /\ ~Resolved(t)'
    BY <2>1 DEF Holds, Resolved, GivesBack, At, Hiding
  <2>4. GivesBack(t)' => /\ owing[Renderer(t)] \/ pending[Renderer(t)] # "none"
                         /\ \/ pending[Renderer(t)] = "none"
                            \/ job'[t].surface = pending[Renderer(t)]
    BY <2>1, <2>2 DEF GivesBack, At
  <2>. QED
    BY <2>1, <2>2, <2>3, <2>4, QuietKeepsBack, SameWindowsUncover
<1>5. ASSUME NEW j \in Jobs, ScreenshotTaken(j) PROVE BackIInv'
  <2>1. /\ OthersStay(j) /\ At(j, {"shooting"})
        /\ \/ /\ job'[j].at = "restoring" /\ owing[Renderer(j)]
              /\ pending[Renderer(j)] # "none" => job'[j].surface = pending[Renderer(j)]
           \/ job'[j].at \in {"reporting", "done"}
        /\ UNCHANGED <<pending, owing>> /\ SameWindows
    BY <1>5, ScreenshotTakenDoes
  <2>2. ~Holds(j) /\ ~Resolved(j)'
    BY <2>1 DEF Holds, Resolved, GivesBack, At, Hiding
  <2>3. GivesBack(j)' => /\ owing[Renderer(j)] \/ pending[Renderer(j)] # "none"
                         /\ \/ pending[Renderer(j)] = "none"
                            \/ job'[j].surface = pending[Renderer(j)]
    BY <2>1 DEF GivesBack, At
  <2>. QED
    BY <2>1, <2>2, <2>3, QuietKeepsBack, SameWindowsUncover
<1>6. ASSUME NEW j \in Jobs, CaptureBegins(j) PROVE BackIInv'
  <2>1. /\ OthersStay(j) /\ At(j, {"waiting", "idle"}) /\ job'[j].stage = "sent"
        /\ job'[j].at \in {"hiding", "shooting"} /\ pending' = pending /\ SameWindows
    BY <1>6, CaptureBeginsDoes DEF At
  <2>2. \A r \in Renderers : owing'[r] => owing[r] \/ pending[r] # "none"
    <3>1. owing' = [owing EXCEPT ![Renderer(j)] =
                      @ \/ (captures[Renderer(j)] = 0 /\ pending[Renderer(j)] # "none")]
      BY <1>6 DEF CaptureBegins
    <3>. QED
      BY <3>1 DEF HeldIInv, JobTypes
  <2>3. ~Holds(j) /\ ~Resolved(j)' /\ ~GivesBack(j)'
    BY <2>1 DEF Holds, Resolved, GivesBack, At, Hiding
  <2>. QED
    BY <2>1, <2>2, <2>3, QuietKeepsBack, SameWindowsUncover
<1>7. ASSUME NEW j \in Jobs, HidingFails(j) PROVE BackIInv'
  <2>1. /\ OthersStay(j) /\ At(j, Hiding) /\ job[j].stage = "resolved"
        /\ job'[j].at \in {"done", "shooting"} /\ UNCHANGED <<pending, owing>> /\ SameWindows
    BY <1>7, HidingFailsDoes
  <2>2. ~Holds(j) /\ ~Resolved(j)' /\ ~GivesBack(j)'
    BY <2>1 DEF Holds, Resolved, GivesBack, At, Hiding
  <2>. QED
    BY <2>1, <2>2, QuietKeepsBack, SameWindowsUncover
<1>8. ASSUME NEW j \in Jobs, CaptureRestored(j) \/ CaptureRestoreFails(j) PROVE BackIInv'
  <2>1. /\ OthersStay(j) /\ At(j, {"restoring"}) /\ job'[j].at \in {"reporting", "done"}
        /\ overlapped' = overlapped
        /\ \/ Uncovers /\ (job[j].surface # "none" => Visible(surface') # {})
           \/ /\ taken' = taken /\ surface' = surface
              /\ givenUp' = (givenUp \/ (taken # {} /\ job[j].surface # "none"))
        /\ owing' = [owing EXCEPT ![Renderer(j)] = FALSE]
        /\ pending' = [pending EXCEPT ![Renderer(j)] = "none"]
    BY <1>8, CaptureRestoredDoes
  <2>2. GivesBack(j) /\ ~GivesBack(j)' /\ ~Resolved(j)'
    BY <2>1 DEF Resolved, GivesBack, At, Hiding
  <2>3. /\ pending'[Renderer(j)] = "none" /\ \A r \in Renderers : owing'[r] => owing[r]
        /\ \A r \in Renderers \ {Renderer(j)} : pending'[r] = pending[r]
    BY <2>1, RendererKinds DEF HeldIInv, JobTypes
  <2>4. NothingCovered' /\ (Missing' => Missing) /\ (job[j].surface # "none" => ~Missing')
    <3>1. CASE Uncovers /\ (job[j].surface # "none" => Visible(surface') # {})
      BY <3>1, UncoveringKeepsCovered DEF BackIInv
    <3>2. CASE /\ taken' = taken /\ surface' = surface
               /\ givenUp' = (givenUp \/ (taken # {} /\ job[j].surface # "none"))
      BY <3>2 DEF BackIInv, NothingCovered, Missing, Visible
    <3>. QED
      BY <2>1, <3>1, <3>2
  <2>. QED
    BY <2>1, <2>2, <2>3, <2>4, GivingBackKeepsBack
<1>9. ASSUME NEW t \in Tools, ToolReleased(t) \/ ToolReleaseFails(t) PROVE BackIInv'
  <2>1. /\ OthersStay(t) /\ At(t, {"releasing"}) /\ job'[t].at = "done"
        /\ Uncovers /\ overlapped' = overlapped
        /\ \/ /\ job[t].surface # "none" => Visible(surface') # {}
              /\ pending' = [pending EXCEPT !["dashboard"] = "none"]
           \/ pending' = pending
        /\ owing' = owing
    BY <1>9, ToolReleasedDoes
  <2>2. GivesBack(t) /\ ~GivesBack(t)' /\ ~Resolved(t)' /\ ~Holds(t) /\ t \in Jobs
    BY <2>1, RendererKinds DEF Resolved, GivesBack, Holds, At, Hiding
  <2>3. CASE pending' = pending
    BY <2>1, <2>2, <2>3, QuietKeepsBack
  <2>4. CASE /\ job[t].surface # "none" => Visible(surface') # {}
             /\ pending' = [pending EXCEPT !["dashboard"] = "none"]
    <3>1. /\ pending'[Renderer(t)] = "none"
          /\ \A r \in Renderers \ {Renderer(t)} : pending'[r] = pending[r]
      BY <2>4, RendererKinds DEF HeldIInv, JobTypes
    <3>2. NothingCovered' /\ (Missing' => Missing) /\ (job[t].surface # "none" => ~Missing')
      BY <2>1, <2>4, UncoveringKeepsCovered DEF BackIInv
    <3>. QED
      BY <2>1, <2>2, <3>1, <3>2, GivingBackKeepsBack
  <2>. QED
    BY <2>1, <2>3, <2>4
<1>10. TurnMoves => BackIInv'
  BY TurnMovesDoes, SameWindowsUncover, StandingStillKeepsBack
<1>11. UserActs => BackIInv'
  BY UserActsDoes, StandingStillKeepsBack
<1>12. UNCHANGED <<surfaceVars, toolVars>> => BackIInv'
  <2>1. SUFFICES ASSUME UNCHANGED <<surfaceVars, toolVars>> PROVE BackIInv'
    OBVIOUS
  <2>2. UNCHANGED <<job, pending, owing, overlapped>> /\ UNCHANGED <<surface, taken, givenUp>>
    BY <2>1 DEF surfaceVars, toolVars, orchestrator
  <2>3. Uncovers
    BY <2>2 DEF Uncovers, Visible
  <2>. QED
    BY <2>2, <2>3, StandingStillKeepsBack
<1>. QED
  BY <1>2, <1>3, <1>4, <1>5, <1>6, <1>7, <1>8, <1>9, <1>10, <1>11, <1>12, <1>13, StepsSplit,
     ResolvingKeepsBack, HidingKeepsBack, HiddenKeepsBack

LEMMA HeldWindowsComeBack ==
  ASSUME HeldIInv, BackIInv
  PROVE  HiddenWindowsComeBack
<1>1. SUFFICES ASSUME \A r \in Renderers : Resting(r), ~overlapped, ~givenUp, taken # {}
               PROVE  stranded # "none"
  BY DEF HiddenWindowsComeBack
<1>2. \A j \in Jobs : ~At(j, Working)
  BY <1>1, RendererKinds DEF Resting
<1>3. Held
  BY <1>1 DEF BackIInv, Missing
<1>4. PICK r \in Renderers : pending[r] # "none"
  BY <1>2, <1>3, HiddenSurfaceKinds DEF Held, Holds, Resolved, At, Working, Asking
<1>5. pending[r] = IF r = "dashboard" THEN stranded ELSE "none"
  BY <1>1, HeldMeansNothingAtRest DEF NothingHeldAtRest
<1>. QED
  BY <1>4, <1>5

-----------------------------------------------------------------------------
(* When no job of a renderer is under way its orchestrator holds no claim, *)
(* and nothing is pending but what a failed release has left; a window that*)
(* was hidden for a screenshot is then missing only if it is pending so, if*)
(* a capture failed to restore it or if hides have overlapped: whichever   *)
(* preparations, restores and releases fail, and in whatever order the     *)
(* captures and calls end.                                                 *)
THEOREM JobsLeaveNothingBehindHolds == ToolSpec => []JobsLeaveNothingBehind
<1>1. ToolInit => HeldIInv /\ BackIInv
  BY HeldAtFirst, BackAtFirst
<1>2. HeldIInv /\ BackIInv /\ [ToolNext]_<<surfaceVars, toolVars>> => (HeldIInv /\ BackIInv)'
  BY HeldIsKept, BackIsKept
<1>3. HeldIInv /\ BackIInv => JobsLeaveNothingBehind
  BY HeldMeansNothingAtRest, HeldWindowsComeBack DEF JobsLeaveNothingBehind
<1>. QED
  BY <1>1, <1>2, <1>3, PTL DEF ToolSpec

(* No call of the turn that goes on, once the runner has taken it up, ends *)
(* without its one answer.                                                 *)
THEOREM AcceptedCallsAreAnsweredHolds == ToolSpec => []AcceptedCallsAreAnswered
<1>1. ToolInit => HeldIInv /\ AnswersIInv
  BY HeldAtFirst, AnswersAtFirst
<1>2. HeldIInv /\ AnswersIInv /\ [ToolNext]_<<surfaceVars, toolVars>> => (HeldIInv /\ AnswersIInv)'
  BY HeldIsKept, AnswersAreKept
<1>3. AnswersIInv => AcceptedCallsAreAnswered
  BY DEF AnswersIInv, AtTurnOne, AcceptedCallsAreAnswered
<1>. QED
  BY <1>1, <1>2, <1>3, PTL DEF ToolSpec

-----------------------------------------------------------------------------
(* The sidecar transport: type correctness.                                *)

Statuses == {"stopped", "starting", "ready", "stopping", "error"}

TimersOK(ts) ==
  /\ ts \subseteq Timers
  /\ \A t \in ts : t.kind = "retry" => t.attempt < MaxAttempts

LEMMA TimerType ==
  ASSUME NEW kind \in {"timeout", "retry"}, NEW p \in Nat, NEW token \in Nat,
         NEW attempt \in Attempts, kind = "retry" => attempt < MaxAttempts,
         NEW rest, TimersOK(rest)
  PROVE  TimersOK(rest \cup {Timer(kind, p, token, attempt)})
<1>1. Timer(kind, p, token, attempt) \in Timers
    BY DEF Timer, Timers
<1>2. Timer(kind, p, token, attempt).kind = kind
      /\ Timer(kind, p, token, attempt).attempt = attempt
    BY DEF Timer
<1> QED BY <1>1, <1>2 DEF TimersOK

\* Scheduling or giving up a probe leaves well-typed timers and status.
LEMMA ProbeFailsType ==
  ASSUME SidecarTypeOK, NEW p \in Nat, NEW token \in Nat, NEW attempt \in Attempts,
         NEW rest, TimersOK(rest), ProbeFails(p, token, attempt, rest)
  PROVE  TimersOK(timers') /\ ready' \in BOOLEAN /\ status' \in Statuses
<1>1. CASE attempt < MaxAttempts
  <2>1. timers' = rest \cup {Timer("retry", p, token, attempt)}
        /\ UNCHANGED <<ready, status>>
      BY <1>1 DEF ProbeFails
  <2>2. TimersOK(timers')
      BY <1>1, <2>1, TimerType
  <2> QED BY <2>1, <2>2 DEF SidecarTypeOK, Statuses
<1>2. CASE ~(attempt < MaxAttempts)
    BY <1>2 DEF ProbeFails, SidecarTypeOK, Statuses, MarkBackendReady
<1> QED BY <1>1, <1>2

\* So does a new probe, whether or not its ping could be written.
LEMMA CheckReadinessType ==
  ASSUME SidecarTypeOK, NEW p \in Nat, NEW token \in Nat, NEW attempt \in Attempts,
         NEW promised, promised \subseteq RequestIds \cup Attempts,
         NEW rest, TimersOK(rest),
         CheckReadiness(p, token, attempt, promised, rest)
  PROVE  /\ readinessCheckToken' \in Nat
         /\ readinessCheckCallback' \in Probes \cup {NoCallback}
         /\ TimersOK(timers')
         /\ owed' \subseteq RequestIds \cup Attempts
<1>1. TimersOK(rest \cup {Timer("timeout", p, token + 1, attempt)})
    BY TimerType
<1>2. attempt < MaxAttempts =>
        TimersOK(rest \cup {Timer("retry", p, token + 1, attempt)})
    BY TimerType
<1>3. [token |-> token + 1, attempt |-> attempt] \in Probes
    BY DEF Probes
<1>4. TimersOK(timers')
    BY <1>1, <1>2 DEF CheckReadiness
<1> QED BY <1>3, <1>4 DEF CheckReadiness, SidecarTypeOK

\* Handling a line leaves well-typed outcomes, probe and status.
LEMMA HandlerType ==
  ASSUME SidecarTypeOK, NEW line \in Lines,
         HandlePythonResponse(line) \/ UNCHANGED handlerVars
  PROVE  /\ outcome' \in [RequestIds -> {"new", "pending", "resolved", "rejected"}]
         /\ readinessCheckCallback' \in Probes \cup {NoCallback}
         /\ TimersOK(timers')
         /\ ready' \in BOOLEAN
         /\ status' \in Statuses
<1>0. TimersOK(timers) /\ ready \in BOOLEAN /\ status \in Statuses
    BY DEF SidecarTypeOK, TimersOK, Statuses
<1>1. CASE line.id \in Attempts /\ AnswerProbe(line)
  <2>1. CASE ProbeFails(pythonProcess, readinessCheckToken, line.id, timers)
             /\ readinessCheckCallback' = NoCallback /\ UNCHANGED outcome
    <3>1. pythonProcess \in Nat /\ readinessCheckToken \in Nat
        BY DEF SidecarTypeOK
    <3>2. TimersOK(timers') /\ ready' \in BOOLEAN /\ status' \in Statuses
        BY <1>0, <1>1, <2>1, <3>1, ProbeFailsType
    <3> QED BY <2>1, <3>2 DEF SidecarTypeOK
  <2>2. CASE readinessCheckCallback' = NoCallback
             /\ MarkBackendReady /\ UNCHANGED <<timers, outcome>>
      BY <1>0, <2>2 DEF MarkBackendReady, SidecarTypeOK, Statuses
  <2>3. CASE UNCHANGED <<readinessCheckCallback, timers, ready, status, outcome>>
      BY <1>0, <2>3 DEF SidecarTypeOK
  <2> QED BY <1>1, <2>1, <2>2, <2>3 DEF AnswerProbe
<1>2. CASE line.id \notin Attempts /\ AnswerRequest(line)
  <2>1. line.id \in RequestIds
      BY <1>2 DEF Lines
  <2> QED BY <1>0, <1>2, <2>1 DEF AnswerRequest, SidecarTypeOK
<1>3. CASE UNCHANGED handlerVars
    BY <1>0, <1>3 DEF handlerVars, SidecarTypeOK
<1> QED BY <1>1, <1>2, <1>3 DEF HandlePythonResponse

LEMMA QueueType ==
  /\ <<>> \in Seq(Lines)
  /\ \A q \in Seq(Lines), line \in Lines : Append(q, line) \in Seq(Lines)
  /\ \A q \in Seq(Lines) : q # <<>> => Head(q) \in Lines /\ Tail(q) \in Seq(Lines)
  OBVIOUS

LEMMA TypeInitial == SidecarInit => SidecarTypeOK
<1> SUFFICES ASSUME SidecarInit PROVE SidecarTypeOK
    OBVIOUS
<1>1. pendingStdoutLines \in Seq(Lines)
    BY QueueType DEF SidecarInit
<1>2. /\ outcome \in [RequestIds -> {"new", "pending", "resolved", "rejected"}]
      /\ sentTo \in [RequestIds -> Nat]
    BY DEF SidecarInit
<1>3. /\ timers \subseteq Timers /\ workers \subseteq Workers
      /\ \A t \in timers : t.kind = "retry" => t.attempt < MaxAttempts
    BY DEF SidecarInit
<1> QED BY <1>1, <1>2, <1>3 DEF SidecarInit, SidecarTypeOK

LEMMA TypeStep == SidecarTypeOK /\ [SidecarNext]_sidecarVars => SidecarTypeOK'
<1> SUFFICES ASSUME SidecarTypeOK, [SidecarNext]_sidecarVars PROVE SidecarTypeOK'
    OBVIOUS
<1> USE DEF processVars, probeVars, requestVars, stdoutVars
<1>0. TimersOK(timers) /\ \A t \in timers : TimersOK(timers \ {t})
    BY DEF SidecarTypeOK, TimersOK
<1>1. CASE StartLocalBackend
  <2>1. 1 \in Attempts BY SidecarAssumption DEF Attempts
  <2>2. generation + 1 \in Nat
      BY DEF SidecarTypeOK
  <2>3. CheckReadiness(generation + 1, generation + 1, 1, {}, timers)
      BY <1>1 DEF StartLocalBackend
  <2>4. /\ readinessCheckToken' \in Nat
        /\ readinessCheckCallback' \in Probes \cup {NoCallback}
        /\ TimersOK(timers')
        /\ owed' \subseteq RequestIds \cup Attempts
      BY <1>0, <2>1, <2>2, <2>3, CheckReadinessType
  <2> QED BY <1>1, <2>2, <2>4 DEF StartLocalBackend, SidecarTypeOK, TimersOK
<1>2. CASE ProcessExits
  <2>1. /\ pendingStdoutLines' \in Seq(Lines)
        /\ generation' \in Nat /\ readinessCheckToken' \in Nat
      BY <1>2, QueueType DEF ProcessExits, ResetBackendProcessState, SidecarTypeOK
  <2>2. outcome' \in [RequestIds -> {"new", "pending", "resolved", "rejected"}]
      BY <1>2 DEF ProcessExits, ResetBackendProcessState, SidecarTypeOK
  <2> QED BY <1>2, <2>1, <2>2 DEF ProcessExits, ResetBackendProcessState, SidecarTypeOK
<1>3. CASE StopLocalBackend
    BY <1>3 DEF StopLocalBackend, SidecarTypeOK
<1>4. ASSUME NEW p \in killTimers, KillTimerFires(p) PROVE SidecarTypeOK'
    BY <1>4 DEF KillTimerFires, SidecarTypeOK
<1>5. ASSUME NEW t \in timers, ProbeTimesOut(t) PROVE SidecarTypeOK'
  <2>1. t.process \in Nat /\ t.token \in Nat /\ t.attempt \in Attempts
      BY DEF SidecarTypeOK, Timers
  <2>2. TimersOK(timers') /\ ready' \in BOOLEAN /\ status' \in Statuses
    <3>1. CASE ProbeFails(t.process, t.token, t.attempt, timers \ {t})
        BY <1>0, <2>1, <3>1, ProbeFailsType
    <3>2. CASE timers' = timers \ {t} /\ UNCHANGED <<ready, status>>
        BY <1>0, <3>2 DEF SidecarTypeOK, Statuses
    <3> QED BY <1>5, <3>1, <3>2 DEF ProbeTimesOut
  <2>3. readinessCheckCallback' \in Probes \cup {NoCallback}
      BY <1>5 DEF ProbeTimesOut, SidecarTypeOK
  <2> QED BY <1>5, <2>2, <2>3 DEF ProbeTimesOut, SidecarTypeOK, TimersOK, Statuses
<1>6. ASSUME NEW t \in timers, RetryFires(t) PROVE SidecarTypeOK'
  <2>1. t.attempt \in Attempts /\ t.attempt < MaxAttempts
      BY <1>6 DEF SidecarTypeOK, Timers, RetryFires
  <2>2. t.attempt + 1 \in Attempts
      BY <2>1, SidecarAssumption DEF Attempts
  <2>3. /\ readinessCheckToken' \in Nat
        /\ readinessCheckCallback' \in Probes \cup {NoCallback}
        /\ TimersOK(timers')
        /\ owed' \subseteq RequestIds \cup Attempts
    <3>1. CASE CheckReadiness(pythonProcess, readinessCheckToken, t.attempt + 1, owed,
                              timers \ {t})
      <4>1. pythonProcess \in Nat /\ readinessCheckToken \in Nat
            /\ owed \subseteq RequestIds \cup Attempts
          BY DEF SidecarTypeOK
      <4> QED BY <1>0, <2>2, <3>1, <4>1, CheckReadinessType
    <3>2. CASE timers' = timers \ {t}
               /\ UNCHANGED <<readinessCheckToken, readinessCheckCallback, owed>>
        BY <1>0, <3>2 DEF SidecarTypeOK
    <3> QED BY <1>6, <3>1, <3>2 DEF RetryFires
  <2> QED BY <1>6, <2>3 DEF RetryFires, SidecarTypeOK, TimersOK
<1>7. ASSUME NEW r \in RequestIds, SendRequest(r) PROVE SidecarTypeOK'
    BY <1>7 DEF SendRequest, SidecarTypeOK
<1>8. ASSUME NEW r \in RequestIds, RequestTimesOut(r) PROVE SidecarTypeOK'
    BY <1>8 DEF RequestTimesOut, SidecarTypeOK
<1>9. ASSUME NEW line \in Lines, StdoutLine(line) PROVE SidecarTypeOK'
  <2>1. HandlePythonResponse(line) \/ UNCHANGED handlerVars
      BY <1>9 DEF StdoutLine
  <2>2. /\ outcome' \in [RequestIds -> {"new", "pending", "resolved", "rejected"}]
        /\ readinessCheckCallback' \in Probes \cup {NoCallback}
        /\ TimersOK(timers')
        /\ ready' \in BOOLEAN
        /\ status' \in Statuses
      BY <2>1, HandlerType
  <2>3. /\ pendingStdoutLines' \in Seq(Lines)
        /\ isDrainingStdoutLines' \in BOOLEAN
        /\ loop' \in Nat
      BY <1>9, QueueType DEF StdoutLine, SidecarTypeOK
  <2> QED BY <1>9, <2>2, <2>3 DEF StdoutLine, SidecarTypeOK, TimersOK, Statuses
<1>10. CASE DrainStep
  <2>1. \A line \in Lines : HandlePythonResponse(line) \/ UNCHANGED handlerVars =>
          /\ outcome' \in [RequestIds -> {"new", "pending", "resolved", "rejected"}]
          /\ readinessCheckCallback' \in Probes \cup {NoCallback}
          /\ TimersOK(timers')
          /\ ready' \in BOOLEAN
          /\ status' \in Statuses
      BY HandlerType
  <2>2. CASE pendingStdoutLines = <<>> \/ loop # pythonProcess
    <3>1. UNCHANGED <<outcome, readinessCheckCallback, timers, ready, status>>
        BY <1>10, <2>2 DEF DrainStep, handlerVars
    <3>2. pendingStdoutLines' = <<>> /\ isDrainingStdoutLines' = FALSE
          /\ loop' = 0 /\ workers' = workers
        BY <1>10, <2>2 DEF DrainStep
    <3>3. pendingStdoutLines' \in Seq(Lines)
        BY <3>2, QueueType
    <3> QED BY <1>10, <3>1, <3>2, <3>3 DEF DrainStep, SidecarTypeOK
  <2>3. CASE pendingStdoutLines # <<>> /\ loop = pythonProcess
    <3>1. Head(pendingStdoutLines) \in Lines /\ Tail(pendingStdoutLines) \in Seq(Lines)
        BY <2>3, QueueType DEF SidecarTypeOK
    <3>2. \/ HandlePythonResponse(Head(pendingStdoutLines))
          \/ UNCHANGED handlerVars
        BY <1>10, <2>3 DEF DrainStep
    <3>3. /\ outcome' \in [RequestIds -> {"new", "pending", "resolved", "rejected"}]
          /\ readinessCheckCallback' \in Probes \cup {NoCallback}
          /\ TimersOK(timers')
          /\ ready' \in BOOLEAN
          /\ status' \in Statuses
        BY <2>1, <3>1, <3>2
    <3>4. workers' \subseteq Workers
        BY <1>10, <2>3, <3>1 DEF DrainStep, SidecarTypeOK, Workers
    <3>5. pendingStdoutLines' \in Seq(Lines) /\ loop' \in Nat
      <4>1. pendingStdoutLines' = Tail(pendingStdoutLines)
          BY <1>10, <2>3 DEF DrainStep
      <4>2. loop' \in {0, loop}
          BY <1>10, <2>3 DEF DrainStep
      <4> QED BY <3>1, <4>1, <4>2 DEF SidecarTypeOK
    <3> QED BY <1>10, <2>3, <3>3, <3>4, <3>5
            DEF DrainStep, SidecarTypeOK, TimersOK, Statuses
  <2> QED BY <2>2, <2>3
<1>11. ASSUME NEW w \in workers, WorkerReturns(w) PROVE SidecarTypeOK'
  <2>1. w.line \in Lines /\ w.process \in Nat
      BY DEF SidecarTypeOK, Workers
  <2>2. /\ outcome' \in [RequestIds -> {"new", "pending", "resolved", "rejected"}]
        /\ readinessCheckCallback' \in Probes \cup {NoCallback}
        /\ TimersOK(timers')
        /\ ready' \in BOOLEAN
        /\ status' \in Statuses
      BY <1>11, <2>1, HandlerType DEF WorkerReturns
  <2> QED BY <1>11, <2>1, <2>2 DEF WorkerReturns, SidecarTypeOK, TimersOK, Statuses
<1>12. CASE UNCHANGED sidecarVars
    BY <1>12 DEF sidecarVars, SidecarTypeOK
<1> QED
  BY <1>1, <1>2, <1>3, <1>4, <1>5, <1>6, <1>7, <1>8, <1>9, <1>10, <1>11, <1>12 DEF SidecarNext

\* The state of the bridge is well typed.
THEOREM SidecarTypeCorrect == SidecarSpec => []SidecarTypeOK
BY TypeInitial, TypeStep, PTL DEF SidecarSpec

-----------------------------------------------------------------------------
(* The bridge implements RequestReply.  What makes a late answer harmless is *)
(* that nothing outstanding belongs to a process that is gone, since a       *)
(* worker's line is handled without asking whose it is.                      *)

Outstanding ==
  \A r \in RequestIds : outcome[r] = "pending" => pythonProcess # 0 /\ sentTo[r] = pythonProcess

ReplyInv == SidecarTypeOK /\ Outstanding

\* A handled line settles one request of the attached process, or none.
LEMMA HandlerReply ==
  ASSUME ReplyInv, NEW line \in Lines,
         HandlePythonResponse(line) \/ UNCHANGED handlerVars,
         UNCHANGED <<pythonProcess, generation, sentTo>>
  PROVE  /\ Outstanding'
         /\ Reply!ReplyNext \/ UNCHANGED Reply!replyVars
<1>1. CASE UNCHANGED outcome
    BY <1>1 DEF ReplyInv, Outstanding, Reply!replyVars
<1>2. CASE line.id \notin Attempts /\ AnswerRequest(line)
  <2>1. line.id \in RequestIds
      BY <1>2 DEF Lines
  <2>2. CASE outcome[line.id] = "pending"
    <3>1. Reply!Settle(line.id)
        BY <1>2, <2>1, <2>2 DEF AnswerRequest, ReplyInv, Outstanding, Reply!Settle
    <3>2. Outstanding'
        BY <1>2, <2>1, <2>2 DEF AnswerRequest, ReplyInv, Outstanding, SidecarTypeOK
    <3> QED BY <2>1, <3>1, <3>2 DEF Reply!ReplyNext
  <2> QED BY <1>1, <1>2, <2>2 DEF AnswerRequest
<1>3. CASE AnswerProbe(line)
    BY <1>1, <1>3 DEF AnswerProbe
<1> QED BY <1>1, <1>2, <1>3 DEF HandlePythonResponse, handlerVars

LEMMA ReplyStep ==
  ReplyInv /\ [SidecarNext]_sidecarVars => Outstanding' /\ [Reply!ReplyNext]_(Reply!replyVars)
<1> SUFFICES ASSUME ReplyInv, [SidecarNext]_sidecarVars
             PROVE  Outstanding' /\ (Reply!ReplyNext \/ UNCHANGED Reply!replyVars)
    OBVIOUS
<1> USE DEF processVars, probeVars, requestVars, stdoutVars
<1>0. ASSUME UNCHANGED <<pythonProcess, generation, outcome, sentTo>>
      PROVE  Outstanding' /\ UNCHANGED Reply!replyVars
    BY <1>0 DEF ReplyInv, Outstanding, Reply!replyVars
<1>1. CASE StartLocalBackend
  <2>1. Reply!PeerComes
      BY <1>1 DEF StartLocalBackend, ReplyInv, SidecarTypeOK, Reply!PeerComes
  <2>2. Outstanding'
      BY <1>1 DEF StartLocalBackend, ReplyInv, Outstanding
  <2> QED BY <2>1, <2>2 DEF Reply!ReplyNext
<1>2. CASE ProcessExits
  <2>1. Reply!PeerGoes
      BY <1>2 DEF ProcessExits, ResetBackendProcessState, ReplyInv, SidecarTypeOK,
                  Reply!PeerGoes
  <2>2. Outstanding'
      BY <1>2 DEF ProcessExits, ResetBackendProcessState, ReplyInv, Outstanding
  <2> QED BY <2>1, <2>2 DEF Reply!ReplyNext
<1>3. ASSUME NEW r \in RequestIds, SendRequest(r)
      PROVE  Outstanding' /\ Reply!ReplyNext
  <2>1. Reply!Send(r)
      BY <1>3 DEF SendRequest, Reply!Send
  <2>2. Outstanding'
      BY <1>3 DEF SendRequest, ReplyInv, Outstanding, SidecarTypeOK
  <2> QED BY <2>1, <2>2 DEF Reply!ReplyNext
<1>4. ASSUME NEW r \in RequestIds, RequestTimesOut(r)
      PROVE  Outstanding' /\ Reply!ReplyNext
  <2>1. Reply!Settle(r)
      BY <1>4 DEF RequestTimesOut, ReplyInv, Outstanding, Reply!Settle
  <2>2. Outstanding'
      BY <1>4 DEF RequestTimesOut, ReplyInv, Outstanding, SidecarTypeOK
  <2> QED BY <2>1, <2>2 DEF Reply!ReplyNext
<1>5. ASSUME NEW line \in Lines, StdoutLine(line)
      PROVE  Outstanding' /\ (Reply!ReplyNext \/ UNCHANGED Reply!replyVars)
    BY <1>5, HandlerReply DEF StdoutLine
<1>6. CASE DrainStep
  <2>1. CASE UNCHANGED handlerVars
      BY <1>0, <1>6, <2>1 DEF DrainStep, handlerVars
  <2>2. CASE pendingStdoutLines # <<>> /\ HandlePythonResponse(Head(pendingStdoutLines))
    <3>1. Head(pendingStdoutLines) \in Lines
        BY <2>2, QueueType DEF ReplyInv, SidecarTypeOK
    <3> QED BY <1>6, <2>2, <3>1, HandlerReply DEF DrainStep
  <2> QED BY <1>6, <2>1, <2>2 DEF DrainStep
<1>7. ASSUME NEW w \in workers, WorkerReturns(w)
      PROVE  Outstanding' /\ (Reply!ReplyNext \/ UNCHANGED Reply!replyVars)
  <2>1. w.line \in Lines
      BY DEF ReplyInv, SidecarTypeOK, Workers
  <2> QED BY <1>7, <2>1, HandlerReply DEF WorkerReturns
<1>8. CASE StopLocalBackend \/ UNCHANGED sidecarVars
    BY <1>0, <1>8 DEF StopLocalBackend, sidecarVars
<1>9. ASSUME NEW p \in killTimers, KillTimerFires(p)
      PROVE  UNCHANGED <<pythonProcess, generation, outcome, sentTo>>
    BY <1>9 DEF KillTimerFires
<1>10. ASSUME NEW t \in timers, ProbeTimesOut(t) \/ RetryFires(t)
       PROVE  UNCHANGED <<pythonProcess, generation, outcome, sentTo>>
    BY <1>10 DEF ProbeTimesOut, RetryFires
<1> QED
  BY <1>0, <1>1, <1>2, <1>3, <1>4, <1>5, <1>6, <1>7, <1>8, <1>9, <1>10 DEF SidecarNext

LEMMA ReplyInvHolds == SidecarSpec => []ReplyInv
<1>1. SidecarInit => ReplyInv
    BY TypeInitial DEF SidecarInit, ReplyInv, Outstanding
<1>2. ReplyInv /\ [SidecarNext]_sidecarVars => ReplyInv'
    BY TypeStep, ReplyStep DEF ReplyInv
<1> QED BY <1>1, <1>2, PTL DEF SidecarSpec

\* Every behaviour of the bridge is one of RequestReply: each request is settled
\* once, and resolved by the process it was sent to or not at all.
THEOREM SidecarImplementsRequestReply == SidecarSpec => ImplementsRequestReply
<1>1. SidecarInit => Reply!ReplyInit
    BY DEF SidecarInit, Reply!ReplyInit
<1> QED BY <1>1, ReplyInvHolds, ReplyStep, PTL
        DEF SidecarSpec, ImplementsRequestReply, Reply!ReplySpec

-----------------------------------------------------------------------------
(* No line stays in the queue: while a line is queued or a drain is under    *)
(* way, either its loop is on the stack or a worker will bring it back.      *)

DrainInv ==
  /\ isDrainingStdoutLines \/ pendingStdoutLines # <<>> =>
       loop # 0 \/ \E w \in workers : w.process = pythonProcess
  /\ \A w \in workers : w.process # 0

LEMMA DrainInvStep == SidecarTypeOK /\ DrainInv /\ [SidecarNext]_sidecarVars => DrainInv'
<1> SUFFICES ASSUME SidecarTypeOK, DrainInv, [SidecarNext]_sidecarVars PROVE DrainInv'
    OBVIOUS
<1> USE DEF processVars, probeVars, requestVars, stdoutVars
<1>0. ASSUME UNCHANGED stdoutVars, UNCHANGED pythonProcess PROVE DrainInv'
    BY <1>0 DEF DrainInv
<1>1. CASE StartLocalBackend
    BY <1>1 DEF StartLocalBackend, DrainInv
<1>2. CASE ProcessExits
    BY <1>2 DEF ProcessExits, ResetBackendProcessState, DrainInv
<1>3. ASSUME NEW line \in Lines, StdoutLine(line) PROVE DrainInv'
  <2>1. CASE UNCHANGED stdoutVars
      BY <1>0, <1>3, <2>1 DEF StdoutLine
  <2>2. CASE /\ pendingStdoutLines' = Append(pendingStdoutLines, line)
             /\ loop' = IF isDrainingStdoutLines THEN 0 ELSE pythonProcess
      BY <1>3, <2>2 DEF StdoutLine, DrainInv
  <2> QED BY <1>3, <2>1, <2>2 DEF StdoutLine
<1>4. CASE DrainStep
  <2>1. CASE pendingStdoutLines' = <<>> /\ isDrainingStdoutLines' = FALSE
             /\ UNCHANGED workers
      BY <2>1 DEF DrainInv
  <2>2. CASE loop = pythonProcess /\ loop' = loop /\ UNCHANGED workers
      BY <1>4, <2>2 DEF DrainStep, DrainInv
  <2>3. CASE /\ loop = pythonProcess
             /\ workers' = workers \cup
                  {[process |-> loop, line |-> Head(pendingStdoutLines)]}
    <3>1. [process |-> loop, line |-> Head(pendingStdoutLines)].process = pythonProcess'
        BY <1>4, <2>3 DEF DrainStep
    <3> QED BY <1>4, <2>3, <3>1 DEF DrainStep, DrainInv
  <2> QED BY <1>4, <2>1, <2>2, <2>3 DEF DrainStep
<1>5. ASSUME NEW w \in workers, WorkerReturns(w) PROVE DrainInv'
    BY <1>5 DEF WorkerReturns, DrainInv
<1>6. CASE StopLocalBackend \/ UNCHANGED sidecarVars
    BY <1>0, <1>6 DEF StopLocalBackend, sidecarVars
<1>7. ASSUME NEW p \in killTimers, KillTimerFires(p) PROVE DrainInv'
    BY <1>0, <1>7 DEF KillTimerFires
<1>8. ASSUME NEW t \in timers, ProbeTimesOut(t) \/ RetryFires(t) PROVE DrainInv'
    BY <1>0, <1>8 DEF ProbeTimesOut, RetryFires
<1>9. ASSUME NEW r \in RequestIds, SendRequest(r) \/ RequestTimesOut(r) PROVE DrainInv'
    BY <1>0, <1>9 DEF SendRequest, RequestTimesOut
<1> QED BY <1>1, <1>2, <1>3, <1>4, <1>5, <1>6, <1>7, <1>8, <1>9 DEF SidecarNext

\* A queued line always has a drain that will get to it.
THEOREM QueuedLinesHaveADrainHolds == SidecarSpec => []QueuedLinesHaveADrain
<1>1. SidecarInit => DrainInv
    BY DEF SidecarInit, DrainInv
<1>2. DrainInv => QueuedLinesHaveADrain
    BY DEF DrainInv, QueuedLinesHaveADrain
<1> QED BY <1>1, <1>2, DrainInvStep, SidecarTypeCorrect, PTL DEF SidecarSpec

-----------------------------------------------------------------------------
(* Readiness is pursued, provided that pings can be written.  The awaited    *)
(* probe is covered by its own timer, since a token is never taken from a    *)
(* probe without dropping its callback.                                      *)

ProbeInv ==
  /\ readinessCheckCallback # NoCallback =>
       \E t \in timers : t.kind = "timeout" /\ t.token = readinessCheckToken
  /\ pythonProcess # 0 /\ ~ready =>
       \/ readinessCheckCallback # NoCallback
       \/ \E t \in timers : t.kind = "retry" /\ t.token = readinessCheckToken

\* Giving up a probe with the current token schedules another or ends in ready.
LEMMA ProbeFailsPursued ==
  ASSUME SidecarTypeOK, NEW p, NEW attempt, NEW rest,
         ProbeFails(p, readinessCheckToken, attempt, rest),
         readinessCheckCallback' = NoCallback,
         UNCHANGED <<pythonProcess, readinessCheckToken>>
  PROVE  ProbeInv'
<1>1. CASE attempt < MaxAttempts
  <2> DEFINE t == Timer("retry", p, readinessCheckToken, attempt)
  <2>1. t.kind = "retry" /\ t.token = readinessCheckToken' /\ t \in timers'
      BY <1>1 DEF ProbeFails, Timer
  <2> QED BY <2>1 DEF ProbeInv
<1>2. CASE ~(attempt < MaxAttempts)
    BY <1>2 DEF ProbeFails, MarkBackendReady, ProbeInv
<1> QED BY <1>1, <1>2

LEMMA CheckReadinessPursued ==
  ASSUME ~WritesFail, NEW p, NEW token \in Nat, NEW attempt \in Attempts, NEW promised, NEW rest,
         CheckReadiness(p, token, attempt, promised, rest)
  PROVE  ProbeInv'
<1> DEFINE t == Timer("timeout", p, token + 1, attempt)
<1>1. t.kind = "timeout" /\ t.token = readinessCheckToken' /\ t \in timers'
    BY DEF CheckReadiness, Timer
<1>2. readinessCheckCallback' # NoCallback
    BY SidecarAssumption DEF CheckReadiness, Probes
<1> QED BY <1>1, <1>2 DEF ProbeInv

LEMMA ProbeHandlerPursued ==
  ASSUME SidecarTypeOK, ProbeInv, NEW line \in Lines,
         HandlePythonResponse(line) \/ UNCHANGED handlerVars,
         UNCHANGED <<pythonProcess, readinessCheckToken>>
  PROVE  ProbeInv'
<1>1. CASE UNCHANGED <<readinessCheckCallback, timers, ready>>
    BY <1>1 DEF ProbeInv
<1>2. CASE readinessCheckCallback' = NoCallback /\ MarkBackendReady
    BY <1>2 DEF MarkBackendReady, ProbeInv
<1>3. CASE /\ readinessCheckCallback' = NoCallback
           /\ ProbeFails(pythonProcess, readinessCheckToken, line.id, timers)
    BY <1>3, ProbeFailsPursued
<1> QED BY <1>1, <1>2, <1>3
        DEF HandlePythonResponse, AnswerProbe, AnswerRequest, handlerVars

LEMMA ProbeInvStep ==
  ASSUME ~WritesFail, SidecarTypeOK, ProbeInv, [SidecarNext]_sidecarVars PROVE ProbeInv'
<1> USE DEF processVars, probeVars, requestVars, stdoutVars
<1>0. ASSUME UNCHANGED <<pythonProcess, ready, probeVars>> PROVE ProbeInv'
    BY <1>0 DEF ProbeInv
<1>1. CASE StartLocalBackend
  <2>1. 1 \in Attempts /\ generation + 1 \in Nat
      BY SidecarAssumption DEF Attempts, SidecarTypeOK
  <2>2. CheckReadiness(generation + 1, generation + 1, 1, {}, timers)
      BY <1>1 DEF StartLocalBackend
  <2> QED BY <2>1, <2>2, CheckReadinessPursued
<1>2. CASE ProcessExits
    BY <1>2 DEF ProcessExits, ResetBackendProcessState, ProbeInv
<1>3. ASSUME NEW t \in timers, ProbeTimesOut(t) PROVE ProbeInv'
  <2>1. CASE /\ t.token = readinessCheckToken
             /\ readinessCheckCallback' = NoCallback
             /\ ProbeFails(t.process, t.token, t.attempt, timers \ {t})
      BY <1>3, <2>1, ProbeFailsPursued DEF ProbeTimesOut
  <2>2. CASE /\ t.token # readinessCheckToken \/ readinessCheckCallback = NoCallback
             /\ timers' = timers \ {t}
             /\ UNCHANGED <<readinessCheckCallback, ready>>
      BY <1>3, <2>2 DEF ProbeTimesOut, ProbeInv
  <2> QED BY <1>3, <2>1, <2>2 DEF ProbeTimesOut
<1>4. ASSUME NEW t \in timers, RetryFires(t) PROVE ProbeInv'
  <2>1. CASE CheckReadiness(pythonProcess, readinessCheckToken, t.attempt + 1, owed,
                            timers \ {t})
    <3>1. t.attempt \in Attempts /\ t.attempt < MaxAttempts /\ readinessCheckToken \in Nat
        BY <1>4 DEF SidecarTypeOK, Timers, RetryFires
    <3>2. t.attempt + 1 \in Attempts
        BY <3>1, SidecarAssumption DEF Attempts
    <3> QED BY <2>1, <3>1, <3>2, CheckReadinessPursued
  <2>2. CASE /\ t.token # readinessCheckToken \/ pythonProcess = 0
             /\ timers' = timers \ {t}
             /\ UNCHANGED <<readinessCheckToken, readinessCheckCallback>>
      BY <1>4, <2>2 DEF RetryFires, ProbeInv
  <2> QED BY <1>4, <2>1, <2>2 DEF RetryFires
<1>5. ASSUME NEW line \in Lines, StdoutLine(line) PROVE ProbeInv'
    BY <1>5, ProbeHandlerPursued DEF StdoutLine
<1>6. CASE DrainStep
  <2>1. CASE UNCHANGED handlerVars
      BY <1>0, <1>6, <2>1 DEF DrainStep, handlerVars
  <2>2. CASE pendingStdoutLines # <<>> /\ HandlePythonResponse(Head(pendingStdoutLines))
    <3>1. Head(pendingStdoutLines) \in Lines
        BY <2>2, QueueType DEF SidecarTypeOK
    <3> QED BY <1>6, <2>2, <3>1, ProbeHandlerPursued DEF DrainStep
  <2> QED BY <1>6, <2>1, <2>2 DEF DrainStep
<1>7. ASSUME NEW w \in workers, WorkerReturns(w) PROVE ProbeInv'
  <2>1. w.line \in Lines
      BY DEF SidecarTypeOK, Workers
  <2> QED BY <1>7, <2>1, ProbeHandlerPursued DEF WorkerReturns
<1>8. CASE StopLocalBackend \/ UNCHANGED sidecarVars
    BY <1>0, <1>8 DEF StopLocalBackend, sidecarVars
<1>9. ASSUME NEW p \in killTimers, KillTimerFires(p) PROVE ProbeInv'
    BY <1>0, <1>9 DEF KillTimerFires
<1>10. ASSUME NEW r \in RequestIds, SendRequest(r) \/ RequestTimesOut(r) PROVE ProbeInv'
    BY <1>0, <1>10 DEF SendRequest, RequestTimesOut
<1> QED BY <1>1, <1>2, <1>3, <1>4, <1>5, <1>6, <1>7, <1>8, <1>9, <1>10 DEF SidecarNext

\* A sidecar that is not ready is always under a live probe: startup cannot
\* stall, for any number of attempts, restarts and stale timers.
THEOREM ReadinessIsPursuedHolds ==
  ASSUME ~WritesFail PROVE SidecarSpec => []ReadinessIsPursued
<1>1. SidecarInit => ProbeInv
    BY DEF SidecarInit, ProbeInv
<1>2. SidecarTypeOK /\ ProbeInv /\ [SidecarNext]_sidecarVars => ProbeInv'
    BY ProbeInvStep
<1>3. ProbeInv => ReadinessIsPursued
    BY DEF ProbeInv, ReadinessIsPursued
<1> QED BY <1>1, <1>2, <1>3, SidecarTypeCorrect, PTL DEF SidecarSpec
=============================================================================

---------------------------- MODULE OverlayPlaces ----------------------------
(***************************************************************************)
(* Where the dashboard process puts the chat pill and the response window above *)
(* it: on the monitor the user last worked on (the active display          *)
(* affinity), at the bottom of its work area or where the user dragged the *)
(* pill, the response following the pill and the height of what the pill   *)
(* shows (the visual anchor).                                              *)
(*                                                                         *)
(* Monitors stand side by side, monitor m from m * ScreenWidth on, and     *)
(* their work areas, all as wide as the screen, change height when a dock  *)
(* or a task bar does.  Of the dashboard only its monitor matters.         *)
(* Abstracted: stacking, opacity, full screen, the context label (never    *)
(* created) and monitors that come and go; every handler runs to its end.  *)
(***************************************************************************)
EXTENDS Integers, FiniteSetsExt

CONSTANTS
  Monitors,      \* 0 .. N - 1; monitor 0 is the primary display
  ScreenWidth,   \* of every monitor
  AreaHeights,   \* the heights a work area can have
  PillWidth, PillHeight, Margin,
  Gap, HoverOffset, CompactHeight,
  Anchors,       \* the heights the pill's renderer reports
  FrameWidths, FrameHeights,  \* the sizes the response's renderer asks for
  DragXs, DragYs,
  NoAffinity, NoManual

Drags == [x : Int, bottom : Int, monitor : Monitors]

Affinities == [monitor : Monitors, height : AreaHeights]

ASSUME PlacesAssumption ==
  /\ Monitors \subseteq Nat /\ 0 \in Monitors
  /\ ScreenWidth \in Nat /\ PillWidth \in Nat \ {0} /\ PillWidth <= ScreenWidth
  /\ {PillHeight, Margin, Gap, HoverOffset, CompactHeight} \subseteq Nat
  /\ AreaHeights \union Anchors \union FrameWidths \union FrameHeights \subseteq Nat
  /\ DragXs \union DragYs \subseteq Int
  /\ NoAffinity \notin Affinities /\ NoManual \notin Drags

VARIABLES
  area,       \* the height of each monitor's work area
  affinity,   \* activeDisplayAffinity: a monitor as it was when it was resolved
  manual,     \* manualChatWindowPosition: x, bottom and monitor of the last drag
  pill,       \* the pill's window
  dashboard,       \* the dashboard's window
  anchor,     \* chatVisualAnchorHeight
  response,   \* the response window; flag is responseOverlayVisible
  activeLoop,    \* the overlay phase is one of an active loop
  aged        \* history: the work area main holds in affinity has changed,
              \* and no window was placed on a monitor as it is since

placesVars ==
  <<area, affinity, manual, pill, dashboard, anchor, response, activeLoop, aged>>

PlacesTypeOK ==
  /\ area \in [Monitors -> AreaHeights]
  /\ affinity \in Affinities \union {NoAffinity}
  /\ manual = NoManual \/ manual.monitor \in Monitors
  /\ pill.visible \in BOOLEAN /\ pill.x \in Int /\ pill.y \in Int
  /\ dashboard \in [monitor : Monitors, visible : BOOLEAN]
  /\ anchor \in Anchors
  /\ response.shown \in BOOLEAN /\ response.flag \in BOOLEAN
  /\ {activeLoop, aged} \subseteq BOOLEAN

-----------------------------------------------------------------------------
(* Bounds.                                                                 *)

(* Math.round(v / 2)                                                       *)
Half(v) == (v + 1) \div 2

(* createDisplayAffinity                                                   *)
DisplayAffinity(m) == [monitor |-> m, height |-> area[m]]

Overlap(m, x) ==
  Max({0, Min({x + PillWidth, (m + 1) * ScreenWidth}) - Max({x, m * ScreenWidth})})

(* screen.getDisplayMatching                                               *)
Matching(x) ==
  CHOOSE m \in Monitors : \A n \in Monitors :
    Overlap(m, x) > Overlap(n, x) \/ (Overlap(m, x) = Overlap(n, x) /\ m <= n)

(* resolveTargetWorkArea                                                   *)
WorkArea(a) == IF a = NoAffinity THEN DisplayAffinity(0) ELSE a

Clamped(x, m) ==
  Max({m * ScreenWidth, Min({x, (m + 1) * ScreenWidth - PillWidth})})

(* getChatWindowBounds                                                     *)
DefaultPlace(a) ==
  [x |-> WorkArea(a).monitor * ScreenWidth + Half(ScreenWidth - PillWidth),
   y |-> WorkArea(a).height - PillHeight - Margin]

DraggedHere(moved, a) == moved # NoManual /\ a # NoAffinity /\ moved.monitor = a.monitor

(* resolveChatWindowPositionForHeight                                      *)
PillPlace(moved, a) ==
  IF DraggedHere(moved, a)
  THEN [x |-> Clamped(moved.x, a.monitor), y |-> moved.bottom - PillHeight]
  ELSE DefaultPlace(a)

(* getAnchoredChatBounds, resolveResponseGap and getResponseWindowBounds   *)
AnchorTop(y, height) == y + Max({0, PillHeight - height})
ResponseGap(height) == IF height <= CompactHeight THEN Gap - HoverOffset ELSE Gap

ResponsePlace(p, height, w, h) ==
  [x |-> Half(2 * p.x + PillWidth - w),
   y |-> AnchorTop(p.y, height) - ResponseGap(h) - h, w |-> w, h |-> h]

-----------------------------------------------------------------------------
(* Helpers of the window operations, as functions of the windows.          *)

At(r, place) == [r EXCEPT !.x = place.x, !.y = place.y, !.w = place.w, !.h = place.h]

(* positionResponseWindow; _WhenShown would leave a hidden response where  *)
(* it is.                                                                  *)
PositionResponse_WhenShown(r, p, height) ==
  IF r.flag /\ r.shown THEN At(r, ResponsePlace(p, height, r.w, r.h)) ELSE r

PositionResponse(r, p, height) ==
  IF r.flag THEN At(r, ResponsePlace(p, height, r.w, r.h)) ELSE r

(* ensureResponseOverlayFallbackBounds                                     *)
FallbackBounds(r, p) ==
  At(r, ResponsePlace(p, anchor, r.w, Max({CompactHeight, r.h})))

Placed(p, moved, a) ==
  [p EXCEPT !.x = PillPlace(moved, a).x, !.y = PillPlace(moved, a).y]

(* positionChatWindow: the pill, then the response above it.               *)
PositionChat(moved, a) ==
  /\ pill' = Placed(pill, moved, a)
  /\ response' = PositionResponse(response, pill', anchor)

(* syncActiveDisplayAffinityForWindow of a window that may be hidden       *)
Synced(a, visible, m) == IF visible THEN DisplayAffinity(m) ELSE a

(* resolveActiveSurfaceDisplayAffinity for a request of sender             *)
ActiveSurface(sender) ==
  CASE sender = "main" /\ dashboard.visible -> DisplayAffinity(dashboard.monitor)
    [] pill.visible /\ ~(sender = "main" /\ dashboard.visible) -> DisplayAffinity(Matching(pill.x))
    [] ~pill.visible /\ dashboard.visible -> DisplayAffinity(dashboard.monitor)
    [] OTHER -> affinity

(* resolveShowTargetDisplayAffinity: a request names a target; the tray,   *)
(* the hot key and the tool handoffs do not, and a window already visible  *)
(* then stays where it is.                                                 *)
Targets(visible) ==
  {ActiveSurface(sender) : sender \in {"main", "pill"}}
  \union (IF visible THEN {NoAffinity} ELSE {affinity})

(* A target that describes its monitor as it is: a visible window's, or    *)
(* the affinity main holds as long as its work area has not changed.       *)
AsItIs(target) == target \in {DisplayAffinity(m) : m \in Monitors}

HideResponse(r) == [r EXCEPT !.shown = FALSE]

-----------------------------------------------------------------------------
(* handleMoveChatboxTo: a drag of the pill, whose last message may find    *)
(* the pill hidden.                                                        *)
MovePill(x, y) ==
  LET target == DisplayAffinity(Matching(x))
      moved  == [x |-> x, bottom |-> y + PillHeight, monitor |-> target.monitor]
  IN  /\ manual' = moved
      /\ PositionChat(moved, target)
      /\ affinity' = Synced(target, pill.visible, Matching(pill'.x))
      /\ aged' = FALSE
      /\ UNCHANGED <<area, dashboard, anchor, activeLoop>>

(* The user moves the dashboard to another monitor.                        *)
MoveMain(m) ==
  /\ dashboard.visible
  /\ dashboard' = [dashboard EXCEPT !.monitor = m]
  /\ affinity' = DisplayAffinity(m)
  /\ aged' = FALSE
  /\ UNCHANGED <<area, manual, pill, anchor, response, activeLoop>>

(* showChatWindow                                                          *)
OpenPill(focus, restore) ==
  \E target \in Targets(pill.visible) :
    LET choice  == IF target = NoAffinity THEN affinity ELSE target
        opened  == [(IF target = NoAffinity THEN pill ELSE Placed(pill, manual, choice))
                      EXCEPT !.visible = TRUE]
        moved   == IF target = NoAffinity THEN response
                   ELSE PositionResponse(response, opened, anchor)
        primed  == IF activeLoop THEN FallbackBounds([moved EXCEPT !.flag = TRUE], opened)
                   ELSE moved
        returns == (focus \/ restore) /\ (moved.flag \/ activeLoop)
    IN  /\ pill' = opened
        /\ dashboard' = [dashboard EXCEPT !.visible = FALSE]
        /\ affinity' = DisplayAffinity(Matching(opened.x))
        /\ response' = IF returns THEN [primed EXCEPT !.shown = TRUE] ELSE moved
        /\ aged' = (aged /\ ~AsItIs(target))
        /\ UNCHANGED <<area, manual, anchor, activeLoop>>

(* hideChatWindow                                                          *)
ClosePill ==
  /\ pill' = [pill EXCEPT !.visible = FALSE]
  /\ response' = HideResponse(response)
  /\ UNCHANGED <<area, affinity, manual, dashboard, anchor, activeLoop, aged>>

(* showMainWindow, centred or fitted on its target                         *)
ShowMain ==
  \E target \in Targets(dashboard.visible) :
    LET monitor == IF target = NoAffinity THEN dashboard.monitor ELSE target.monitor
    IN  /\ dashboard' = [monitor |-> monitor, visible |-> TRUE]
        /\ affinity' = DisplayAffinity(monitor)
        /\ pill' = [pill EXCEPT !.visible = FALSE]
        /\ response' = HideResponse(response)
        /\ aged' = FALSE
        /\ UNCHANGED <<area, manual, anchor, activeLoop>>

(* hideMainWindow                                                          *)
HideMain ==
  /\ dashboard.visible
  /\ dashboard' = [dashboard EXCEPT !.visible = FALSE]
  /\ UNCHANGED <<area, affinity, manual, pill, anchor, response, activeLoop, aged>>

(* prepareQueryForSend: a query of the dashboard or the pill makes its     *)
(* monitor the active one and moves no window.                             *)
QuerySends(sender) ==
  /\ affinity' = ActiveSurface(sender)
  /\ aged' = (aged /\ (pill.visible \/ ~AsItIs(ActiveSurface(sender))))
  /\ UNCHANGED <<area, manual, pill, dashboard, anchor, response, activeLoop>>

(* handleSetChatboxVisualAnchorHeight                                      *)
SetAnchor(height) ==
  /\ height # anchor
  /\ anchor' = height
  /\ response' = PositionResponse(response, pill, height)
  /\ UNCHANGED <<area, affinity, manual, pill, dashboard, activeLoop, aged>>

(* handleSetResponseboxSize, with bounds the renderer measured             *)
SetResponseSize(w, h) ==
  /\ response' = [At(response, ResponsePlace(pill, anchor, w, h))
                    EXCEPT !.flag = TRUE, !.shown = response.shown \/ pill.visible]
  /\ UNCHANGED <<area, affinity, manual, pill, dashboard, anchor, activeLoop, aged>>

(* handleSetResponseboxSize with visible false                             *)
SetResponseHidden ==
  /\ response' = [HideResponse(response) EXCEPT !.flag = FALSE]
  /\ UNCHANGED <<area, affinity, manual, pill, dashboard, anchor, activeLoop, aged>>

(* handleResponseOverlayPhaseEvent                                         *)
ModeChanges(mode) ==
  /\ activeLoop' = (mode = "active-loop")
  /\ response' =
       CASE mode = "hidden" -> [HideResponse(response) EXCEPT !.flag = FALSE]
         [] mode = "active-loop" ->
              [FallbackBounds(response, pill)
                 EXCEPT !.flag = TRUE, !.shown = response.shown \/ pill.visible]
         [] mode = "terminal" ->
              [response EXCEPT !.shown = response.shown \/ (response.flag /\ pill.visible)]
  /\ UNCHANGED <<area, affinity, manual, pill, dashboard, anchor, aged>>

(* display-metrics-changed: the overlays are placed again by the affinity   *)
(* main holds.  index.cjs hands the runtime no syncWindowDisplayAffinity,  *)
(* so nothing is resolved again, unless the pill moves: its listener       *)
(* resolves the monitor of a visible pill.                                 *)
MetricsChanged(m, height) ==
  /\ area[m] # height
  /\ area' = [area EXCEPT ![m] = height]
  /\ LET fresh(n) == [monitor |-> n, height |-> area'[n]]
     IN  /\ PositionChat(manual, IF affinity = NoAffinity THEN fresh(0) ELSE affinity)
         /\ affinity' = IF pill.visible /\ pill' # pill THEN fresh(Matching(pill'.x))
                        ELSE affinity
  /\ aged' = (aged \/ (affinity # NoAffinity /\ m = affinity.monitor))
  /\ UNCHANGED <<manual, dashboard, anchor, activeLoop>>

-----------------------------------------------------------------------------
PlacesInit ==
  /\ area \in [Monitors -> AreaHeights]
  /\ affinity = NoAffinity
  /\ manual = NoManual
  /\ pill = [x |-> DefaultPlace(NoAffinity).x, y |-> DefaultPlace(NoAffinity).y,
             visible |-> FALSE]
  /\ dashboard = [monitor |-> 0, visible |-> FALSE]
  /\ anchor = PillHeight
  /\ response = [x |-> 0, y |-> 0, w |-> PillWidth, h |-> CompactHeight,
                 shown |-> FALSE, flag |-> FALSE]
  /\ activeLoop = FALSE
  /\ aged = FALSE

PlacesNext ==
  \/ \E x \in DragXs, y \in DragYs : MovePill(x, y)
  \/ \E m \in Monitors : MoveMain(m)
  \/ \E focus, restore \in BOOLEAN : OpenPill(focus, restore)
  \/ ClosePill \/ ShowMain \/ HideMain
  \/ \E sender \in {"main", "pill"} : QuerySends(sender)
  \/ \E height \in Anchors : SetAnchor(height)
  \/ \E w \in FrameWidths, h \in FrameHeights : SetResponseSize(w, h)
  \/ SetResponseHidden
  \/ \E mode \in {"hidden", "active-loop", "terminal"} : ModeChanges(mode)
  \/ \E m \in Monitors, height \in AreaHeights : MetricsChanged(m, height)

PlacesSpec == PlacesInit /\ [][PlacesNext]_placesVars

-----------------------------------------------------------------------------
(* A response that is shown stands centred on the pill, its gap above what *)
(* the pill shows of itself, whatever moved, grew, hid or came back since  *)
(* it was last placed.                                                     *)
ResponseOnThePill ==
  response.shown =>
    response = At(response, ResponsePlace(pill, anchor, response.w, response.h))

(* A visible pill is inside the monitor the affinity names; it stands where *)
(* the user dragged it on that monitor, whatever the work areas do.  When  *)
(* the last drag was elsewhere it stands at the bottom of the work area,   *)
(* as that is now unless it changed under the affinity main still goes by. *)
PillWhereTheUserWorks ==
  pill.visible =>
    /\ affinity # NoAffinity /\ affinity.monitor = Matching(pill.x)
    /\ pill.x = Clamped(pill.x, affinity.monitor)
    /\ DraggedHere(manual, affinity) => pill.y + PillHeight = manual.bottom
    /\ ~DraggedHere(manual, affinity) /\ ~aged =>
         pill.y + PillHeight = area[affinity.monitor] - Margin

(* Both, for one run.                                                      *)
OverlaysInPlace == ResponseOnThePill /\ PillWhereTheUserWorks
=============================================================================

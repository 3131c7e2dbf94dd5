---------------------------- MODULE ToolSurfaces ----------------------------
(***************************************************************************)
(* The tool runner of the dashboard's renderer and the surface             *)
(* orchestrators of the renderers, on Linux, where a window is taken off   *)
(* the screen while a screenshot is made.  A tool call prepares the        *)
(* surface, runs, may capture the screen after it, answers the backend and *)
(* restores the surface; a query that is being sent may capture too.  Every*)
(* orchestrator keeps one pending surface, a set of tokens and a count of  *)
(* captures for all jobs of its renderer, and gives up control at every    *)
(* request to the main process.                                            *)
(*                                                                         *)
(* The main process takes a renderer's requests in the order they were     *)
(* sent.  All its handlers but one answer at once, so the request and the  *)
(* continuation in the renderer are one step; hiding a surface waits on    *)
(* two timers, so it is three.                                             *)
(*                                                                         *)
(* Abstracted: what the tools do, what a screenshot shows, delays, uploads *)
(* and the transcript rows.  The steps of a bundle are one execution.      *)
(***************************************************************************)
EXTENDS SurfaceWindows, Naturals, Sequences, FiniteSets

CONSTANTS
  Tools,             \* tool calls and bundles, identified by correlation id
  DashboardCaptures, \* captures of queries sent from the dashboard
  PillCaptures,      \* ... and from the chat pill
  MaxTurn,           \* bound: the turns of one behaviour
  MaxUserActs,       \* bound: what the user does to the windows meanwhile
  RequestsFail       \* whether a request to main may fail

Jobs == Tools \union DashboardCaptures \union PillCaptures

ASSUME JobsAreApart ==
  /\ Tools \intersect (DashboardCaptures \union PillCaptures) = {}
  /\ DashboardCaptures \intersect PillCaptures = {}
ASSUME BoundsAreNat == MaxTurn \in Nat \ {0} /\ MaxUserActs \in Nat
ASSUME RequestsFailIsBoolean == RequestsFail \in BOOLEAN

VARIABLES
  job,        \* where each job stands
  requests,   \* per renderer, the jobs whose requests main has not taken
  tokens,     \* activeSurfaceTokens of the dashboard's renderer, by owner
  pending,    \* per renderer, pendingHiddenSurfaceRestore
  captures,   \* per renderer, activeScreenshotCaptureCount
  owing,      \* per renderer, pendingScreenshotCaptureRestore
  tracked,    \* trackedExecutionTurnsRef: the calls that may still answer
  turn,       \* activeTurnRef, and whether its stream has ended
  replies,    \* how often the backend was answered, per call
  taken,      \* history: the windows hidden for a screenshot, until the
              \* next time any surface is shown
  stranded,   \* history: the surface that a failed release left pending
  givenUp,    \* history: did a capture fail to restore a window, with none
              \* shown since?
  overlapped, \* history: did a job hide a surface while its renderer had
              \* one hidden, or owed one?
  userActs

orchestrator == <<tokens, pending, stranded, captures, owing>>
runner       == <<tracked, turn, replies>>
toolVars     == <<job, requests, orchestrator, runner, taken, givenUp, overlapped, userActs>>

Renderers == {"dashboard", "pill"}
HiddenSurfaces == {"none", "main-window", "chatbox", "chatbox-response", "response"}

Renderer(j) == IF j \in PillCaptures THEN "pill" ELSE "dashboard"

(* The waits: for the visibility of the dashboard, the handoff to the pill,*)
(* a hide (of a tool's preparation or of a capture, see hiding), the tool, *)
(* the delay before a capture, the screenshot and the two restores.        *)
Hiding  == {"collapsing", "hiding"}
Asking  == {"checking", "handing", "restoring", "releasing"} \union Hiding
Working == Asking \union {"running", "waiting", "shooting", "reporting"}

JobRecords ==
  [at : Working \union {"idle", "done", "dropped"},
   stage : {"sent", "resolved", "hidden"},  \* how far main is with a hide
   turn : 0..MaxTurn,                       \* the turn it is tracked under
   collapses : BOOLEAN,                     \* shouldCollapseForScreenshot
   surface : HiddenSurfaces,                \* preparation.hiddenSurface
   prepared : BOOLEAN]                      \* preparation.prepared

Idle == [at |-> "idle", stage |-> "sent", turn |-> 0, collapses |-> FALSE,
         surface |-> "none", prepared |-> TRUE]

At(j, stages) == job[j].at \in stages
Resting(r) == \A j \in Jobs : Renderer(j) = r => ~At(j, Working)

-----------------------------------------------------------------------------
(* Requests to the main process.                                           *)

(* j goes on with the record next; queue is what main has yet to take from *)
(* its renderer, and a record that asks joins it.                          *)
Proceeds(j, next, queue) ==
  /\ job' = [job EXCEPT ![j] = next]
  /\ requests' = [requests EXCEPT ![Renderer(j)] =
       IF next.at \in Asking /\ next.stage = "sent" THEN Append(queue, j) ELSE queue]

Locally(j, next) == Proceeds(j, next, requests[Renderer(j)])

(* Main takes j's request, the first of its renderer.                      *)
Served(j, next) ==
  /\ requests[Renderer(j)] # <<>>
  /\ Head(requests[Renderer(j)]) = j
  /\ Proceeds(j, next, Tail(requests[Renderer(j)]))

Moved(j, at) == [job[j] EXCEPT !.at = at, !.stage = "sent"]

(* The windows become w.  A window hidden for a screenshot stays taken     *)
(* until something is shown.                                               *)
Visible(w) == (IF w.main THEN {"main"} ELSE {}) \union (IF w.chat THEN {"chat"} ELSE {})

Shows(w) ==
  /\ surface' = w
  /\ pointer' = IF w.chat /\ ~surface.chat THEN HitTested(pointer, InLoop) ELSE pointer
  /\ IF Visible(w) \subseteq Visible(surface)
     THEN UNCHANGED <<taken, givenUp>>
     ELSE taken' = {} /\ givenUp' = FALSE
  /\ UNCHANGED <<phase, fullScreen, leaving, onboarding, overlapped, userActs>>

Hides(w) ==
  /\ surface' = w
  /\ taken' = taken \union (Visible(surface) \ Visible(w))
  /\ UNCHANGED <<phase, pointer, fullScreen, leaving, onboarding, givenUp, overlapped, userActs>>

SameWindows == UNCHANGED <<surfaceVars, taken, givenUp, overlapped, userActs>>

-----------------------------------------------------------------------------
(* A tool call: from its arrival to its execution.                         *)

(* shouldIgnoreToolEventForTurn; an event without a turn is never stale.   *)
Stale(ref) == ref # 0 /\ (ref # turn.active \/ turn.ended)

(* The preparation ends: the call owns a token and its tool runs.          *)
TakesToken(t) == tokens' = tokens \union {t}

(* The result, or the failure, is sent once.                               *)
Answered(t) == replies' = [replies EXCEPT ![t] = @ + 1]

(* handleToolCall and handleToolBundle.                                    *)
ToolArrives(t, mode, ref) ==
  LET under == IF ref = 0 THEN turn.active ELSE ref
      next  == IF Stale(ref) THEN Moved(t, "done")
               ELSE IF mode = "none" \/ tokens # {} THEN Moved(t, "running")
               ELSE [Moved(t, "checking") EXCEPT !.collapses = mode = "screenshot"]
  IN  /\ At(t, {"idle"})
      /\ Locally(t, [next EXCEPT !.turn = under])
      /\ IF Stale(ref)
         THEN /\ Answered(t)
              /\ UNCHANGED <<tracked, tokens>>
         ELSE /\ tracked' = tracked \union {t}
              /\ tokens' = IF mode # "none" /\ tokens # {} THEN tokens \union {t} ELSE tokens
              /\ UNCHANGED replies
      /\ UNCHANGED <<pending, stranded, captures, owing, turn>>
      /\ SameWindows

(* A call of the turn that the runner does not take up: a bundle without   *)
(* tools, a call without a name or parameters, or one the backend marks as *)
(* not for this side.  Nothing is tracked and nothing answered.            *)
ToolDropped(t, ref) ==
  /\ At(t, {"idle"}) /\ ~Stale(ref)
  /\ Locally(t, Moved(t, "dropped"))
  /\ UNCHANGED <<orchestrator, runner>>
  /\ SameWindows

(* After the handoff, if there is one: collapse, or run.                   *)
AfterHandoff(t) ==
  /\ Served(t, Moved(t, IF job[t].collapses THEN "collapsing" ELSE "running"))
  /\ IF job[t].collapses THEN UNCHANGED tokens ELSE TakesToken(t)

(* get-main-window-visibility; a failed check counts as an invisible one.  *)
VisibilityChecked(t) ==
  /\ At(t, {"checking"})
  /\ \/ surface.main /\ Served(t, Moved(t, "handing")) /\ UNCHANGED tokens
     \/ (RequestsFail \/ ~surface.main) /\ AfterHandoff(t)
  /\ UNCHANGED <<pending, stranded, captures, owing, runner>>
  /\ SameWindows

(* handoff-surface-for-computer-use.                                       *)
HandoffSurface(t) ==
  /\ At(t, {"handing"})
  /\ AfterHandoff(t)
  /\ Shows(IF surface.main THEN ShowChat(surface, FALSE, TRUE) ELSE surface)
  /\ UNCHANGED <<pending, stranded, captures, owing, runner>>

(* A call that cannot be prepared is answered with the failure, forgotten  *)
(* and owns no token.                                                      *)
Unprepared(t) == Answered(t) /\ tracked' = tracked \ {t} /\ UNCHANGED turn

(* The handoff fails.                                                      *)
HandoffFails(t) ==
  /\ RequestsFail /\ At(t, {"handing"})
  /\ Served(t, Moved(t, "done"))
  /\ Unprepared(t)
  /\ UNCHANGED orchestrator
  /\ SameWindows

-----------------------------------------------------------------------------
(* prepare-surface-for-screenshot.                                         *)

(* The sender's own window first, then whatever is visible.                *)
ResolveHiddenSurface(r) ==
  LET pill == IF surface.response THEN "chatbox-response" ELSE "chatbox"
  IN  CASE r = "pill" /\ surface.chat -> pill
        [] ~(r = "pill" /\ surface.chat) /\ surface.main -> "main-window"
        [] ~surface.main /\ surface.chat -> pill
        [] ~surface.main /\ ~surface.chat /\ surface.response -> "response"
        [] OTHER -> "none"

Hide(w, target) ==
  CASE target = "main-window" -> HideMain(w)
    [] target = "response"    -> HideResponse(w)
    [] target = "none"        -> w
    [] OTHER                  -> HideChat(w)

(* A surface of j's renderer is hidden already, or about to be, or on its  *)
(* way back, or left pending by a failed release.                          *)
Overlaps(j) ==
  \/ pending[Renderer(j)] # "none"
  \/ \E k \in Jobs \ {j} :
       /\ Renderer(k) = Renderer(j)
       /\ \/ At(k, Hiding) /\ job[k].stage # "sent"
          \/ At(k, {"shooting", "restoring", "releasing"})

(* Which surface to hide is decided before the first wait.                 *)
ResolvesSurface(j) ==
  /\ At(j, Hiding) /\ job[j].stage = "sent"
  /\ Served(j, [job[j] EXCEPT !.stage = "resolved",
                              !.surface = ResolveHiddenSurface(Renderer(j))])
  /\ overlapped' = (overlapped \/ Overlaps(j))
  /\ UNCHANGED <<orchestrator, runner, surfaceVars, taken, givenUp, userActs>>

HidesSurface(j) ==
  /\ At(j, Hiding) /\ job[j].stage = "resolved"
  /\ job' = [job EXCEPT ![j].stage = "hidden"]
  /\ Hides(Hide(surface, job[j].surface))
  /\ UNCHANGED <<requests, orchestrator, runner>>

(* setPendingHiddenSurfaceRestore.                                         *)
Remembers(r, target) ==
  /\ pending' = [pending EXCEPT ![r] = target]
  /\ stranded' = IF r = "dashboard" THEN "none" ELSE stranded

(* The compositor has settled and the renderer goes on: with the tool, or  *)
(* with the screenshot.                                                    *)
SurfaceHidden(j) ==
  LET r == Renderer(j)
  IN  /\ At(j, Hiding) /\ job[j].stage = "hidden"
      /\ Remembers(r, job[j].surface)
      /\ IF At(j, {"collapsing"})
         THEN Locally(j, Moved(j, "running")) /\ TakesToken(j) /\ UNCHANGED owing
         ELSE /\ Locally(j, Moved(j, "shooting"))
              /\ owing' = [owing EXCEPT ![r] = TRUE]
              /\ UNCHANGED tokens
      /\ UNCHANGED <<captures, runner>>
      /\ SameWindows

(* A mutant of HidingFails: the call is given up without an answer.        *)
HidingFails_Silent(j) ==
  /\ RequestsFail
  /\ At(j, {"collapsing"}) /\ job[j].stage = "resolved"
  /\ Locally(j, Moved(j, "done"))
  /\ tracked' = tracked \ {j}
  /\ UNCHANGED <<orchestrator, turn, replies>>
  /\ SameWindows

(* The request fails instead, before it has hidden anything: the call is   *)
(* not prepared; a capture goes on without hiding anything.                *)
HidingFails(j) ==
  LET r == Renderer(j)
  IN  /\ RequestsFail
      /\ At(j, Hiding) /\ job[j].stage = "resolved"
      /\ IF At(j, {"collapsing"})
         THEN /\ Locally(j, Moved(j, "done"))
              /\ Unprepared(j)
              /\ UNCHANGED captures
         ELSE /\ Locally(j, [Moved(j, "shooting") EXCEPT !.prepared = FALSE])
              /\ captures' = [captures EXCEPT ![r] = IF @ > 0 THEN @ - 1 ELSE 0]
              /\ UNCHANGED runner
      /\ UNCHANGED <<tokens, pending, stranded, owing>>
      /\ SameWindows

-----------------------------------------------------------------------------
(* Captures.                                                               *)

(* prepareScreenshotCaptureVisibility: a capture that overlaps another, or *)
(* that runs under a tool's suppressed surface, hides nothing itself.      *)
CaptureBegins(j) ==
  LET r == Renderer(j)
      alone  == captures[r] = 0
      nested == pending[r] # "none"
  IN  /\ IF j \in Tools THEN At(j, {"waiting"}) ELSE At(j, {"idle"})
      /\ captures' = [captures EXCEPT ![r] = @ + 1]
      /\ owing' = [owing EXCEPT ![r] = @ \/ (alone /\ nested)]
      /\ Locally(j, [Moved(j, IF alone /\ ~nested THEN "hiding" ELSE "shooting") EXCEPT
                       !.surface = "none", !.prepared = TRUE])
      /\ UNCHANGED <<tokens, pending, stranded, runner>>
      /\ SameWindows

(* What a job does when its capture is over.                               *)
Afterwards(j) == IF j \in Tools THEN "reporting" ELSE "done"

(* The screenshot has been made, or failed; then                           *)
(* restoreScreenshotCaptureVisibility.                                     *)
ScreenshotTaken(j) ==
  LET r    == Renderer(j)
      left == IF captures[r] > 0 THEN captures[r] - 1 ELSE 0
      back == IF pending[r] # "none" THEN pending[r] ELSE job[j].surface
  IN  /\ At(j, {"shooting"})
      /\ captures' = IF job[j].prepared THEN [captures EXCEPT ![r] = left] ELSE captures
      /\ Locally(j, IF job[j].prepared /\ left = 0 /\ owing[r]
                    THEN [Moved(j, "restoring") EXCEPT !.surface = back]
                    ELSE Moved(j, Afterwards(j)))
      /\ UNCHANGED <<tokens, pending, stranded, owing, runner>>
      /\ SameWindows

(* restore-surface-after-screenshot.                                       *)
Restore(w, target) ==
  CASE target = "chatbox"          -> ShowChat(w, FALSE, FALSE)
    [] target = "chatbox-response" -> ShowChat(w, FALSE, TRUE)
    [] target = "response"         -> [w EXCEPT !.overlay = TRUE, !.response = TRUE]
    [] target = "main-window"      -> ShowMain(w, "")
    [] target = "none"             -> w

(* The capture's restore ends by forgetting the pending surface, whether   *)
(* it was shown or not.                                                    *)
CaptureForgets(j) ==
  /\ owing' = [owing EXCEPT ![Renderer(j)] = FALSE]
  /\ Remembers(Renderer(j), "none")
  /\ UNCHANGED <<tokens, captures, runner>>

CaptureRestored(j) ==
  /\ At(j, {"restoring"})
  /\ Served(j, Moved(j, Afterwards(j)))
  /\ Shows(Restore(surface, job[j].surface))
  /\ CaptureForgets(j)

(* A mutant of CaptureRestoreFails: the failure skips the clean-up.        *)
CaptureRestoreFails_Owes(j) ==
  /\ RequestsFail /\ At(j, {"restoring"})
  /\ Served(j, Moved(j, Afterwards(j)))
  /\ givenUp' = (givenUp \/ (taken # {} /\ job[j].surface # "none"))
  /\ UNCHANGED <<orchestrator, runner>>
  /\ UNCHANGED <<surfaceVars, taken, overlapped, userActs>>

(* The restore fails, and the window that was to be shown stays hidden.    *)
CaptureRestoreFails(j) ==
  /\ RequestsFail /\ At(j, {"restoring"})
  /\ Served(j, Moved(j, Afterwards(j)))
  /\ givenUp' = (givenUp \/ (taken # {} /\ job[j].surface # "none"))
  /\ CaptureForgets(j)
  /\ UNCHANGED <<surfaceVars, taken, overlapped, userActs>>

-----------------------------------------------------------------------------
(* A tool call: from its execution to its end.                             *)

(* ensureAutoCapture: a computer-use result without a screenshot of its own*)
(* is followed by a capture, after a delay; any other is complete.         *)
AutoCapture == {"waiting", "reporting"}

(* execute-tool has answered, with a result or an error.                   *)
ToolReturns(t) ==
  /\ At(t, {"running"})
  /\ \E at \in AutoCapture : Locally(t, Moved(t, at))
  /\ UNCHANGED <<orchestrator, runner>>
  /\ SameWindows

(* shouldAcceptExecutionResult, without its side effect.                   *)
Accepts(t) ==
  /\ t \in tracked
  /\ ~(job[t].turn # 0 /\ turn.active # 0 /\ (job[t].turn # turn.active \/ turn.ended))

(* The result is persisted and sent to the backend, or dropped with the    *)
(* call's entry; then restoreToolExecutionSurface releases the token, and  *)
(* the last one asks for the pending surface.                              *)
ToolReports(t) ==
  LET last == t \in tokens /\ tokens = {t}
      back == pending["dashboard"]
  IN  /\ At(t, {"reporting"})
      /\ IF Accepts(t) THEN Answered(t) ELSE UNCHANGED replies
      /\ tracked' = tracked \ {t}
      /\ tokens' = tokens \ {t}
      /\ Locally(t, IF last /\ back # "none"
                    THEN [Moved(t, "releasing") EXCEPT !.surface = back]
                    ELSE Moved(t, "done"))
      /\ UNCHANGED <<pending, stranded, captures, owing, turn>>
      /\ SameWindows

ToolReleased(t) ==
  /\ At(t, {"releasing"})
  /\ Served(t, Moved(t, "done"))
  /\ Shows(Restore(surface, job[t].surface))
  /\ Remembers("dashboard", "none")
  /\ UNCHANGED <<tokens, captures, owing, runner>>

(* The release fails: the surface stays pending, with nobody to restore it *)
(* but the next capture, or the next call that releases a token.           *)
ToolReleaseFails(t) ==
  /\ RequestsFail /\ At(t, {"releasing"})
  /\ Served(t, Moved(t, "done"))
  /\ stranded' = pending["dashboard"]
  /\ UNCHANGED <<tokens, pending, captures, owing, runner>>
  /\ SameWindows

-----------------------------------------------------------------------------
(* The stream of the conversation, and the user at the windows.            *)

TurnMoves ==
  /\ turn' \in {[active |-> turn.active + 1, ended |-> FALSE],
                [active |-> turn.active, ended |-> TRUE],
                [active |-> 0, ended |-> FALSE]}
  /\ turn' # turn
  /\ turn.active > 0 /\ turn'.active <= MaxTurn
  /\ UNCHANGED <<job, requests, orchestrator, tracked, replies>>
  /\ SameWindows

UserActs ==
  /\ userActs < MaxUserActs
  /\ userActs' = userActs + 1
  /\ ToggleChat \/ ShowMainWindow \/ CloseMainWindow
  /\ IF Visible(surface') \subseteq Visible(surface)
     THEN UNCHANGED <<taken, givenUp>>
     ELSE taken' = {} /\ givenUp' = FALSE
  /\ UNCHANGED <<job, requests, orchestrator, runner, overlapped>>

-----------------------------------------------------------------------------
NoToolYet ==
  /\ job = [j \in Jobs |-> Idle]
  /\ requests = [r \in Renderers |-> <<>>]
  /\ tokens = {} /\ tracked = {}
  /\ taken = {} /\ stranded = "none" /\ givenUp = FALSE /\ overlapped = FALSE
  /\ pending = [r \in Renderers |-> "none"]
  /\ captures = [r \in Renderers |-> 0]
  /\ owing = [r \in Renderers |-> FALSE]
  /\ turn = [active |-> 1, ended |-> FALSE]
  /\ replies = [t \in Tools |-> 0]
  /\ userActs = 0

(* A turn is streaming when the first call arrives; the pill, the          *)
(* dashboard or nothing is on the screen.                                  *)
ToolInit ==
  /\ surface \in {s \in Surfaces :
       /\ s.overlay /\ s.mode = "dashboard" /\ s.wakeword = ~s.chat /\ s.response = s.chat
       /\ ~(s.main /\ s.chat)
       /\ s.primary = IF s.main THEN "dashboard" ELSE "chat"}
  /\ phase = "active-loop"
  /\ pointer = [hitTest |-> FALSE, ignored |-> TRUE, focusable |-> FALSE]
  /\ fullScreen = "unsupported" /\ leaving = {}
  /\ onboarding = [running |-> FALSE, applied |-> TRUE]
  /\ NoToolYet

(* What happens to a job once it has begun.                                *)
ToolStep(t) ==
  \/ VisibilityChecked(t)
  \/ HandoffSurface(t)
  \/ HandoffFails(t)
  \/ ToolReturns(t)
  \/ ToolReports(t)
  \/ ToolReleased(t)
  \/ ToolReleaseFails(t)

CaptureStep(j) ==
  \/ ResolvesSurface(j)
  \/ HidesSurface(j)
  \/ SurfaceHidden(j)
  \/ HidingFails(j)
  \/ ScreenshotTaken(j)
  \/ CaptureRestored(j)
  \/ CaptureRestoreFails(j)

ToolNext ==
  \/ \E t \in Tools, mode \in {"none", "interactive", "screenshot"}, ref \in 0..MaxTurn :
       ref <= turn.active /\ ToolArrives(t, mode, ref)
  \/ \E t \in Tools, ref \in 0..MaxTurn : ref <= turn.active /\ ToolDropped(t, ref)
  \/ \E t \in Tools : ToolStep(t)
  \/ \E j \in Jobs : CaptureStep(j) \/ CaptureBegins(j)
  \/ TurnMoves
  \/ UserActs

ToolSpec == ToolInit /\ [][ToolNext]_<<surfaceVars, toolVars>>

-----------------------------------------------------------------------------
(* Types.                                                                  *)
ToolTypeOK ==
  /\ SurfaceTypeOK
  /\ job \in [Jobs -> JobRecords]
  /\ requests \in [Renderers -> Seq(Jobs)]
  /\ tokens \subseteq Tools /\ tracked \subseteq Tools
  /\ pending \in [Renderers -> HiddenSurfaces]
  /\ captures \in [Renderers -> 0..Cardinality(Jobs)]
  /\ owing \in [Renderers -> BOOLEAN]
  /\ turn \in [active : 0..MaxTurn, ended : BOOLEAN]
  /\ replies \in [Tools -> 0..1]
  /\ taken \subseteq {"main", "chat"} /\ stranded \in HiddenSurfaces
  /\ givenUp \in BOOLEAN /\ overlapped \in BOOLEAN
  /\ userActs \in 0..MaxUserActs

(* When no job of a renderer is under way, its orchestrator holds no token *)
(* and no capture, and owes no restore; and no surface is pending but the  *)
(* one that a failed release has left.  Otherwise the next screenshot would*)
(* be taken for a nested one and hide nothing.                             *)
NothingHeldAtRest ==
  \A r \in Renderers : Resting(r) =>
    /\ captures[r] = 0 /\ ~owing[r]
    /\ pending[r] = IF r = "dashboard" THEN stranded ELSE "none"
    /\ r = "dashboard" => tokens = {} /\ tracked = {}

(* A window hidden for a screenshot is shown again, unless another one was *)
(* shown instead: when all jobs are over and one is missing, a failed      *)
(* release has left it pending, and the next restore brings it back.  Not  *)
(* claimed where the code loses it: a capture's restore that fails forgets *)
(* the window, and a surface hidden while another is hidden or owed takes  *)
(* its place.                                                              *)
HiddenWindowsComeBack ==
  (\A r \in Renderers : Resting(r)) /\ ~overlapped /\ ~givenUp /\ taken # {} =>
    stranded # "none"

(* Jobs leave nothing behind that nobody will take back, whichever of the  *)
(* requests to hide and to show a surface fail.                            *)
JobsLeaveNothingBehind == NothingHeldAtRest /\ HiddenWindowsComeBack

(* While the turn that was streaming at first goes on, no call of it that  *)
(* the runner has taken up ends without its one answer to the backend,     *)
(* which waits for it: not by a failed preparation, a failed capture, a    *)
(* failed restore or an overlapping call.  (A call the runner does not     *)
(* take up is never answered, see ToolDropped.)                            *)
AcceptedCallsAreAnswered ==
  turn = [active |-> 1, ended |-> FALSE] =>
    \A t \in Tools : At(t, {"releasing", "done"}) => replies[t] = 1
=============================================================================

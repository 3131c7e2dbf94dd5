------------------------------ MODULE Permissions ------------------------------
(***************************************************************************)
(* Permissions of the computer: the store of the dashboard that shows what *)
(* is granted (permissionStore.js), the slideshow of the onboarding that   *)
(* requests them one after the other and watches for a grant made in the   *)
(* settings of the operating system (useOnboardingPermissionActions.js),   *)
(* the settings pages, and the probes and requests of the main process     *)
(* (permission_service*.cjs).                                              *)
(*                                                                         *)
(* What the operating system allows changes under all of them.  On macOS   *)
(* some probes read it when they are called; others run a program first,   *)
(* and answers of those come back in any order.  The channels never fail:  *)
(* a probe or request that throws is answered with a status.               *)
(***************************************************************************)
EXTENDS Naturals

CONSTANTS
  Requests,            \* calls of the dashboard that may overlap
  Mounts,              \* how often the slideshow is opened: 1..n
  Manifests,           \* sets of permissions a manifest may list
  MaxPermissionActs    \* bound: acts of the user

Kinds == {"screen", "input", "events", "microphone", "browser", "folder", "shell"}

ASSUME PermissionBounds ==
  /\ MaxPermissionActs \in Nat
  /\ Mounts \in SUBSET (Nat \ {0}) /\ 1 \in Mounts
  /\ Manifests \subseteq SUBSET Kinds

Nothing == "nothing"

(* mediaGranted is needs-action with a media status that says granted.     *)
Answers == {"granted", "needs", "mediaGranted", "unsupported"}
Unseen == [k \in Kinds |-> Nothing]

VARIABLES
  platform, listed,    \* the platform; the permissions of its manifest
  allowed, preference, \* what the system allows; browser_automation_enabled,
                       \* as the dashboard has it and as the main process does
  store,               \* loading, bootstrapped, and the onboarding completed
  shown,               \* statusesByPermissionId
  hooks, mount,        \* each opening of the slideshow: its refs and state
  requests,            \* calls that wait for an answer
  due,                 \* history: allowed by the user while it was watched
  crossed,             \* history: a watch began beside a call it can be ended by
  permissionActs

permissionVars == <<platform, listed, allowed, preference, store, shown, hooks, mount,
                    requests, due, crossed, permissionActs>>

-----------------------------------------------------------------------------
(* asks says what for; of, the permission; by, the opening of the slideshow*)
(* that asked; was, whether it was allowed then; saw, the answers so far.  *)
NoRequest == [asks |-> "none", of |-> Nothing, by |-> 1, at |-> "none",
              was |-> FALSE, saw |-> Unseen]
Unwatched == [watched |-> Nothing, late |-> FALSE, pending |-> Nothing]

Idle == {c \in Requests : requests[c].asks = "none"}
Open == Requests \ Idle
Acting == permissionActs < MaxPermissionActs /\ permissionActs' = permissionActs + 1

(* The onboarding counts for the manifest it was completed for; until the  *)
(* manifest is there, any completed one does.                              *)
NeedsOnboarding == store.completed # "current"
Onboards == IF store.bootstrapped THEN NeedsOnboarding ELSE store.completed = "none"

(* The set the hook watches by an interval.                                *)
Polled == {"screen", "input", "events", "microphone"}

(* Probes that read the state when they are called.                        *)
AtOnce(k) == platform = "darwin" /\ k \in {"screen", "input", "microphone"}

-----------------------------------------------------------------------------
(* The main process.                                                       *)

Plain(k) == IF k \in allowed THEN "granted" ELSE "needs"

ProbeScreen == Plain("screen")
ProbeInput == Plain("input")
ProbeEvents == IF platform = "darwin" THEN Plain("events") ELSE "unsupported"
ProbeMicrophone == Plain("microphone")
ProbeBrowser == IF preference.main THEN Plain("browser") ELSE "needs"
ProbeFolder == Plain("folder")
ProbeShell == Plain("shell")

Probe(k) ==
  CASE k = "screen"     -> ProbeScreen
    [] k = "input"      -> ProbeInput
    [] k = "microphone" -> ProbeMicrophone
    [] k = "events"     -> ProbeEvents
    [] k = "browser"    -> ProbeBrowser
    [] k = "folder"     -> ProbeFolder
    [] k = "shell"      -> ProbeShell

(* Each request, when the prompts it shows have been answered or given up: *)
(* the answer, and what it added to what is allowed.                       *)
NothingNew(answers) == answers \X {{}}

RequestScreen(was) ==
  IF platform # "darwin" THEN NothingNew({Plain("screen")})
  ELSE IF was THEN NothingNew({"granted", "mediaGranted"})
  ELSE NothingNew({IF "screen" \in allowed THEN "mediaGranted" ELSE "needs"})
RequestInput == NothingNew({Plain("input")})
RequestMicrophone == NothingNew({Plain("microphone")})
RequestEvents == NothingNew({Plain("events")})
Warmed == {"granted", "needs"}
Installed == {"browser"}
RequestBrowser(was) ==
  IF was THEN NothingNew(Warmed) ELSE (Warmed \X {Installed}) \union NothingNew({"needs"})
RequestFolder == {<<"granted", {"folder"}>>, <<"needs", {}>>}
RequestShell == NothingNew({"granted", "needs"})

Requested(k, was) ==
  CASE k = "screen"     -> RequestScreen(was)
    [] k = "input"      -> RequestInput
    [] k = "microphone" -> RequestMicrophone
    [] k = "events"     -> RequestEvents
    [] k = "browser"    -> RequestBrowser(was)
    [] k = "folder"     -> RequestFolder
    [] k = "shell"      -> RequestShell

(* What a call that probes has seen when it arrives.                       *)
SeesAtOnce(which) == [k \in Kinds |-> IF k \in which /\ AtOnce(k) THEN Probe(k) ELSE Nothing]

(* A probe that runs a program reads the state some time later.            *)
ReadsState(c, k) ==
  /\ requests[c].at = "reading" /\ requests[c].saw[k] = Nothing
  /\ k \in IF requests[c].of = Nothing THEN listed ELSE {requests[c].of}
  /\ requests' = [requests EXCEPT ![c].saw[k] = Probe(k)]
  /\ UNCHANGED <<platform, listed, allowed, preference, store, shown, hooks, mount, due,
                 crossed, permissionActs>>

(* The user answers the prompt of a request, or it is given up.            *)
PromptEnds(c) ==
  /\ requests[c].at = "asking"
  /\ \E outcome \in Requested(requests[c].of, requests[c].was) :
       /\ requests' = [requests EXCEPT ![c].at = "reading",
                                       ![c].saw[requests[c].of] = outcome[1]]
       /\ allowed' = allowed \union outcome[2]
  /\ UNCHANGED <<platform, listed, preference, store, shown, hooks, mount, due, crossed,
                 permissionActs>>

Answered(c) ==
  /\ requests[c].at = "reading"
  /\ \A k \in IF requests[c].of = Nothing THEN listed ELSE {requests[c].of} :
       requests[c].saw[k] # Nothing

-----------------------------------------------------------------------------
(* The store and the pages that use it.                                    *)

Calls(c, asks, of, at) ==
  requests' = [requests EXCEPT ![c] =
    [asks |-> asks, of |-> of, by |-> mount, at |-> at,
     was |-> of \in allowed,
     saw |-> IF at = "asking" THEN Unseen
             ELSE SeesAtOnce(IF of = Nothing THEN listed ELSE {of})]]

(* bootstrapPermissions: of the slideshow, or of a settings page.          *)
Bootstrap(c) ==
  /\ ~store.bootstrapped /\ ~store.loading
  /\ store' = [store EXCEPT !.loading = TRUE]
  /\ Calls(c, "list", Nothing, "reading")
  /\ UNCHANGED <<platform, listed, allowed, preference, shown, hooks, mount, due,
                 crossed, permissionActs>>

(* The settings: all of them again, or one.                                *)
Recheck(c) ==
  /\ ~Onboards /\ store.bootstrapped /\ Acting
  /\ \/ Calls(c, "all", Nothing, "reading")
     \/ \E k \in listed : Calls(c, "probe", k, "reading")
  /\ UNCHANGED <<platform, listed, allowed, preference, store, shown, hooks, mount, due,
                 crossed>>

(* handleOpenBrowser, in the settings; the page opens one at a time.       *)
OpenBrowser(c) ==
  /\ ~Onboards /\ Acting /\ "browser" \in listed
  /\ \A d \in Open : requests[d].asks # "open"
  /\ Calls(c, "open", "browser", "asking")
  /\ UNCHANGED <<platform, listed, allowed, preference, store, shown, hooks, mount, due,
                 crossed>>

(* The button of a slide, and handleGrantPermission.                       *)
Offered(k) ==
  /\ Onboards /\ store.bootstrapped /\ ~store.loading
  /\ k \in listed /\ shown[k] # "granted"
  /\ hooks[mount].pending # k /\ hooks[mount].watched # k

Grant(c, k) ==
  /\ Offered(k) /\ Acting
  /\ hooks' = [hooks EXCEPT ![mount].pending = k]
  /\ Calls(c, "grant", k, "asking")
  /\ due' = due \ {k}
  /\ UNCHANGED <<platform, listed, allowed, preference, store, shown, mount, crossed>>

(* completeOnboarding, which takes the slideshow away.                     *)
Complete ==
  /\ Onboards /\ store.bootstrapped /\ ~store.loading /\ Acting
  /\ store' = [store EXCEPT !.completed = "current"]
  /\ hooks' = [hooks EXCEPT ![mount].watched = Nothing, ![mount].late = FALSE]
  /\ due' = {}
  /\ UNCHANGED <<platform, listed, allowed, preference, shown, mount, requests, crossed>>

(* restartOnboarding, in the settings.                                     *)
Restart ==
  /\ ~Onboards /\ mount + 1 \in Mounts /\ Acting
  /\ store' = [store EXCEPT !.completed = "none"]
  /\ mount' = mount + 1
  /\ UNCHANGED <<platform, listed, allowed, preference, shown, hooks, requests, due, crossed>>

-----------------------------------------------------------------------------
(* The watch.                                                              *)

(* recheckWatchedPermission, after its await: whatever is watched by now.  *)
Ends(h, answer) == answer = "granted" \/ h.late

StopWatching(h) == [h EXCEPT !.watched = Nothing, !.late = FALSE]
WatchFor(h, k) == [h EXCEPT !.watched = k, !.late = FALSE]

ShouldWatch(k, answer) == k \in Polled /\ answer = "needs"

(* The interval, a focus of the window: answers of probes that read at once*)
(* are there before the next one.                                          *)
Poll(c, m) ==
  /\ hooks[m].watched # Nothing
  /\ AtOnce(hooks[m].watched) =>
       ~\E d \in Open : requests[d].asks = "poll" /\ requests[d].of = hooks[m].watched
  /\ requests' = [requests EXCEPT ![c] =
       [asks |-> "poll", of |-> hooks[m].watched, by |-> m, at |-> "reading",
        was |-> FALSE, saw |-> SeesAtOnce({hooks[m].watched})]]
  /\ UNCHANGED <<platform, listed, allowed, preference, store, shown, hooks, mount, due,
                 crossed, permissionActs>>

(* Two minutes are over, and the next answer ends the watch: also one that *)
(* is under way and was read before the user allowed it, so that nothing is*)
(* due any more then.                                                      *)
DeadlinePasses(m) ==
  /\ hooks[m].watched # Nothing /\ ~hooks[m].late
  /\ hooks' = [hooks EXCEPT ![m].late = TRUE]
  /\ due' = {k \in due : m = mount /\ hooks[m].watched = k =>
                          \A c \in Open : requests[c].of = k => requests[c].saw[k] = "granted"}
  /\ UNCHANGED <<platform, listed, allowed, preference, store, shown, mount, requests,
                 crossed, permissionActs>>

(* An answer: the store takes it, and the caller goes on.                  *)
Shows(call) ==
  [k \in Kinds |-> IF call.of \in {k, Nothing} THEN call.saw[k] ELSE shown[k]]

(* A mutant: whatever has been granted ends the watch.                     *)
AfterGrant_AnyGrant(call) ==
  LET h == [hooks[call.by] EXCEPT !.pending = Nothing]
      answer == call.saw[call.of]
  IN  IF ShouldWatch(call.of, answer) THEN WatchFor(h, call.of)
      ELSE IF answer = "granted" THEN StopWatching(h)
      ELSE h

AfterGrant(call) ==
  LET h == [hooks[call.by] EXCEPT !.pending = Nothing]
      answer == call.saw[call.of]
  IN  IF ShouldWatch(call.of, answer) THEN WatchFor(h, call.of)
      ELSE IF answer = "granted" /\ h.watched = call.of THEN StopWatching(h)
      ELSE h

(* A call whose answer shows k, and one that may end the watch begun by    *)
(* another: a poll for what was watched before.                            *)
Concerns(c, k) == requests[c].of \in {k, Nothing}
Disturbs(d, call) ==
  Concerns(d, call.of) \/ (requests[d].asks = "poll" /\ requests[d].by = call.by)

AfterPoll(call) ==
  LET h == hooks[call.by]
  IN  IF Ends(h, call.saw[call.of]) THEN StopWatching(h) ELSE h

Takes(c) ==
  /\ Answered(c)
  /\ LET call == requests[c] IN
     /\ shown' = Shows(call)
     /\ store' = IF call.asks = "list"
                 THEN [store EXCEPT !.loading = FALSE, !.bootstrapped = TRUE] ELSE store
     /\ hooks' = CASE call.asks = "grant" -> [hooks EXCEPT ![call.by] = AfterGrant(call)]
                   [] call.asks = "poll"  -> [hooks EXCEPT ![call.by] = AfterPoll(call)]
                   [] OTHER               -> hooks
     /\ preference' = [preference EXCEPT !.dashboard = @ \/
                         (call.asks \in {"grant", "open"} /\ call.of = "browser"
                            /\ call.saw["browser"] = "granted")]
     /\ crossed' = (crossed \/ (call.asks = "grant" /\ ShouldWatch(call.of, call.saw[call.of])
                                  /\ \E d \in Open \ {c} : Disturbs(d, call)))
  /\ requests' = [requests EXCEPT ![c] = NoRequest]
  /\ due' = IF hooks'[mount].watched \in Kinds THEN due \ ({hooks[mount].watched} \ {hooks'[mount].watched}) ELSE due
  /\ UNCHANGED <<platform, listed, allowed, mount, permissionActs>>

(* The preference reaches the main process.                                *)
PreferenceArrives ==
  /\ preference.dashboard /\ ~preference.main
  /\ preference' = [preference EXCEPT !.main = TRUE]
  /\ UNCHANGED <<platform, listed, allowed, store, shown, hooks, mount, requests, due,
                 crossed, permissionActs>>

(* The user allows it, or takes it back, in a prompt or in the settings of *)
(* the system.                                                             *)
UserAllows(k) ==
  /\ Acting /\ k \in listed \ allowed
  /\ allowed' = allowed \union {k}
  /\ due' = IF Onboards /\ hooks[mount].watched = k /\ ~hooks[mount].late
            THEN due \union {k} ELSE due
  /\ UNCHANGED <<platform, listed, preference, store, shown, hooks, mount, requests, crossed>>
UserForbids(k) ==
  /\ Acting /\ k \in allowed
  /\ allowed' = allowed \ {k}
  /\ due' = due \ {k}
  /\ UNCHANGED <<platform, listed, preference, store, shown, hooks, mount, requests, crossed>>

-----------------------------------------------------------------------------
PermissionInit ==
  /\ platform \in {"darwin", "other"}
  /\ listed \in {L \in Manifests : platform = "other" => "events" \notin L}
  /\ allowed \in SUBSET listed
  /\ preference = [dashboard |-> FALSE, main |-> FALSE]
  /\ store \in [loading : {FALSE}, bootstrapped : {FALSE},
                completed : {"none", "older", "current"}]
  /\ shown = Unseen
  /\ hooks = [m \in Mounts |-> Unwatched] /\ mount = 1
  /\ requests = [c \in Requests |-> NoRequest]
  /\ due = {} /\ crossed = FALSE /\ permissionActs = 0

PermissionNext ==
  \/ \E c \in Idle : Bootstrap(c) \/ Recheck(c) \/ OpenBrowser(c)
                     \/ (\E k \in Kinds : Grant(c, k)) \/ (\E m \in Mounts : Poll(c, m))
  \/ \E c \in Requests : PromptEnds(c) \/ Takes(c) \/ (\E k \in Kinds : ReadsState(c, k))
  \/ Complete \/ Restart \/ PreferenceArrives
  \/ \E m \in Mounts : DeadlinePasses(m)
  \/ \E k \in Kinds : UserAllows(k) \/ UserForbids(k)

PermissionSpec == PermissionInit /\ [][PermissionNext]_permissionVars

-----------------------------------------------------------------------------
(* What the user allows while the slideshow watches for it is shown as     *)
(* granted or still watched for, if its probe reads the state at once:     *)
(* while other permissions are asked for and granted, polls and the        *)
(* deadline come between, the slideshow is left and reopened, and answers  *)
(* of other pages come late.  Not claimed when a second watch takes the    *)
(* place of the first, nor where the code loses it: a poll of the first    *)
(* that is under way then ends the second, a call for the same permission  *)
(* that is older than the watch shows what was, and a poll under way       *)
(* across the deadline ends the watch with what it has read.               *)
WatchedGrantsAreShown ==
  ~crossed => \A k \in due : AtOnce(k) => shown[k] = "granted" \/ hooks[mount].watched = k
=============================================================================

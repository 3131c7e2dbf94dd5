--------------------------- MODULE WakewordListener ---------------------------
(***************************************************************************)
(* Listening for the wakeword: the hook of the dashboard that opens the    *)
(* microphone (useWakewordDetection.ts, useWakewordBridgeEvents.ts), the   *)
(* bridge of the main process that owns the detection service              *)
(* (wakeword_bridge.cjs, wakeword_supervisor.cjs), and the two channels    *)
(* between them.                                                           *)
(*                                                                         *)
(* Opening the microphone awaits the device check of a missing-device lock,*)
(* getUserMedia and the audio processor; stopping it does not wait for any *)
(* of them.  The effects of a render run after the message that caused it, *)
(* and other messages get in between, but a person needs longer to turn    *)
(* the switch or the pill again.                                           *)
(***************************************************************************)
EXTENDS Naturals, Sequences

CONSTANTS
  Calls,        \* asynchronous calls of the hook that may overlap
  NoCall,
  MaxVoiceActs  \* bound: acts of the user, the devices and the service

ASSUME VoiceBounds == NoCall \notin Calls /\ MaxVoiceActs \in Nat

VARIABLES
  service,   \* the bridge: the process, and what the supervisor says of it
  pill,      \* is the chat pill shown?
  toMain, toHook,  \* messages on their way
  hook,      \* refs and state of the hook
  rendered,  \* the dependencies its effects last ran with
  calls,     \* the calls of the hook that await something
  mics, held,\* microphone streams whose tracks are live; mediaStreamRef
  device,    \* is an audio input there?
  overlapped,\* history: a device check was answered after a stop or a
             \* start that came later
  voiceActs

voiceVars == <<service, pill, toMain, toHook, hook, rendered, calls, mics, held,
               device, overlapped, voiceActs>>

-----------------------------------------------------------------------------
(* process is the detection service; heard, a detection in its pipe.       *)
Services == [process : {"none", "starting", "ready"}, enabled : BOOLEAN, heard : BOOLEAN]

(* preferred is config.wakeword_enabled; throttled, that the time is before*)
(* nextCaptureRetryAt.                                                     *)
Hooks == [preferred : BOOLEAN, suppressed : BOOLEAN, isReady : BOOLEAN,
          capturing : BOOLEAN, starting : BOOLEAN, locked : BOOLEAN,
          throttled : BOOLEAN]

(* unlock is the handler of devicechange, the rest are the awaits of       *)
(* startAudioCapture; current, that no stop and no other start came after  *)
(* it: from getUserMedia on, that it has the generation of the hook;       *)
(* listening, enabled && isReady in the closure of the handler.            *)
CallStates == [at : {"none", "unlock", "probe", "media", "node"},
               current : BOOLEAN, listening : BOOLEAN]
Idle == [at |-> "none", current |-> FALSE, listening |-> FALSE]
Awaits(where) == [Idle EXCEPT !.at = where, !.current = TRUE]

Wants(h) == h.preferred /\ ~h.suppressed
Active == Wants(hook)

Dependencies == [preferred |-> hook.preferred, active |-> Active, ready |-> hook.isReady]
Rendered == rendered = Dependencies

Acts == voiceActs < MaxVoiceActs /\ voiceActs' = voiceActs + 1

-----------------------------------------------------------------------------
(* What the hook does to its calls, its streams and its refs; h, s and m   *)
(* stand for hook, calls and the live streams.                             *)

(* A mutant: the generation is left alone.                                 *)
Stale_Kept(s) == s

Stale(s) == [c \in Calls |-> [s[c] EXCEPT !.current = FALSE]]

Stopped(h) == [h EXCEPT !.capturing = FALSE, !.starting = FALSE]
Released(m) == m \ {held}

Capture(h, s, c) ==
  [hook |-> [h EXCEPT !.starting = TRUE],
   calls |-> [Stale(s) EXCEPT ![c] = Awaits("media")]]

Refused(h) == h.capturing \/ h.starting \/ h.throttled

(* startAudioCapture up to its first await.                                *)
Start(h, s, c) ==
  CASE Refused(h) -> [hook |-> h, calls |-> s]
    [] ~Refused(h) /\ h.locked -> [hook |-> h, calls |-> [s EXCEPT ![c] = Awaits("probe")]]
    [] OTHER -> Capture(h, s, c)

Unlocked(h) == [h EXCEPT !.locked = FALSE, !.throttled = FALSE]

-----------------------------------------------------------------------------
(* The effects of a render: the cleanup stops the capture, then the switch *)
(* is told to the bridge and the capture starts.                           *)

Effects ==
  /\ ~Rendered
  /\ rendered' = Dependencies
  /\ \E c \in Calls :
       LET stopped == Stopped(IF rendered.preferred /\ ~hook.preferred
                              THEN Unlocked(hook) ELSE hook)
           starts  == IF Active /\ hook.isReady THEN Start(stopped, Stale(calls), c)
                      ELSE [hook |-> stopped, calls |-> Stale(calls)]
       IN  /\ calls[c].at = "none" /\ c \notin Released(mics)
           /\ hook' = starts.hook
           /\ calls' = starts.calls
  /\ toMain' = IF Active THEN Append(toMain, "enable")
               ELSE IF hook.isReady THEN Append(toMain, "disable") ELSE toMain
  /\ mics' = Released(mics)
  /\ held' = NoCall
  /\ UNCHANGED <<service, pill, toHook, device, overlapped, voiceActs>>

(* enumerateDevices answers.                                               *)
Probed(c) ==
  /\ calls[c].at \in {"probe", "unlock"}
  /\ LET answered == [calls EXCEPT ![c] = Idle]
         freed    == Unlocked(hook)
         goesOn   == IF calls[c].at = "probe" THEN Capture(freed, answered, c)
                     ELSE IF calls[c].listening THEN Start(freed, answered, c)
                     ELSE [hook |-> freed, calls |-> answered]
     IN  IF device \/ ~hook.locked
         THEN /\ hook' = goesOn.hook
              /\ calls' = goesOn.calls
              /\ overlapped' = (overlapped \/ ~calls[c].current)
         ELSE /\ hook' = [hook EXCEPT !.throttled = TRUE]
              /\ calls' = answered
              /\ UNCHANGED overlapped
  /\ UNCHANGED <<service, pill, toMain, toHook, rendered, mics, held, device, voiceActs>>

(* getUserMedia answers: without a device, or for another reason, it fails.*)
Opened(c) ==
  /\ calls[c].at = "media" /\ device
  /\ IF calls[c].current
     THEN /\ mics' = mics \union {c}
          /\ held' = c
          /\ calls' = [calls EXCEPT ![c].at = "node"]
     ELSE /\ calls' = [calls EXCEPT ![c] = Idle]
          /\ UNCHANGED <<mics, held>>
  /\ UNCHANGED <<service, pill, toMain, toHook, hook, rendered, device, overlapped,
                 voiceActs>>

Fails(c) ==
  /\ calls[c].at \in {"media", "node"}
  /\ device => Acts
  /\ ~device => UNCHANGED voiceActs
  /\ calls' = [calls EXCEPT ![c] = Idle]
  /\ hook' = IF calls[c].current
             THEN [Stopped(hook) EXCEPT
                     !.throttled = TRUE,
                     !.locked = hook.locked \/ (calls[c].at = "media" /\ ~device)]
             ELSE hook
  /\ UNCHANGED <<service, pill, toMain, toHook, rendered, mics, held, device, overlapped>>

(* createAudioCaptureProcessorNode answers.                                *)
Wired(c) ==
  /\ calls[c].at = "node"
  /\ calls' = [calls EXCEPT ![c] = Idle]
  /\ IF calls[c].current
     THEN /\ hook' = [hook EXCEPT !.capturing = TRUE, !.starting = FALSE,
                                  !.throttled = FALSE]
          /\ UNCHANGED mics
     ELSE /\ mics' = mics \ {c}
          /\ UNCHANGED hook
  /\ UNCHANGED <<service, pill, toMain, toHook, rendered, held, device, overlapped,
                 voiceActs>>

-----------------------------------------------------------------------------
(* The hook hears from the main process.                                   *)

Toggles == {"suppress", "resume"}

(* A detection that is accepted disables the service and shows the pill;   *)
(* one within the cooldown is dropped.                                     *)
OnStatus(ready) ==
  /\ hook' = [hook EXCEPT !.isReady = ready]
  /\ UNCHANGED toMain
OnDetected ==
  /\ \/ toMain' = toMain \o <<"disable", "show">>
     \/ UNCHANGED toMain
  /\ UNCHANGED hook
OnToggle(suppressed) ==
  /\ Rendered
  /\ hook' = [hook EXCEPT !.suppressed = suppressed]
  /\ UNCHANGED toMain

HookReceives ==
  /\ toHook # <<>>
  /\ toHook' = Tail(toHook)
  /\ CASE Head(toHook) = "ready"    -> OnStatus(TRUE)
       [] Head(toHook) = "notReady" -> OnStatus(FALSE)
       [] Head(toHook) = "detected" -> OnDetected
       [] OTHER                     -> OnToggle(Head(toHook) = "suppress")
  /\ UNCHANGED <<service, pill, rendered, calls, mics, held, device, overlapped, voiceActs>>

(* The devicechange event.                                                 *)
DeviceChanges ==
  /\ Acts
  /\ device' = ~device
  /\ IF hook.locked
     THEN \E c \in Calls :
            /\ calls[c].at = "none" /\ c \notin mics
            /\ calls' = [calls EXCEPT ![c] =
                 [Awaits("unlock") EXCEPT !.listening = rendered.active /\ rendered.ready]]
     ELSE UNCHANGED calls
  /\ UNCHANGED <<service, pill, toMain, toHook, hook, rendered, mics, held, overlapped>>

(* setWakewordEnabled, in the settings.                                    *)
SetPreference ==
  /\ Acts /\ Rendered
  /\ hook' = [hook EXCEPT !.preferred = ~hook.preferred]
  /\ UNCHANGED <<service, pill, toMain, toHook, rendered, calls, mics, held, device,
                 overlapped>>

(* The retry delay of a failed start is over.                              *)
RetryAllowed ==
  /\ hook.throttled
  /\ hook' = [hook EXCEPT !.throttled = FALSE]
  /\ UNCHANGED <<service, pill, toMain, toHook, rendered, calls, mics, held, device,
                 overlapped, voiceActs>>

-----------------------------------------------------------------------------
(* The bridge.                                                             *)

Bridging == UNCHANGED <<hook, rendered, calls, mics, held, device, overlapped>>

ShowsPill(shown, also) ==
  /\ pill' = shown
  /\ toHook' = toHook \o <<IF shown THEN "suppress" ELSE "resume">> \o also

OnEnable ==
  /\ service' = [service EXCEPT !.enabled = TRUE,
                                !.process = IF @ = "none" THEN "starting" ELSE @]
  /\ toHook' = IF service.process = "ready" THEN Append(toHook, "ready") ELSE toHook
  /\ UNCHANGED pill

OnDisable == service' = [service EXCEPT !.enabled = FALSE] /\ UNCHANGED <<toHook, pill>>

BridgeReceives ==
  /\ toMain # <<>>
  /\ toMain' = Tail(toMain)
  /\ CASE Head(toMain) = "enable"  -> OnEnable
       [] Head(toMain) = "disable" -> OnDisable
       [] OTHER                    -> ShowsPill(TRUE, <<>>) /\ UNCHANGED service
  /\ Bridging /\ UNCHANGED voiceActs

(* Loading the model takes longer than messages and renders do.            *)
ServiceReady ==
  /\ service.process = "starting"
  /\ toMain = <<>> /\ toHook = <<>> /\ Rendered
  /\ service' = [service EXCEPT !.process = "ready"]
  /\ toHook' = Append(toHook, "ready")
  /\ Bridging /\ UNCHANGED <<pill, toMain, voiceActs>>

(* A mutant: the end of the process is not announced.                      *)
ServiceExits_Unannounced ==
  /\ Acts /\ service.process # "none"
  /\ service' = [service EXCEPT !.process = "none", !.heard = FALSE]
  /\ Bridging /\ UNCHANGED <<pill, toMain, toHook>>

(* The process ends, whatever it was doing.                                *)
ServiceExits ==
  /\ Acts /\ service.process # "none"
  /\ service' = [service EXCEPT !.process = "none", !.heard = FALSE]
  /\ toHook' = Append(toHook, "notReady")
  /\ Bridging /\ UNCHANGED <<pill, toMain>>

(* The service hears the wakeword in chunks forwarded to it.               *)
ServiceHears ==
  /\ Acts
  /\ hook.capturing /\ held \in mics
  /\ service.process = "ready" /\ service.enabled
  /\ service' = [service EXCEPT !.heard = TRUE]
  /\ Bridging /\ UNCHANGED <<pill, toMain, toHook>>

(* processDetectionResults.                                                *)
Detection ==
  /\ service.heard
  /\ service' = [service EXCEPT !.heard = FALSE]
  /\ IF service.enabled THEN ShowsPill(TRUE, <<"detected">>) ELSE UNCHANGED <<toHook, pill>>
  /\ Bridging /\ UNCHANGED <<toMain, voiceActs>>

(* The user shows or hides the pill.                                       *)
UserTogglesPill ==
  /\ Acts
  /\ ShowsPill(~pill, <<>>)
  /\ Bridging /\ UNCHANGED <<service, toMain>>

-----------------------------------------------------------------------------
ListenerInit ==
  /\ service = [process |-> "none", enabled |-> TRUE, heard |-> FALSE]
  /\ pill = FALSE
  /\ toMain = <<>> /\ toHook = <<>>
  /\ hook = [preferred |-> TRUE, suppressed |-> FALSE, isReady |-> FALSE,
             capturing |-> FALSE, starting |-> FALSE, locked |-> FALSE,
             throttled |-> FALSE]
  /\ rendered = [preferred |-> FALSE, active |-> FALSE, ready |-> FALSE]
  /\ calls = [c \in Calls |-> Idle]
  /\ mics = {} /\ held = NoCall
  /\ device \in BOOLEAN
  /\ overlapped = FALSE
  /\ voiceActs = 0

ListenerNext ==
  \/ Effects \/ HookReceives \/ DeviceChanges \/ SetPreference \/ RetryAllowed
  \/ \E c \in Calls : Probed(c) \/ Opened(c) \/ Fails(c) \/ Wired(c)
  \/ BridgeReceives \/ ServiceReady \/ ServiceExits \/ ServiceHears
  \/ Detection \/ UserTogglesPill

ListenerSpec == ListenerInit /\ [][ListenerNext]_voiceVars

-----------------------------------------------------------------------------
ListenerTypeOK ==
  /\ service \in Services /\ pill \in BOOLEAN
  /\ toMain \in Seq({"enable", "disable", "show"})
  /\ toHook \in Seq({"ready", "notReady", "detected"} \union Toggles)
  /\ hook \in Hooks
  /\ rendered \in [preferred : BOOLEAN, active : BOOLEAN, ready : BOOLEAN]
  /\ calls \in [Calls -> CallStates]
  /\ mics \subseteq Calls /\ held \in Calls \union {NoCall}
  /\ device \in BOOLEAN /\ overlapped \in BOOLEAN
  /\ voiceActs \in 0..MaxVoiceActs

Settled ==
  /\ Rendered /\ toMain = <<>> /\ toHook = <<>>
  /\ service.process # "starting"

(* When nothing is on its way, the service is enabled exactly when the user*)
(* wants it and no pill is shown, as long as the hook takes it for ready,  *)
(* and the hook takes a running service for ready when it is wanted.       *)
(* Enabling, disabling, the pill, an exit and a detection all meet here.   *)
SwitchReachesTheService ==
  Settled =>
    /\ hook.suppressed = pill
    /\ hook.isReady => service.process = "ready" /\ service.enabled = Active
    /\ Active /\ service.process = "ready" => hook.isReady

(* A microphone is open only while the wakeword is wanted and the service  *)
(* ready, and only the one the hook can stop: a start that is overtaken by *)
(* a stop, or by another start, closes what it opened.  The code breaks it:*)
(* the check of the missing-device lock comes before a start has its       *)
(* generation.                                                             *)
MicrophoneFollowsTheSwitch ==
  Rendered =>
    /\ mics \subseteq {held}
    /\ mics # {} => Active /\ hook.isReady

(* It does hold as long as nothing overtakes a device check: getUserMedia  *)
(* and the audio processor may answer as late as they like.                *)
OvertakenStartsCloseTheMicrophone == ~overlapped => MicrophoneFollowsTheSwitch
=============================================================================

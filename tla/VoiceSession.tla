----------------------------- MODULE VoiceSession -----------------------------
(***************************************************************************)
(* Dictation in a composer (useVoiceMode.ts): a socket to the backend's    *)
(* transcription gateway that is reconnected with a growing delay, and a   *)
(* microphone that is opened once the socket is.                           *)
(*                                                                         *)
(* The effects of a render run later than the event that caused it.  A     *)
(* socket that is closed while it connects fails at once; a later socket   *)
(* needs a round trip to open.                                             *)
(***************************************************************************)
EXTENDS Naturals

CONSTANTS
  Gateways,       \* sockets the hook may create
  NoGateway,
  Captures,       \* calls of startAudioCapture that may overlap
  NoCapture,
  MaxReconnects,  \* MAX_RECONNECT_ATTEMPTS
  MaxSessionActs  \* bound: acts of the user and failures

ASSUME DictationBounds ==
  /\ NoGateway \notin Gateways /\ NoCapture \notin Captures
  /\ MaxReconnects \in Nat /\ MaxSessionActs \in Nat

VARIABLES
  session,     \* the state of the hook: see Sessions
  settled,     \* the dependencies its effects last ran with
  websocketRef,
  gateways,    \* what has become of each socket
  timer,       \* is the reconnect timer running?
  captures,    \* where each call of startAudioCapture is suspended
  streams,     \* the microphone streams whose tracks are live
  mediaStreamRef,
  overrun,     \* history: a capture was still starting when it was stopped or
               \* when another one started
  sessionActs

dictationVars == <<session, settled, websocketRef, gateways, timer, captures, streams,
                 mediaStreamRef, overrun, sessionActs>>

-----------------------------------------------------------------------------
(* attempts is reconnectAttemptsRef.                                       *)
Sessions == [enabled : BOOLEAN, isConnected : BOOLEAN, isRecording : BOOLEAN,
             attempts : 0..MaxReconnects]

(* An aborted socket was closed before it opened.                          *)
GatewayStates == {"none", "connecting", "aborted", "open", "closing"}

Props == [enabled |-> session.enabled, connected |-> session.isConnected,
          recording |-> session.isRecording]
EffectsRan == settled = Props

Starting == \E c \in Captures : captures[c] # "none"
Disturb == sessionActs < MaxSessionActs /\ sessionActs' = sessionActs + 1

CapturesRest == UNCHANGED <<captures, streams, mediaStreamRef, overrun>>
SocketsRest == UNCHANGED <<websocketRef, gateways, timer>>

-----------------------------------------------------------------------------
(* connectWebSocket: unless the socket is open, a new one takes its place. *)
Connects(timed) ==
  /\ timer' = timed
  /\ IF websocketRef \in Gateways /\ gateways[websocketRef] = "open"
     THEN UNCHANGED <<websocketRef, gateways>>
     ELSE \E g \in Gateways :
            /\ gateways[g] = "none"
            /\ websocketRef' = g
            /\ gateways' = [gateways EXCEPT ![g] = "connecting"]

(* disconnectWebSocket.                                                    *)
Disconnects ==
  /\ timer' = FALSE
  /\ websocketRef' = NoGateway
  /\ gateways' = [g \in Gateways |->
       CASE g # websocketRef -> gateways[g]
         [] gateways[g] = "connecting" -> "aborted"
         [] gateways[g] = "open" -> "closing"
         [] OTHER -> gateways[g]]

(* stopAudioCapture returns early unless it is recording.                  *)
Stops ==
  /\ streams' = IF session.isRecording THEN streams \ {mediaStreamRef} ELSE streams
  /\ mediaStreamRef' = IF session.isRecording THEN NoCapture ELSE mediaStreamRef
  /\ overrun' = (overrun \/ Starting)
  /\ UNCHANGED captures

(* startAudioCapture up to getUserMedia.                                   *)
Starts ==
  /\ \E c \in Captures :
       /\ captures[c] = "none" /\ c \notin streams
       /\ captures' = [captures EXCEPT ![c] = "media"]
  /\ overrun' = (overrun \/ Starting)
  /\ UNCHANGED <<streams, mediaStreamRef>>

(* The effects of a render.                                                *)
SessionEffects ==
  /\ ~EffectsRan
  /\ settled' = Props
  /\ CASE session.enabled /\ ~settled.enabled ->
            Connects(FALSE) /\ CapturesRest /\ UNCHANGED session
       [] ~session.enabled /\ settled.enabled ->
            /\ Disconnects /\ Stops
            /\ session' = [session EXCEPT !.isConnected = FALSE, !.isRecording = FALSE]
       [] session.enabled /\ settled.enabled /\ session.isConnected /\ ~session.isRecording ->
            Starts /\ SocketsRest /\ UNCHANGED session
       [] OTHER -> SocketsRest /\ CapturesRest /\ UNCHANGED session
  /\ UNCHANGED sessionActs

-----------------------------------------------------------------------------
(* The events of the sockets.                                              *)

Opens(g) ==
  /\ gateways[g] = "connecting"
  /\ \A other \in Gateways : gateways[other] # "aborted"
  /\ gateways' = [gateways EXCEPT ![g] = "open"]
  /\ session' = [session EXCEPT !.isConnected = TRUE, !.attempts = 0]
  /\ timer' = FALSE
  /\ CapturesRest /\ UNCHANGED <<settled, websocketRef, sessionActs>>

(* onclose, preceded by onerror when the connection was never made.  The   *)
(* one of a socket the hook has let go of schedules nothing.               *)
Reconnects(lost) ==
  IF settled.enabled /\ session.attempts < MaxReconnects
  THEN /\ timer' = TRUE
       /\ session' = [lost EXCEPT !.attempts = @ + 1]
  ELSE session' = lost /\ UNCHANGED timer

(* A mutant: the socket is not compared with the current one.              *)
OnClose_AnySocket(g) ==
  Reconnects([session EXCEPT !.isConnected = FALSE])

OnClose(g) ==
  LET lost == [session EXCEPT !.isConnected = FALSE]
  IN  IF g = websocketRef THEN Reconnects(lost)
      ELSE /\ session' = IF gateways[g] = "aborted" THEN lost ELSE session
           /\ UNCHANGED timer

Closes(g) ==
  /\ \/ gateways[g] \in {"aborted", "closing"} /\ UNCHANGED sessionActs
     \/ gateways[g] \in {"connecting", "open"} /\ Disturb
  /\ gateways' = [gateways EXCEPT ![g] = "none"]
  /\ OnClose(g)
  /\ CapturesRest /\ UNCHANGED <<settled, websocketRef>>

ReconnectTimerFires ==
  /\ timer
  /\ IF settled.enabled THEN Connects(FALSE)
     ELSE timer' = FALSE /\ UNCHANGED <<websocketRef, gateways>>
  /\ CapturesRest /\ UNCHANGED <<session, settled, sessionActs>>

(* The user turns dictation on or off; the gateway reports the end of the  *)
(* utterance on the socket.                                                *)
ToggleSession ==
  /\ Disturb
  /\ session' = [session EXCEPT !.enabled = ~session.enabled]
  /\ SocketsRest /\ CapturesRest /\ UNCHANGED settled

UtteranceEnds ==
  /\ \E g \in Gateways : gateways[g] = "open"
  /\ session.enabled
  /\ session' = [session EXCEPT !.enabled = FALSE]
  /\ SocketsRest /\ CapturesRest /\ UNCHANGED <<settled, sessionActs>>

-----------------------------------------------------------------------------
(* The awaits of startAudioCapture.                                        *)

MicrophoneOpens(c) ==
  /\ captures[c] = "media"
  /\ captures' = [captures EXCEPT ![c] = "node"]
  /\ streams' = streams \union {c}
  /\ mediaStreamRef' = c
  /\ SocketsRest /\ UNCHANGED <<session, settled, overrun, sessionActs>>

ProcessorReady(c) ==
  /\ captures[c] = "node"
  /\ captures' = [captures EXCEPT ![c] = "none"]
  /\ session' = [session EXCEPT !.isRecording = TRUE]
  /\ SocketsRest /\ UNCHANGED <<settled, streams, mediaStreamRef, overrun, sessionActs>>

(* getUserMedia rejects: the error is shown, and nothing tries again. What *)
(* follows does not fail: a worklet that does not load has a fallback.     *)
CaptureFails(c) ==
  /\ Disturb
  /\ captures[c] = "media"
  /\ captures' = [captures EXCEPT ![c] = "none"]
  /\ session' = [session EXCEPT !.isRecording = FALSE]
  /\ SocketsRest /\ UNCHANGED <<settled, streams, mediaStreamRef, overrun>>

-----------------------------------------------------------------------------
DictationInit ==
  /\ session = [enabled |-> FALSE, isConnected |-> FALSE, isRecording |-> FALSE,
                attempts |-> 0]
  /\ settled = Props
  /\ websocketRef = NoGateway
  /\ gateways = [g \in Gateways |-> "none"]
  /\ timer = FALSE
  /\ captures = [c \in Captures |-> "none"]
  /\ streams = {} /\ mediaStreamRef = NoCapture
  /\ overrun = FALSE
  /\ sessionActs = 0

DictationNext ==
  \/ SessionEffects \/ ReconnectTimerFires \/ ToggleSession \/ UtteranceEnds
  \/ \E g \in Gateways : Opens(g) \/ Closes(g)
  \/ \E c \in Captures : MicrophoneOpens(c) \/ ProcessorReady(c) \/ CaptureFails(c)

DictationSpec == DictationInit /\ [][DictationNext]_dictationVars

-----------------------------------------------------------------------------
DictationTypeOK ==
  /\ session \in Sessions
  /\ settled \in [enabled : BOOLEAN, connected : BOOLEAN, recording : BOOLEAN]
  /\ websocketRef \in Gateways \union {NoGateway}
  /\ gateways \in [Gateways -> GatewayStates]
  /\ timer \in BOOLEAN /\ overrun \in BOOLEAN
  /\ captures \in [Captures -> {"none", "media", "node"}]
  /\ streams \subseteq Captures /\ mediaStreamRef \in Captures \union {NoCapture}
  /\ sessionActs \in 0..MaxSessionActs

Live(g) == g \in Gateways /\ gateways[g] \in {"connecting", "open"}

(* While dictation is on there is one socket, or the timer that will make  *)
(* one, or the attempts are used up; and the hook knows an open socket for *)
(* one, whatever the sockets before it still report.                       *)
SessionIsPursued ==
  /\ Live(websocketRef) \/ timer \/ session.attempts = MaxReconnects
  /\ session.isConnected <=> \E g \in Gateways : gateways[g] = "open"

(* While it is off no socket is live and no timer runs.                    *)
SessionIsSilent == ~timer /\ \A g \in Gateways : ~Live(g)

SocketFollowsTheSwitch ==
  /\ {g \in Gateways : Live(g)} \subseteq {websocketRef}
  /\ IF session.enabled THEN SessionIsPursued ELSE SessionIsSilent

(* The microphone is open only while dictation is on, and only the one the *)
(* hook can close, unless it was stopped, or started again, while it was   *)
(* still being opened: then nothing closes it.                             *)
CaptureFollowsTheSwitch ==
  /\ streams \subseteq {mediaStreamRef}
  /\ streams # {} => session.enabled

(* Once the effects of a render have run, the socket and the microphone    *)
(* are what the switch asks for, whatever late events of earlier sockets   *)
(* and timers come in between.                                             *)
DictationFollowsTheSwitch ==
  EffectsRan => SocketFollowsTheSwitch /\ (overrun \/ CaptureFollowsTheSwitch)
=============================================================================

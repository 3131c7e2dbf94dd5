---------------------------- MODULE TurnLifecycle ----------------------------
(***************************************************************************)
(* Is the composer of a chat surface locked?  The hooks that project what  *)
(* the chat store shows of a turn and the state of the backend link onto   *)
(* the lifecycle of the current turn (useChatLoopUiState.js,               *)
(* useOverlayTurnLifecycle.js), with the watchdog that unlocks a surface   *)
(* whose turn went down with the link.                                     *)
(*                                                                         *)
(* A reducer step is taken where it is dispatched; the effects of a render *)
(* run later, and other events get in between.  They have run, however,    *)
(* before a reconnect, which takes at least the reconnect delay, is        *)
(* reported.                                                               *)
(***************************************************************************)
EXTENDS Naturals, Sequences

CONSTANTS
  MaxLosses,  \* bound: losses of the link
  MaxSteps    \* bound: changes of what the store shows

ASSUME LifecycleBounds == MaxLosses \in Nat /\ MaxSteps \in Nat

VARIABLES
  shown,       \* what the store shows of the turn: the snapshot
  machine,     \* the state of the reducer
  committed,   \* the dependencies the effects last ran with
  watchdog,    \* is the timer of the watchdog running?
  linkUp, mail,\* the link, and the reports of it on their way
  turnOpen,    \* does the backend work on a turn?
  orphaned,    \* history: the turn shown was lost with the link
  losses, steps

lifecycleVars == <<shown, machine, committed, watchdog, linkUp, mail, turnOpen,
                   orphaned, losses, steps>>

-----------------------------------------------------------------------------
ShownPhases == {"idle", "awaiting-first-chunk", "streaming", "tool-call", "complete"}
Signatures  == [phase : ShownPhases, sending : BOOLEAN, reply : BOOLEAN]
NoSignature == [phase |-> "none", sending |-> FALSE, reply |-> FALSE]

(* useReducer's state; signatures are null before the first effect.        *)
Machines == [connected : BOOLEAN, forceIdle : BOOLEAN, armed : BOOLEAN,
             pending : BOOLEAN, before : Signatures \union {NoSignature},
             current : Signatures \union {NoSignature}]

Quiet == [phase |-> "idle", sending |-> FALSE, reply |-> FALSE]

Fresh == [connected |-> TRUE, forceIdle |-> FALSE, armed |-> FALSE,
          pending |-> FALSE, before |-> NoSignature, current |-> NoSignature]

(* resolveOverlayTurnLifecycle and isOverlayTurnLifecycleBusy over a link  *)
(* that counts as connected.                                               *)
BusyLifecycle(s) ==
  \/ s.phase \in {"awaiting-first-chunk", "streaming", "tool-call"}
  \/ s.sending /\ (s.phase = "idle" \/ ~s.reply)

(* isPresentationTransportConnected, and the lock of the composer.         *)
PresentsLink == machine.connected /\ ~machine.forceIdle
Locked == PresentsLink /\ BusyLifecycle(shown)

-----------------------------------------------------------------------------
(* The reducer.                                                            *)

OnDisconnect(m) ==
  [m EXCEPT !.connected = FALSE, !.forceIdle = FALSE, !.armed = FALSE,
            !.pending = TRUE, !.before = m.current]

OnReconnect_Unarmed(m) ==
  [m EXCEPT !.connected = TRUE, !.forceIdle = FALSE, !.pending = FALSE]
OnReconnect(m) ==
  IF m.pending
  THEN [m EXCEPT !.connected = TRUE, !.forceIdle = FALSE, !.armed = TRUE, !.pending = FALSE]
  ELSE [m EXCEPT !.connected = TRUE]

OnTimeout(m) ==
  IF m.armed
  THEN [m EXCEPT !.forceIdle = TRUE, !.armed = FALSE, !.before = NoSignature]
  ELSE m

OnSnapshot(m, s) ==
  LET progress == m.armed /\ m.before # NoSignature /\ s # m.before
      keep     == m.armed /\ BusyLifecycle(s) /\ ~progress
  IN [m EXCEPT !.current = s,
               !.forceIdle = @ /\ BusyLifecycle(s) /\ s = m.current,
               !.armed = keep,
               !.before = IF keep THEN @ ELSE NoSignature]

-----------------------------------------------------------------------------
(* The hook: its subscription, its effects and its timer.                  *)

Dependencies == [busy |-> BusyLifecycle(shown), connected |-> machine.connected,
                 signature |-> shown, armed |-> machine.armed]

Settled == committed = Dependencies

(* ipc-status, and the answer of get-client-user-id at the start.          *)
HearStatus ==
  /\ mail # <<>>
  /\ Head(mail) => Settled
  /\ machine' = IF Head(mail) THEN OnReconnect(machine) ELSE OnDisconnect(machine)
  /\ mail' = Tail(mail)
  /\ UNCHANGED <<shown, committed, watchdog, linkUp, turnOpen, orphaned, losses, steps>>

Same(fields) == \A f \in fields : Dependencies[f] = committed[f]

RunEffects ==
  /\ ~Settled
  /\ committed' = Dependencies
  /\ machine' = IF Same({"busy", "connected", "signature"})
                THEN machine ELSE OnSnapshot(machine, shown)
  /\ watchdog' = IF Same({"busy", "armed"})
                 THEN watchdog ELSE machine.armed /\ BusyLifecycle(shown)
  /\ UNCHANGED <<shown, linkUp, mail, turnOpen, orphaned, losses, steps>>

WatchdogFires ==
  /\ watchdog
  /\ watchdog' = FALSE
  /\ machine' = OnTimeout(machine)
  /\ UNCHANGED <<shown, committed, linkUp, mail, turnOpen, orphaned, losses, steps>>

-----------------------------------------------------------------------------
(* The chat store (see ChatStream) and the link (see BackendConnection).   *)

Shown(s) ==
  /\ steps < MaxSteps
  /\ steps' = steps + 1
  /\ shown' = s
  /\ UNCHANGED <<machine, committed, watchdog, linkUp, mail, losses>>

(* A send of this window, which waits for the link and may fail, and a     *)
(* query of another one, which goes out over a link that is up.            *)
UserSends ==
  /\ ~Locked /\ ~(shown.sending /\ ~orphaned)
  /\ Shown([shown EXCEPT !.sending = TRUE, !.reply = FALSE])
  /\ orphaned' = FALSE /\ turnOpen' = FALSE

SendReaches ==
  /\ linkUp /\ shown.sending /\ ~turnOpen /\ ~orphaned
  /\ turnOpen' = TRUE
  /\ UNCHANGED <<shown, machine, committed, watchdog, linkUp, mail, orphaned,
                 losses, steps>>

SendFails ==
  /\ shown.sending /\ ~turnOpen /\ ~orphaned
  /\ Shown([shown EXCEPT !.sending = FALSE, !.reply = TRUE])
  /\ UNCHANGED <<turnOpen, orphaned>>

OtherWindowSends ==
  /\ linkUp
  /\ Shown([phase |-> "awaiting-first-chunk", sending |-> TRUE, reply |-> FALSE])
  /\ turnOpen' = TRUE /\ orphaned' = FALSE

(* A chunk, a tool row and the end of the turn.                            *)
TurnShows ==
  /\ linkUp /\ turnOpen
  /\ \/ /\ Shown([phase |-> "streaming", sending |-> FALSE, reply |-> TRUE])
        /\ UNCHANGED turnOpen
     \/ /\ Shown([shown EXCEPT !.phase = "tool-call", !.sending = FALSE])
        /\ UNCHANGED turnOpen
     \/ /\ Shown([shown EXCEPT !.phase = "complete", !.sending = FALSE])
        /\ turnOpen' = FALSE
  /\ UNCHANGED orphaned

LinkLost ==
  /\ linkUp /\ losses < MaxLosses
  /\ linkUp' = FALSE
  /\ losses' = losses + 1
  /\ mail' = Append(mail, FALSE)
  /\ orphaned' = (orphaned \/ turnOpen)
  /\ turnOpen' = FALSE
  /\ UNCHANGED <<shown, machine, committed, watchdog, steps>>

LinkBack ==
  /\ ~linkUp
  /\ linkUp' = TRUE
  /\ mail' = Append(mail, TRUE)
  /\ UNCHANGED <<shown, machine, committed, watchdog, turnOpen, orphaned,
                 losses, steps>>

-----------------------------------------------------------------------------
LifecycleInit ==
  /\ shown = Quiet
  /\ machine = Fresh
  /\ committed = [busy |-> FALSE, connected |-> TRUE, signature |-> NoSignature, armed |-> FALSE]
  /\ watchdog = FALSE
  /\ linkUp \in BOOLEAN
  /\ mail = <<linkUp>>
  /\ turnOpen = FALSE /\ orphaned = FALSE
  /\ losses = 0 /\ steps = 0

LifecycleNext ==
  \/ HearStatus \/ RunEffects \/ WatchdogFires
  \/ UserSends \/ SendReaches \/ SendFails \/ OtherWindowSends \/ TurnShows
  \/ LinkLost \/ LinkBack

LifecycleSpec == LifecycleInit /\ [][LifecycleNext]_lifecycleVars

(* Messages arrive, React runs effects and the timer of the watchdog ends. *)
LifecycleFairness ==
  /\ WF_lifecycleVars(HearStatus)
  /\ WF_lifecycleVars(RunEffects)
  /\ WF_lifecycleVars(WatchdogFires)

-----------------------------------------------------------------------------
LifecycleTypeOK ==
  /\ shown \in Signatures
  /\ machine \in Machines
  /\ committed \in [busy : BOOLEAN, connected : BOOLEAN,
                    signature : Signatures \union {NoSignature}, armed : BOOLEAN]
  /\ watchdog \in BOOLEAN
  /\ linkUp \in BOOLEAN /\ mail \in Seq(BOOLEAN)
  /\ turnOpen \in BOOLEAN /\ orphaned \in BOOLEAN
  /\ losses \in 0..MaxLosses /\ steps \in 0..MaxSteps

(* A turn that went down with the link does not lock its surface for ever: *)
(* no event will end it, so the reconnect must arm the watchdog, and       *)
(* nothing short of a new turn may disarm it before it has unlocked.       *)
OrphansUnlock == Locked /\ orphaned ~> ~(Locked /\ orphaned)
=============================================================================

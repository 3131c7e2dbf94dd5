----------------------------- MODULE StopShortcut -----------------------------
(***************************************************************************)
(* The global shortcut that stops the agent: main registers it with the    *)
(* system while a loop is active (agent_stop_shortcut_runtime.cjs), tries  *)
(* the other shortcuts of the catalog when the one it wants is taken, and  *)
(* reports to the dashboard, which shows the shortcut of its settings and  *)
(* takes over a fallback (AppConfigProvider.jsx).  Main keeps the settings *)
(* in latestFrontendConfig and on disk (ipc.cjs).                          *)
(*                                                                         *)
(* Of the settings only this shortcut is kept; saves of main end in the    *)
(* order they began (ConfigSync has saves that overlap) and messages       *)
(* arrive in order.  The system is external: other programs take shortcuts *)
(* and give them back.                                                     *)
(***************************************************************************)
EXTENDS Naturals, Sequences, SequencesExt

CONSTANTS
  Catalog,  \* the supported shortcuts, the default of the platform first
  NoKey,
  NoStatus,
  MaxShortcutActs  \* bound: choices, loops, programs and restarts

Accelerators == Range(Catalog)
Default == Catalog[1]

Statuses == [requested : Accelerators, resolved : Accelerators, failed : BOOLEAN]

ASSUME ShortcutAssumption ==
  /\ Catalog \in Seq(Accelerators) /\ Catalog # << >>
  /\ NoKey \notin Accelerators /\ NoStatus \notin Statuses
  /\ MaxShortcutActs \in Nat

VARIABLES
  runtime,   \* the shortcut runtime, and whether the phase is that of a loop
  others,    \* shortcuts other programs have registered
  told,      \* currentGlobalAgentStopShortcutStatus
  latest,    \* the shortcut in latestFrontendConfig
  disk,      \* the shortcut in the config file
  writes,    \* saves of main under way
  toWindow,  \* reports and answers on their way to the dashboard
  asked,    \* requests of the dashboard on their way to main
  window,    \* the shortcut of the dashboard's settings, and the status it shows
  chosen,    \* history: what the user chose last
  blocked,   \* history: a shortcut could not be registered
  shortcutActs

shortcutVars == <<runtime, others, told, latest, disk, writes, toWindow, asked,
                  window, chosen, blocked, shortcutActs>>

Runtimes == [enabled : BOOLEAN, held : Accelerators \union {NoKey},
             requested : Accelerators, resolved : Accelerators, failed : BOOLEAN,
             last : Statuses \union {NoStatus}, report : Statuses \union {NoStatus},
             tripped : BOOLEAN]

ShortcutTypeOK ==
  /\ runtime \in Runtimes /\ runtime.report = NoStatus
  /\ others \subseteq Accelerators \ {runtime.held}
  /\ told \in Statuses
  /\ latest \in Accelerators \union {NoKey} /\ disk \in Accelerators
  /\ window.shortcut \in Accelerators /\ window.status \in Statuses \union {NoStatus}
  /\ chosen \in Accelerators

(* The start is over: the config of the disk has arrived.  Users, loops    *)
(* and other programs take longer than that.                               *)
Loaded ==
  /\ \A i \in 1 .. Len(asked) : asked[i].kind # "load"
  /\ \A i \in 1 .. Len(toWindow) : "config" \notin DOMAIN toWindow[i]

ShortcutAct == Loaded /\ shortcutActs < MaxShortcutActs /\ shortcutActs' = shortcutActs + 1

-----------------------------------------------------------------------------
(* The runtime.  report is what one call reports, tripped whether a        *)
(* shortcut it asked for was taken.                                        *)

StatusOf(r) == [requested |-> r.requested, resolved |-> r.resolved, failed |-> r.failed]
UsingFallback(s) == ~s.failed /\ s.resolved # s.requested

(* emitStatusChange                                                        *)
Emit(r) ==
  IF StatusOf(r) = r.last THEN r
  ELSE [r EXCEPT !.last = StatusOf(r), !.report = StatusOf(r)]

Free == Accelerators \ others

(* The first free one of buildRegistrationCandidates: what is requested,   *)
(* then the catalog in its order.                                          *)
Candidate(r) ==
  IF r.requested \in Free THEN r.requested
  ELSE Catalog[Min({i \in DOMAIN Catalog : Catalog[i] \in Free})]

Unregister(r) == Emit([r EXCEPT !.held = NoKey])

(* A shortcut nobody else has registered can be registered.                *)
EnsureRegistered(r) ==
  LET tries == [r EXCEPT !.tripped = @ \/ r.requested \in others]
  IN  IF r.held # NoKey THEN r
      ELSE IF Free = {}
      THEN Emit([tries EXCEPT !.resolved = r.requested, !.failed = TRUE])
      ELSE Emit([tries EXCEPT !.held = Candidate(r), !.resolved = Candidate(r),
                              !.failed = FALSE])

SetEnabled(r, enabled) ==
  IF enabled THEN EnsureRegistered([r EXCEPT !.enabled = TRUE])
  ELSE Unregister([r EXCEPT !.enabled = FALSE])

(* setAccelerator, which goes back to a shortcut that worked if none is    *)
(* free, and reports twice then: never, for the old one is free again.     *)
SetAccelerator_KeepsHolding(r, a) ==
  IF a = r.requested THEN r
  ELSE Emit([r EXCEPT !.requested = a, !.resolved = a, !.failed = FALSE])

SetAccelerator(r, a) ==
  LET fresh == [Unregister(r) EXCEPT !.requested = a, !.resolved = a, !.failed = FALSE]
      tried == IF r.enabled THEN EnsureRegistered(fresh) ELSE fresh
      back  == [tried EXCEPT !.requested = r.requested, !.resolved = r.resolved,
                             !.failed = FALSE]
  IN  IF a = r.requested THEN r
      ELSE IF r.enabled /\ tried.held = NoKey /\ ~r.failed
      THEN Emit(EnsureRegistered(back))
      ELSE Emit(tried)

-----------------------------------------------------------------------------
(* Main.                                                                   *)

(* applyShortcutStatusFallbackToConfig                                     *)
WithFallback(a, s) == IF s.failed THEN a ELSE s.resolved

(* A report is kept, written into the settings main has (held), and passed *)
(* on (updateGlobalAgentStopShortcutStatus); then come the saves and the   *)
(* answer of the handler.                                                  *)
Runs(r, held, saves, answer) ==
  LET reports == r.report # NoStatus
      resaves == reports /\ held # NoKey /\ WithFallback(held, r.report) # held
  IN  /\ runtime' = [r EXCEPT !.report = NoStatus, !.tripped = FALSE]
      /\ told' = IF reports THEN r.report ELSE told
      /\ toWindow' = (IF reports THEN Append(toWindow, [status |-> r.report]) ELSE toWindow)
                       \o answer
      /\ writes' = (IF resaves THEN Append(writes, WithFallback(held, r.report)) ELSE writes)
                     \o saves
      /\ blocked' = (blocked \/ r.tripped)

(* The phase of the overlay begins or ends a loop.                         *)
PhaseChanges ==
  /\ ShortcutAct
  /\ Runs(SetEnabled(runtime, ~runtime.enabled), latest, << >>, << >>)
  /\ UNCHANGED <<others, latest, disk, asked, window, chosen>>

(* save-frontend-config                                                    *)
SaveRequested ==
  /\ asked # << >> /\ Head(asked).kind = "save"
  /\ LET a == Head(asked).shortcut
     IN  Runs(SetAccelerator(runtime, a), latest, <<a>>, << >>)
  /\ asked' = Tail(asked)
  /\ UNCHANGED <<others, latest, disk, window, chosen, shortcutActs>>

(* load-frontend-config                                                    *)
LoadRequested ==
  /\ asked # << >> /\ Head(asked).kind = "load"
  /\ latest' = WithFallback(disk, told)
  /\ Runs(SetAccelerator(runtime, latest'), latest', << >>, <<[config |-> latest']>>)
  /\ asked' = Tail(asked)
  /\ UNCHANGED <<others, disk, window, chosen, shortcutActs>>

(* persistFrontendConfigToDisk                                             *)
WriteEnds ==
  /\ writes # << >>
  /\ disk' = Head(writes) /\ latest' = Head(writes)
  /\ writes' = Tail(writes)
  /\ UNCHANGED <<runtime, others, told, toWindow, asked, window, chosen, blocked, shortcutActs>>

(* Another program takes a shortcut, or gives it back.                     *)
OthersChange(a) ==
  /\ ShortcutAct
  /\ a # runtime.held
  /\ others' = IF a \in others THEN others \ {a} ELSE others \union {a}
  /\ UNCHANGED <<runtime, told, latest, disk, writes, toWindow, asked, window, chosen,
                 blocked>>

-----------------------------------------------------------------------------
(* The dashboard.                                                          *)

Asks(kind, a) == Append(asked, [kind |-> kind, shortcut |-> a])

(* The user chooses a shortcut in the settings.                            *)
Chooses(a) ==
  /\ ShortcutAct
  /\ window.shortcut # a
  /\ window' = [window EXCEPT !.shortcut = a]
  /\ chosen' = a
  /\ asked' = Asks("save", a)
  /\ UNCHANGED <<runtime, others, told, latest, disk, writes, toWindow, blocked>>

(* applyBackendConnectionSnapshot: a fallback becomes the setting.         *)
StatusHeard ==
  /\ toWindow # << >> /\ "status" \in DOMAIN Head(toWindow)
  /\ LET s == Head(toWindow).status
         takes == UsingFallback(s) /\ window.shortcut # s.resolved
     IN  /\ window' = [shortcut |-> IF takes THEN s.resolved ELSE window.shortcut,
                       status |-> s]
         /\ asked' = IF takes THEN Asks("save", s.resolved) ELSE asked
  /\ toWindow' = Tail(toWindow)
  /\ UNCHANGED <<runtime, others, told, latest, disk, writes, chosen, blocked,
                 shortcutActs>>

(* The answer of load-frontend-config goes over the settings from          *)
(* localStorage.                                                           *)
ConfigHeard ==
  /\ toWindow # << >> /\ "config" \in DOMAIN Head(toWindow)
  /\ window' = [window EXCEPT !.shortcut = Head(toWindow).config]
  /\ toWindow' = Tail(toWindow)
  /\ UNCHANGED <<runtime, others, told, latest, disk, writes, asked, chosen, blocked, shortcutActs>>

-----------------------------------------------------------------------------
FirstStatus == [requested |-> Default, resolved |-> Default, failed |-> FALSE]

NewRuntime ==
  [enabled |-> FALSE, held |-> NoKey, requested |-> Default, resolved |-> Default,
   failed |-> FALSE, last |-> FirstStatus, report |-> NoStatus, tripped |-> FALSE]

(* index.cjs and initializeIpc report the new runtime; the dashboard starts *)
(* from its localStorage, asks for the status and for the config of the    *)
(* disk.                                                                   *)
Starts(saved) ==
  /\ runtime' = NewRuntime
  /\ told' = FirstStatus
  /\ latest' = NoKey
  /\ writes' = << >>
  /\ window' = [shortcut |-> saved, status |-> NoStatus]
  /\ toWindow' = <<[status |-> FirstStatus]>>
  /\ asked' = <<[kind |-> "load", shortcut |-> saved]>>

(* localStorage has what the window had.                                   *)
StartAgain ==
  /\ ShortcutAct
  /\ Starts(window.shortcut)
  /\ UNCHANGED <<others, disk, chosen, blocked>>

ShortcutInit ==
  /\ disk \in Accelerators /\ chosen = disk
  /\ runtime = NewRuntime /\ told = FirstStatus /\ latest = NoKey
  /\ writes = << >>
  /\ window = [shortcut |-> disk, status |-> NoStatus]
  /\ toWindow = <<[status |-> FirstStatus]>>
  /\ asked = <<[kind |-> "load", shortcut |-> disk]>>
  /\ others = {} /\ blocked = FALSE /\ shortcutActs = 0

ShortcutNext ==
  \/ PhaseChanges \/ SaveRequested \/ LoadRequested \/ WriteEnds
  \/ \E a \in Accelerators : OthersChange(a) \/ Chooses(a)
  \/ StatusHeard \/ ConfigHeard \/ StartAgain

ShortcutSpec == ShortcutInit /\ [][ShortcutNext]_shortcutVars

-----------------------------------------------------------------------------
Quiet == toWindow = << >> /\ asked = << >> /\ writes = << >>

(* The dashboard says "Ends the active agent loop from anywhere.  Current  *)
(* binding: ...": during a loop, once all reports and saves have arrived,  *)
(* the shortcut it names is the one registered, unless it says that none   *)
(* could be.  Nothing is registered outside a loop.                        *)
ShownShortcutStops ==
  /\ ~runtime.enabled => runtime.held = NoKey
  /\ Quiet /\ runtime.enabled =>
       \/ window.status.failed /\ runtime.held = NoKey
       \/ runtime.held = window.shortcut

(* What the user chose is what main asks for, on disk and in the           *)
(* dashboard, as long as no other program has that shortcut.               *)
ChosenShortcutIsKept ==
  Quiet /\ ~blocked =>
    runtime.requested = chosen /\ window.shortcut = chosen /\ disk = chosen
=============================================================================

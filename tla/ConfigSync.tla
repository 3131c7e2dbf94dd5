------------------------------ MODULE ConfigSync ------------------------------
(***************************************************************************)
(* The settings of the user: each window holds a copy                      *)
(* (AppConfigProvider.jsx), localStorage another that the windows share,   *)
(* main a third (latestFrontendConfig) and the disk a fourth               *)
(* (ipc_frontend_config.cjs).                                              *)
(*                                                                         *)
(* A config a window has merged is never taken for unchanged: the          *)
(* comparison goes by reference, and the entries of the providers are built*)
(* anew each time.  So every merge is applied and stored, the windows      *)
(* answer each other's stores, and every commit is sent.                   *)
(*                                                                         *)
(* localStorage and the file system are external: a write to localStorage  *)
(* is seen at once and told to the other windows later; a rename replaces  *)
(* the file, and a file that is open for writing keeps its place.          *)
(* Messages of a window reach main before anything else happens.           *)
(***************************************************************************)
EXTENDS Naturals

CONSTANTS
  Windows, \* windows with an AppConfigProvider
  Savers,  \* saves to disk that may overlap
  Values,  \* values of a setting
  NoValue,
  Absent, Empty, Torn,  \* what a file holds that holds no config
  MaxConfigActs  \* bound: choices, queries, reports, links opened and restarts

ASSUME ConfigBounds == NoValue \notin Values /\ MaxConfigActs \in Nat

VARIABLES
  config,      \* configRef of each window
  storage,     \* the config in localStorage
  changed,     \* windows a storage event is under way to
  loads,       \* load-frontend-config of each window: see Loads
  statuses,    \* windows an ipc-status is under way to
  latest,      \* latestFrontendConfig
  saves,       \* where each save is suspended: see Saves
  temp, disk,  \* what the temporary and the config file hold: see Contents
  chosen,      \* history: the settings the user chose last
  raced,       \* history: something happened before the last choice had arrived
  cut,         \* history: did main save its own copy since the last choice?
  doubled,     \* history: two saves were under way together
  configActs

configVars == <<config, storage, changed, loads, statuses, latest, saves, temp, disk,
                chosen, raced, cut, doubled, configActs>>

-----------------------------------------------------------------------------
(* "instructions" stands for the keys a window keeps from the backend,     *)
(* "switches" for those it sends at once.  The two of the model, which it  *)
(* sends with a query and main makes no use of, are left out: a copy that  *)
(* holds nothing else is NoConfig.                                         *)
Keys == {"instructions", "switches"}
Configs == [Keys -> Values]
Partial == [Keys -> Values \union {NoValue}]
NoConfig == [k \in Keys |-> NoValue]

(* What main holds; Absent before it has read or been sent a config.       *)
Copies == Partial \union {Absent}

(* The value of an answer is what main held once it had read the disk.     *)
Loads == [at : {"asked", "answered", "done"}, value : Copies]

(* An empty file was opened and not yet written, in a torn one the         *)
(* writes of two saves are mixed.                                          *)
Contents == Partial \union {Absent, Empty, Torn}

ASSUME ContentsApart ==
  /\ {Absent, Empty, Torn} \cap Partial = {}
  /\ Empty # Absent

(* fd is the file a save has open: the temporary one, the config file it   *)
(* has become meanwhile, or one that was replaced.                         *)
Saves == [at : {"none", "open", "write", "rename"}, config : Partial,
          fd : {"none", "temp", "disk", "gone"}]
NoSave == [at |-> "none", config |-> NoConfig, fd |-> "none"]

Act == configActs < MaxConfigActs /\ configActs' = configActs + 1
FilesRest == UNCHANGED <<saves, temp, disk, doubled>>
LoadsDone == \A w \in Windows : loads[w].at = "done"
Saved == \A s \in Savers : saves[s].at = "none"

-----------------------------------------------------------------------------
(* The window's own settings win over the ones that come in.               *)
Merged_OwnFirst(own, patch) == own

(* buildMergedFrontendConfig: the patch over the window's own config.      *)
Merged(own, patch) == [k \in Keys |-> IF patch[k] = NoValue THEN own[k] ELSE patch[k]]

(* buildImmediateBackendConfig.                                            *)
Immediate(c) == [c EXCEPT !["instructions"] = NoValue]

(* saveConfigToStorage: the whole config and the time, so that there is an *)
(* event for each other window even when the config is the same.           *)
Stores(w, next, underWay) ==
  storage' = next /\ changed' = underWay \union (Windows \ {w})

(* saveFrontendConfigToDisk starts.                                        *)
SaveBegins(next) ==
  /\ \E s \in Savers :
       /\ saves[s].at = "none"
       /\ saves' = [saves EXCEPT ![s] = [at |-> "open", config |-> next, fd |-> "none"]]
  /\ doubled' = (doubled \/ ~Saved)
  /\ UNCHANGED <<temp, disk>>

-----------------------------------------------------------------------------
(* A choice is taken with the options of a load: it is not saved.          *)
Chooses_Unsaved(w, k, v) ==
  /\ Act
  /\ LET next == [config[w] EXCEPT ![k] = v] IN
       /\ config' = [config EXCEPT ![w] = next]
       /\ Stores(w, next, changed)
       /\ latest' = Immediate(next)
  /\ FilesRest
  /\ chosen' = [chosen EXCEPT ![k] = v]
  /\ raced' = (raced \/ config[w] # chosen \/ ~LoadsDone \/ ~Saved)
  /\ cut' = FALSE
  /\ UNCHANGED <<loads, statuses>>

(* updateConfig in window w, for a choice of the user or for the shortcut  *)
(* main has fallen back to: kept, stored, saved, and sent.                 *)
Chooses(w, k, v) ==
  /\ Act
  /\ LET next == [config[w] EXCEPT ![k] = v] IN
       /\ config' = [config EXCEPT ![w] = next]
       /\ Stores(w, next, changed)
       /\ SaveBegins(next)
       /\ latest' = Immediate(next)
  /\ chosen' = [chosen EXCEPT ![k] = v]
  /\ raced' = (raced \/ config[w] # chosen \/ ~LoadsDone \/ ~Saved)
  /\ cut' = FALSE
  /\ UNCHANGED <<loads, statuses>>

(* handleStorage: what is stored is taken over and stored again, but       *)
(* neither saved nor sent.  Several events that are under way to a window  *)
(* are one here, since each reads what is stored when it arrives.          *)
HandleStorage(w) ==
  /\ w \in changed
  /\ LET next == Merged(config[w], storage) IN
       /\ config' = [config EXCEPT ![w] = next]
       /\ Stores(w, next, changed \ {w})
  /\ FilesRest
  /\ UNCHANGED <<loads, statuses, latest, chosen, raced, cut, configActs>>

(* load-frontend-config in main: a file that cannot be read leaves what    *)
(* main holds.                                                             *)
LoadRead(w) ==
  /\ loads[w].at = "asked"
  /\ latest' = IF disk \in Partial THEN disk ELSE latest
  /\ loads' = [loads EXCEPT ![w] = [at |-> "answered", value |-> latest']]
  /\ FilesRest
  /\ UNCHANGED <<config, storage, changed, statuses, chosen, raced, cut, configActs>>

(* The answer, if there is one, is merged over the config of the window,   *)
(* stored and sent.                                                        *)
LoadAnswered(w) ==
  /\ loads[w].at = "answered"
  /\ LET next == Merged(config[w], loads[w].value) IN
       IF loads[w].value = Absent
       THEN UNCHANGED <<config, storage, changed, latest>>
       ELSE /\ config' = [config EXCEPT ![w] = next]
            /\ Stores(w, next, changed)
            /\ latest' = Immediate(next)
  /\ loads' = [loads EXCEPT ![w] = [at |-> "done", value |-> Absent]]
  /\ FilesRest
  /\ UNCHANGED <<statuses, chosen, raced, cut, configActs>>

(* broadcastConnectionStatus: a link to the backend opens, or the shortcut *)
(* is reported while there is one, and every window is told.               *)
StatusSent ==
  /\ Act
  /\ statuses' = Windows
  /\ FilesRest
  /\ UNCHANGED <<config, storage, changed, loads, latest, chosen, raced, cut>>

(* syncCurrentConfigToBackend: a window sends what it has, and main keeps  *)
(* what it is sent.                                                        *)
StatusReceived(w) ==
  /\ w \in statuses
  /\ statuses' = statuses \ {w}
  /\ latest' = Immediate(config[w])
  /\ raced' = (raced \/ config[w] # chosen)
  /\ FilesRest
  /\ UNCHANGED <<config, storage, changed, loads, chosen, cut, configActs>>

(* A query sends the keys of the model before it (buildDeferredQueryModel- *)
(* Config), and main keeps no more than that.                              *)
QuerySent ==
  /\ Act
  /\ latest' = NoConfig
  /\ FilesRest
  /\ UNCHANGED <<config, storage, changed, loads, statuses, chosen, raced, cut>>

(* updateGlobalAgentStopShortcutStatus: main's copy does not name the      *)
(* shortcut that was registered, and main saves it with that name.  The    *)
(* windows are told as well, which is another step (StatusSent).           *)
ShortcutReported ==
  /\ Act
  /\ latest # Absent
  /\ SaveBegins(latest)
  /\ raced' = (raced \/ ~Saved)
  /\ cut' = TRUE
  /\ UNCHANGED <<config, storage, changed, loads, statuses, latest, chosen>>

-----------------------------------------------------------------------------
(* What a file holds once save s has written it: with a write of another   *)
(* save in it, the longer of the two may show.                             *)
Written(file, s) ==
  IF file = Empty THEN {saves[s].config} ELSE {saves[s].config, Torn}

(* writeFile opens the temporary file, which all saves share, and cuts it. *)
SaveOpens(s) ==
  /\ saves[s].at = "open"
  /\ saves' = [saves EXCEPT ![s].at = "write", ![s].fd = "temp"]
  /\ temp' = Empty
  /\ UNCHANGED <<disk, latest>>

SaveWrites(s) ==
  /\ saves[s].at = "write"
  /\ saves' = [saves EXCEPT ![s].at = "rename"]
  /\ CASE saves[s].fd = "temp" -> temp' \in Written(temp, s) /\ disk' = disk
       [] saves[s].fd = "disk" -> disk' \in Written(disk, s) /\ temp' = temp
       [] OTHER -> UNCHANGED <<temp, disk>>
  /\ UNCHANGED latest

(* rename, and persistFrontendConfigToDisk keeps the config: unless the    *)
(* temporary file is gone already, which fails the save.                   *)
SaveRenames(s) ==
  /\ saves[s].at = "rename"
  /\ IF temp = Absent
     THEN saves' = [saves EXCEPT ![s] = NoSave] /\ UNCHANGED <<temp, disk, latest>>
     ELSE /\ disk' = temp /\ temp' = Absent
          /\ latest' = saves[s].config
          /\ saves' = [t \in Savers |->
                         IF t = s THEN NoSave
                         ELSE [saves[t] EXCEPT !.fd = CASE @ = "temp" -> "disk"
                                                        [] @ = "disk" -> "gone"
                                                        [] OTHER -> @]]

SaveStep(s) ==
  /\ SaveOpens(s) \/ SaveWrites(s) \/ SaveRenames(s)
  /\ UNCHANGED <<config, storage, changed, loads, statuses, chosen, raced, cut, doubled,
                 configActs>>

(* The application ends, at any moment, and starts again: main reads the   *)
(* disk, the windows start from localStorage and ask for the disk.         *)
Restart ==
  /\ Act
  /\ config' = [w \in Windows |-> storage]
  /\ changed' = {} /\ statuses' = {}
  /\ loads' = [w \in Windows |-> [at |-> "asked", value |-> Absent]]
  /\ latest' = IF disk \in Partial THEN disk ELSE Absent
  /\ saves' = [s \in Savers |-> NoSave]
  /\ raced' = (raced \/ ~Saved)
  /\ UNCHANGED <<storage, temp, disk, chosen, cut, doubled>>

-----------------------------------------------------------------------------
ConfigInit ==
  /\ chosen \in Configs
  /\ config = [w \in Windows |-> chosen] /\ storage = chosen
  /\ disk = chosen /\ temp = Absent /\ latest = chosen
  /\ changed = {} /\ statuses = {}
  /\ loads = [w \in Windows |-> [at |-> "asked", value |-> Absent]]
  /\ saves = [s \in Savers |-> NoSave]
  /\ raced = FALSE /\ cut = FALSE /\ doubled = FALSE /\ configActs = 0

ConfigNext ==
  \/ \E w \in Windows, k \in Keys, v \in Values : Chooses(w, k, v)
  \/ \E w \in Windows :
       HandleStorage(w) \/ LoadRead(w) \/ LoadAnswered(w) \/ StatusReceived(w)
  \/ \E s \in Savers : SaveStep(s)
  \/ StatusSent \/ QuerySent \/ ShortcutReported \/ Restart

ConfigSpec == ConfigInit /\ [][ConfigNext]_configVars

-----------------------------------------------------------------------------
(* The variables hold values of their types.                               *)
ConfigTypeOK ==
  /\ config \in [Windows -> Configs] /\ storage \in Configs
  /\ changed \subseteq Windows /\ statuses \subseteq Windows
  /\ loads \in [Windows -> Loads] /\ latest \in Copies
  /\ saves \in [Savers -> Saves]
  /\ temp \in Contents /\ disk \in Contents
  /\ chosen \in Configs /\ raced \in BOOLEAN /\ cut \in BOOLEAN /\ doubled \in BOOLEAN
  /\ configActs \in 0..MaxConfigActs

(* The windows do not stop answering each other's stores, and their answers*)
(* bring nothing back: after a choice localStorage holds what the user     *)
(* chose and goes on holding it, and every window shows it or has an event *)
(* under way.  Not claimed when the user chooses in a window that has not  *)
(* taken over the last choice, or before it is saved or the loads are over;*)
(* when such a window reports its settings; and when main saves, or the    *)
(* application ends, during a save: then an older value may win.           *)
WindowsAgree ==
  ~raced => storage = chosen /\ \A w \in Windows : w \in changed \/ config[w] = chosen

(* Main's copy and the file, apart from the same cases, hold nothing the   *)
(* user has chosen otherwise: main at all times, which must not act on a   *)
(* setting that was withdrawn, such as that of sudo, and the file whenever *)
(* no save is under way.  Both may lack settings, main's copy after a query*)
(* and the file once main has saved that copy; otherwise the file holds    *)
(* all that was chosen.  A crash at any moment of a save leaves a file that*)
(* can be read, unless another save was under way.                         *)
Says(copy, c) == \A k \in Keys : copy[k] \in {c[k], NoValue}

ChoicesArrive ==
  /\ ~raced =>
       /\ latest \in Partial => Says(latest, chosen)
       /\ Saved => disk \in Partial /\ Says(disk, chosen)
       /\ Saved /\ ~cut => disk = chosen
  /\ doubled \/ disk \in Partial

=============================================================================

------------------------ MODULE RendererParts_proofs ------------------------
(***************************************************************************)
(* Proofs about the settings (ConfigSync), dictation (VoiceSession),       *)
(* listening for the wakeword (WakewordListener) and the history the       *)
(* backend is given (InferenceSession).                                    *)
(***************************************************************************)
EXTENDS ConfigSync, VoiceSession, WakewordListener, InferenceSession, TLAPS

-----------------------------------------------------------------------------
(* ConfigSync: what the windows hold.                                      *)

LEMMA MergedIsAConfig ==
  ASSUME NEW own \in Configs, NEW patch \in Partial
  PROVE  Merged(own, patch) \in Configs
BY DEF Merged, Configs, Partial

(* A whole config replaces the window's own.                               *)
LEMMA MergedWithAConfig ==
  ASSUME NEW own \in Configs, NEW patch \in Configs
  PROVE  Merged(own, patch) = patch
BY ConfigBounds DEF Merged, Configs

LEMMA ConfigsArePartial == Configs \subseteq Partial /\ NoConfig \in Partial
BY DEF Configs, Partial, NoConfig

LEMMA ImmediateIsPartial ==
  ASSUME NEW c \in Configs
  PROVE  Immediate(c) \in Partial /\ Says(Immediate(c), c)
BY DEF Immediate, Configs, Partial, Keys, Says

(* A copy that says nothing else than the window's own changes nothing.    *)
LEMMA MergedWithWhatItSays ==
  ASSUME NEW own \in Configs, NEW patch \in Partial, Says(patch, own)
  PROVE  Merged(own, patch) = own
BY ConfigBounds DEF Merged, Configs, Partial, Says

LEMMA CopiesSayIt ==
  ASSUME NEW c \in Configs
  PROVE  Says(c, c) /\ Says(NoConfig, c)
BY DEF Says, NoConfig, Configs, Keys

LEMMA NoSaveIsASave == NoSave \in Saves
BY ConfigsArePartial DEF NoSave, Saves

(* What ConfigNext preserves about one file that saves share.              *)
WritesAreWhole ==
  ~doubled =>
    /\ disk \in Partial
    /\ \A s \in Savers : saves[s].at # "none" =>
         /\ \A t \in Savers : saves[t].at # "none" => t = s
         /\ saves[s].at = "write" => saves[s].fd = "temp" /\ temp = Empty
         /\ saves[s].at = "rename" => temp = saves[s].config

(* As long as nothing happens too early, whatever is under way says what   *)
(* was chosen last.                                                        *)
ChoicesTravel ==
  ~raced =>
    /\ latest \in Partial => Says(latest, chosen)
    /\ Saved \/ ~LoadsDone => disk \in Partial /\ Says(disk, chosen)
    /\ Saved /\ ~cut => disk = chosen
    /\ \A s \in Savers : saves[s].at # "none" =>
         Says(saves[s].config, chosen) /\ (cut \/ saves[s].config = chosen)
    /\ ~LoadsDone => \A w \in Windows : config[w] = chosen
    /\ \A w \in Windows : loads[w].at = "answered" /\ loads[w].value \in Partial =>
         Says(loads[w].value, chosen)

ConfigIInv ==
  /\ ConfigTypeOK /\ WindowsAgree
  /\ \A s \in Savers : saves[s].at # "none" => saves[s].config \in Partial
  /\ doubled => raced
  /\ WritesAreWhole
  /\ ChoicesTravel

LEMMA ConfigInitEstablishes == ConfigInit => ConfigIInv
<1>1. SUFFICES ASSUME ConfigInit PROVE ConfigIInv
  OBVIOUS
<1>2. NoSave \in Saves /\ NoSave.at = "none" /\ chosen \in Partial /\ Says(chosen, chosen)
  BY <1>1, NoSaveIsASave, ConfigsArePartial, CopiesSayIt DEF ConfigInit, NoSave
<1>3. ConfigTypeOK
  <2>1. [at |-> "asked", value |-> Absent] \in Loads
    BY DEF Loads, Copies
  <2>2. loads \in [Windows -> Loads] /\ saves \in [Savers -> Saves]
    BY <1>1, <1>2, <2>1 DEF ConfigInit
  <2>3. config \in [Windows -> Configs] /\ storage \in Configs /\ latest \in Copies
        /\ temp \in Contents /\ disk \in Contents /\ configActs \in 0..MaxConfigActs
    BY <1>1, <1>2, ConfigBounds DEF ConfigInit, Contents, Copies
  <2> QED BY <1>1, <2>2, <2>3 DEF ConfigInit, ConfigTypeOK
<1> QED BY <1>1, <1>2, <1>3
     DEF ConfigInit, ConfigIInv, WindowsAgree, WritesAreWhole, ChoicesTravel, Saved

LEMMA ChoosesKeeps ==
  ASSUME ConfigIInv, NEW w \in Windows, NEW k \in Keys, NEW v \in Values, Chooses(w, k, v)
  PROVE  ConfigIInv'
<1> DEFINE next == [config[w] EXCEPT ![k] = v]
<1>0. /\ config \in [Windows -> Configs] /\ config[w] \in Configs /\ storage \in Configs
      /\ chosen \in Configs /\ saves \in [Savers -> Saves] /\ changed \subseteq Windows
      /\ configActs \in 0..MaxConfigActs
  BY DEF ConfigIInv, ConfigTypeOK
<1>1. next \in Configs /\ chosen' = [chosen EXCEPT ![k] = v] /\ chosen' \in Configs
  BY <1>0 DEF Configs, Chooses
<1>2. /\ storage' = next /\ changed' = changed \union (Windows \ {w})
      /\ config' = [config EXCEPT ![w] = next]
      /\ raced' = (raced \/ config[w] # chosen \/ ~LoadsDone \/ ~Saved)
      /\ doubled' = (doubled \/ ~Saved) /\ cut' = FALSE
      /\ latest' = Immediate(next)
      /\ UNCHANGED <<temp, disk, loads, statuses>>
  BY DEF Chooses, Stores, SaveBegins
<1>3. PICK s \in Savers :
        /\ saves[s].at = "none"
        /\ saves' = [saves EXCEPT ![s] = [at |-> "open", config |-> next, fd |-> "none"]]
  BY DEF Chooses, SaveBegins
<1>4. configActs' \in 0..MaxConfigActs
  BY <1>0, ConfigBounds DEF Chooses, Act
<1>5. config[w] = chosen => next = chosen'
  BY <1>1
<1> HIDE DEF next
<1>6. [at |-> "open", config |-> next, fd |-> "none"] \in Saves
  BY <1>1, ConfigsArePartial DEF Saves
<1>7. /\ saves' \in [Savers -> Saves]
      /\ saves'[s] = [at |-> "open", config |-> next, fd |-> "none"]
      /\ \A t \in Savers : t # s => saves'[t] = saves[t]
  BY <1>0, <1>3, <1>6
<1>8. latest' \in Partial /\ Says(latest', next) /\ Says(next, next)
  BY <1>1, <1>2, ImmediateIsPartial, CopiesSayIt
<1>9. ConfigTypeOK'
  <2>1. config' \in [Windows -> Configs] /\ storage' \in Configs /\ changed' \subseteq Windows
    BY <1>0, <1>1, <1>2
  <2>2. raced' \in BOOLEAN /\ doubled' \in BOOLEAN /\ cut' \in BOOLEAN
    BY <1>2
  <2> QED BY <1>1, <1>2, <1>4, <1>7, <1>8, <2>1, <2>2 DEF ConfigIInv, ConfigTypeOK, Copies
<1>10. WindowsAgree'
  BY <1>0, <1>2, <1>5 DEF WindowsAgree
<1>11. WritesAreWhole'
  <2>1. SUFFICES ASSUME ~doubled, Saved PROVE WritesAreWhole'
    BY <1>2 DEF WritesAreWhole
  <2>2. \A t \in Savers : saves'[t].at # "none" => t = s
    BY <1>7, <2>1 DEF Saved
  <2>3. saves'[s].at = "open"
    BY <1>7
  <2> QED BY <1>2, <2>1, <2>2, <2>3 DEF ConfigIInv, WritesAreWhole
<1>12. ChoicesTravel'
  <2>1. SUFFICES ASSUME ~raced, config[w] = chosen, LoadsDone, Saved PROVE ChoicesTravel'
    BY <1>2 DEF ChoicesTravel
  <2>2. Says(latest', chosen') /\ Says(next, chosen')
    BY <1>5, <1>8, <2>1
  <2>3. saves'[s].at = "open" /\ saves'[s].config = next /\ ~Saved'
    BY <1>7 DEF Saved
  <2>4. \A t \in Savers : t # s => saves'[t].at = "none"
    BY <1>7, <2>1 DEF Saved
  <2>5. LoadsDone' /\ \A x \in Windows : loads'[x].at = "done"
    BY <1>2, <2>1 DEF LoadsDone
  <2> QED BY <1>5, <2>1, <2>2, <2>3, <2>4, <2>5 DEF ChoicesTravel
<1>13. \A t \in Savers : saves'[t].at # "none" => saves'[t].config \in Partial
  <2>1. saves'[s].config \in Partial
    BY <1>1, <1>7, ConfigsArePartial
  <2> QED BY <1>7, <2>1 DEF ConfigIInv
<1>14. doubled' => raced'
  BY <1>2 DEF ConfigIInv
<1> QED BY <1>9, <1>10, <1>11, <1>12, <1>13, <1>14 DEF ConfigIInv

(* A window that takes in another config while no save moves.              *)
LEMMA HandleStorageKeeps ==
  ASSUME ConfigIInv, NEW w \in Windows, HandleStorage(w)
  PROVE  ConfigIInv'
<1>0. /\ config \in [Windows -> Configs] /\ config[w] \in Configs /\ storage \in Configs
      /\ w \in changed /\ changed \subseteq Windows
  BY DEF ConfigIInv, ConfigTypeOK, HandleStorage
<1>1. Merged(config[w], storage) = storage
  BY <1>0, MergedWithAConfig
<1>2. /\ storage' = storage /\ config' = [config EXCEPT ![w] = storage]
      /\ changed' \subseteq Windows
      /\ changed \ {w} \subseteq changed'
  BY <1>0, <1>1 DEF HandleStorage, Stores
<1>3. UNCHANGED <<saves, temp, disk, doubled, loads, statuses, latest, chosen, raced, cut,
                  configActs>>
  BY DEF HandleStorage, FilesRest
<1>4. ConfigTypeOK'
  BY <1>0, <1>2, <1>3 DEF ConfigIInv, ConfigTypeOK
<1>5. WindowsAgree'
  BY <1>0, <1>2, <1>3 DEF ConfigIInv, WindowsAgree
<1>6. ChoicesTravel'
  <2>1. SUFFICES ASSUME ~raced PROVE ChoicesTravel'
    BY <1>3 DEF ChoicesTravel
  <2>2. storage = chosen
    BY <2>1 DEF ConfigIInv, WindowsAgree
  <2>3. ~LoadsDone => \A x \in Windows : config'[x] = chosen
    BY <1>0, <1>2, <2>1, <2>2 DEF ConfigIInv, ChoicesTravel
  <2> QED BY <1>3, <2>1, <2>3 DEF ConfigIInv, ChoicesTravel, Saved, LoadsDone, Says
<1> QED BY <1>3, <1>4, <1>5, <1>6 DEF ConfigIInv, WritesAreWhole

LEMMA LoadReadKeeps ==
  ASSUME ConfigIInv, NEW w \in Windows, LoadRead(w)
  PROVE  ConfigIInv'
<1>0. /\ loads \in [Windows -> Loads] /\ latest \in Copies /\ disk \in Contents
      /\ loads[w].at = "asked"
      /\ latest' = IF disk \in Partial THEN disk ELSE latest
      /\ loads' = [loads EXCEPT ![w] = [at |-> "answered", value |-> latest']]
  BY DEF ConfigIInv, ConfigTypeOK, LoadRead
<1>1. UNCHANGED <<saves, temp, disk, doubled, config, storage, changed, statuses, chosen,
                  raced, cut, configActs>>
  BY DEF LoadRead, FilesRest
<1>2. latest' \in Copies
  BY <1>0 DEF Copies
<1>3. [at |-> "answered", value |-> latest'] \in Loads
  BY <1>2 DEF Loads
<1>4. /\ loads' \in [Windows -> Loads]
      /\ loads'[w] = [at |-> "answered", value |-> latest']
      /\ \A x \in Windows : x # w => loads'[x] = loads[x]
  BY <1>0, <1>3
<1>5. ConfigTypeOK'
  BY <1>1, <1>2, <1>4 DEF ConfigIInv, ConfigTypeOK
<1>6. ChoicesTravel'
  <2>1. SUFFICES ASSUME ~raced PROVE ChoicesTravel'
    BY <1>1 DEF ChoicesTravel
  <2>2. ~LoadsDone
    BY <1>0 DEF LoadsDone
  <2>3. disk \in Partial /\ Says(disk, chosen) /\ \A x \in Windows : config[x] = chosen
    BY <2>1, <2>2 DEF ConfigIInv, ChoicesTravel
  <2>4. latest' = disk
    BY <1>0, <2>3
  <2>5. Says(latest', chosen') /\ Says(disk', chosen')
    BY <1>1, <2>3, <2>4
  <2>6. \A x \in Windows : loads'[x].at = "answered" /\ loads'[x].value \in Partial =>
          Says(loads'[x].value, chosen')
    BY <1>1, <1>4, <2>1, <2>5 DEF ConfigIInv, ChoicesTravel
  <2> QED BY <1>1, <2>1, <2>3, <2>5, <2>6 DEF ConfigIInv, ChoicesTravel, Saved
<1> QED BY <1>1, <1>5, <1>6 DEF ConfigIInv, WritesAreWhole, WindowsAgree

LEMMA LoadAnsweredKeeps ==
  ASSUME ConfigIInv, NEW w \in Windows, LoadAnswered(w)
  PROVE  ConfigIInv'
<1> DEFINE next == Merged(config[w], loads[w].value)
<1>0. /\ config \in [Windows -> Configs] /\ config[w] \in Configs /\ storage \in Configs
      /\ loads \in [Windows -> Loads] /\ loads[w] \in Loads /\ latest \in Copies
      /\ changed \subseteq Windows /\ chosen \in Configs
  BY DEF ConfigIInv, ConfigTypeOK
<1>1. loads[w].value = Absent \/ (loads[w].value \in Partial /\ next \in Configs)
  <2>1. loads[w].value \in Copies
    BY <1>0 DEF Loads
  <2>2. CASE loads[w].value \in Partial
    <3>1. config[w] \in Configs
      BY <1>0
    <3>2. next \in Configs
      BY <2>2, <3>1, MergedIsAConfig
    <3> QED BY <2>2, <3>2
  <2> QED BY <2>1, <2>2 DEF Copies
<1>2. /\ loads[w].at = "answered"
      /\ \/ loads[w].value = Absent /\ UNCHANGED <<config, storage, changed, latest>>
         \/ /\ loads[w].value \in Partial /\ next \in Configs
            /\ config' = [config EXCEPT ![w] = next] /\ latest' = Immediate(next)
            /\ storage' = next /\ changed' = changed \union (Windows \ {w})
      /\ loads' = [loads EXCEPT ![w] = [at |-> "done", value |-> Absent]]
      /\ UNCHANGED <<saves, temp, disk, doubled, statuses, chosen, raced, cut, configActs>>
  BY <1>1 DEF LoadAnswered, Stores, FilesRest
<1>3. ~raced => /\ \A x \in Windows : config[x] = chosen
                /\ loads[w].value \in Partial => next = chosen
  <2>1. SUFFICES ASSUME ~raced
                 PROVE  /\ \A x \in Windows : config[x] = chosen
                        /\ loads[w].value \in Partial => next = chosen
    OBVIOUS
  <2>2. ~LoadsDone
    BY <1>2 DEF LoadsDone
  <2>3. \A x \in Windows : config[x] = chosen
    BY <2>1, <2>2 DEF ConfigIInv, ChoicesTravel
  <2>4. loads[w].value \in Partial => Says(loads[w].value, chosen)
    BY <1>2, <2>1 DEF ConfigIInv, ChoicesTravel
  <2> QED BY <1>0, <2>3, <2>4, MergedWithWhatItSays
<1> HIDE DEF next
<1>4. latest' \in Copies /\ (~raced /\ latest' \in Partial => Says(latest', chosen))
  BY <1>0, <1>2, <1>3, ImmediateIsPartial DEF Copies, ConfigIInv, ChoicesTravel
<1>5. [at |-> "done", value |-> Absent] \in Loads
  BY DEF Loads, Copies
<1>6. /\ loads' \in [Windows -> Loads] /\ loads'[w].at = "done"
      /\ \A x \in Windows : x # w => loads'[x] = loads[x]
  BY <1>0, <1>2, <1>5
<1>7. ConfigTypeOK'
  BY <1>0, <1>2, <1>4, <1>6 DEF ConfigIInv, ConfigTypeOK
<1>8. ~raced => storage' = chosen /\ \A x \in Windows : config'[x] = chosen
  BY <1>0, <1>2, <1>3 DEF ConfigIInv, WindowsAgree
<1>9. WindowsAgree'
  BY <1>2, <1>8 DEF WindowsAgree
<1>10. ChoicesTravel'
  <2>1. SUFFICES ASSUME ~raced PROVE ChoicesTravel'
    BY <1>2 DEF ChoicesTravel
  <2>2. ~LoadsDone
    BY <1>2 DEF LoadsDone
  <2>3. disk \in Partial /\ Says(disk, chosen)
    BY <2>1, <2>2 DEF ConfigIInv, ChoicesTravel
  <2>4. Says(disk', chosen') /\ (latest' \in Partial => Says(latest', chosen'))
    BY <1>2, <1>4, <2>1, <2>3
  <2>5. \A x \in Windows : loads'[x].at = "answered" /\ loads'[x].value \in Partial =>
          Says(loads'[x].value, chosen')
    BY <1>2, <1>6, <2>1 DEF ConfigIInv, ChoicesTravel
  <2> QED BY <1>2, <1>8, <2>1, <2>3, <2>4, <2>5 DEF ConfigIInv, ChoicesTravel, Saved
<1> QED BY <1>2, <1>7, <1>9, <1>10 DEF ConfigIInv, WritesAreWhole

LEMMA StatusSentKeeps ==
  ASSUME ConfigIInv, StatusSent
  PROVE  ConfigIInv'
<1>1. UNCHANGED <<saves, temp, disk, doubled, config, storage, changed, loads, latest, chosen,
                  raced, cut>>
      /\ statuses' = Windows
  BY DEF StatusSent, FilesRest
<1>2. configActs' \in 0..MaxConfigActs
  BY ConfigBounds DEF StatusSent, Act, ConfigIInv, ConfigTypeOK
<1> QED BY <1>1, <1>2
     DEF ConfigIInv, ConfigTypeOK, WindowsAgree, WritesAreWhole, ChoicesTravel, Saved,
         LoadsDone, Says

LEMMA StatusReceivedKeeps ==
  ASSUME ConfigIInv, NEW w \in Windows, StatusReceived(w)
  PROVE  ConfigIInv'
<1>1. /\ UNCHANGED <<saves, temp, disk, doubled, config, storage, changed, loads, chosen,
                     cut, configActs>>
      /\ statuses' \subseteq statuses /\ latest' = Immediate(config[w])
      /\ raced' = (raced \/ config[w] # chosen)
  BY DEF StatusReceived, FilesRest
<1>2. latest' \in Partial /\ Says(latest', config[w])
  BY <1>1, ImmediateIsPartial DEF ConfigIInv, ConfigTypeOK
<1>3. ConfigTypeOK'
  BY <1>1, <1>2 DEF ConfigIInv, ConfigTypeOK, Copies
<1>4. ChoicesTravel'
  <2>1. SUFFICES ASSUME ~raced, config[w] = chosen PROVE ChoicesTravel'
    BY <1>1 DEF ChoicesTravel
  <2>2. Says(latest', chosen')
    BY <1>1, <1>2, <2>1
  <2> QED BY <1>1, <2>1, <2>2 DEF ConfigIInv, ChoicesTravel, Saved, LoadsDone, Says
<1> QED BY <1>1, <1>3, <1>4 DEF ConfigIInv, WindowsAgree, WritesAreWhole

LEMMA QuerySentKeeps ==
  ASSUME ConfigIInv, QuerySent
  PROVE  ConfigIInv'
<1>1. UNCHANGED <<saves, temp, disk, doubled, config, storage, changed, loads, statuses,
                  chosen, raced, cut>>
      /\ latest' = NoConfig
  BY DEF QuerySent, FilesRest
<1>2. configActs' \in 0..MaxConfigActs
  BY ConfigBounds DEF QuerySent, Act, ConfigIInv, ConfigTypeOK
<1>3. ConfigTypeOK'
  BY <1>1, <1>2, ConfigsArePartial DEF ConfigIInv, ConfigTypeOK, Copies
<1>4. Says(latest', chosen')
  BY <1>1, CopiesSayIt DEF ConfigIInv, ConfigTypeOK
<1>5. ChoicesTravel'
  BY <1>1, <1>4 DEF ConfigIInv, ChoicesTravel, Saved, LoadsDone, Says
<1> QED BY <1>1, <1>3, <1>5 DEF ConfigIInv, WindowsAgree, WritesAreWhole

LEMMA ShortcutReportedKeeps ==
  ASSUME ConfigIInv, ShortcutReported
  PROVE  ConfigIInv'
<1>0. /\ saves \in [Savers -> Saves] /\ configActs \in 0..MaxConfigActs
      /\ latest \in Partial
  BY DEF ConfigIInv, ConfigTypeOK, Copies, ShortcutReported
<1>1. /\ UNCHANGED <<config, storage, changed, loads, statuses, latest, chosen, temp, disk>>
      /\ raced' = (raced \/ ~Saved) /\ doubled' = (doubled \/ ~Saved) /\ cut' = TRUE
  BY DEF ShortcutReported, SaveBegins
<1>2. PICK s \in Savers :
        /\ saves[s].at = "none"
        /\ saves' = [saves EXCEPT ![s] = [at |-> "open", config |-> latest, fd |-> "none"]]
  BY DEF ShortcutReported, SaveBegins
<1>3. configActs' \in 0..MaxConfigActs
  BY <1>0, ConfigBounds DEF ShortcutReported, Act
<1>4. [at |-> "open", config |-> latest, fd |-> "none"] \in Saves
  BY <1>0 DEF Saves
<1>5. /\ saves' \in [Savers -> Saves]
      /\ saves'[s] = [at |-> "open", config |-> latest, fd |-> "none"]
      /\ \A t \in Savers : t # s => saves'[t] = saves[t]
  BY <1>0, <1>2, <1>4
<1>6. ConfigTypeOK'
  BY <1>1, <1>3, <1>5 DEF ConfigIInv, ConfigTypeOK
<1>7. WritesAreWhole'
  <2>1. SUFFICES ASSUME ~doubled, Saved PROVE WritesAreWhole'
    BY <1>1 DEF WritesAreWhole
  <2>2. \A t \in Savers : saves'[t].at # "none" => t = s
    BY <1>5, <2>1 DEF Saved
  <2>3. saves'[s].at = "open"
    BY <1>5
  <2> QED BY <1>1, <2>1, <2>2, <2>3 DEF ConfigIInv, WritesAreWhole
<1>8. ChoicesTravel'
  <2>1. SUFFICES ASSUME ~raced, Saved PROVE ChoicesTravel'
    BY <1>1 DEF ChoicesTravel
  <2>2. Says(latest, chosen) /\ disk \in Partial /\ Says(disk, chosen)
    BY <1>0, <2>1 DEF ConfigIInv, ChoicesTravel
  <2>3. saves'[s].config = latest /\ \A t \in Savers : t # s => saves'[t].at = "none"
    BY <1>5, <2>1 DEF Saved
  <2>4. Says(latest', chosen') /\ Says(disk', chosen') /\ Says(saves'[s].config, chosen')
    BY <1>1, <2>2, <2>3
  <2>5. /\ LoadsDone' = LoadsDone
        /\ \A w \in Windows : loads'[w].at = "answered" /\ loads'[w].value \in Partial =>
             Says(loads'[w].value, chosen')
    BY <1>1, <2>1 DEF ConfigIInv, ChoicesTravel, LoadsDone
  <2>6. ~LoadsDone => \A w \in Windows : config'[w] = chosen'
    BY <1>1, <2>1 DEF ConfigIInv, ChoicesTravel
  <2> QED BY <1>1, <2>2, <2>3, <2>4, <2>5, <2>6 DEF ChoicesTravel
<1>9. \A t \in Savers : saves'[t].at # "none" => saves'[t].config \in Partial
  BY <1>0, <1>5 DEF ConfigIInv
<1>10. (doubled' => raced') /\ WindowsAgree'
  BY <1>1 DEF ConfigIInv, WindowsAgree
<1> QED BY <1>6, <1>7, <1>8, <1>9, <1>10 DEF ConfigIInv

LEMMA SaveOpensKeeps ==
  ASSUME ConfigIInv, NEW s \in Savers, SaveOpens(s),
         UNCHANGED <<config, storage, changed, loads, statuses, chosen, raced, cut, doubled,
                     configActs>>
  PROVE  ConfigIInv'
<1>0. saves \in [Savers -> Saves] /\ saves[s].at = "open"
  BY DEF ConfigIInv, ConfigTypeOK, SaveOpens
<1>1. /\ saves'[s].at = "write" /\ saves'[s].fd = "temp" /\ saves'[s].config = saves[s].config
      /\ \A t \in Savers : t # s => saves'[t] = saves[t]
      /\ saves' \in [Savers -> Saves]
  BY <1>0 DEF SaveOpens, Saves
<1>2. temp' = Empty /\ UNCHANGED <<disk, latest>>
  BY DEF SaveOpens
<1>3. ConfigTypeOK'
  BY <1>1, <1>2 DEF ConfigIInv, ConfigTypeOK, Contents
<1>4. WritesAreWhole'
  BY <1>0, <1>1, <1>2 DEF ConfigIInv, WritesAreWhole
<1>5. Saved' = Saved
  BY <1>0, <1>1 DEF Saved
<1>6. ChoicesTravel'
  BY <1>0, <1>1, <1>2, <1>5 DEF ConfigIInv, ChoicesTravel, LoadsDone, Says
<1>7. \A t \in Savers : saves'[t].at # "none" => saves'[t].config \in Partial
  BY <1>0, <1>1 DEF ConfigIInv
<1> QED BY <1>3, <1>4, <1>6, <1>7 DEF ConfigIInv, WindowsAgree

LEMMA SaveWritesKeeps ==
  ASSUME ConfigIInv, NEW s \in Savers, SaveWrites(s),
         UNCHANGED <<config, storage, changed, loads, statuses, chosen, raced, cut, doubled,
                     configActs>>
  PROVE  ConfigIInv'
<1>0. /\ saves \in [Savers -> Saves] /\ saves[s].at = "write" /\ saves[s].config \in Partial
      /\ temp \in Contents /\ disk \in Contents
  BY DEF ConfigIInv, ConfigTypeOK, SaveWrites
<1>1. /\ saves'[s].at = "rename" /\ saves'[s].config = saves[s].config
      /\ \A t \in Savers : t # s => saves'[t] = saves[t]
      /\ saves' \in [Savers -> Saves]
  BY <1>0 DEF SaveWrites, Saves
<1>2. latest' = latest
  BY DEF SaveWrites
<1>3. \A file : Written(file, s) \subseteq Contents
  BY <1>0 DEF Written, Contents
<1>4. temp' \in Contents /\ disk' \in Contents
  BY <1>0, <1>3 DEF SaveWrites
<1>5. ConfigTypeOK'
  BY <1>1, <1>2, <1>4 DEF ConfigIInv, ConfigTypeOK
<1>6. ~doubled => saves[s].fd = "temp" /\ temp = Empty
  BY <1>0 DEF ConfigIInv, WritesAreWhole
<1>7. ~doubled => temp' = saves[s].config /\ disk' = disk
  BY <1>6 DEF SaveWrites, Written
<1>8. WritesAreWhole'
  BY <1>0, <1>1, <1>7 DEF ConfigIInv, WritesAreWhole
<1>9. Saved' = Saved
  BY <1>0, <1>1 DEF Saved
<1>10. ChoicesTravel'
  BY <1>0, <1>1, <1>2, <1>7, <1>9 DEF ConfigIInv, ChoicesTravel, LoadsDone, Says
<1>11. \A t \in Savers : saves'[t].at # "none" => saves'[t].config \in Partial
  BY <1>0, <1>1 DEF ConfigIInv
<1> QED BY <1>5, <1>8, <1>10, <1>11 DEF ConfigIInv, WindowsAgree

LEMMA SaveRenamesKeeps ==
  ASSUME ConfigIInv, NEW s \in Savers, SaveRenames(s),
         UNCHANGED <<config, storage, changed, loads, statuses, chosen, raced, cut, doubled,
                     configActs>>
  PROVE  ConfigIInv'
<1>0. /\ saves \in [Savers -> Saves] /\ saves[s].at = "rename" /\ saves[s].config \in Partial
      /\ temp \in Contents /\ disk \in Contents /\ latest \in Copies
  BY DEF ConfigIInv, ConfigTypeOK, SaveRenames
<1>1. /\ saves'[s] = NoSave
      /\ \A t \in Savers : t # s =>
           saves'[t].at = saves[t].at /\ saves'[t].config = saves[t].config
      /\ saves' \in [Savers -> Saves]
  <2>1. CASE temp = Absent
    BY <1>0, <2>1, NoSaveIsASave DEF SaveRenames
  <2>2. CASE temp # Absent
    BY <1>0, <2>2, NoSaveIsASave DEF SaveRenames, Saves
  <2> QED BY <2>1, <2>2
<1>2. NoSave.at = "none"
  BY DEF NoSave
<1>3. \/ temp = Absent /\ UNCHANGED <<temp, disk, latest>>
      \/ temp # Absent /\ disk' = temp /\ temp' = Absent /\ latest' = saves[s].config
  BY DEF SaveRenames
<1>4. latest' \in Copies /\ temp' \in Contents /\ disk' \in Contents
  BY <1>0, <1>3 DEF Contents, Copies
<1>5. ConfigTypeOK'
  BY <1>1, <1>4 DEF ConfigIInv, ConfigTypeOK
<1>6. ~doubled => /\ temp = saves[s].config /\ disk' = temp /\ latest' = temp
                  /\ \A t \in Savers : saves'[t].at = "none"
  BY <1>0, <1>1, <1>2, <1>3, ContentsApart DEF ConfigIInv, WritesAreWhole
<1>7. WritesAreWhole'
  BY <1>0, <1>6 DEF WritesAreWhole
<1>8. ChoicesTravel'
  <2>1. SUFFICES ASSUME ~raced PROVE ChoicesTravel'
    BY DEF ChoicesTravel
  <2>2. /\ ~doubled /\ Says(saves[s].config, chosen)
        /\ cut \/ saves[s].config = chosen
    BY <1>0, <2>1 DEF ConfigIInv, ChoicesTravel
  <2>3. disk' \in Partial /\ Says(disk', chosen) /\ (cut \/ disk' = chosen)
    BY <1>0, <1>6, <2>2
  <2>4. Says(latest', chosen)
    BY <1>6, <2>2
  <2> QED BY <1>6, <2>1, <2>3, <2>4 DEF ConfigIInv, ChoicesTravel, Saved, LoadsDone, Says
<1>9. \A t \in Savers : saves'[t].at # "none" => saves'[t].config \in Partial
  BY <1>1, <1>2 DEF ConfigIInv
<1> QED BY <1>5, <1>7, <1>8, <1>9 DEF ConfigIInv, WindowsAgree

LEMMA RestartKeeps ==
  ASSUME ConfigIInv, Restart
  PROVE  ConfigIInv'
<1>0. /\ storage \in Configs /\ disk \in Contents /\ chosen \in Configs
      /\ configActs \in 0..MaxConfigActs /\ doubled \in BOOLEAN
  BY DEF ConfigIInv, ConfigTypeOK
<1>1. /\ config' = [w \in Windows |-> storage] /\ changed' = {} /\ statuses' = {}
      /\ loads' = [w \in Windows |-> [at |-> "asked", value |-> Absent]]
      /\ latest' = IF disk \in Partial THEN disk ELSE Absent
      /\ saves' = [s \in Savers |-> NoSave]
      /\ raced' = (raced \/ ~Saved)
      /\ UNCHANGED <<storage, temp, disk, chosen, cut, doubled>>
  BY DEF Restart
<1>2. configActs' \in 0..MaxConfigActs
  BY <1>0, ConfigBounds DEF Restart, Act
<1>3. [at |-> "asked", value |-> Absent] \in Loads /\ NoSave \in Saves
  BY NoSaveIsASave DEF Loads, Copies
<1>4. loads' \in [Windows -> Loads] /\ saves' \in [Savers -> Saves] /\ latest' \in Copies
  BY <1>1, <1>3 DEF Copies
<1>5. ConfigTypeOK'
  BY <1>0, <1>1, <1>2, <1>4 DEF ConfigIInv, ConfigTypeOK
<1>6. \A s \in Savers : saves'[s].at = "none"
  BY <1>1 DEF NoSave
<1>7. ~raced => storage' = chosen' /\ \A w \in Windows : config'[w] = chosen'
  BY <1>1 DEF ConfigIInv, WindowsAgree
<1>8. ChoicesTravel'
  <2>1. SUFFICES ASSUME ~raced, Saved PROVE ChoicesTravel'
    BY <1>1 DEF ChoicesTravel
  <2>2. disk \in Partial /\ Says(disk, chosen) /\ (cut \/ disk = chosen)
    BY <2>1 DEF ConfigIInv, ChoicesTravel
  <2>3. Says(latest', chosen') /\ Says(disk', chosen')
    BY <1>1, <2>2
  <2>4. \A w \in Windows : loads'[w].at = "asked"
    BY <1>1
  <2> QED BY <1>1, <1>6, <1>7, <2>1, <2>2, <2>3, <2>4 DEF ChoicesTravel, Saved
<1>9. WindowsAgree'
  BY <1>1, <1>7 DEF WindowsAgree
<1> QED BY <1>1, <1>5, <1>6, <1>8, <1>9 DEF ConfigIInv, WritesAreWhole

LEMMA ConfigNextPreserves == ConfigIInv /\ [ConfigNext]_configVars => ConfigIInv'
<1>1. SUFFICES ASSUME ConfigIInv, [ConfigNext]_configVars PROVE ConfigIInv'
  OBVIOUS
<1>2. CASE UNCHANGED configVars
  BY <1>1, <1>2 DEF configVars, ConfigIInv, ConfigTypeOK, WindowsAgree, WritesAreWhole,
                    ChoicesTravel, Saved, LoadsDone, Says
<1>3. ASSUME NEW s \in Savers, SaveStep(s) PROVE ConfigIInv'
  BY <1>1, <1>3, SaveOpensKeeps, SaveWritesKeeps, SaveRenamesKeeps DEF SaveStep
<1> QED BY <1>1, <1>2, <1>3, ChoosesKeeps, HandleStorageKeeps, LoadReadKeeps,
           LoadAnsweredKeeps, StatusReceivedKeeps, StatusSentKeeps, QuerySentKeeps,
           ShortcutReportedKeeps, RestartKeeps
        DEF ConfigNext

LEMMA ConfigInvariant == ConfigSpec => []ConfigIInv
BY ConfigInitEstablishes, ConfigNextPreserves, PTL DEF ConfigSpec

(* The windows answer each other's stores (handleStorage) without losing   *)
(* or bringing back anything: localStorage holds what was chosen last and  *)
(* every window shows it or is about to, for any number of windows, unless *)
(* a choice was made or settings were reported before the last had arrived.*)
THEOREM WindowsAgreeHolds == ConfigSpec => []WindowsAgree
<1>1. ConfigIInv => WindowsAgree
  BY DEF ConfigIInv
<1> QED BY <1>1, ConfigInvariant, PTL

(* Apart from the same cases main's copy and the saved file never hold a   *)
(* setting the user has chosen otherwise, whoever wrote them last (a       *)
(* choice, a load, a report, a query or main itself), and a crash leaves a *)
(* config that can be read unless two saves overlapped.                    *)
THEOREM ChoicesArriveHolds == ConfigSpec => []ChoicesArrive
<1>1. ConfigIInv => ChoicesArrive
  BY DEF ConfigIInv, ChoicesArrive, ChoicesTravel, WritesAreWhole
<1> QED BY <1>1, ConfigInvariant, PTL

-----------------------------------------------------------------------------
(* VoiceSession: the socket and the microphone against the switch the      *)
(* effects last saw.                                                       *)

SocketsFollow ==
  /\ \A g \in Gateways : Live(g) => g = websocketRef
  /\ Live(websocketRef) \/ \A g \in Gateways : g = websocketRef => gateways[g] = "none"
  /\ timer => settled.enabled /\ ~Live(websocketRef)
  /\ settled.enabled =>
       Live(websocketRef) \/ timer \/ session.attempts = MaxReconnects
  /\ ~settled.enabled => \A g \in Gateways : ~Live(g)
  /\ session.isConnected <=> \E g \in Gateways : gateways[g] = "open"
  /\ (\E g \in Gateways : gateways[g] = "aborted") =>
       \A g \in Gateways : gateways[g] # "open"

(* What holds of the one capture under way, or of the one that records.    *)
CapturesFollow ==
  ~overrun =>
    /\ streams \subseteq {mediaStreamRef}
    /\ \A c \in Captures : captures[c] # "none" =>
         /\ settled.enabled
         /\ \A d \in Captures : captures[d] # "none" => d = c
         /\ captures[c] = "media" => streams = {}
         /\ captures[c] = "node" => streams = {c}
    /\ streams # {} => settled.enabled /\ (Starting \/ session.isRecording)

DictationIInv == DictationTypeOK /\ SocketsFollow /\ CapturesFollow

LEMMA DictationInitEstablishes == DictationInit => DictationIInv
<1>1. SUFFICES ASSUME DictationInit PROVE DictationIInv
  OBVIOUS
<1>2. DictationTypeOK
  <2>1. session \in Sessions /\ sessionActs \in 0..MaxSessionActs
    BY <1>1, DictationBounds DEF DictationInit, Sessions
  <2>2. settled \in [enabled : BOOLEAN, connected : BOOLEAN, recording : BOOLEAN]
    BY <1>1 DEF DictationInit, Props
  <2> QED BY <1>1, <2>1, <2>2 DEF DictationInit, DictationTypeOK, GatewayStates
<1>3. SocketsFollow
  BY <1>1 DEF DictationInit, SocketsFollow, Live, Props
<1>4. CapturesFollow
  BY <1>1 DEF DictationInit, CapturesFollow, Starting
<1> QED BY <1>2, <1>3, <1>4 DEF DictationIInv

(* A new socket takes the place of one that is dead.                       *)
LEMMA ConnectsKeeps ==
  ASSUME DictationIInv, Connects(FALSE), ~Live(websocketRef), settled'.enabled,
         UNCHANGED session
  PROVE  /\ websocketRef' \in Gateways \union {NoGateway}
         /\ gateways' \in [Gateways -> GatewayStates] /\ timer' \in BOOLEAN
         /\ SocketsFollow'
<1>0. gateways \in [Gateways -> GatewayStates]
  BY DEF DictationIInv, DictationTypeOK
<1>1. PICK g \in Gateways : /\ gateways[g] = "none" /\ websocketRef' = g
                            /\ gateways' = [gateways EXCEPT ![g] = "connecting"]
  BY DEF Connects, Live
<1>2. /\ gateways'[g] = "connecting"
      /\ \A h \in Gateways : h # g => gateways'[h] = gateways[h]
      /\ timer' = FALSE
  BY <1>0, <1>1 DEF Connects
<1>3. SocketsFollow'
  BY <1>1, <1>2 DEF DictationIInv, SocketsFollow, Live
<1> QED BY <1>0, <1>1, <1>2, <1>3 DEF GatewayStates

(* The effects of a render that find nothing to do.                        *)
LEMMA RestKeeps ==
  ASSUME DictationIInv, SocketsRest, CapturesRest, UNCHANGED <<session, sessionActs>>,
         settled' = Props, session.enabled = settled.enabled
  PROVE  DictationIInv'
<1>1. settled' \in [enabled : BOOLEAN, connected : BOOLEAN, recording : BOOLEAN]
      /\ settled'.enabled = settled.enabled
  BY DEF Props, DictationIInv, DictationTypeOK, Sessions
<1> QED BY <1>1 DEF SocketsRest, CapturesRest, DictationIInv, DictationTypeOK, SocketsFollow,
                    CapturesFollow, Live, Starting

LEMMA SessionEffectsKeeps ==
  ASSUME DictationIInv, SessionEffects
  PROVE  DictationIInv'
<1>0. /\ DictationTypeOK /\ settled' = Props /\ sessionActs' = sessionActs
      /\ settled'.enabled = session.enabled
      /\ settled' \in [enabled : BOOLEAN, connected : BOOLEAN, recording : BOOLEAN]
      /\ session.enabled \in BOOLEAN /\ settled.enabled \in BOOLEAN
      /\ session.isConnected \in BOOLEAN /\ session.isRecording \in BOOLEAN
  BY DEF SessionEffects, Props, DictationIInv, DictationTypeOK, Sessions
<1>1. CASE session.enabled /\ ~settled.enabled
  <2>1. Connects(FALSE) /\ CapturesRest /\ UNCHANGED session
    BY <1>1 DEF SessionEffects
  <2>2. ~Live(websocketRef)
    BY <1>1 DEF DictationIInv, SocketsFollow, Live
  <2>3. SocketsFollow' /\ websocketRef' \in Gateways \union {NoGateway}
        /\ gateways' \in [Gateways -> GatewayStates] /\ timer' \in BOOLEAN
    BY <1>0, <1>1, <2>1, <2>2, ConnectsKeeps
  <2>4. CapturesFollow'
    BY <1>0, <1>1, <2>1 DEF CapturesRest, DictationIInv, CapturesFollow, Starting
  <2>5. DictationTypeOK'
    BY <1>0, <2>1, <2>3 DEF DictationTypeOK, CapturesRest
  <2> QED BY <2>3, <2>4, <2>5 DEF DictationIInv
<1>2. CASE ~session.enabled /\ settled.enabled
  <2>1. /\ Disconnects /\ Stops
        /\ session' = [session EXCEPT !.isConnected = FALSE, !.isRecording = FALSE]
    BY <1>2 DEF SessionEffects
  <2>2. gateways \in [Gateways -> GatewayStates]
    BY <1>0 DEF DictationTypeOK
  <2>3. \A g \in Gateways :
          gateways'[g] = CASE g # websocketRef -> gateways[g]
                           [] gateways[g] = "connecting" -> "aborted"
                           [] gateways[g] = "open" -> "closing"
                           [] OTHER -> gateways[g]
    BY <2>1 DEF Disconnects
  <2>4. \A g \in Gateways : gateways'[g] \in GatewayStates /\ ~Live(g)'
                            /\ gateways'[g] # "open"
    BY <2>2, <2>3 DEF DictationIInv, SocketsFollow, Live, GatewayStates
  <2>5. gateways' \in [Gateways -> GatewayStates]
    BY <2>1, <2>4 DEF Disconnects
  <2>6. /\ session' \in Sessions /\ ~session'.isConnected /\ ~session'.isRecording
        /\ timer' = FALSE /\ websocketRef' = NoGateway
    BY <1>0, <2>1 DEF DictationTypeOK, Sessions, Disconnects
  <2>7. SocketsFollow'
    BY <1>0, <1>2, <2>4, <2>6, DictationBounds DEF SocketsFollow, Live
  <2>8. CapturesFollow'
    <3>1. overrun' = (overrun \/ Starting) /\ captures' = captures
      BY <2>1 DEF Stops
    <3>2. SUFFICES ASSUME ~overrun, ~Starting PROVE CapturesFollow'
      BY <3>1 DEF CapturesFollow
    <3>3. streams' = {}
      BY <2>1, <3>2 DEF Stops, DictationIInv, CapturesFollow
    <3> QED BY <3>1, <3>2, <3>3 DEF CapturesFollow, Starting
  <2>9. DictationTypeOK'
    BY <1>0, <2>1, <2>5, <2>6 DEF DictationTypeOK, Stops
  <2> QED BY <2>7, <2>8, <2>9 DEF DictationIInv
<1>3. CASE session.enabled /\ settled.enabled /\ session.isConnected /\ ~session.isRecording
  <2>1. Starts /\ SocketsRest /\ UNCHANGED session
    BY <1>3 DEF SessionEffects
  <2>2. PICK c \in Captures : /\ captures[c] = "none"
                              /\ captures' = [captures EXCEPT ![c] = "media"]
    BY <2>1 DEF Starts
  <2>3. /\ captures' \in [Captures -> {"none", "media", "node"}]
        /\ captures'[c] = "media"
        /\ \A d \in Captures : d # c => captures'[d] = captures[d]
        /\ overrun' = (overrun \/ Starting) /\ UNCHANGED <<streams, mediaStreamRef>>
    BY <1>0, <2>1, <2>2 DEF DictationTypeOK, Starts
  <2>4. SocketsFollow'
    BY <1>0, <1>3, <2>1 DEF SocketsRest, DictationIInv, SocketsFollow, Live
  <2>5. CapturesFollow'
    <3>1. SUFFICES ASSUME ~overrun, ~Starting PROVE CapturesFollow'
      BY <2>3 DEF CapturesFollow
    <3>2. streams = {}
      BY <1>3, <3>1 DEF DictationIInv, CapturesFollow
    <3>3. \A d \in Captures : captures'[d] # "none" => d = c
      BY <2>3, <3>1 DEF Starting
    <3> QED BY <1>0, <1>3, <2>3, <3>2, <3>3 DEF CapturesFollow, Starting
  <2>6. DictationTypeOK'
    BY <1>0, <2>1, <2>3 DEF DictationTypeOK, SocketsRest
  <2> QED BY <2>4, <2>5, <2>6 DEF DictationIInv
<1>4. CASE /\ session.enabled = settled.enabled
           /\ ~(session.enabled /\ session.isConnected /\ ~session.isRecording)
  BY <1>0, <1>4, RestKeeps DEF SessionEffects
<1> QED BY <1>0, <1>1, <1>2, <1>3, <1>4

LEMMA OpensKeeps ==
  ASSUME DictationIInv, NEW g \in Gateways, Opens(g)
  PROVE  DictationIInv'
<1>0. /\ gateways \in [Gateways -> GatewayStates] /\ gateways[g] = "connecting"
      /\ g = websocketRef /\ settled.enabled
      /\ \A h \in Gateways : gateways[h] # "aborted"
  BY DEF DictationIInv, DictationTypeOK, Opens, SocketsFollow, Live
<1>1. /\ gateways'[g] = "open" /\ gateways' \in [Gateways -> GatewayStates]
      /\ \A h \in Gateways : h # g => gateways'[h] = gateways[h]
      /\ timer' = FALSE /\ UNCHANGED <<settled, websocketRef, sessionActs>> /\ CapturesRest
  BY <1>0 DEF Opens, GatewayStates
<1>2. /\ session' \in Sessions /\ session'.isConnected
      /\ session'.isRecording = session.isRecording
  <2>1. session \in Sessions /\ 0 \in 0..MaxReconnects
    BY DictationBounds DEF DictationIInv, DictationTypeOK
  <2>2. session' = [session EXCEPT !.isConnected = TRUE, !.attempts = 0]
    BY DEF Opens
  <2> QED BY <2>1, <2>2 DEF Sessions
<1>3. SocketsFollow'
  BY <1>0, <1>1, <1>2 DEF DictationIInv, SocketsFollow, Live
<1>4. CapturesFollow'
  BY <1>1, <1>2 DEF DictationIInv, CapturesFollow, CapturesRest, Starting
<1>5. DictationTypeOK'
  BY <1>1, <1>2 DEF DictationIInv, DictationTypeOK, CapturesRest
<1> QED BY <1>3, <1>4, <1>5 DEF DictationIInv

LEMMA ClosesKeeps ==
  ASSUME DictationIInv, NEW g \in Gateways, Closes(g)
  PROVE  DictationIInv'
<1>0. /\ gateways \in [Gateways -> GatewayStates] /\ session \in Sessions
      /\ sessionActs \in 0..MaxSessionActs /\ timer \in BOOLEAN
  BY DEF DictationIInv, DictationTypeOK
<1>1. /\ gateways'[g] = "none" /\ gateways' \in [Gateways -> GatewayStates]
      /\ \A h \in Gateways : h # g => gateways'[h] = gateways[h]
      /\ UNCHANGED <<settled, websocketRef>> /\ CapturesRest
      /\ gateways[g] \in {"aborted", "closing", "connecting", "open"}
      /\ OnClose(g)
  BY <1>0 DEF Closes, GatewayStates
<1>2. sessionActs' \in 0..MaxSessionActs
  BY <1>0, DictationBounds DEF Closes, Disturb
<1>3. CASE g = websocketRef
  <2>1. Live(g) /\ settled.enabled /\ ~timer /\ \A h \in Gateways : gateways[h] = "open" => h = g
    BY <1>1, <1>3 DEF DictationIInv, SocketsFollow, Live
  <2>2. Reconnects([session EXCEPT !.isConnected = FALSE])
    BY <1>1, <1>3 DEF OnClose
  <2>3. CASE session.attempts < MaxReconnects
    <3>1. timer' /\ timer' \in BOOLEAN /\ session' \in Sessions /\ ~session'.isConnected
          /\ session'.isRecording = session.isRecording
      <4>1. /\ timer' = TRUE
            /\ session' = [[session EXCEPT !.isConnected = FALSE] EXCEPT !.attempts = @ + 1]
        BY <2>1, <2>2, <2>3 DEF Reconnects
      <4>2. session.attempts + 1 \in 0..MaxReconnects
        BY <1>0, <2>3, DictationBounds DEF Sessions
      <4>3. session' = [session EXCEPT !.isConnected = FALSE, !.attempts = session.attempts + 1]
        BY <1>0, <4>1 DEF Sessions
      <4> QED BY <1>0, <4>1, <4>2, <4>3 DEF Sessions
    <3>2. SocketsFollow'
      BY <1>1, <1>3, <2>1, <3>1 DEF DictationIInv, SocketsFollow, Live
    <3>3. CapturesFollow'
      BY <1>1, <3>1 DEF DictationIInv, CapturesFollow, CapturesRest, Starting
    <3>4. DictationTypeOK'
      BY <1>1, <1>2, <3>1 DEF DictationIInv, DictationTypeOK, CapturesRest
    <3> QED BY <3>2, <3>3, <3>4 DEF DictationIInv
  <2>4. CASE ~(session.attempts < MaxReconnects)
    <3>1. session.attempts = MaxReconnects
      BY <1>0, <2>4, DictationBounds DEF Sessions
    <3>2. /\ timer' = timer /\ session' \in Sessions /\ ~session'.isConnected
          /\ session'.isRecording = session.isRecording
          /\ session'.attempts = session.attempts
      BY <1>0, <2>2, <2>4, DictationBounds DEF Reconnects, Sessions
    <3>3. SocketsFollow'
      BY <1>1, <1>3, <2>1, <3>1, <3>2 DEF DictationIInv, SocketsFollow, Live
    <3>4. CapturesFollow'
      BY <1>1, <3>2 DEF DictationIInv, CapturesFollow, CapturesRest, Starting
    <3>5. DictationTypeOK'
      BY <1>0, <1>1, <1>2, <3>2 DEF DictationIInv, DictationTypeOK, CapturesRest
    <3> QED BY <3>3, <3>4, <3>5 DEF DictationIInv
  <2> QED BY <2>3, <2>4
<1>4. CASE g # websocketRef
  <2>1. /\ gateways[g] \in {"aborted", "closing"} /\ timer' = timer
        /\ session' = IF gateways[g] = "aborted" THEN [session EXCEPT !.isConnected = FALSE]
                      ELSE session
    BY <1>1, <1>4 DEF OnClose, DictationIInv, SocketsFollow, Live
  <2>2. /\ session' \in Sessions /\ session'.isRecording = session.isRecording
        /\ session'.attempts = session.attempts
        /\ session'.isConnected = (session.isConnected /\ gateways[g] # "aborted")
    BY <1>0, <2>1 DEF Sessions
  <2>3. SocketsFollow'
    <3>1. \A h \in Gateways : (gateways'[h] = "open" <=> gateways[h] = "open") /\ Live(h)' = Live(h)
      BY <1>1, <2>1 DEF Live
    <3>2. session'.isConnected <=> \E h \in Gateways : gateways[h] = "open"
      BY <2>2 DEF DictationIInv, SocketsFollow
    <3>3. Live(websocketRef)' = Live(websocketRef)
      BY <1>1, <1>4 DEF Live
    <3> QED BY <1>1, <1>4, <2>1, <2>2, <3>1, <3>2, <3>3 DEF DictationIInv, SocketsFollow
  <2>4. CapturesFollow'
    BY <1>1, <2>2 DEF DictationIInv, CapturesFollow, CapturesRest, Starting
  <2>5. DictationTypeOK'
    BY <1>0, <1>1, <1>2, <2>1, <2>2 DEF DictationIInv, DictationTypeOK, CapturesRest
  <2> QED BY <2>3, <2>4, <2>5 DEF DictationIInv
<1> QED BY <1>3, <1>4

LEMMA TimerKeeps ==
  ASSUME DictationIInv, ReconnectTimerFires
  PROVE  DictationIInv'
<1>1. /\ Connects(FALSE) /\ CapturesRest /\ settled.enabled /\ ~Live(websocketRef)
      /\ UNCHANGED <<session, settled, sessionActs>>
  BY DEF ReconnectTimerFires, DictationIInv, SocketsFollow
<1>2. SocketsFollow' /\ websocketRef' \in Gateways \union {NoGateway}
      /\ gateways' \in [Gateways -> GatewayStates] /\ timer' \in BOOLEAN
  BY <1>1, ConnectsKeeps
<1>3. CapturesFollow'
  BY <1>1 DEF DictationIInv, CapturesFollow, CapturesRest, Starting
<1>4. DictationTypeOK'
  BY <1>1, <1>2 DEF DictationIInv, DictationTypeOK, CapturesRest
<1> QED BY <1>2, <1>3, <1>4 DEF DictationIInv

(* The switch itself moves nothing before the effects have run.            *)
LEMMA SwitchKeeps ==
  ASSUME DictationIInv, NEW on \in BOOLEAN, session' = [session EXCEPT !.enabled = on],
         SocketsRest, CapturesRest, UNCHANGED settled, sessionActs' \in 0..MaxSessionActs
  PROVE  DictationIInv'
<1>1. /\ session' \in Sessions /\ session'.isConnected = session.isConnected
      /\ session'.isRecording = session.isRecording /\ session'.attempts = session.attempts
  BY DEF DictationIInv, DictationTypeOK, Sessions
<1>2. SocketsFollow'
  BY <1>1 DEF DictationIInv, SocketsFollow, SocketsRest, Live
<1>3. CapturesFollow'
  BY <1>1 DEF DictationIInv, CapturesFollow, CapturesRest, Starting
<1>4. DictationTypeOK'
  BY <1>1 DEF DictationIInv, DictationTypeOK, CapturesRest, SocketsRest
<1> QED BY <1>2, <1>3, <1>4 DEF DictationIInv

(* A step of a capture leaves the sockets alone.                           *)
LEMMA CaptureStepsKeep ==
  ASSUME DictationIInv, NEW c \in Captures,
         MicrophoneOpens(c) \/ ProcessorReady(c) \/ CaptureFails(c)
  PROVE  DictationIInv'
<1>0. /\ captures \in [Captures -> {"none", "media", "node"}] /\ session \in Sessions
      /\ sessionActs \in 0..MaxSessionActs
      /\ SocketsRest /\ UNCHANGED <<settled, overrun>>
  BY DEF DictationIInv, DictationTypeOK, MicrophoneOpens, ProcessorReady, CaptureFails
<1>1. /\ session' \in Sessions /\ session'.isConnected = session.isConnected
      /\ session'.attempts = session.attempts
  BY <1>0 DEF MicrophoneOpens, ProcessorReady, CaptureFails, Sessions
<1>2. SocketsFollow'
  BY <1>0, <1>1 DEF DictationIInv, SocketsFollow, SocketsRest, Live
<1>3. sessionActs' \in 0..MaxSessionActs
  BY <1>0, DictationBounds DEF MicrophoneOpens, ProcessorReady, CaptureFails, Disturb
<1>4. /\ captures' \in [Captures -> {"none", "media", "node"}]
      /\ \A d \in Captures : d # c => captures'[d] = captures[d]
  BY <1>0 DEF MicrophoneOpens, ProcessorReady, CaptureFails
<1>5. streams' \subseteq Captures /\ mediaStreamRef' \in Captures \union {NoCapture}
  BY DEF DictationIInv, DictationTypeOK, MicrophoneOpens, ProcessorReady, CaptureFails
<1>6. DictationTypeOK'
  BY <1>0, <1>1, <1>3, <1>4, <1>5 DEF DictationIInv, DictationTypeOK, SocketsRest
<1>7. CapturesFollow'
  <2>1. SUFFICES ASSUME ~overrun PROVE CapturesFollow'
    BY <1>0 DEF CapturesFollow
  <2>2. /\ captures[c] # "none" /\ settled.enabled
        /\ \A d \in Captures : captures[d] # "none" => d = c
        /\ \A d \in Captures : d # c => captures'[d] = "none"
    BY <1>0, <1>4, <2>1
       DEF DictationIInv, CapturesFollow, MicrophoneOpens, ProcessorReady, CaptureFails
  <2>3. CASE MicrophoneOpens(c)
    <3>1. captures'[c] = "node" /\ streams' = {c} /\ mediaStreamRef' = c
      BY <1>0, <2>1, <2>3 DEF MicrophoneOpens, DictationIInv, CapturesFollow
    <3> QED BY <1>0, <2>2, <3>1 DEF CapturesFollow, Starting
  <2>4. CASE ProcessorReady(c)
    <3>1. captures'[c] = "none" /\ UNCHANGED <<streams, mediaStreamRef>> /\ session'.isRecording
      BY <1>0, <2>4 DEF ProcessorReady, Sessions
    <3> QED BY <1>0, <2>1, <2>2, <3>1 DEF DictationIInv, CapturesFollow, Starting
  <2>5. CASE CaptureFails(c)
    <3>1. captures'[c] = "none" /\ UNCHANGED <<streams, mediaStreamRef>> /\ streams = {}
      BY <1>0, <2>1, <2>2, <2>5 DEF CaptureFails, DictationIInv, CapturesFollow
    <3> QED BY <1>0, <2>2, <3>1 DEF CapturesFollow, Starting
  <2> QED BY <2>3, <2>4, <2>5
<1> QED BY <1>2, <1>6, <1>7 DEF DictationIInv

LEMMA DictationNextPreserves == DictationIInv /\ [DictationNext]_dictationVars => DictationIInv'
<1>1. SUFFICES ASSUME DictationIInv, [DictationNext]_dictationVars PROVE DictationIInv'
  OBVIOUS
<1>2. CASE UNCHANGED dictationVars
  BY <1>1, <1>2 DEF dictationVars, DictationIInv, DictationTypeOK, SocketsFollow,
                    CapturesFollow, Live, Starting
<1>3. CASE ToggleSession
  <2>1. sessionActs' \in 0..MaxSessionActs
    BY <1>1, <1>3, DictationBounds DEF ToggleSession, Disturb, DictationIInv, DictationTypeOK
  <2> QED BY <1>1, <1>3, <2>1, SwitchKeeps DEF ToggleSession
<1>4. CASE UtteranceEnds
  <2>1. sessionActs' \in 0..MaxSessionActs
    BY <1>1, <1>4 DEF UtteranceEnds, DictationIInv, DictationTypeOK
  <2> QED BY <1>1, <1>4, <2>1, SwitchKeeps DEF UtteranceEnds
<1> QED BY <1>1, <1>2, <1>3, <1>4, SessionEffectsKeeps, TimerKeeps, OpensKeeps, ClosesKeeps,
           CaptureStepsKeep DEF DictationNext

LEMMA DictationInvariant == DictationSpec => []DictationIInv
BY DictationInitEstablishes, DictationNextPreserves, PTL DEF DictationSpec

(* Once the effects have run the socket and the microphone are what the    *)
(* switch asks for, for any number of sockets, captures and reconnects.    *)
THEOREM DictationFollowsTheSwitchHolds == DictationSpec => []DictationFollowsTheSwitch
<1>1. ASSUME DictationIInv PROVE DictationFollowsTheSwitch
  <2>1. SUFFICES ASSUME EffectsRan
                 PROVE  SocketFollowsTheSwitch /\ (overrun \/ CaptureFollowsTheSwitch)
    BY DEF DictationFollowsTheSwitch
  <2>2. settled.enabled = session.enabled
    BY <2>1 DEF EffectsRan, Props
  <2>3. SocketFollowsTheSwitch
    BY <1>1, <2>2
       DEF DictationIInv, SocketsFollow, SocketFollowsTheSwitch, SessionIsPursued,
           SessionIsSilent
  <2>4. overrun \/ CaptureFollowsTheSwitch
    BY <1>1, <2>2 DEF DictationIInv, CapturesFollow, CaptureFollowsTheSwitch
  <2> QED BY <2>3, <2>4
<1> QED BY <1>1, DictationInvariant, PTL

-----------------------------------------------------------------------------
(* WakewordListener: what the messages under way will have said.           *)

(* Once the messages of a channel are taken, one that holds was and hears  *)
(* of it by yes and no holds b.                                            *)
Tells(channel, yes, no, was, b) ==
  /\ (\A i \in 1..Len(channel) : channel[i] \notin {yes, no}) => was = b
  /\ \A i \in 1..Len(channel) :
       channel[i] \in {yes, no} /\ (\A j \in 1..Len(channel) : channel[j] \in {yes, no} => j <= i)
         => (channel[i] = yes) = b

Has(channel, m) == \E i \in 1..Len(channel) : channel[i] = m

(* The pill and the readiness of the service are told as they change.      *)
PillIsTold == Tells(toHook, "suppress", "resume", hook.suppressed, pill)
ReadinessIsTold ==
  Tells(toHook, "ready", "notReady", hook.isReady, service.process = "ready")

(* The bridge hears of the switch as the effects last saw it, or is        *)
(* disabled by a detection whose pill has not yet reached them.            *)
PillComes == Has(toMain, "show") \/ Has(toHook, "suppress") \/ rendered.active # Active
SwitchIsTold ==
  rendered.ready =>
    \/ Tells(toMain, "enable", "disable", service.enabled, rendered.active)
    \/ Tells(toMain, "enable", "disable", service.enabled, FALSE) /\ PillComes

(* Every call that may still open a microphone belongs to the render the   *)
(* effects last saw, and finds none open.                                  *)
MicrophoneIsOwned ==
  ~overlapped =>
    /\ mics \subseteq {held}
    /\ mics # {} => rendered.active /\ rendered.ready
    /\ hook.locked => mics = {}
    /\ \A c \in Calls : calls[c].at # "none" /\ calls[c].current =>
         /\ calls[c].at # "unlock" \/ calls[c].listening => rendered.active /\ rendered.ready
         /\ calls[c].at # "node" => mics = {}
         /\ calls[c].at \in {"media", "node"} =>
              /\ ~hook.locked
              /\ \A d \in Calls : calls[d].at # "none" /\ calls[d].current => d = c

ListenerIInv ==
  ListenerTypeOK /\ PillIsTold /\ ReadinessIsTold /\ SwitchIsTold /\ MicrophoneIsOwned

(* What is told when a message is appended, or taken.                      *)
LEMMA TellsWhenEmpty ==
  ASSUME NEW yes, NEW no, NEW was, NEW b, Tells(<<>>, yes, no, was, b)
  PROVE  was = b
BY DEF Tells

LEMMA TellsNothingNew ==
  ASSUME NEW M, NEW channel \in Seq(M), NEW m \in M, NEW yes, NEW no, NEW was, NEW b,
         m # yes, m # no, Tells(channel, yes, no, was, b)
  PROVE  Tells(Append(channel, m), yes, no, was, b)
<1>1. /\ Len(Append(channel, m)) = Len(channel) + 1 /\ Len(channel) \in Nat
      /\ Append(channel, m)[Len(channel) + 1] = m
      /\ \A i \in 1..Len(channel) : Append(channel, m)[i] = channel[i]
  OBVIOUS
<1> QED BY <1>1 DEF Tells

LEMMA TellsTheNews ==
  ASSUME NEW M, NEW channel \in Seq(M), NEW yes \in M, NEW no \in M, yes # no, NEW was
  PROVE  /\ Tells(Append(channel, yes), yes, no, was, TRUE)
         /\ Tells(Append(channel, no), yes, no, was, FALSE)
<1>1. ASSUME NEW m \in {yes, no}
      PROVE  \A i \in 1..Len(Append(channel, m)) :
               (\A j \in 1..Len(Append(channel, m)) : Append(channel, m)[j] \in {yes, no} => j <= i)
                 => Append(channel, m)[i] = m
  <2>1. /\ Len(Append(channel, m)) = Len(channel) + 1 /\ Len(channel) \in Nat
        /\ Append(channel, m)[Len(channel) + 1] = m
    OBVIOUS
  <2>2. Len(channel) + 1 \in 1..Len(Append(channel, m))
    BY <2>1
  <2> QED BY <2>1, <2>2
<1>2. ASSUME NEW m \in {yes, no}
      PROVE  \E i \in 1..Len(Append(channel, m)) : Append(channel, m)[i] \in {yes, no}
  <2>1. /\ Len(Append(channel, m)) = Len(channel) + 1 /\ Len(channel) \in Nat
        /\ Append(channel, m)[Len(channel) + 1] = m
    OBVIOUS
  <2>2. Len(channel) + 1 \in 1..Len(Append(channel, m))
    BY <2>1
  <2> QED BY <2>1, <2>2
<1> QED BY <1>1, <1>2 DEF Tells

LEMMA TailIsShifted ==
  ASSUME NEW M, NEW channel \in Seq(M), channel # <<>>
  PROVE  /\ Tail(channel) \in Seq(M) /\ Len(Tail(channel)) = Len(channel) - 1
         /\ Len(channel) \in Nat \ {0} /\ Head(channel) = channel[1] /\ Head(channel) \in M
         /\ \A i \in 1..Len(Tail(channel)) : Tail(channel)[i] = channel[i + 1]
OBVIOUS

(* A message that says nothing of it is taken.                             *)
LEMMA TellsBehindOthers ==
  ASSUME NEW M, NEW channel \in Seq(M), channel # <<>>, NEW yes, NEW no, NEW was, NEW b,
         Head(channel) # yes, Head(channel) # no, Tells(channel, yes, no, was, b)
  PROVE  Tells(Tail(channel), yes, no, was, b)
<1> DEFINE rest == Tail(channel)
<1>1. /\ Len(rest) = Len(channel) - 1 /\ Len(channel) \in Nat \ {0} /\ Head(channel) = channel[1]
      /\ \A i \in 1..Len(rest) : rest[i] = channel[i + 1]
  BY TailIsShifted
<1> HIDE DEF rest
<1>2. \A i \in 1..Len(channel) : channel[i] \in {yes, no} => i - 1 \in 1..Len(rest) /\ rest[i - 1] = channel[i]
  BY <1>1
<1>3. ASSUME \A i \in 1..Len(rest) : rest[i] \notin {yes, no} PROVE was = b
  BY <1>2, <1>3 DEF Tells
<1>4. ASSUME NEW i \in 1..Len(rest), rest[i] \in {yes, no},
             \A j \in 1..Len(rest) : rest[j] \in {yes, no} => j <= i
      PROVE  (rest[i] = yes) = b
  <2>1. i + 1 \in 1..Len(channel) /\ channel[i + 1] = rest[i]
    BY <1>1
  <2>2. \A j \in 1..Len(channel) : channel[j] \in {yes, no} => j <= i + 1
    BY <1>1, <1>2, <1>4
  <2> QED BY <1>4, <2>1, <2>2 DEF Tells
<1> QED BY <1>3, <1>4 DEF Tells, rest

(* A message that says something of it is taken, and becomes what holds.   *)
LEMMA TellsWhatIsTaken ==
  ASSUME NEW M, NEW channel \in Seq(M), channel # <<>>, NEW yes, NEW no, yes # no, NEW was,
         NEW b, Tells(channel, yes, no, was, b)
  PROVE  /\ Head(channel) = yes => Tells(Tail(channel), yes, no, TRUE, b)
         /\ Head(channel) = no => Tells(Tail(channel), yes, no, FALSE, b)
<1> DEFINE rest == Tail(channel)
<1>1. /\ Len(rest) = Len(channel) - 1 /\ Len(channel) \in Nat \ {0} /\ Head(channel) = channel[1]
      /\ \A i \in 1..Len(rest) : rest[i] = channel[i + 1]
  BY TailIsShifted
<1> SUFFICES ASSUME channel[1] \in {yes, no}
             PROVE  /\ channel[1] = yes => Tells(rest, yes, no, TRUE, b)
                    /\ channel[1] = no => Tells(rest, yes, no, FALSE, b)
  BY <1>1
<1> HIDE DEF rest
<1>2. \A j \in 1..Len(channel) : j > 1 => j - 1 \in 1..Len(rest) /\ rest[j - 1] = channel[j]
  BY <1>1
<1>3. ASSUME \A i \in 1..Len(rest) : rest[i] \notin {yes, no} PROVE (channel[1] = yes) = b
  <2>1. \A j \in 1..Len(channel) : channel[j] \in {yes, no} => j <= 1
    BY <1>2, <1>3
  <2>2. 1 \in 1..Len(channel) /\ channel[1] \in {yes, no}
    BY <1>1
  <2> QED BY <2>1, <2>2 DEF Tells
<1>4. ASSUME NEW i \in 1..Len(rest), rest[i] \in {yes, no},
             \A j \in 1..Len(rest) : rest[j] \in {yes, no} => j <= i
      PROVE  (rest[i] = yes) = b
  <2>1. i + 1 \in 1..Len(channel) /\ channel[i + 1] = rest[i]
    BY <1>1
  <2>2. \A j \in 1..Len(channel) : channel[j] \in {yes, no} => j <= i + 1
    BY <1>1, <1>2, <1>4
  <2> QED BY <1>4, <2>1, <2>2 DEF Tells
<1>5. CASE channel[1] = yes
  BY <1>3, <1>4, <1>5 DEF Tells
<1>6. CASE channel[1] = no
  BY <1>3, <1>4, <1>6 DEF Tells
<1> QED BY <1>5, <1>6

LEMMA HasAppended ==
  ASSUME NEW M, NEW channel \in Seq(M), NEW m \in M, NEW n
  PROVE  Has(Append(channel, m), n) <=> Has(channel, n) \/ m = n
<1>1. /\ Len(Append(channel, m)) = Len(channel) + 1 /\ Len(channel) \in Nat
      /\ Append(channel, m)[Len(channel) + 1] = m
      /\ \A i \in 1..Len(channel) : Append(channel, m)[i] = channel[i]
  OBVIOUS
<1> QED BY <1>1 DEF Has

LEMMA HasStill ==
  ASSUME NEW M, NEW channel \in Seq(M), channel # <<>>, NEW n, Has(channel, n),
         Head(channel) # n
  PROVE  Has(Tail(channel), n)
<1>1. PICK i \in 1..Len(channel) : channel[i] = n
  BY DEF Has
<1>2. i - 1 \in 1..Len(Tail(channel)) /\ Tail(channel)[i - 1] = n
  BY <1>1, TailIsShifted
<1> QED BY <1>2 DEF Has

LEMMA ConcatenatedIsAppended ==
  ASSUME NEW M, NEW channel \in Seq(M), NEW m \in M, NEW n \in M
  PROVE  /\ channel \o <<m>> = Append(channel, m) /\ Append(channel, m) \in Seq(M)
         /\ (channel \o <<m>>) \o <<>> = Append(channel, m)
         /\ (channel \o <<m>>) \o <<n>> = Append(Append(channel, m), n)
         /\ channel \o <<m, n>> = Append(Append(channel, m), n)
         /\ Append(Append(channel, m), n) \in Seq(M)
OBVIOUS

MainWords == {"enable", "disable", "show"}
HookWords == {"ready", "notReady", "detected", "suppress", "resume"}

LEMMA ListenerTypes ==
  ASSUME ListenerTypeOK
  PROVE  /\ toMain \in Seq(MainWords) /\ toHook \in Seq(HookWords)
         /\ hook \in Hooks /\ Active \in BOOLEAN /\ service \in Services
         /\ calls \in [Calls -> CallStates]
         /\ Dependencies \in [preferred : BOOLEAN, active : BOOLEAN, ready : BOOLEAN]
         /\ Dependencies.active = Active /\ Dependencies.ready = hook.isReady
         /\ Dependencies.preferred = hook.preferred
<1>1. {"ready", "notReady", "detected"} \union Toggles = HookWords
  BY DEF Toggles, HookWords
<1> QED BY <1>1 DEF ListenerTypeOK, Hooks, Active, Wants, Dependencies, MainWords

LEMMA IdleIsACall ==
  /\ Idle \in CallStates
  /\ \A where \in {"unlock", "probe", "media"} :
       /\ Awaits(where) \in CallStates /\ Awaits(where).at = where /\ Awaits(where).current
       /\ ~Awaits(where).listening
BY DEF Idle, CallStates, Awaits

LEMMA StaleIsTyped ==
  ASSUME NEW s \in [Calls -> CallStates]
  PROVE  /\ Stale(s) \in [Calls -> CallStates]
         /\ \A c \in Calls : ~Stale(s)[c].current /\ Stale(s)[c].at = s[c].at
BY DEF Stale, CallStates

(* What a start does to the refs and the calls.                            *)
LEMMA StartIsTyped ==
  ASSUME NEW h \in Hooks, NEW s \in [Calls -> CallStates], NEW c \in Calls
  PROVE  /\ Start(h, s, c).hook \in Hooks /\ Start(h, s, c).calls \in [Calls -> CallStates]
         /\ Capture(h, s, c).hook \in Hooks /\ Capture(h, s, c).calls \in [Calls -> CallStates]
         /\ \A r \in {Start(h, s, c).hook, Capture(h, s, c).hook} :
              /\ r.preferred = h.preferred /\ r.suppressed = h.suppressed
              /\ r.isReady = h.isReady /\ r.locked = h.locked
<1>1. /\ [h EXCEPT !.starting = TRUE] \in Hooks
      /\ [h EXCEPT !.starting = TRUE].preferred = h.preferred
      /\ [h EXCEPT !.starting = TRUE].suppressed = h.suppressed
      /\ [h EXCEPT !.starting = TRUE].isReady = h.isReady
      /\ [h EXCEPT !.starting = TRUE].locked = h.locked
  BY DEF Hooks
<1>2. /\ [Stale(s) EXCEPT ![c] = Awaits("media")] \in [Calls -> CallStates]
      /\ [s EXCEPT ![c] = Awaits("probe")] \in [Calls -> CallStates]
  BY StaleIsTyped, IdleIsACall
<1>3. /\ Capture(h, s, c).hook = [h EXCEPT !.starting = TRUE]
      /\ Capture(h, s, c).calls = [Stale(s) EXCEPT ![c] = Awaits("media")]
  BY DEF Capture
<1>4. \/ Start(h, s, c).hook = h /\ Start(h, s, c).calls = s
      \/ Start(h, s, c).hook = h /\ Start(h, s, c).calls = [s EXCEPT ![c] = Awaits("probe")]
      \/ Start(h, s, c) = Capture(h, s, c)
  BY DEF Start
<1> QED BY <1>1, <1>2, <1>3, <1>4

LEMMA UnlockedIsTyped ==
  ASSUME NEW h \in Hooks
  PROVE  /\ Unlocked(h) \in Hooks /\ ~Unlocked(h).locked
         /\ Unlocked(h).preferred = h.preferred /\ Unlocked(h).suppressed = h.suppressed
         /\ Unlocked(h).isReady = h.isReady
BY DEF Unlocked, Hooks

LEMMA StoppedIsTyped ==
  ASSUME NEW h \in Hooks
  PROVE  /\ Stopped(h) \in Hooks /\ Stopped(h).locked = h.locked
         /\ Stopped(h).preferred = h.preferred /\ Stopped(h).suppressed = h.suppressed
         /\ Stopped(h).isReady = h.isReady
BY DEF Stopped, Hooks

LEMMA ListenerInitEstablishes == ListenerInit => ListenerIInv
<1>1. SUFFICES ASSUME ListenerInit PROVE ListenerIInv
  OBVIOUS
<1>2. ListenerTypeOK
  <2>1. /\ service \in Services /\ hook \in Hooks
        /\ rendered \in [preferred : BOOLEAN, active : BOOLEAN, ready : BOOLEAN]
    BY <1>1 DEF ListenerInit, Services, Hooks
  <2>2. calls \in [Calls -> CallStates]
    BY <1>1, IdleIsACall DEF ListenerInit
  <2>3. toMain \in Seq({"enable", "disable", "show"})
        /\ toHook \in Seq({"ready", "notReady", "detected"} \union Toggles)
    BY <1>1 DEF ListenerInit
  <2>4. mics \subseteq Calls /\ held \in Calls \union {NoCall} /\ voiceActs \in 0..MaxVoiceActs
    BY <1>1, VoiceBounds DEF ListenerInit
  <2>5. pill \in BOOLEAN /\ device \in BOOLEAN /\ overlapped \in BOOLEAN
    BY <1>1 DEF ListenerInit
  <2> QED BY <2>1, <2>2, <2>3, <2>4, <2>5 DEF ListenerTypeOK
<1>3. PillIsTold /\ ReadinessIsTold
  <2>1. /\ toHook = <<>> /\ hook.suppressed = FALSE /\ pill = FALSE /\ hook.isReady = FALSE
        /\ (service.process = "ready") = FALSE
    BY <1>1 DEF ListenerInit
  <2>2. \A yes, no, b : Tells(<<>>, yes, no, b, b)
    BY DEF Tells
  <2> QED BY <2>1, <2>2 DEF PillIsTold, ReadinessIsTold
<1>4. SwitchIsTold
  BY <1>1 DEF ListenerInit, SwitchIsTold
<1>5. MicrophoneIsOwned
  BY <1>1 DEF ListenerInit, MicrophoneIsOwned, Idle
<1> QED BY <1>2, <1>3, <1>4, <1>5 DEF ListenerIInv

(* Steps that neither tell nor take anything.                              *)
LEMMA NothingTold ==
  ASSUME ListenerIInv, UNCHANGED <<toMain, toHook, pill, rendered>>,
         service'.process = service.process, service'.enabled = service.enabled,
         hook'.preferred = hook.preferred, hook'.suppressed = hook.suppressed,
         hook'.isReady = hook.isReady
  PROVE  PillIsTold' /\ ReadinessIsTold' /\ SwitchIsTold'
<1>1. Active' = Active
  BY DEF Active, Wants
<1> QED BY <1>1 DEF ListenerIInv, PillIsTold, ReadinessIsTold, SwitchIsTold, PillComes

(* Steps that leave the calls and the streams alone.                       *)
LEMMA NothingOpened ==
  ASSUME ListenerIInv, UNCHANGED <<rendered, calls, mics, held, overlapped>>,
         hook'.locked = hook.locked
  PROVE  MicrophoneIsOwned'
BY DEF ListenerIInv, MicrophoneIsOwned

LEMMA EffectsKeep ==
  ASSUME ListenerIInv, Effects
  PROVE  ListenerIInv'
<1> DEFINE freed == IF rendered.preferred /\ ~hook.preferred THEN Unlocked(hook) ELSE hook
           stopped == Stopped(freed)
<1>0. ListenerTypeOK /\ hook \in Hooks /\ calls \in [Calls -> CallStates]
  BY ListenerTypes DEF ListenerIInv
<1>1. /\ stopped \in Hooks /\ stopped.preferred = hook.preferred
      /\ stopped.suppressed = hook.suppressed /\ stopped.isReady = hook.isReady
  BY <1>0, UnlockedIsTyped, StoppedIsTyped
<1>2. PICK c \in Calls :
        /\ calls[c].at = "none"
        /\ IF Active /\ hook.isReady
           THEN hook' = Start(stopped, Stale(calls), c).hook
                /\ calls' = Start(stopped, Stale(calls), c).calls
           ELSE hook' = stopped /\ calls' = Stale(calls)
  BY DEF Effects
<1>3. /\ rendered' = Dependencies /\ mics' = mics \ {held} /\ held' = NoCall
      /\ toMain' = IF Active THEN Append(toMain, "enable")
                   ELSE IF hook.isReady THEN Append(toMain, "disable") ELSE toMain
      /\ UNCHANGED <<service, pill, toHook, device, overlapped, voiceActs>>
  BY DEF Effects, Released
<1> HIDE DEF stopped, freed
<1>4. /\ hook' \in Hooks /\ calls' \in [Calls -> CallStates]
      /\ hook'.preferred = hook.preferred /\ hook'.suppressed = hook.suppressed
      /\ hook'.isReady = hook.isReady
  BY <1>0, <1>1, <1>2, StartIsTyped, StaleIsTyped
<1>5. toMain' \in Seq(MainWords)
  BY <1>0, <1>3, ListenerTypes, ConcatenatedIsAppended DEF MainWords
<1>6. ListenerTypeOK'
  BY <1>0, <1>3, <1>4, <1>5, ListenerTypes DEF ListenerTypeOK, MainWords
<1>7. PillIsTold' /\ ReadinessIsTold'
  BY <1>3, <1>4 DEF ListenerIInv, PillIsTold, ReadinessIsTold
<1>8. SwitchIsTold'
  <2>1. SUFFICES ASSUME hook.isReady
                 PROVE  Tells(toMain', "enable", "disable", service.enabled, Active)
    BY <1>0, <1>3, ListenerTypes DEF SwitchIsTold
  <2>2. toMain \in Seq(MainWords) /\ "enable" \in MainWords /\ "disable" \in MainWords
    BY <1>0, ListenerTypes DEF MainWords
  <2>3. /\ Tells(Append(toMain, "enable"), "enable", "disable", service.enabled, TRUE)
        /\ Tells(Append(toMain, "disable"), "enable", "disable", service.enabled, FALSE)
    BY <2>2, TellsTheNews
  <2>4. Active = TRUE \/ Active = FALSE
    BY <1>0, ListenerTypes
  <2> QED BY <1>3, <2>1, <2>3, <2>4
<1>9. MicrophoneIsOwned'
  <2>1. SUFFICES ASSUME ~overlapped PROVE MicrophoneIsOwned'
    BY <1>3 DEF MicrophoneIsOwned
  <2>2. mics' = {}
    BY <1>3, <2>1 DEF ListenerIInv, MicrophoneIsOwned
  <2>3. Stale(calls) \in [Calls -> CallStates] /\ \A d \in Calls : ~Stale(calls)[d].current
    BY <1>0, StaleIsTyped
  <2>4. CASE ~(Active /\ hook.isReady)
    BY <1>2, <2>2, <2>3, <2>4 DEF MicrophoneIsOwned
  <2>5. CASE Active /\ hook.isReady
    <3>1. rendered'.active /\ rendered'.ready
      BY <1>0, <1>3, <2>5, ListenerTypes
    <3>2. CASE calls' = Stale(calls)
      BY <2>2, <2>3, <3>2 DEF MicrophoneIsOwned
    <3>3. CASE calls' = [Stale(calls) EXCEPT ![c] = Awaits("probe")]
      <4>1. calls'[c].at = "probe" /\ \A d \in Calls : d # c => ~calls'[d].current
        BY <2>3, <3>3, IdleIsACall
      <4> QED BY <2>2, <3>1, <4>1 DEF MicrophoneIsOwned
    <3>4. CASE /\ calls' = [Stale(Stale(calls)) EXCEPT ![c] = Awaits("media")] /\ ~hook'.locked
      <4>1. /\ Stale(Stale(calls)) \in [Calls -> CallStates]
            /\ \A d \in Calls : ~Stale(Stale(calls))[d].current
        BY <2>3, StaleIsTyped
      <4>2. calls'[c].at = "media" /\ \A d \in Calls : d # c => ~calls'[d].current
        BY <3>4, <4>1, IdleIsACall
      <4> QED BY <2>2, <3>1, <3>4, <4>2 DEF MicrophoneIsOwned
    <3>5. stopped.locked \in BOOLEAN /\ [stopped EXCEPT !.starting = TRUE].locked = stopped.locked
      BY <1>1 DEF Hooks
    <3> QED BY <1>2, <2>5, <3>2, <3>3, <3>4, <3>5 DEF Start, Capture
  <2> QED BY <2>4, <2>5
<1> QED BY <1>6, <1>7, <1>8, <1>9 DEF ListenerIInv

LEMMA HookReceivesKeeps ==
  ASSUME ListenerIInv, HookReceives
  PROVE  ListenerIInv'
<1>0. /\ ListenerTypeOK /\ toHook \in Seq(HookWords) /\ toMain \in Seq(MainWords)
      /\ hook \in Hooks /\ toHook # <<>> /\ toHook' = Tail(toHook)
      /\ Head(toHook) \in HookWords /\ Tail(toHook) \in Seq(HookWords)
      /\ UNCHANGED <<service, pill, rendered, calls, mics, held, device, overlapped, voiceActs>>
      /\ PillIsTold /\ ReadinessIsTold /\ SwitchIsTold
  BY ListenerTypes, TailIsShifted DEF ListenerIInv, HookReceives
<1>1. SUFFICES /\ hook' \in Hooks /\ hook'.locked = hook.locked /\ toMain' \in Seq(MainWords)
               /\ PillIsTold' /\ ReadinessIsTold' /\ SwitchIsTold'
  <2>1. HookWords = {"ready", "notReady", "detected"} \union Toggles
    BY DEF HookWords, Toggles
  <2>2. ASSUME hook' \in Hooks, toMain' \in Seq(MainWords) PROVE ListenerTypeOK'
    BY <1>0, <2>1, <2>2 DEF ListenerTypeOK, MainWords
  <2> QED BY <1>0, <2>2, NothingOpened DEF ListenerIInv
<1>2. ASSUME Head(toHook) # "suppress", Active' = Active, toMain' = toMain PROVE SwitchIsTold'
  BY <1>0, <1>2, HasStill DEF SwitchIsTold, PillComes
<1>3. ASSUME NEW ready \in BOOLEAN, OnStatus(ready),
             Head(toHook) = (IF ready THEN "ready" ELSE "notReady")
      PROVE  /\ hook' \in Hooks /\ hook'.locked = hook.locked /\ toMain' = toMain
             /\ PillIsTold' /\ ReadinessIsTold' /\ Active' = Active
  <2>1. /\ hook' \in Hooks /\ hook'.locked = hook.locked /\ toMain' = toMain
        /\ hook'.suppressed = hook.suppressed /\ hook'.preferred = hook.preferred
        /\ hook'.isReady = ready
    BY <1>0, <1>3 DEF OnStatus, Hooks
  <2>2. PillIsTold'
    BY <1>0, <1>3, <2>1, TellsBehindOthers DEF PillIsTold
  <2>3. ReadinessIsTold'
    BY <1>0, <1>3, <2>1, TellsWhatIsTaken DEF ReadinessIsTold
  <2> QED BY <2>1, <2>2, <2>3 DEF Active, Wants
<1>4. CASE Head(toHook) \in {"ready", "notReady"}
  BY <1>0, <1>2, <1>3, <1>4 DEF HookReceives
<1>5. CASE Head(toHook) = "detected"
  <2>1. /\ hook' = hook
        /\ \/ toMain' = Append(Append(toMain, "disable"), "show")
           \/ toMain' = toMain
    BY <1>0, <1>5, ConcatenatedIsAppended DEF HookReceives, OnDetected, MainWords
  <2>2. PillIsTold' /\ ReadinessIsTold'
    BY <1>0, <1>5, <2>1, TellsBehindOthers DEF PillIsTold, ReadinessIsTold
  <2>3. CASE toMain' = toMain
    BY <1>0, <1>2, <1>5, <2>1, <2>2, <2>3 DEF Active, Wants
  <2>4. CASE toMain' = Append(Append(toMain, "disable"), "show")
    <3>1. /\ "disable" \in MainWords /\ "show" \in MainWords /\ "enable" \in MainWords
          /\ Append(toMain, "disable") \in Seq(MainWords)
          /\ Append(Append(toMain, "disable"), "show") \in Seq(MainWords)
      BY <1>0, ConcatenatedIsAppended DEF MainWords
    <3>2. Tells(Append(toMain, "disable"), "enable", "disable", service.enabled, FALSE)
      BY <1>0, <3>1, TellsTheNews
    <3>3. Tells(toMain', "enable", "disable", service.enabled, FALSE)
      BY <2>4, <3>1, <3>2, TellsNothingNew
    <3>4. Has(toMain', "show")
      BY <2>4, <3>1, HasAppended
    <3> QED BY <1>0, <2>1, <2>2, <2>4, <3>1, <3>3, <3>4 DEF SwitchIsTold, PillComes
  <2> QED BY <2>1, <2>3, <2>4
<1>6. CASE Head(toHook) \in Toggles
  <2>1. Rendered /\ toMain' = toMain /\ hook' = [hook EXCEPT !.suppressed = (Head(toHook) = "suppress")]
    BY <1>6 DEF HookReceives, OnToggle, Toggles
  <2>2. /\ hook' \in Hooks /\ hook'.locked = hook.locked /\ hook'.preferred = hook.preferred
        /\ hook'.isReady = hook.isReady /\ hook'.suppressed = (Head(toHook) = "suppress")
    BY <1>0, <2>1 DEF Hooks
  <2>3. PillIsTold'
    <3>1. CASE Head(toHook) = "suppress"
      <4>1. hook'.suppressed = TRUE
        BY <2>2, <3>1
      <4> QED BY <1>0, <3>1, <4>1, TellsWhatIsTaken DEF PillIsTold
    <3>2. CASE Head(toHook) = "resume"
      <4>1. hook'.suppressed = FALSE
        BY <2>2, <3>2
      <4> QED BY <1>0, <3>2, <4>1, TellsWhatIsTaken DEF PillIsTold
    <3> QED BY <1>6, <3>1, <3>2 DEF Toggles
  <2>4. ReadinessIsTold'
    BY <1>0, <1>6, <2>2, TellsBehindOthers DEF ReadinessIsTold, Toggles
  <2>5. SwitchIsTold'
    <3>1. SUFFICES ASSUME rendered.ready,
                          Tells(toMain, "enable", "disable", service.enabled, FALSE), PillComes,
                          rendered.active # FALSE
                   PROVE  PillComes'
      BY <1>0, <2>1 DEF SwitchIsTold
    <3>2. rendered.active = Active
      BY <1>0, <2>1, ListenerTypes DEF Rendered
    <3>3. CASE Head(toHook) = "suppress"
      <4>1. Active' = FALSE
        BY <2>2, <3>3 DEF Active, Wants
      <4> QED BY <1>0, <3>1, <4>1 DEF PillComes
    <3>4. CASE Head(toHook) # "suppress"
      BY <1>0, <2>1, <3>1, <3>2, <3>4, HasStill DEF PillComes
    <3> QED BY <3>3, <3>4
  <2> QED BY <1>0, <2>1, <2>2, <2>3, <2>4, <2>5
<1> QED BY <1>0, <1>4, <1>5, <1>6 DEF HookWords, Toggles

(* The pill is shown or hidden, and the hook is told.                      *)
LEMMA ShowsPillTells ==
  ASSUME ListenerIInv, NEW shown \in BOOLEAN, NEW also \in {<<>>, <<"detected">>},
         ShowsPill(shown, also), UNCHANGED hook, service'.process = service.process
  PROVE  /\ toHook' \in Seq(HookWords) /\ PillIsTold' /\ ReadinessIsTold'
         /\ shown \/ Has(toHook, "suppress") => Has(toHook', "suppress")
<1> DEFINE word == IF shown THEN "suppress" ELSE "resume"
           told == Append(toHook, word)
<1>0. /\ ListenerTypeOK /\ toHook \in Seq(HookWords) /\ PillIsTold /\ ReadinessIsTold
      /\ word \in HookWords /\ "detected" \in HookWords
      /\ "suppress" \in HookWords /\ "resume" \in HookWords
  BY ListenerTypes DEF ListenerIInv, HookWords
<1>1. /\ pill' = shown /\ told \in Seq(HookWords)
      /\ toHook' = told \/ toHook' = Append(told, "detected")
  BY <1>0, ConcatenatedIsAppended DEF ShowsPill
<1>2. Tells(told, "suppress", "resume", hook.suppressed, shown)
  <2>1. /\ Tells(Append(toHook, "suppress"), "suppress", "resume", hook.suppressed, TRUE)
        /\ Tells(Append(toHook, "resume"), "suppress", "resume", hook.suppressed, FALSE)
    BY <1>0, TellsTheNews
  <2>2. shown = TRUE \/ shown = FALSE
    OBVIOUS
  <2> QED BY <2>1, <2>2
<1>3. Tells(told, "ready", "notReady", hook.isReady, service.process = "ready")
  BY <1>0, TellsNothingNew DEF ReadinessIsTold
<1>4. shown \/ Has(toHook, "suppress") => Has(told, "suppress")
  BY <1>0, HasAppended
<1> HIDE DEF told
<1>5. Tells(toHook', "suppress", "resume", hook.suppressed, shown)
  BY <1>0, <1>1, <1>2, TellsNothingNew
<1>6. Tells(toHook', "ready", "notReady", hook.isReady, service.process = "ready")
  <2>1. CASE toHook' = told
    BY <1>3, <2>1
  <2>2. CASE toHook' = Append(told, "detected")
    BY <1>0, <1>1, <1>3, <2>2, TellsNothingNew
  <2> QED BY <1>1, <2>1, <2>2
<1>7. shown \/ Has(toHook, "suppress") => Has(toHook', "suppress")
  <2>1. CASE toHook' = told
    BY <1>4, <2>1
  <2>2. CASE toHook' = Append(told, "detected")
    <3>1. Has(Append(told, "detected"), "suppress") <=> Has(told, "suppress") \/ "detected" = "suppress"
      BY <1>0, <1>1, HasAppended
    <3> QED BY <1>4, <2>2, <3>1
  <2> QED BY <1>1, <2>1, <2>2
<1>8. toHook' \in Seq(HookWords)
  BY <1>0, <1>1, ConcatenatedIsAppended
<1> QED BY <1>1, <1>5, <1>6, <1>7, <1>8 DEF PillIsTold, ReadinessIsTold

LEMMA BridgeReceivesKeeps ==
  ASSUME ListenerIInv, BridgeReceives
  PROVE  ListenerIInv'
<1>0. /\ ListenerTypeOK /\ toHook \in Seq(HookWords) /\ toMain \in Seq(MainWords)
      /\ service \in Services /\ toMain # <<>> /\ toMain' = Tail(toMain)
      /\ Head(toMain) \in MainWords /\ Tail(toMain) \in Seq(MainWords)
      /\ UNCHANGED <<hook, rendered, calls, mics, held, device, overlapped, voiceActs>>
      /\ PillIsTold /\ ReadinessIsTold /\ SwitchIsTold
  BY ListenerTypes, TailIsShifted DEF ListenerIInv, BridgeReceives, Bridging
<1>1. SUFFICES /\ service' \in Services /\ toHook' \in Seq(HookWords) /\ pill' \in BOOLEAN
               /\ PillIsTold' /\ ReadinessIsTold' /\ SwitchIsTold'
  <2>1. HookWords = {"ready", "notReady", "detected"} \union Toggles
    BY DEF HookWords, Toggles
  <2>2. ASSUME service' \in Services, toHook' \in Seq(HookWords), pill' \in BOOLEAN
        PROVE  ListenerTypeOK'
    BY <1>0, <2>1, <2>2 DEF ListenerTypeOK, MainWords
  <2> QED BY <1>0, <2>2, NothingOpened DEF ListenerIInv
<1>2. Active' = Active /\ pill \in BOOLEAN
  BY <1>0 DEF Active, Wants, ListenerTypeOK
<1>3. CASE Head(toMain) = "enable"
  <2>1. /\ service' \in Services /\ service'.enabled = TRUE /\ pill' = pill
        /\ \/ service.process = "ready" /\ service'.process = "ready" /\ toHook' = Append(toHook, "ready")
           \/ service.process # "ready" /\ service'.process # "ready" /\ toHook' = toHook
    BY <1>0, <1>3 DEF BridgeReceives, OnEnable, Services
  <2>2. /\ "ready" \in HookWords /\ "notReady" \in HookWords /\ Append(toHook, "ready") \in Seq(HookWords)
    BY <1>0, ConcatenatedIsAppended DEF HookWords
  <2>3. CASE toHook' = toHook /\ (service'.process = "ready") = (service.process = "ready")
    <3>1. SwitchIsTold'
      <4>1. ASSUME NEW b, Tells(toMain, "enable", "disable", service.enabled, b)
            PROVE  Tells(toMain', "enable", "disable", service'.enabled, b)
        BY <1>0, <1>3, <2>1, <4>1, TellsWhatIsTaken
      <4>2. PillComes => PillComes'
        BY <1>0, <1>2, <1>3, <2>3, HasStill DEF PillComes
      <4> QED BY <1>0, <4>1, <4>2 DEF SwitchIsTold
    <3> QED BY <1>0, <1>2, <2>1, <2>3, <3>1 DEF PillIsTold, ReadinessIsTold
  <2>4. CASE toHook' = Append(toHook, "ready") /\ service'.process = "ready"
    <3>1. PillIsTold'
      BY <1>0, <2>1, <2>2, <2>4, TellsNothingNew DEF PillIsTold
    <3>2. ReadinessIsTold'
      <4>1. Tells(Append(toHook, "ready"), "ready", "notReady", hook.isReady, TRUE)
        BY <1>0, <2>2, TellsTheNews
      <4>2. (service'.process = "ready") = TRUE
        BY <2>4
      <4> QED BY <1>0, <2>4, <4>1, <4>2 DEF ReadinessIsTold
    <3>3. SwitchIsTold'
      <4>1. ASSUME NEW b, Tells(toMain, "enable", "disable", service.enabled, b)
            PROVE  Tells(toMain', "enable", "disable", service'.enabled, b)
        BY <1>0, <1>3, <2>1, <4>1, TellsWhatIsTaken
      <4>2. Has(toHook, "suppress") => Has(toHook', "suppress")
        BY <1>0, <2>2, <2>4, HasAppended
      <4>3. PillComes => PillComes'
        BY <1>0, <1>2, <1>3, <4>2, HasStill DEF PillComes
      <4> QED BY <1>0, <4>1, <4>3 DEF SwitchIsTold
    <3> QED BY <1>0, <1>2, <2>1, <2>2, <2>4, <3>1, <3>2, <3>3
  <2> QED BY <2>1, <2>3, <2>4
<1>4. CASE Head(toMain) = "disable"
  <2>1. /\ service' \in Services /\ service'.enabled = FALSE /\ service'.process = service.process
        /\ UNCHANGED <<toHook, pill>>
    BY <1>0, <1>4 DEF BridgeReceives, OnDisable, Services
  <2>2. ASSUME NEW b, Tells(toMain, "enable", "disable", service.enabled, b)
        PROVE  Tells(toMain', "enable", "disable", service'.enabled, b)
    BY <1>0, <1>4, <2>1, <2>2, TellsWhatIsTaken
  <2>3. PillComes => PillComes'
    BY <1>0, <1>2, <1>4, <2>1, HasStill DEF PillComes
  <2>4. SwitchIsTold'
    BY <1>0, <2>2, <2>3 DEF SwitchIsTold
  <2> QED BY <1>0, <1>2, <2>1, <2>4 DEF PillIsTold, ReadinessIsTold
<1>5. CASE Head(toMain) = "show"
  <2>1. ShowsPill(TRUE, <<>>) /\ UNCHANGED service
    BY <1>5 DEF BridgeReceives
  <2>2. toHook' \in Seq(HookWords) /\ PillIsTold' /\ ReadinessIsTold' /\ Has(toHook', "suppress")
    BY <1>0, <2>1, ShowsPillTells
  <2>3. ASSUME NEW b, Tells(toMain, "enable", "disable", service.enabled, b)
        PROVE  Tells(toMain', "enable", "disable", service'.enabled, b)
    BY <1>0, <1>5, <2>1, <2>3, TellsBehindOthers
  <2>4. SwitchIsTold'
    BY <1>0, <2>2, <2>3 DEF SwitchIsTold, PillComes
  <2>5. pill' = TRUE
    BY <2>1 DEF ShowsPill
  <2> QED BY <1>0, <2>1, <2>2, <2>4, <2>5
<1> QED BY <1>0, <1>3, <1>4, <1>5 DEF MainWords

(* The other steps of the bridge and of the user.                          *)
LEMMA TogglesKeep ==
  ASSUME ListenerIInv, Detection \/ UserTogglesPill
  PROVE  ListenerIInv'
<1>0. /\ ListenerTypeOK /\ toHook \in Seq(HookWords) /\ service \in Services
      /\ UNCHANGED <<hook, rendered, calls, mics, held, device, overlapped, toMain>>
      /\ service' \in Services /\ service'.process = service.process
      /\ service'.enabled = service.enabled
      /\ PillIsTold /\ ReadinessIsTold /\ SwitchIsTold /\ pill \in BOOLEAN
  BY ListenerTypes
     DEF ListenerIInv, ListenerTypeOK, Detection, UserTogglesPill, Bridging, Services
<1>1. voiceActs' \in 0..MaxVoiceActs
  <2>1. voiceActs \in 0..MaxVoiceActs
    BY DEF ListenerIInv, ListenerTypeOK
  <2>2. CASE Detection
    BY <2>1, <2>2 DEF Detection
  <2>3. CASE UserTogglesPill
    BY <2>1, <2>3, VoiceBounds DEF UserTogglesPill, Acts
  <2> QED BY <2>2, <2>3
<1>2. \/ UNCHANGED <<toHook, pill>>
      \/ \E shown \in BOOLEAN, also \in {<<>>, <<"detected">>} : ShowsPill(shown, also)
  <2>1. CASE Detection /\ service.enabled
    BY <2>1 DEF Detection
  <2>2. CASE Detection /\ ~service.enabled
    BY <2>2 DEF Detection
  <2>3. CASE UserTogglesPill
    <3>1. (~pill) \in BOOLEAN
      OBVIOUS
    <3> QED BY <2>3, <3>1 DEF UserTogglesPill
  <2> QED BY <2>1, <2>2, <2>3
<1>3. /\ toHook' \in Seq(HookWords) /\ PillIsTold' /\ ReadinessIsTold' /\ pill' \in BOOLEAN
      /\ Has(toHook, "suppress") => Has(toHook', "suppress")
  <2>1. CASE UNCHANGED <<toHook, pill>>
    BY <1>0, <2>1 DEF PillIsTold, ReadinessIsTold
  <2>2. ASSUME NEW shown \in BOOLEAN, NEW also \in {<<>>, <<"detected">>}, ShowsPill(shown, also)
        PROVE  /\ toHook' \in Seq(HookWords) /\ PillIsTold' /\ ReadinessIsTold' /\ pill' \in BOOLEAN
               /\ Has(toHook, "suppress") => Has(toHook', "suppress")
    <3>1. pill' \in BOOLEAN
      BY <2>2 DEF ShowsPill
    <3> QED BY <1>0, <2>2, <3>1, ShowsPillTells
  <2> QED BY <1>2, <2>1, <2>2
<1>4. SwitchIsTold'
  BY <1>0, <1>3 DEF SwitchIsTold, PillComes, Active, Wants
<1>5. ListenerTypeOK'
  <2>1. HookWords = {"ready", "notReady", "detected"} \union Toggles
    BY DEF HookWords, Toggles
  <2> QED BY <1>0, <1>1, <1>3, <2>1 DEF ListenerTypeOK
<1> QED BY <1>0, <1>3, <1>4, <1>5, NothingOpened DEF ListenerIInv

LEMMA ServiceKeeps ==
  ASSUME ListenerIInv, ServiceReady \/ ServiceExits
  PROVE  ListenerIInv'
<1>0. /\ ListenerTypeOK /\ toHook \in Seq(HookWords) /\ service \in Services
      /\ UNCHANGED <<hook, rendered, calls, mics, held, device, overlapped, toMain, pill>>
      /\ service' \in Services /\ service'.enabled = service.enabled
      /\ \/ service'.process = "ready" /\ toHook' = Append(toHook, "ready")
         \/ service'.process = "none" /\ toHook' = Append(toHook, "notReady")
      /\ PillIsTold /\ SwitchIsTold
  BY ListenerTypes DEF ListenerIInv, ServiceReady, ServiceExits, Bridging, Services
<1>1. voiceActs' \in 0..MaxVoiceActs
  BY VoiceBounds DEF ListenerIInv, ListenerTypeOK, ServiceReady, ServiceExits, Acts
<1>2. /\ "ready" \in HookWords /\ "notReady" \in HookWords /\ toHook' \in Seq(HookWords)
  BY <1>0, ConcatenatedIsAppended DEF HookWords
<1>3. PillIsTold'
  BY <1>0, <1>2, TellsNothingNew DEF PillIsTold
<1>4. ReadinessIsTold'
  <2>1. /\ Tells(Append(toHook, "ready"), "ready", "notReady", hook.isReady, TRUE)
        /\ Tells(Append(toHook, "notReady"), "ready", "notReady", hook.isReady, FALSE)
    BY <1>0, <1>2, TellsTheNews
  <2>2. CASE service'.process = "ready" /\ toHook' = Append(toHook, "ready")
    <3>1. (service'.process = "ready") = TRUE
      BY <2>2
    <3> QED BY <1>0, <2>1, <2>2, <3>1 DEF ReadinessIsTold
  <2>3. CASE service'.process = "none" /\ toHook' = Append(toHook, "notReady")
    <3>1. (service'.process = "ready") = FALSE
      BY <2>3
    <3> QED BY <1>0, <2>1, <2>3, <3>1 DEF ReadinessIsTold
  <2> QED BY <1>0, <2>2, <2>3
<1>5. SwitchIsTold'
  <2>1. Has(toHook, "suppress") => Has(toHook', "suppress")
    <3>1. \A m \in HookWords : Has(toHook, "suppress") => Has(Append(toHook, m), "suppress")
      BY <1>0, HasAppended
    <3> QED BY <1>0, <1>2, <3>1
  <2> QED BY <1>0, <2>1 DEF SwitchIsTold, PillComes, Active, Wants
<1>6. ListenerTypeOK'
  <2>1. HookWords = {"ready", "notReady", "detected"} \union Toggles
    BY DEF HookWords, Toggles
  <2> QED BY <1>0, <1>1, <1>2, <2>1 DEF ListenerTypeOK
<1> QED BY <1>0, <1>3, <1>4, <1>5, <1>6, NothingOpened DEF ListenerIInv

LEMMA PreferenceKeeps ==
  ASSUME ListenerIInv, SetPreference
  PROVE  ListenerIInv'
<1>0. /\ ListenerTypeOK /\ hook \in Hooks /\ Rendered
      /\ UNCHANGED <<service, pill, toMain, toHook, rendered, calls, mics, held, device,
                     overlapped>>
      /\ PillIsTold /\ ReadinessIsTold /\ SwitchIsTold
      /\ hook' = [hook EXCEPT !.preferred = ~hook.preferred]
  BY ListenerTypes DEF ListenerIInv, SetPreference
<1>1. /\ hook' \in Hooks /\ hook'.locked = hook.locked /\ hook'.suppressed = hook.suppressed
      /\ hook'.isReady = hook.isReady
  BY <1>0 DEF Hooks
<1>2. voiceActs' \in 0..MaxVoiceActs
  BY VoiceBounds DEF ListenerIInv, ListenerTypeOK, SetPreference, Acts
<1>3. PillIsTold' /\ ReadinessIsTold'
  BY <1>0, <1>1 DEF PillIsTold, ReadinessIsTold
<1>4. SwitchIsTold'
  <2>1. rendered.active = Active /\ Active \in BOOLEAN
    BY <1>0, ListenerTypes DEF Rendered
  <2>2. Has(toMain, "show") \/ Has(toHook, "suppress") => PillComes'
    BY <1>0 DEF PillComes
  <2> QED BY <1>0, <2>1, <2>2 DEF SwitchIsTold, PillComes
<1>5. ListenerTypeOK'
  BY <1>0, <1>1, <1>2 DEF ListenerTypeOK
<1> QED BY <1>0, <1>1, <1>3, <1>4, <1>5, NothingOpened DEF ListenerIInv

LEMMA RetryKeeps ==
  ASSUME ListenerIInv, RetryAllowed \/ ServiceHears
  PROVE  ListenerIInv'
<1>0. /\ ListenerTypeOK /\ hook \in Hooks /\ service \in Services
      /\ UNCHANGED <<pill, toMain, toHook, rendered, calls, mics, held, device, overlapped>>
  BY ListenerTypes DEF ListenerIInv, RetryAllowed, ServiceHears, Bridging
<1>1. /\ hook' \in Hooks /\ hook'.locked = hook.locked /\ hook'.suppressed = hook.suppressed
      /\ hook'.isReady = hook.isReady /\ hook'.preferred = hook.preferred
  BY <1>0 DEF RetryAllowed, ServiceHears, Bridging, Hooks
<1>2. /\ service' \in Services /\ service'.process = service.process
      /\ service'.enabled = service.enabled
  BY <1>0 DEF RetryAllowed, ServiceHears, Services
<1>3. voiceActs' \in 0..MaxVoiceActs
  BY VoiceBounds DEF ListenerIInv, ListenerTypeOK, RetryAllowed, ServiceHears, Acts
<1>4. ListenerTypeOK'
  BY <1>0, <1>1, <1>2, <1>3 DEF ListenerTypeOK
<1> QED BY <1>0, <1>1, <1>2, <1>4, NothingTold, NothingOpened DEF ListenerIInv

(* The steps of the calls that may open a microphone.                      *)
CallsQuiet ==
  UNCHANGED <<service, pill, toMain, toHook, rendered>>

LEMMA CallStepsKeep ==
  ASSUME ListenerIInv, CallsQuiet, hook' \in Hooks, calls' \in [Calls -> CallStates],
         mics' \subseteq Calls, held' \in Calls \union {NoCall}, device' \in BOOLEAN,
         overlapped' \in BOOLEAN, voiceActs' \in 0..MaxVoiceActs,
         hook'.preferred = hook.preferred, hook'.suppressed = hook.suppressed,
         hook'.isReady = hook.isReady, MicrophoneIsOwned'
  PROVE  ListenerIInv'
<1>1. ListenerTypeOK'
  BY DEF ListenerIInv, ListenerTypeOK, CallsQuiet
<1> QED BY <1>1, NothingTold DEF ListenerIInv, CallsQuiet

LEMMA DeviceChangesKeeps ==
  ASSUME ListenerIInv, DeviceChanges
  PROVE  ListenerIInv'
<1>0. /\ ListenerTypeOK /\ hook \in Hooks /\ calls \in [Calls -> CallStates]
      /\ UNCHANGED <<service, pill, toMain, toHook, hook, rendered, mics, held, overlapped>>
      /\ device' = ~device /\ MicrophoneIsOwned
  BY ListenerTypes DEF ListenerIInv, DeviceChanges
<1>1. voiceActs' \in 0..MaxVoiceActs
  BY VoiceBounds DEF ListenerIInv, ListenerTypeOK, DeviceChanges, Acts
<1>2. calls' \in [Calls -> CallStates] /\ MicrophoneIsOwned'
  <2>1. CASE ~hook.locked
    <3>1. calls' = calls
      BY <2>1 DEF DeviceChanges
    <3> QED BY <1>0, <3>1, NothingOpened
  <2>2. CASE hook.locked
    <3>1. PICK c \in Calls :
            calls' = [calls EXCEPT ![c] =
              [Awaits("unlock") EXCEPT !.listening = rendered.active /\ rendered.ready]]
      BY <2>2 DEF DeviceChanges
    <3> DEFINE new == [Awaits("unlock") EXCEPT !.listening = rendered.active /\ rendered.ready]
    <3>2. (rendered.active /\ rendered.ready) \in BOOLEAN
      OBVIOUS
    <3>3. /\ new \in CallStates /\ new.at = "unlock"
          /\ new.listening => rendered.active /\ rendered.ready
      BY <3>2, IdleIsACall DEF CallStates
    <3> HIDE DEF new
    <3>4. /\ calls' \in [Calls -> CallStates] /\ calls'[c] = new
          /\ \A d \in Calls : d # c => calls'[d] = calls[d]
      BY <1>0, <3>1, <3>3 DEF new
    <3>5. MicrophoneIsOwned'
      BY <1>0, <2>2, <3>3, <3>4 DEF MicrophoneIsOwned
    <3> QED BY <3>4, <3>5
  <2> QED BY <2>1, <2>2
<1>3. device' \in BOOLEAN
  BY <1>0
<1> QED BY <1>0, <1>1, <1>2, <1>3, CallStepsKeep DEF CallsQuiet, ListenerTypeOK

LEMMA OpenedKeeps ==
  ASSUME ListenerIInv, NEW c \in Calls, Opened(c)
  PROVE  ListenerIInv'
<1>0. /\ ListenerTypeOK /\ hook \in Hooks /\ calls \in [Calls -> CallStates]
      /\ UNCHANGED <<service, pill, toMain, toHook, hook, rendered, device, overlapped,
                     voiceActs>>
      /\ MicrophoneIsOwned /\ calls[c].at = "media"
  BY ListenerTypes DEF ListenerIInv, Opened
<1>1. CASE calls[c].current
  <2>1. /\ mics' = mics \union {c} /\ held' = c /\ calls' = [calls EXCEPT ![c].at = "node"]
    BY <1>1 DEF Opened
  <2>2. /\ calls' \in [Calls -> CallStates] /\ calls'[c].at = "node"
        /\ calls'[c].current = calls[c].current /\ calls'[c].listening = calls[c].listening
        /\ \A d \in Calls : d # c => calls'[d] = calls[d]
    BY <1>0, <2>1 DEF CallStates
  <2>3. MicrophoneIsOwned'
    BY <1>0, <1>1, <2>1, <2>2 DEF MicrophoneIsOwned
  <2> QED BY <1>0, <2>1, <2>2, <2>3, CallStepsKeep DEF CallsQuiet, ListenerTypeOK
<1>2. CASE ~calls[c].current
  <2>1. /\ UNCHANGED <<mics, held>> /\ calls' = [calls EXCEPT ![c] = Idle]
    BY <1>2 DEF Opened
  <2>2. /\ calls' \in [Calls -> CallStates] /\ calls'[c] = Idle
        /\ \A d \in Calls : d # c => calls'[d] = calls[d]
    BY <1>0, <2>1, IdleIsACall
  <2>3. MicrophoneIsOwned'
    BY <1>0, <2>1, <2>2 DEF MicrophoneIsOwned, Idle
  <2> QED BY <1>0, <2>1, <2>2, <2>3, CallStepsKeep DEF CallsQuiet, ListenerTypeOK
<1> QED BY <1>1, <1>2

LEMMA FailsKeeps ==
  ASSUME ListenerIInv, NEW c \in Calls, Fails(c)
  PROVE  ListenerIInv'
<1>0. /\ ListenerTypeOK /\ hook \in Hooks /\ calls \in [Calls -> CallStates]
      /\ UNCHANGED <<service, pill, toMain, toHook, rendered, mics, held, device, overlapped>>
      /\ MicrophoneIsOwned /\ calls[c].at \in {"media", "node"}
      /\ calls' = [calls EXCEPT ![c] = Idle]
  BY ListenerTypes DEF ListenerIInv, Fails
<1>1. /\ calls' \in [Calls -> CallStates] /\ calls'[c] = Idle
      /\ \A d \in Calls : d # c => calls'[d] = calls[d]
  BY <1>0, IdleIsACall
<1>2. voiceActs' \in 0..MaxVoiceActs
  <2>1. voiceActs \in 0..MaxVoiceActs
    BY <1>0 DEF ListenerTypeOK
  <2> QED BY <2>1, VoiceBounds DEF Fails, Acts
<1>3. CASE ~calls[c].current
  <2>1. hook' = hook
    BY <1>3 DEF Fails
  <2>2. MicrophoneIsOwned'
    BY <1>0, <1>1, <2>1 DEF MicrophoneIsOwned, Idle
  <2> QED BY <1>0, <1>1, <1>2, <2>1, <2>2, CallStepsKeep DEF CallsQuiet, ListenerTypeOK
<1>4. CASE calls[c].current
  <2> DEFINE lock == hook.locked \/ (calls[c].at = "media" /\ ~device)
  <2>1. hook' = [Stopped(hook) EXCEPT !.throttled = TRUE, !.locked = lock]
    BY <1>4 DEF Fails
  <2>2. lock \in BOOLEAN /\ (lock => hook.locked \/ calls[c].at = "media")
    OBVIOUS
  <2>3. Stopped(hook) \in Hooks
    BY <1>0, StoppedIsTyped
  <2> HIDE DEF lock
  <2>4. /\ hook' \in Hooks /\ hook'.locked = lock /\ hook'.suppressed = Stopped(hook).suppressed
        /\ hook'.isReady = Stopped(hook).isReady /\ hook'.preferred = Stopped(hook).preferred
    BY <2>1, <2>2, <2>3 DEF Hooks
  <2>5. MicrophoneIsOwned'
    BY <1>0, <1>1, <1>4, <2>2, <2>4 DEF MicrophoneIsOwned, Idle
  <2> QED BY <1>0, <1>1, <1>2, <2>4, <2>5, StoppedIsTyped, CallStepsKeep
          DEF CallsQuiet, ListenerTypeOK
<1> QED BY <1>3, <1>4

LEMMA WiredKeeps ==
  ASSUME ListenerIInv, NEW c \in Calls, Wired(c)
  PROVE  ListenerIInv'
<1>0. /\ ListenerTypeOK /\ hook \in Hooks /\ calls \in [Calls -> CallStates]
      /\ UNCHANGED <<service, pill, toMain, toHook, rendered, held, device, overlapped,
                     voiceActs>>
      /\ MicrophoneIsOwned /\ calls' = [calls EXCEPT ![c] = Idle]
      /\ mics' \subseteq mics
  BY ListenerTypes DEF ListenerIInv, Wired
<1>1. /\ calls' \in [Calls -> CallStates] /\ calls'[c] = Idle
      /\ \A d \in Calls : d # c => calls'[d] = calls[d]
  BY <1>0, IdleIsACall
<1>2. /\ hook' \in Hooks /\ hook'.locked = hook.locked /\ hook'.suppressed = hook.suppressed
      /\ hook'.isReady = hook.isReady /\ hook'.preferred = hook.preferred
  BY <1>0 DEF Wired, Hooks
<1>3. MicrophoneIsOwned'
  BY <1>0, <1>1, <1>2 DEF MicrophoneIsOwned, Idle
<1> QED BY <1>0, <1>1, <1>2, <1>3, CallStepsKeep DEF CallsQuiet, ListenerTypeOK

(* A device check goes on to open the microphone only for a call that no   *)
(* stop and no other start has overtaken.                                  *)
LEMMA ProbedKeeps ==
  ASSUME ListenerIInv, NEW c \in Calls, Probed(c)
  PROVE  ListenerIInv'
<1> DEFINE answered == [calls EXCEPT ![c] = Idle]
           free == Unlocked(hook)
<1>0. /\ ListenerTypeOK /\ hook \in Hooks /\ calls \in [Calls -> CallStates]
      /\ UNCHANGED <<service, pill, toMain, toHook, rendered, mics, held, device, voiceActs>>
      /\ MicrophoneIsOwned /\ calls[c].at \in {"probe", "unlock"} /\ overlapped \in BOOLEAN
  BY ListenerTypes DEF ListenerIInv, Probed, ListenerTypeOK
<1>1. /\ answered \in [Calls -> CallStates] /\ answered[c] = Idle
      /\ \A d \in Calls : d # c => answered[d] = calls[d]
      /\ Idle.at = "none"
  BY <1>0, IdleIsACall DEF Idle
<1>2. /\ free \in Hooks /\ ~free.locked /\ free.preferred = hook.preferred
      /\ free.suppressed = hook.suppressed /\ free.isReady = hook.isReady
  BY <1>0, UnlockedIsTyped
<1>3. CASE ~(device \/ ~hook.locked)
  <2>1. /\ hook' = [hook EXCEPT !.throttled = TRUE] /\ calls' = answered /\ overlapped' = overlapped
    BY <1>3 DEF Probed
  <2>2. /\ hook' \in Hooks /\ hook'.locked = hook.locked /\ hook'.suppressed = hook.suppressed
        /\ hook'.isReady = hook.isReady /\ hook'.preferred = hook.preferred
    BY <1>0, <2>1 DEF Hooks
  <2> HIDE DEF answered, free
  <2>3. MicrophoneIsOwned'
    BY <1>0, <1>1, <2>1, <2>2 DEF MicrophoneIsOwned
  <2> QED BY <1>0, <1>1, <2>1, <2>2, <2>3, CallStepsKeep DEF CallsQuiet, ListenerTypeOK
<1>4. CASE device \/ ~hook.locked
  <2>1. /\ overlapped' = (overlapped \/ ~calls[c].current)
        /\ \/ /\ calls[c].at = "probe" \/ (calls[c].at # "probe" /\ calls[c].listening)
              /\ \/ hook' = Capture(free, answered, c).hook
                    /\ calls' = Capture(free, answered, c).calls
                 \/ hook' = Start(free, answered, c).hook
                    /\ calls' = Start(free, answered, c).calls
           \/ hook' = free /\ calls' = answered
    BY <1>4 DEF Probed
  <2>2. /\ Start(free, answered, c).hook \in {free, Capture(free, answered, c).hook}
        /\ Start(free, answered, c).hook = free => Start(free, answered, c).calls = answered
        /\ Start(free, answered, c).hook # free =>
             Start(free, answered, c).calls = Capture(free, answered, c).calls
    <3>1. \/ Refused(free) /\ Start(free, answered, c) = [hook |-> free, calls |-> answered]
          \/ ~Refused(free) /\ Start(free, answered, c) = Capture(free, answered, c)
      BY <1>2 DEF Start
    <3>2. ~Refused(free) => [free EXCEPT !.starting = TRUE] # free
      BY <1>2 DEF Refused, Hooks
    <3>3. Capture(free, answered, c).hook = [free EXCEPT !.starting = TRUE]
      BY DEF Capture
    <3> HIDE DEF free, answered
    <3>4. CASE Start(free, answered, c) = [hook |-> free, calls |-> answered]
      BY <3>4
    <3>5. CASE ~Refused(free) /\ Start(free, answered, c) = Capture(free, answered, c)
      BY <3>2, <3>3, <3>5
    <3> QED BY <3>1, <3>4, <3>5
  <2>3. \/ /\ calls[c].at = "probe" \/ calls[c].listening
           /\ hook' = Capture(free, answered, c).hook /\ calls' = Capture(free, answered, c).calls
        \/ hook' = free /\ calls' = answered
    BY <2>1, <2>2
  <2> HIDE DEF answered, free
  <2>4. /\ hook' \in Hooks /\ ~hook'.locked /\ hook'.suppressed = hook.suppressed
        /\ hook'.isReady = hook.isReady /\ hook'.preferred = hook.preferred
        /\ calls' \in [Calls -> CallStates]
    BY <1>1, <1>2, <2>3, StartIsTyped
  <2>5. MicrophoneIsOwned'
    <3>1. SUFFICES ASSUME ~overlapped, calls[c].current PROVE MicrophoneIsOwned'
      BY <2>1 DEF MicrophoneIsOwned
    <3>2. mics = {} /\ \A d \in Calls : calls[d].at # "none" /\ calls[d].current =>
                          calls[d].at \notin {"media", "node"}
      BY <1>0, <3>1 DEF MicrophoneIsOwned
    <3>3. CASE calls' = answered
      <4>1. \A d \in Calls : calls'[d].at # "none" => d # c /\ calls'[d] = calls[d]
        BY <1>1, <3>3
      <4> QED BY <1>0, <3>1, <3>2, <4>1 DEF MicrophoneIsOwned
    <3>4. CASE /\ calls[c].at = "probe" \/ calls[c].listening
               /\ calls' = [Stale(answered) EXCEPT ![c] = Awaits("media")]
      <4>1. rendered.active /\ rendered.ready
        BY <1>0, <3>1, <3>4 DEF MicrophoneIsOwned
      <4>2. calls'[c].at = "media" /\ \A d \in Calls : d # c => ~calls'[d].current
        BY <1>1, <3>4, StaleIsTyped, IdleIsACall
      <4> QED BY <1>0, <2>4, <3>2, <4>1, <4>2 DEF MicrophoneIsOwned
    <3> QED BY <2>3, <3>3, <3>4 DEF Capture
  <2>6. overlapped' \in BOOLEAN
    BY <2>1
  <2> QED BY <1>0, <2>4, <2>5, <2>6, CallStepsKeep DEF CallsQuiet, ListenerTypeOK
<1> QED BY <1>3, <1>4

LEMMA ListenerNextPreserves == ListenerIInv /\ [ListenerNext]_voiceVars => ListenerIInv'
<1>1. SUFFICES ASSUME ListenerIInv, [ListenerNext]_voiceVars PROVE ListenerIInv'
  OBVIOUS
<1>2. CASE UNCHANGED voiceVars
  <2>1. UNCHANGED <<service, pill, toMain, toHook, hook, rendered, calls, mics, held, device,
                    overlapped, voiceActs>>
    BY <1>2 DEF voiceVars
  <2>2. ListenerTypeOK'
    BY <1>1, <2>1 DEF ListenerIInv, ListenerTypeOK
  <2> QED BY <1>1, <2>1, <2>2, NothingTold, NothingOpened DEF ListenerIInv
<1>3. ASSUME NEW c \in Calls, Probed(c) \/ Opened(c) \/ Fails(c) \/ Wired(c)
      PROVE  ListenerIInv'
  BY <1>1, <1>3, ProbedKeeps, OpenedKeeps, FailsKeeps, WiredKeeps
<1> QED BY <1>1, <1>2, <1>3, EffectsKeep, HookReceivesKeeps, DeviceChangesKeeps,
           PreferenceKeeps, RetryKeeps, BridgeReceivesKeeps, ServiceKeeps, TogglesKeep
        DEF ListenerNext

LEMMA ListenerInvariant == ListenerSpec => []ListenerIInv
BY ListenerInitEstablishes, ListenerNextPreserves, PTL DEF ListenerSpec

(* Whatever messages crossed on the way, once all have arrived and the     *)
(* effects have run, the bridge and the hook agree on the pill, on the     *)
(* readiness of the service and on whether it is to listen.                *)
THEOREM SwitchReachesTheServiceHolds == ListenerSpec => []SwitchReachesTheService
<1>1. ASSUME ListenerIInv PROVE SwitchReachesTheService
  <2>1. SUFFICES ASSUME Rendered, toMain = <<>>, toHook = <<>>
                 PROVE  /\ hook.suppressed = pill
                        /\ hook.isReady => service.process = "ready" /\ service.enabled = Active
                        /\ Active /\ service.process = "ready" => hook.isReady
    BY DEF SwitchReachesTheService, Settled
  <2>2. hook.suppressed = pill /\ hook.isReady = (service.process = "ready")
    BY <1>1, <2>1, TellsWhenEmpty DEF ListenerIInv, PillIsTold, ReadinessIsTold
  <2>3. rendered.active = Active /\ rendered.ready = hook.isReady
    BY <1>1, <2>1, ListenerTypes DEF ListenerIInv, Rendered
  <2>4. ~PillComes
    BY <2>1, <2>3 DEF PillComes, Has
  <2>5. hook.isReady => service.enabled = rendered.active
    BY <1>1, <2>1, <2>3, <2>4, TellsWhenEmpty DEF ListenerIInv, SwitchIsTold
  <2> QED BY <2>2, <2>3, <2>5
<1> QED BY <1>1, ListenerInvariant, PTL

(* No stop and no start, overtaking any number of starts that await        *)
(* getUserMedia or the audio processor, leaves a microphone open that the  *)
(* hook cannot close or that nobody listens to.                            *)
THEOREM OvertakenStartsCloseTheMicrophoneHolds ==
  ListenerSpec => []OvertakenStartsCloseTheMicrophone
<1>1. ASSUME ListenerIInv PROVE OvertakenStartsCloseTheMicrophone
  <2>1. Rendered => rendered.active = Active /\ rendered.ready = hook.isReady
    BY <1>1, ListenerTypes DEF ListenerIInv, Rendered
  <2> QED BY <1>1, <2>1
      DEF ListenerIInv, MicrophoneIsOwned, OvertakenStartsCloseTheMicrophone,
          MicrophoneFollowsTheSwitch
<1> QED BY <1>1, ListenerInvariant, PTL

-----------------------------------------------------------------------------
(* InferenceSession: who may take the backend to have the history.         *)

(* A rewrite runs alone, and the store never runs ahead.                   *)
RewritesAlone ==
  /\ stored <= turns
  /\ Rewriting => /\ turns = rewrite.keep /\ rewrite.keep < MaxHistory
                  /\ rewrite.by \in Renderers
                  /\ \A w \in Renderers, k \in Kinds : flows[w][k].at = "idle"

(* A window whose state says so, or a flow that has seen to it and was not *)
(* disturbed, meets a backend that knows the conversation; an empty        *)
(* conversation is known by itself.                                        *)
ClaimsAreTrue ==
  ~astray /\ ~Rewriting =>
    /\ turns = 0 => context = 0
    /\ \A w \in Renderers : w \notin untold /\ syncStates[w] \in {"hydrated", "local-only"} =>
         context = turns
    /\ \A w \in Renderers, k \in Kinds :
         flows[w][k].at = "ready" /\ ~flows[w][k].disturbed => context = turns

InferenceIInv == InferenceTypeOK /\ RewritesAlone /\ ClaimsAreTrue

LEMMA FlowsAreTyped == NoFlow \in Flows /\ NoFlow.at = "idle"
BY DEF NoFlow, Flows

LEMMA ReadyFlow ==
  ASSUME NEW f \in Flows
  PROVE  /\ [f EXCEPT !.at = "ready"] \in Flows
         /\ [f EXCEPT !.at = "ready", !.disturbed = TRUE] \in Flows
         /\ [f EXCEPT !.at = "ready", !.disturbed = TRUE].disturbed
BY DEF Flows

LEMMA DisturbedFlow ==
  ASSUME NEW f \in Flows
  PROVE  /\ [f EXCEPT !.disturbed = TRUE] \in Flows
         /\ [f EXCEPT !.disturbed = TRUE].disturbed
BY DEF Flows

LEMMA PastFlow ==
  ASSUME NEW f \in Flows
  PROVE  /\ [f EXCEPT !.current = FALSE] \in Flows
         /\ [f EXCEPT !.current = FALSE].at = f.at
         /\ [f EXCEPT !.current = FALSE].disturbed = f.disturbed
BY DEF Flows

LEMMA InferenceInitEstablishes == InferenceInit => InferenceIInv
<1>1. SUFFICES ASSUME InferenceInit PROVE InferenceIInv
  OBVIOUS
<1>2. ~Rewriting /\ turns = stored /\ turns \in 0..1
  BY <1>1 DEF InferenceInit, Rewriting
<1>3. InferenceTypeOK
  <2>1. flows \in [Renderers -> [Kinds -> Flows]]
    BY <1>1, FlowsAreTyped DEF InferenceInit
  <2>2. syncStates \in [Renderers -> States]
    BY <1>1 DEF InferenceInit, States
  <2>3. turns \in 0..MaxHistory /\ stored \in 0..MaxHistory
    BY <1>1, <1>2, InferenceBounds DEF InferenceInit
  <2>4. faults \in 0..MaxSessionFaults /\ context \in Nat
    BY <1>1, InferenceBounds DEF InferenceInit
  <2>5. untold = {} /\ rewrite = NoRewrite /\ astray = FALSE
    BY <1>1 DEF InferenceInit
  <2> QED BY <2>1, <2>2, <2>3, <2>4, <2>5 DEF InferenceTypeOK
<1>4. ClaimsAreTrue
  BY <1>1, FlowsAreTyped DEF InferenceInit, ClaimsAreTrue
<1> QED BY <1>1, <1>2, <1>3, <1>4 DEF InferenceIInv, RewritesAlone, InferenceInit

(* What the steps that move no conversation have to show.                  *)
LEMMA FlowStepsKeep ==
  ASSUME InferenceIInv, ConversationRests, faults' \in 0..MaxSessionFaults,
         untold' \subseteq untold, flows' \in [Renderers -> [Kinds -> Flows]],
         syncStates' \in [Renderers -> States],
         \A w \in Renderers : w \notin untold' /\ syncStates'[w] \in {"hydrated", "local-only"} =>
           w \notin untold /\ syncStates[w] \in {"hydrated", "local-only"},
         \A w \in Renderers, k \in Kinds : flows'[w][k].at = "ready" /\ ~flows'[w][k].disturbed =>
           \/ flows[w][k].at = "ready" /\ ~flows[w][k].disturbed
           \/ w \notin untold /\ syncStates[w] \in {"hydrated", "local-only"},
         Rewriting => \A w \in Renderers, k \in Kinds : flows'[w][k].at = "idle"
  PROVE  InferenceIInv'
<1>1. InferenceTypeOK'
  BY DEF InferenceIInv, InferenceTypeOK, ConversationRests
<1>2. RewritesAlone'
  BY DEF InferenceIInv, RewritesAlone, ConversationRests, Rewriting
<1>3. ClaimsAreTrue'
  BY DEF InferenceIInv, ClaimsAreTrue, ConversationRests, Rewriting
<1> QED BY <1>1, <1>2, <1>3 DEF InferenceIInv

LEMMA SubmitsKeeps ==
  ASSUME InferenceIInv, NEW w \in Renderers, NEW k \in Kinds, Submits(w, k)
  PROVE  InferenceIInv'
<1>0. /\ flows \in [Renderers -> [Kinds -> Flows]] /\ syncStates \in [Renderers -> States]
      /\ ConversationRests /\ ~Rewriting /\ UNCHANGED <<untold, faults>> /\ Ensures(w, k)
      /\ faults \in 0..MaxSessionFaults
  BY DEF InferenceIInv, InferenceTypeOK, Submits
<1>1. CASE syncStates[w] \in {"hydrated", "local-only"}
  <2> DEFINE told == w \in untold
           ready == [at |-> "ready", current |-> TRUE, disturbed |-> told]
  <2>1. /\ syncStates' = [syncStates EXCEPT ![w] = "hydrated"]
        /\ flows' = [flows EXCEPT ![w][k] = ready]
    BY <1>0, <1>1 DEF Ensures
  <2>2. ready \in Flows /\ (~ready.disturbed => w \notin untold)
    <3>1. told \in BOOLEAN /\ (~told => w \notin untold)
      OBVIOUS
    <3> HIDE DEF told
    <3> QED BY <3>1 DEF Flows
  <2> HIDE DEF ready, told
  <2>3. /\ flows' \in [Renderers -> [Kinds -> Flows]] /\ flows'[w][k] = ready
        /\ \A u \in Renderers, j \in Kinds : u # w \/ j # k => flows'[u][j] = flows[u][j]
    BY <1>0, <2>1, <2>2
  <2>4. syncStates' \in [Renderers -> States]
        /\ \A u \in Renderers : u # w => syncStates'[u] = syncStates[u]
    BY <1>0, <2>1 DEF States
  <2> QED BY <1>0, <1>1, <2>2, <2>3, <2>4, FlowStepsKeep
<1>2. CASE syncStates[w] \notin {"hydrated", "local-only"}
  <2>1. PICK at \in {"joins", "loads"} :
          flows' = [flows EXCEPT ![w][k] =
                      [at |-> at, current |-> TRUE, disturbed |-> w \in untold]]
    BY <1>0, <1>2 DEF Ensures
  <2> DEFINE told == w \in untold
           wait == [at |-> at, current |-> TRUE, disturbed |-> told]
  <2>2. wait \in Flows /\ wait.at # "ready"
    <3>1. told \in BOOLEAN
      OBVIOUS
    <3> HIDE DEF told
    <3> QED BY <3>1 DEF Flows
  <2>3. flows' = [flows EXCEPT ![w][k] = wait]
    BY <2>1
  <2> HIDE DEF wait
  <2>4. /\ flows' \in [Renderers -> [Kinds -> Flows]] /\ flows'[w][k] = wait
        /\ \A u \in Renderers, j \in Kinds : u # w \/ j # k => flows'[u][j] = flows[u][j]
    BY <1>0, <2>2, <2>3
  <2>5. syncStates' = syncStates
    BY <1>0, <1>2 DEF Ensures
  <2> QED BY <1>0, <2>2, <2>4, <2>5, FlowStepsKeep
<1> QED BY <1>1, <1>2

LEMMA LoadedKeeps ==
  ASSUME InferenceIInv, NEW w \in Renderers, NEW k \in Kinds, Loaded(w, k)
  PROVE  InferenceIInv'
<1>0. /\ InferenceTypeOK /\ RewritesAlone /\ ClaimsAreTrue /\ flows[w][k].at = "loads"
      /\ flows \in [Renderers -> [Kinds -> Flows]] /\ syncStates \in [Renderers -> States]
      /\ context' = (IF stored > 0 THEN stored ELSE context)
      /\ astray' = (stored < turns \/ (stored = 0 /\ astray))
      /\ UNCHANGED <<turns, stored, untold, rewrite, faults>>
  BY DEF InferenceIInv, InferenceTypeOK, Loaded
<1>1. ~Rewriting /\ ~Rewriting'
  BY <1>0 DEF RewritesAlone, Rewriting
<1>2. syncStates' \in [Renderers -> States]
  BY <1>0 DEF Loaded, States
<1>3. flows' \in [Renderers -> [Kinds -> Flows]]
  <2>1. ASSUME NEW j \in Kinds
        PROVE  [flows[w][j] EXCEPT !.at = "ready"] \in Flows /\ flows[w][j] \in Flows
    <3>1. flows[w][j] \in Flows
      BY <1>0
    <3> QED BY <3>1, ReadyFlow
  <2> QED BY <1>0, <2>1 DEF Loaded
<1>4. turns \in Nat /\ stored \in Nat /\ context \in Nat /\ astray' \in BOOLEAN
  BY <1>0 DEF InferenceTypeOK
<1>5. ~astray' => context' = turns
  <2>1. SUFFICES ASSUME ~astray' PROVE context' = turns
    OBVIOUS
  <2>2. stored = turns
    <3>1. stored <= turns /\ ~(stored < turns)
      BY <1>0, <2>1 DEF RewritesAlone
    <3> QED BY <1>4, <3>1
  <2>3. CASE stored > 0
    BY <1>0, <2>2, <2>3
  <2>4. CASE stored = 0
    BY <1>0, <1>1, <2>1, <2>2, <2>4 DEF ClaimsAreTrue
  <2> QED BY <1>4, <2>3, <2>4
<1>6. InferenceTypeOK'
  BY <1>0, <1>2, <1>3, <1>4 DEF InferenceTypeOK
<1>7. RewritesAlone' /\ ClaimsAreTrue'
  BY <1>0, <1>1, <1>5 DEF RewritesAlone, ClaimsAreTrue
<1> QED BY <1>6, <1>7 DEF InferenceIInv

LEMMA LoadFailsKeeps ==
  ASSUME InferenceIInv, NEW w \in Renderers, NEW k \in Kinds, LoadFails(w, k)
  PROVE  InferenceIInv'
<1>0. /\ flows \in [Renderers -> [Kinds -> Flows]] /\ syncStates \in [Renderers -> States]
      /\ flows[w][k].at = "loads" /\ ConversationRests /\ UNCHANGED <<untold, syncStates>>
      /\ faults \in 0..MaxSessionFaults
  BY DEF InferenceIInv, InferenceTypeOK, LoadFails
<1>1. ~Rewriting
  BY <1>0 DEF InferenceIInv, RewritesAlone
<1>2. faults' \in 0..MaxSessionFaults
  <2>1. faults < MaxSessionFaults /\ faults' = faults + 1
    BY DEF LoadFails, Fault
  <2> QED BY <1>0, <2>1, InferenceBounds
<1>3. ASSUME NEW j \in Kinds
      PROVE  /\ flows[w][j] \in Flows
             /\ [flows[w][j] EXCEPT !.at = "ready", !.disturbed = TRUE] \in Flows
             /\ [flows[w][j] EXCEPT !.at = "ready", !.disturbed = TRUE].disturbed
  <2>1. flows[w][j] \in Flows
    BY <1>0
  <2> QED BY <2>1, ReadyFlow
<1>4. /\ flows' \in [Renderers -> [Kinds -> Flows]]
      /\ \A u \in Renderers : u # w => flows'[u] = flows[u]
      /\ \A j \in Kinds : \/ flows'[w][j] = flows[w][j]
                           \/ flows'[w][j] = NoFlow
                           \/ flows'[w][j] = [flows[w][j] EXCEPT !.at = "ready", !.disturbed = TRUE]
  BY <1>0, <1>3, FlowsAreTyped DEF LoadFails
<1>5. \A u \in Renderers, j \in Kinds : flows'[u][j].at = "ready" /\ ~flows'[u][j].disturbed =>
        flows[u][j].at = "ready" /\ ~flows[u][j].disturbed
  <2>1. ASSUME NEW j \in Kinds, flows'[w][j].at = "ready", ~flows'[w][j].disturbed
        PROVE  flows[w][j].at = "ready" /\ ~flows[w][j].disturbed
    <3>1. flows'[w][j] # NoFlow
      BY <2>1, FlowsAreTyped
    <3>2. flows'[w][j] = flows[w][j]
      BY <1>3, <1>4, <2>1, <3>1
    <3> QED BY <2>1, <3>2
  <2> QED BY <1>4, <2>1
<1> QED BY <1>0, <1>1, <1>2, <1>4, <1>5, FlowStepsKeep

LEMMA SendsQueryKeeps ==
  ASSUME InferenceIInv, NEW w \in Renderers, SendsQuery(w)
  PROVE  InferenceIInv'
<1>0. /\ InferenceTypeOK /\ RewritesAlone /\ ClaimsAreTrue /\ ~Rewriting /\ turns < MaxHistory
      /\ flows \in [Renderers -> [Kinds -> Flows]]
      /\ turns' = turns + 1 /\ context' = context + 1
      /\ flows' = [flows EXCEPT ![w]["query"] = NoFlow]
      /\ UNCHANGED <<stored, untold, syncStates, rewrite, astray, faults>>
      /\ turns \in 0..MaxHistory /\ stored \in 0..MaxHistory /\ context \in Nat
  BY DEF InferenceIInv, InferenceTypeOK, SendsQuery
<1>1. /\ flows' \in [Renderers -> [Kinds -> Flows]] /\ "query" \in Kinds
      /\ flows'[w]["query"] = NoFlow
      /\ \A u \in Renderers, j \in Kinds : u # w \/ j # "query" => flows'[u][j] = flows[u][j]
  BY <1>0, FlowsAreTyped DEF Kinds
<1>2. turns' \in 0..MaxHistory /\ context' \in Nat /\ stored <= turns' /\ turns' # 0
  BY <1>0, InferenceBounds DEF RewritesAlone
<1>3. InferenceTypeOK'
  BY <1>0, <1>1, <1>2 DEF InferenceTypeOK
<1>4. RewritesAlone'
  BY <1>0, <1>2 DEF RewritesAlone, Rewriting
<1>5. ClaimsAreTrue'
  <2>1. SUFFICES ASSUME ~astray PROVE ClaimsAreTrue'
    BY <1>0 DEF ClaimsAreTrue
  <2>2. \A u \in Renderers, j \in Kinds :
          flows'[u][j].at = "ready" => flows[u][j] = flows'[u][j]
    BY <1>1, FlowsAreTyped
  <2>3. context = turns => context' = turns'
    BY <1>0
  <2> QED BY <1>0, <1>2, <2>1, <2>2, <2>3 DEF ClaimsAreTrue
<1> QED BY <1>3, <1>4, <1>5 DEF InferenceIInv

LEMMA WindowStepsKeep ==
  ASSUME InferenceIInv, NEW w \in Renderers,
         CompactsHistory(w) \/ Invalidates(w) \/ Reopens(w)
  PROVE  InferenceIInv'
<1>0. /\ flows \in [Renderers -> [Kinds -> Flows]] /\ syncStates \in [Renderers -> States]
      /\ faults \in 0..MaxSessionFaults /\ ConversationRests /\ faults' = faults
      /\ untold' \subseteq untold
  BY DEF InferenceIInv, InferenceTypeOK, CompactsHistory, Invalidates, Reopens
<1>1. Rewriting => \A u \in Renderers, j \in Kinds : flows[u][j].at = "idle"
  BY DEF InferenceIInv, RewritesAlone
<1>2. CASE CompactsHistory(w)
  <2>1. /\ flows' = [flows EXCEPT ![w]["compact"] = NoFlow] /\ UNCHANGED <<untold, syncStates>>
        /\ "compact" \in Kinds
    BY <1>2 DEF CompactsHistory, Kinds
  <2>2. /\ flows' \in [Renderers -> [Kinds -> Flows]] /\ flows'[w]["compact"] = NoFlow
        /\ \A u \in Renderers, j \in Kinds : u # w \/ j # "compact" => flows'[u][j] = flows[u][j]
    BY <1>0, <2>1, FlowsAreTyped
  <2>3. NoFlow.at # "ready" /\ NoFlow.at = "idle"
    BY FlowsAreTyped
  <2>4. \A u \in Renderers, j \in Kinds :
          /\ flows'[u][j].at = "ready" => flows'[u][j] = flows[u][j]
          /\ flows[u][j].at = "idle" => flows'[u][j].at = "idle"
    BY <2>2, <2>3
  <2> QED BY <1>0, <1>1, <2>1, <2>2, <2>4, FlowStepsKeep
<1>3. CASE Invalidates(w)
  <2>1. /\ untold' = untold \ {w} /\ syncStates' = [syncStates EXCEPT ![w] = "none"]
        /\ flows' = [flows EXCEPT ![w] = [j \in Kinds |->
             IF flows[w][j].at = "idle" THEN flows[w][j] ELSE [flows[w][j] EXCEPT !.current = FALSE]]]
    BY <1>0, <1>3 DEF Invalidates
  <2>2. ASSUME NEW j \in Kinds
        PROVE  /\ flows[w][j] \in Flows
               /\ [flows[w][j] EXCEPT !.current = FALSE] \in Flows
               /\ [flows[w][j] EXCEPT !.current = FALSE].at = flows[w][j].at
               /\ [flows[w][j] EXCEPT !.current = FALSE].disturbed = flows[w][j].disturbed
    <3>1. flows[w][j] \in Flows
      BY <1>0
    <3> QED BY <3>1, PastFlow
  <2>3. /\ flows' \in [Renderers -> [Kinds -> Flows]]
        /\ \A u \in Renderers, j \in Kinds : flows'[u][j].at = flows[u][j].at
                                            /\ flows'[u][j].disturbed = flows[u][j].disturbed
    BY <1>0, <2>1, <2>2
  <2>4. /\ syncStates' \in [Renderers -> States] /\ syncStates'[w] = "none"
        /\ \A u \in Renderers : u # w => syncStates'[u] = syncStates[u]
    BY <1>0, <2>1 DEF States
  <2> QED BY <1>0, <1>1, <2>1, <2>3, <2>4, FlowStepsKeep
<1>4. CASE Reopens(w)
  <2>1. /\ syncStates' = [syncStates EXCEPT ![w] = "unknown"] /\ UNCHANGED <<untold, flows>>
    BY <1>4 DEF Reopens
  <2>2. /\ syncStates' \in [Renderers -> States] /\ syncStates'[w] = "unknown"
        /\ \A u \in Renderers : u # w => syncStates'[u] = syncStates[u]
    BY <1>0, <2>1 DEF States
  <2> QED BY <1>0, <1>1, <2>1, <2>2, FlowStepsKeep
<1> QED BY <1>2, <1>3, <1>4

LEMMA StoresTurnKeeps ==
  ASSUME InferenceIInv, StoresTurn \/ RestoresTurn
  PROVE  InferenceIInv'
<1>0. /\ InferenceTypeOK /\ RewritesAlone /\ ClaimsAreTrue /\ stored' = stored + 1
      /\ UNCHANGED <<turns, context, untold, syncStates, flows, rewrite, astray, faults>>
      /\ turns \in 0..MaxHistory /\ stored \in 0..MaxHistory
  BY DEF InferenceIInv, InferenceTypeOK, StoresTurn, RestoresTurn
<1>1. stored < turns
  BY <1>0 DEF StoresTurn, RestoresTurn, RewritesAlone
<1>2. stored' \in 0..MaxHistory /\ stored' <= turns
  BY <1>0, <1>1, InferenceBounds
<1>3. InferenceTypeOK'
  BY <1>0, <1>2 DEF InferenceTypeOK
<1>4. RewritesAlone' /\ ClaimsAreTrue'
  BY <1>0, <1>2 DEF RewritesAlone, ClaimsAreTrue, Rewriting
<1> QED BY <1>3, <1>4 DEF InferenceIInv

LEMMA LinkDropsKeeps ==
  ASSUME InferenceIInv, LinkDrops
  PROVE  InferenceIInv'
<1>0. /\ InferenceTypeOK /\ RewritesAlone /\ context' = 0 /\ astray' = FALSE
      /\ untold' = Renderers /\ flows \in [Renderers -> [Kinds -> Flows]]
      /\ flows' = [w \in Renderers |-> [k \in Kinds |->
           IF flows[w][k].at = "idle" THEN NoFlow ELSE [flows[w][k] EXCEPT !.disturbed = TRUE]]]
      /\ UNCHANGED <<turns, stored, syncStates, rewrite>>
      /\ faults \in 0..MaxSessionFaults /\ faults < MaxSessionFaults /\ faults' = faults + 1
  BY DEF InferenceIInv, InferenceTypeOK, LinkDrops, Fault
<1>1. /\ flows' \in [Renderers -> [Kinds -> Flows]]
      /\ \A w \in Renderers, k \in Kinds : flows'[w][k].at = "idle" \/ flows'[w][k].disturbed
      /\ \A w \in Renderers, k \in Kinds : flows[w][k].at = "idle" => flows'[w][k].at = "idle"
  <2>1. ASSUME NEW w \in Renderers, NEW k \in Kinds
        PROVE  /\ [flows[w][k] EXCEPT !.disturbed = TRUE] \in Flows
               /\ [flows[w][k] EXCEPT !.disturbed = TRUE].disturbed
    <3>1. flows[w][k] \in Flows
      BY <1>0
    <3> QED BY <3>1, DisturbedFlow
  <2> QED BY <1>0, <2>1, FlowsAreTyped
<1>2. faults' \in 0..MaxSessionFaults
  BY <1>0, InferenceBounds
<1>3. InferenceTypeOK'
  BY <1>0, <1>1, <1>2 DEF InferenceTypeOK
<1>4. RewritesAlone'
  BY <1>0, <1>1 DEF RewritesAlone, Rewriting
<1>5. ClaimsAreTrue'
  BY <1>0, <1>1 DEF ClaimsAreTrue
<1> QED BY <1>3, <1>4, <1>5 DEF InferenceIInv

LEMMA EditsKeeps ==
  ASSUME InferenceIInv, NEW w \in Renderers, NEW keep \in 0..(MaxHistory - 1), Edits(w, keep)
  PROVE  InferenceIInv'
<1>0. /\ InferenceTypeOK /\ rewrite' = [by |-> w, keep |-> keep] /\ turns' = keep /\ stored' = 0
      /\ \A u \in Renderers, k \in Kinds : flows[u][k].at = "idle"
      /\ UNCHANGED <<context, untold, syncStates, flows, astray, faults>>
  BY DEF InferenceIInv, Edits
<1>1. keep \in 0..MaxHistory /\ keep < MaxHistory /\ 0 \in 0..MaxHistory /\ 0 <= keep
  BY InferenceBounds
<1>2. Rewriting' /\ rewrite'.by = w /\ rewrite'.keep = keep
  BY <1>0, InferenceBounds DEF Rewriting, NoRewrite
<1>3. InferenceTypeOK'
  BY <1>0, <1>1 DEF InferenceTypeOK
<1>4. RewritesAlone' /\ ClaimsAreTrue'
  BY <1>0, <1>1, <1>2 DEF RewritesAlone, ClaimsAreTrue
<1> QED BY <1>3, <1>4 DEF InferenceIInv

LEMMA RestoreFailsKeeps ==
  ASSUME InferenceIInv, RestoreFails
  PROVE  InferenceIInv'
<1>0. /\ InferenceTypeOK /\ RewritesAlone /\ rewrite' = NoRewrite /\ astray' = TRUE
      /\ UNCHANGED <<turns, stored, context, untold, syncStates, flows>>
      /\ faults \in 0..MaxSessionFaults /\ faults < MaxSessionFaults /\ faults' = faults + 1
  BY DEF InferenceIInv, InferenceTypeOK, RestoreFails, Fault
<1>1. faults' \in 0..MaxSessionFaults
  BY <1>0, InferenceBounds
<1>2. InferenceTypeOK'
  BY <1>0, <1>1 DEF InferenceTypeOK
<1> QED BY <1>0, <1>2 DEF InferenceIInv, RewritesAlone, ClaimsAreTrue, Rewriting

LEMMA ReplaysKeeps ==
  ASSUME InferenceIInv, Replays
  PROVE  InferenceIInv'
<1>0. /\ InferenceTypeOK /\ RewritesAlone /\ Rewriting /\ stored = rewrite.keep
      /\ context' = rewrite.keep + 1 /\ astray' = FALSE /\ turns' = turns + 1
      /\ syncStates' = [syncStates EXCEPT ![rewrite.by] = "hydrated"]
      /\ rewrite' = NoRewrite
      /\ UNCHANGED <<stored, untold, flows, faults>>
      /\ turns \in 0..MaxHistory /\ stored \in 0..MaxHistory
      /\ syncStates \in [Renderers -> States]
  BY DEF InferenceIInv, InferenceTypeOK, Replays
<1>1. turns = rewrite.keep /\ turns < MaxHistory /\ rewrite.by \in Renderers
  BY <1>0 DEF RewritesAlone
<1>2. turns' \in 0..MaxHistory /\ context' \in Nat /\ context' = turns' /\ stored <= turns' /\ turns' # 0
  BY <1>0, <1>1, InferenceBounds
<1>3. syncStates' \in [Renderers -> States]
  BY <1>0 DEF States
<1>4. InferenceTypeOK'
  BY <1>0, <1>2, <1>3 DEF InferenceTypeOK
<1>5. ClaimsAreTrue'
  BY <1>0, <1>2 DEF ClaimsAreTrue
<1>6. RewritesAlone'
  BY <1>0, <1>2 DEF RewritesAlone, Rewriting
<1> QED BY <1>4, <1>5, <1>6 DEF InferenceIInv

LEMMA InferenceNextPreserves == InferenceIInv /\ [InferenceNext]_inferenceVars => InferenceIInv'
<1>1. SUFFICES ASSUME InferenceIInv, [InferenceNext]_inferenceVars PROVE InferenceIInv'
  OBVIOUS
<1>2. CASE UNCHANGED inferenceVars
  BY <1>1, <1>2 DEF inferenceVars, InferenceIInv, InferenceTypeOK, RewritesAlone, ClaimsAreTrue,
                    Rewriting
<1> QED BY <1>1, <1>2, SubmitsKeeps, LoadedKeeps, LoadFailsKeeps, SendsQueryKeeps,
           WindowStepsKeep, EditsKeeps, StoresTurnKeeps, LinkDropsKeeps, RestoreFailsKeeps,
           ReplaysKeeps DEF InferenceNext

LEMMA InferenceInvariant == InferenceSpec => []InferenceIInv
BY InferenceInitEstablishes, InferenceNextPreserves, PTL DEF InferenceSpec

(* A turn is added only by a query, or by the query of a rewrite.          *)
LEMMA QueriesMeetHistory ==
  ASSUME InferenceIInv, [InferenceNext]_inferenceVars, turns' > turns
  PROVE  \/ astray
         \/ \E w \in Renderers : flows[w]["query"] # flows'[w]["query"]
                                 /\ flows[w]["query"].disturbed
         \/ context' = turns'
<1>0. turns \in Nat /\ turns' # turns
  <2>1. turns \in Nat
    BY DEF InferenceIInv, InferenceTypeOK
  <2> QED BY <2>1
<1>1. (\E w \in Renderers : SendsQuery(w)) \/ Replays
  <2>1. \A w \in Renderers, keep \in 0..(MaxHistory - 1) : ~Edits(w, keep)
    BY <1>0 DEF Edits
  <2>2. \A w \in Renderers, k \in Kinds : ~Submits(w, k) /\ ~Loaded(w, k) /\ ~LoadFails(w, k)
    BY <1>0 DEF Submits, Loaded, LoadFails, ConversationRests
  <2>3. \A w \in Renderers : ~CompactsHistory(w) /\ ~Invalidates(w) /\ ~Reopens(w)
    BY <1>0 DEF CompactsHistory, Invalidates, Reopens, ConversationRests
  <2>4. ~StoresTurn /\ ~LinkDrops /\ ~RestoresTurn /\ ~RestoreFails
    BY <1>0 DEF StoresTurn, LinkDrops, RestoresTurn, RestoreFails
  <2>5. ~UNCHANGED inferenceVars
    BY <1>0 DEF inferenceVars
  <2> QED BY <2>1, <2>2, <2>3, <2>4, <2>5 DEF InferenceNext
<1>2. ASSUME NEW w \in Renderers, SendsQuery(w), ~astray, ~flows[w]["query"].disturbed
      PROVE  context' = turns'
  BY <1>2 DEF InferenceIInv, ClaimsAreTrue, SendsQuery, Kinds
<1>3. ASSUME NEW w \in Renderers, SendsQuery(w)
      PROVE  flows[w]["query"] # flows'[w]["query"]
  <2>1. flows \in [Renderers -> [Kinds -> Flows]] /\ "query" \in Kinds
    BY DEF InferenceIInv, InferenceTypeOK, Kinds
  <2>2. flows'[w]["query"] = NoFlow /\ flows[w]["query"].at = "ready"
    BY <1>3, <2>1 DEF SendsQuery
  <2> QED BY <2>2, FlowsAreTyped
<1>4. CASE Replays
  BY <1>4 DEF InferenceIInv, RewritesAlone, Replays
<1> QED BY <1>1, <1>2, <1>3, <1>4

(* A query meets a backend that knows all before it, for any number of     *)
(* windows and turns, unless the link dropped under its flow or what the   *)
(* backend was given lacked a turn.                                        *)
THEOREM QueriesHaveHistoryHolds == InferenceSpec => QueriesHaveHistory
BY InferenceInvariant, QueriesMeetHistory, InferenceNextPreserves, PTL
   DEF InferenceSpec, QueriesHaveHistory
=============================================================================

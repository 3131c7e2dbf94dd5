--------------------------- MODULE MCRendererParts ---------------------------
(***************************************************************************)
(* Four parts of the renderers that share no variable, explored side by    *)
(* side: a behaviour belongs to one of them and the others stay at rest,   *)
(* so the state space is their sum.  "wakeword" is WakewordListener,       *)
(* "dictation" VoiceSession, "inference" InferenceSession and "config"     *)
(* ConfigSync.                                                             *)
(***************************************************************************)
EXTENDS WakewordListener, VoiceSession, InferenceSession, ConfigSync, TLC

VARIABLE part

PartVars == <<voiceVars, dictationVars, inferenceVars, configVars, part>>

PartInit ==
  /\ part \in {"wakeword", "dictation", "inference", "config"}
  /\ ListenerInit /\ DictationInit /\ InferenceInit /\ ConfigInit
  /\ part = "wakeword" \/ device
  /\ part = "inference" \/ turns = 1
  /\ \A k, l \in Keys : chosen[k] = chosen[l]

PartNext ==
  /\ part' = part
  /\ \/ /\ part = "wakeword" /\ ListenerNext
        /\ UNCHANGED <<dictationVars, inferenceVars, configVars>>
     \/ /\ part = "dictation" /\ DictationNext
        /\ UNCHANGED <<voiceVars, inferenceVars, configVars>>
     \/ /\ part = "inference" /\ InferenceNext
        /\ UNCHANGED <<voiceVars, dictationVars, configVars>>
     \/ /\ part = "config" /\ ConfigNext
        /\ UNCHANGED <<voiceVars, dictationVars, inferenceVars>>

PartSpec == PartInit /\ [][PartNext]_PartVars

Symmetry ==
  Permutations(Windows) \union Permutations(Savers) \union Permutations(Values)
=============================================================================

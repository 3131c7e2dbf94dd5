-------------------------- MODULE MCTranscriptParts --------------------------
(***************************************************************************)
(* The parts of the transcript that share no variable, explored side by    *)
(* side: a behaviour belongs to one of them and the others stay at rest,   *)
(* so the state space is their sum.  "replay" is ConversationReplay,       *)
(* "queue" is TranscriptQueue with the sessions of the other windows       *)
(* following at once, "session" is TranscriptSession before anything is    *)
(* recorded.                                                               *)
(***************************************************************************)
EXTENDS ConversationReplay, TranscriptQueue

VARIABLE part

PartVars == <<replayVars, sessionVars, queueVars, part>>

PartInit ==
  /\ part \in {"replay", "queue", "session"}
  /\ ReplayInit
  /\ QueueInit

\* The messages of the windows arrive before anything else happens, and the
\* other windows have nothing of their own to say.
SessionsFollow ==
  /\ SessionsDelivered \/ (queueVars' = queueVars /\ updates' = updates)
  /\ \A w \in Windows \ {Writer} : toMain'[w] = <<>>

PartNext ==
  /\ part' = part
  /\ \/ part = "replay" /\ ReplayNext /\ UNCHANGED <<sessionVars, queueVars>>
     \/ part = "queue" /\ QueueNext /\ SessionsFollow /\ UNCHANGED replayVars
     \/ part = "session" /\ SessionChanges /\ recorded' = {} /\ UNCHANGED replayVars

PartSpec ==
  /\ PartInit /\ [][PartNext]_PartVars
  /\ WF_replayVars(\E j \in Jobs : Continues(j))

=============================================================================

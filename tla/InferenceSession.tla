--------------------------- MODULE InferenceSession ---------------------------
(***************************************************************************)
(* The backend keeps the history of a conversation only as long as its     *)
(* link; the transcript on this machine is the source of truth.  Each      *)
(* window remembers whether the backend has the history and, if not, sends *)
(* it before it needs it (conversationInferenceSessionRuntime.ts).         *)
(*                                                                         *)
(* One conversation, counted in turns.  The backend is external: what it   *)
(* knows goes with the link, and a message of a window opens a new one.    *)
(* While one window rewrites the conversation no window sends a message.   *)
(***************************************************************************)
EXTENDS Naturals

CONSTANTS
  Renderers,        \* windows with a chat
  MaxHistory,       \* bound: turns of the conversation, at least one
  MaxSessionFaults  \* bound: links that drop, loads and rewrites that fail

ASSUME InferenceBounds ==
  MaxHistory \in Nat \ {0} /\ MaxSessionFaults \in Nat /\ "none" \notin Renderers

VARIABLES
  turns,     \* the conversation as the user sees it
  stored,    \* its turns in the transcript store
  context,   \* its turns the backend knows
  untold,    \* windows that have not been told the link dropped
  syncStates,
  flows,     \* what each window is about to send: see Flows
  rewrite,   \* the window that rewrites the conversation, and the turns it keeps
  astray,    \* history: the backend was given a transcript that lacks a turn, or a
             \* rewrite failed and left it the turns the user took back
  faults

inferenceVars == <<turns, stored, context, untold, syncStates, flows, rewrite, astray, faults>>

-----------------------------------------------------------------------------
Kinds == {"query", "compact"}

(* "loads" awaits the snapshot it asked for, "joins" one the other flow of *)
(* the window asked for; "ready" has the history sent.  current is the     *)
(* test of startingEpoch.  A flow is disturbed when the link drops under   *)
(* it, or when a load failed.                                              *)
Flows == [at : {"idle", "loads", "joins", "ready"}, current : BOOLEAN, disturbed : BOOLEAN]
NoFlow == [at |-> "idle", current |-> TRUE, disturbed |-> FALSE]

States == {"none", "unknown", "hydrated", "local-only"}
NoRewrite == [by |-> "none", keep |-> 0]
Rewriting == rewrite # NoRewrite

Fault == faults < MaxSessionFaults /\ faults' = faults + 1
Other(k) == CHOOSE j \in Kinds : j # k
ConversationRests == UNCHANGED <<turns, stored, context, astray, rewrite>>

-----------------------------------------------------------------------------
(* ensureConversationInferenceSessionHydrated, up to its load.             *)
Ensures(w, k) ==
  LET waits(at) == [at |-> at, current |-> TRUE, disturbed |-> w \in untold]
      sibling == flows[w][Other(k)]
  IN IF syncStates[w] \in {"hydrated", "local-only"}
     THEN /\ syncStates' = [syncStates EXCEPT ![w] = "hydrated"]
          /\ flows' = [flows EXCEPT ![w][k] = waits("ready")]
     ELSE /\ UNCHANGED syncStates
          /\ flows' = [flows EXCEPT ![w][k] =
                         waits(IF sibling.at = "loads" /\ sibling.current
                               THEN "joins" ELSE "loads")]

(* sendMessage, and the compaction of the header.                          *)
Submits(w, k) ==
  /\ flows[w][k].at = "idle" /\ ~Rewriting
  /\ k = "query" => turns < MaxHistory
  /\ Ensures(w, k)
  /\ ConversationRests
  /\ UNCHANGED <<untold, faults>>

(* The snapshot is there: a transcript with rows replaces what the backend *)
(* knows, and the window remembers so unless its epoch is over.  A flow    *)
(* that waits for the same load goes on with it.                           *)
Loaded(w, k) ==
  /\ flows[w][k].at = "loads"
  /\ context' = IF stored > 0 THEN stored ELSE context
  /\ astray' = (stored < turns \/ (stored = 0 /\ astray))
  /\ syncStates' = IF flows[w][k].current
                   THEN [syncStates EXCEPT ![w] = "hydrated"] ELSE syncStates
  /\ flows' = [flows EXCEPT ![w] = [j \in Kinds |->
                 IF j = k \/ @[j].at = "joins" THEN [@[j] EXCEPT !.at = "ready"] ELSE @[j]]]
  /\ UNCHANGED <<turns, stored, untold, rewrite, faults>>

(* The snapshot cannot be loaded: the message is dropped, the compaction   *)
(* goes on without.                                                        *)
LoadFails(w, k) ==
  /\ flows[w][k].at = "loads" /\ Fault
  /\ flows' = [flows EXCEPT ![w] = [j \in Kinds |->
       IF ~(j = k \/ @[j].at = "joins") THEN @[j]
       ELSE IF j = "query" THEN NoFlow
       ELSE [@[j] EXCEPT !.at = "ready", !.disturbed = TRUE]]]
  /\ ConversationRests
  /\ UNCHANGED <<untold, syncStates>>

(* The query goes out once screenshots and attachments are ready; its turn *)
(* is in the transcript a little later.                                    *)
SendsQuery(w) ==
  /\ flows[w]["query"].at = "ready" /\ ~Rewriting /\ turns < MaxHistory
  /\ turns' = turns + 1
  /\ context' = context + 1
  /\ flows' = [flows EXCEPT ![w]["query"] = NoFlow]
  /\ UNCHANGED <<stored, untold, syncStates, rewrite, astray, faults>>

CompactsHistory(w) ==
  /\ flows[w]["compact"].at = "ready"
  /\ flows' = [flows EXCEPT ![w]["compact"] = NoFlow]
  /\ ConversationRests
  /\ UNCHANGED <<untold, syncStates, faults>>

(* The transcript queue stores the next turn.                              *)
StoresTurn ==
  /\ stored < turns /\ ~Rewriting
  /\ stored' = stored + 1
  /\ UNCHANGED <<turns, context, untold, syncStates, flows, rewrite, astray, faults>>

-----------------------------------------------------------------------------
(* The link drops, and the windows are told.                               *)
LinkDrops ==
  /\ Fault
  /\ context' = 0 /\ astray' = FALSE
  /\ untold' = Renderers
  /\ flows' = [w \in Renderers |-> [k \in Kinds |->
       IF flows[w][k].at = "idle" THEN NoFlow
       ELSE [flows[w][k] EXCEPT !.disturbed = TRUE]]]
  /\ UNCHANGED <<turns, stored, syncStates, rewrite>>

(* The states are kept when the link drops.                                *)
Invalidates_Not(w) ==
  /\ w \in untold /\ untold' = untold \ {w}
  /\ ConversationRests
  /\ UNCHANGED <<syncStates, flows, faults>>

(* invalidateConversationInferenceSessionState: a new epoch, which knows   *)
(* nothing.                                                                *)
Invalidates(w) ==
  /\ w \in untold /\ untold' = untold \ {w}
  /\ syncStates' = [syncStates EXCEPT ![w] = "none"]
  /\ flows' = [flows EXCEPT ![w] = [k \in Kinds |->
       IF @[k].at = "idle" THEN @[k] ELSE [@[k] EXCEPT !.current = FALSE]]]
  /\ ConversationRests
  /\ UNCHANGED faults

(* markConversationInferenceSessionUnknown, as a window opens the          *)
(* conversation or starts.                                                 *)
Reopens(w) ==
  /\ syncStates' = [syncStates EXCEPT ![w] = "unknown"]
  /\ ConversationRests
  /\ UNCHANGED <<untold, flows, faults>>

-----------------------------------------------------------------------------
(* An edit or a retry (useConversationReplayActions.js) keeps some turns:  *)
(* the stored conversation is deleted first.                               *)
Edits(w, keep) ==
  /\ ~Rewriting /\ keep < turns
  /\ \A u \in Renderers, k \in Kinds : flows[u][k].at = "idle"
  /\ rewrite' = [by |-> w, keep |-> keep]
  /\ turns' = keep /\ stored' = 0
  /\ UNCHANGED <<context, untold, syncStates, flows, astray, faults>>

(* Each row is stored again and awaited.                                   *)
RestoresTurn ==
  /\ Rewriting /\ stored < rewrite.keep
  /\ stored' = stored + 1
  /\ UNCHANGED <<turns, context, untold, syncStates, flows, rewrite, astray, faults>>

(* The rows that could not be stored again are lost to the store.          *)
RestoreFails ==
  /\ Rewriting /\ Fault
  /\ rewrite' = NoRewrite /\ astray' = TRUE
  /\ UNCHANGED <<turns, stored, context, untold, syncStates, flows>>

(* rehydrateConversationInferenceSession with the turns that were kept,    *)
(* even none, and the query after it.                                      *)
Replays ==
  /\ Rewriting /\ stored = rewrite.keep
  /\ context' = rewrite.keep + 1 /\ astray' = FALSE
  /\ turns' = turns + 1
  /\ syncStates' = [syncStates EXCEPT ![rewrite.by] = "hydrated"]
  /\ rewrite' = NoRewrite
  /\ UNCHANGED <<stored, untold, flows, faults>>

-----------------------------------------------------------------------------
(* A new conversation of one window, or one of an earlier run.             *)
InferenceInit ==
  /\ turns \in 0..1 /\ stored = turns /\ context = 0
  /\ untold = {}
  /\ syncStates \in [Renderers -> {"none", "local-only"}]
  /\ \A w \in Renderers : syncStates[w] = "local-only" => turns = 0
  /\ flows = [w \in Renderers |-> [k \in Kinds |-> NoFlow]]
  /\ rewrite = NoRewrite /\ astray = FALSE /\ faults = 0

InferenceNext ==
  \/ \E w \in Renderers, k \in Kinds : Submits(w, k) \/ Loaded(w, k) \/ LoadFails(w, k)
  \/ \E w \in Renderers : SendsQuery(w) \/ CompactsHistory(w) \/ Invalidates(w) \/ Reopens(w)
  \/ \E w \in Renderers, keep \in 0..(MaxHistory - 1) : Edits(w, keep)
  \/ StoresTurn \/ LinkDrops \/ RestoresTurn \/ RestoreFails \/ Replays

InferenceSpec == InferenceInit /\ [][InferenceNext]_inferenceVars

-----------------------------------------------------------------------------
(* The variables hold values of their types.                               *)
InferenceTypeOK ==
  /\ turns \in 0..MaxHistory /\ stored \in 0..MaxHistory /\ context \in Nat
  /\ untold \subseteq Renderers
  /\ syncStates \in [Renderers -> States]
  /\ flows \in [Renderers -> [Kinds -> Flows]]
  /\ rewrite = NoRewrite \/ rewrite \in [by : Renderers, keep : 0..MaxHistory]
  /\ astray \in BOOLEAN /\ faults \in 0..MaxSessionFaults

(* A query meets a backend that knows the whole conversation before it,    *)
(* whichever window sends it and whatever dropped in between; unless the   *)
(* link drops after the history was sent and before the query is, a turn   *)
(* was not yet stored when the transcript was loaded, or a rewrite failed. *)
QueriesHaveHistory ==
  [][turns' > turns =>
       \/ astray
       \/ \E w \in Renderers : flows[w]["query"] # flows'[w]["query"]
                               /\ flows[w]["query"].disturbed
       \/ context' = turns']_inferenceVars

=============================================================================

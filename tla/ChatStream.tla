----------------------------- MODULE ChatStream -----------------------------
(***************************************************************************)
(* The chat stream of the dashboard's renderer: the backend's events are   *)
(* routed to the workspace of their conversation, gated by the turn the    *)
(* workspace follows, and applied to its rows, its sending latch and its   *)
(* stream tracking, while the user sends, stops, opens, clears and deletes *)
(* conversations and the chat pill sends queries of its own.               *)
(*                                                                         *)
(* The handling of one event runs to its end, and the websocket and the    *)
(* IPC channel keep the order of events, so an event is handled in the step*)
(* that emits it.  A send of this window gives up control between the      *)
(* click, the optimistic row and the query, so it is three steps.          *)
(*                                                                         *)
(* Abstracted: a text is the number of chunks it holds; thinking texts,    *)
(* token counts, screenshots and what the metadata events add to a row are *)
(* left out, and so is the event's way to the transcript database, which   *)
(* ConversationReplay models.                                              *)
(***************************************************************************)
EXTENDS Naturals, Sequences, FiniteSets

CONSTANTS
  Conversations, Turns,
  NoConversation, NoTurn,
  MaxChunks,    \* bound: the chunks of one stretch of text
  MaxTools,     \* bound: the tool rows of one turn
  MaxChatActs   \* bound: what the user does, sends of the pill included

ASSUME AbsentRefs ==
  /\ NoConversation \notin Conversations
  /\ NoTurn \notin Turns
  /\ Conversations \intersect Turns = {}
ASSUME StreamBounds ==
  /\ MaxChunks \in Nat \ {0}
  /\ MaxTools \in Nat
  /\ MaxChatActs \in Nat

VARIABLES
  foreground,       \* activeConversationRef of the chat store
  session,          \* the conversation of the transcript session
  spaces,           \* the store's workspaces, NoConversation the default one
  turnConversation, \* turnConversationRefs
  outbox,           \* this window's send in each conversation
  turns,            \* the backend's turns
  kept,             \* what of a turn's answer went to the transcript
  crossed,          \* history: the turns that overlapped another query of
                    \* their conversation, a stop or a change of its rows,
                    \* and the conversations whose pending send did
  severed,          \* history: conversations that lost a turn with the link
  chatActs

store    == <<foreground, session, spaces, turnConversation>>
chatVars == <<store, outbox, turns, kept, crossed, severed, chatActs>>

-----------------------------------------------------------------------------
(* Workspaces, rows and turns.                                             *)

BusyPhases  == {"awaiting-first-chunk", "streaming", "tool-call", "tool-output"}
Terminal == {"idle", "complete", "error"}
StreamPhases == BusyPhases \union Terminal

RowKinds == {"user", "text", "tool", "error"}
RowRecords == [kind : RowKinds,
               turn : Turns \union {NoTurn},
               size : 0..MaxChunks,
               open : BOOLEAN]  \* isComplete = false

Workspaces == [rows : Seq(RowRecords), sending : BOOLEAN,
               turn : Turns \union {NoTurn}, phase : StreamPhases]

EmptyWorkspace == [rows |-> <<>>, sending |-> FALSE, turn |-> NoTurn, phase |-> "idle"]

UserRow(t)  == [kind |-> "user", turn |-> t, size |-> 1, open |-> FALSE]
TextRow(t, n, open) == [kind |-> "text", turn |-> t, size |-> n, open |-> open]
ToolRow(t)  == [kind |-> "tool", turn |-> t, size |-> 1, open |-> FALSE]
ErrorRow(t) == [kind |-> "error", turn |-> t, size |-> 1, open |-> FALSE]

(* The backend's side of a turn: its conversation, how far it is, its place*)
(* among the turns, the chunks of its current stretch of text, whether a   *)
(* tool row has ended that stretch, and its tool rows.                     *)
Stages == {"unborn", "open", "answered", "ended", "lost"}
TurnRecords == [home : Conversations \union {NoConversation}, stage : Stages,
                age : 0..Cardinality(Turns), said : 0..MaxChunks,
                cut : BOOLEAN, tools : 0..MaxTools]

Unborn == [home |-> NoConversation, stage |-> "unborn", age |-> 0,
           said |-> 0, cut |-> FALSE, tools |-> 0]

Home(t)  == turns[t].home
Open(t)  == turns[t].stage = "open"
Over(t)  == turns[t].stage \in {"answered", "ended"}
Born     == {t \in Turns : turns[t].stage # "unborn"}
OpenIn(c) == {t \in Turns : Open(t) /\ Home(t) = c}
Newer(t, u) == turns[t].age > turns[u].age

LastRow(s) == s.rows[Len(s.rows)]
HasRows(s) == s.rows # <<>>
AddRow(s, row) == [s EXCEPT !.rows = Append(@, row)]

(* The last text row of a turn, 0 without one.                             *)
TextRowsOf(s, t) == {i \in DOMAIN s.rows : s.rows[i].kind = "text" /\ s.rows[i].turn = t}
LastTextRow(s, t) ==
  IF TextRowsOf(s, t) = {} THEN 0
  ELSE CHOOSE i \in TextRowsOf(s, t) : \A j \in TextRowsOf(s, t) : j <= i

-----------------------------------------------------------------------------
(* The routing of an event and the stale-turn gate.                        *)

(* resolveConversationRefWithTurnFallback: the reference an event carries, *)
(* the conversation its turn is known under, or the session's.             *)
Resolved_FirstSession(t, named) ==
  IF named THEN Home(t) ELSE session
Resolved(t, named) ==
  IF named THEN Home(t)
  ELSE IF turnConversation[t] # NoConversation THEN turnConversation[t]
  ELSE session

(* applyEventChatConversationProjection: only a local user message or an   *)
(* empty foreground brings a conversation to the front.                    *)
Projected(c, named, local) ==
  IF named /\ c # NoConversation /\ (local \/ foreground = NoConversation)
  THEN c ELSE foreground

SyncedSession(c, local) ==
  IF (local /\ c # NoConversation) \/ session = NoConversation THEN c ELSE session

Registered(t, c) ==
  IF c = NoConversation THEN turnConversation
  ELSE [turnConversation EXCEPT ![t] = c]

(* isAwaitingFirstChunkMismatch, hasTerminalPendingHandoff and the rest of *)
(* the terminal handoff guard.                                             *)
AwaitsAnother(s, t) ==
  /\ s.sending
  /\ s.phase = "awaiting-first-chunk"
  /\ s.turn # NoTurn
  /\ s.turn # t

PendingHandoff(s) == s.sending /\ s.phase \in Terminal

HoldsPlaceholder(s, t) ==
  HasRows(s) /\ LastRow(s).open /\ LastRow(s).turn = t

IgnoredAtHandoff(s, t) ==
  /\ s.phase # "idle"
  /\ s.turn = t
  /\ ~HoldsPlaceholder(s, t)
  /\ ~(HasRows(s) /\ LastRow(s).kind = "user")

OtherTurn(s, t) == s.turn # NoTurn /\ s.turn # t

(* shouldIgnoreForStaleTurn.                                               *)
StaleTurn_HandoffOnly(s, t) == PendingHandoff(s) /\ IgnoredAtHandoff(s, t)
StaleTurn(s, t) ==
  /\ ~AwaitsAnother(s, t)
  /\ IF PendingHandoff(s) THEN IgnoredAtHandoff(s, t) ELSE OtherTurn(s, t)

-----------------------------------------------------------------------------
(* What the handlers do to a workspace.                                    *)

(* applyTrackingEvent without and with a phase of its own.                 *)
Tracked(s, t) == [s EXCEPT !.turn = t]
TrackedIn(s, t, phase) == [s EXCEPT !.turn = t, !.phase = phase]

(* local-user-message: the row of the query, the latch, a fresh tracking.  *)
ShowsQuery(s, t) ==
  TrackedIn([AddRow(s, UserRow(t)) EXCEPT !.sending = TRUE], t, "awaiting-first-chunk")

(* llm-thought: a thought goes to the turn's text row; without one an open *)
(* placeholder is added.                                                   *)
ShowsThought(s, t) ==
  Tracked(IF LastTextRow(s, t) # 0 THEN s ELSE AddRow(s, TextRow(t, 0, TRUE)), t)

(* streaming-response: appended to the open text row of the turn at the end*)
(* of the rows, or a row of its own.                                       *)
Appends(s, t) == HoldsPlaceholder(s, t) /\ LastRow(s).kind = "text"

WithChunk_NewRow(s, t) == AddRow(s, TextRow(t, 1, TRUE))
WithChunk(s, t) ==
  IF Appends(s, t)
  THEN [s EXCEPT !.rows[Len(s.rows)].size = IF @ < MaxChunks THEN @ + 1 ELSE @]
  ELSE AddRow(s, TextRow(t, 1, TRUE))

ShowsChunk(s, t) ==
  TrackedIn([WithChunk(s, t) EXCEPT !.sending = FALSE], t, "streaming")

(* streaming-complete: the turn's last text row is closed, empty ones take *)
(* the final response; without an open one the final response is a row.    *)
Completed(s, t, final) ==
  LET i == LastTextRow(s, t)
      closed == [s EXCEPT !.rows[i].open = FALSE,
                          !.rows[i].size = IF @ = 0 /\ final # 0 THEN final ELSE @]
      shown == IF i # 0 /\ s.rows[i].open THEN closed
               ELSE IF final # 0 THEN AddRow(s, TextRow(t, final, FALSE))
               ELSE s
  IN TrackedIn([shown EXCEPT !.sending = FALSE], t, "complete")

(* What streaming-complete records: the size of the closed row, else the   *)
(* final response.                                                         *)
Recorded(s, t, final) ==
  LET i == LastTextRow(s, t)
  IN IF i # 0 /\ s.rows[i].open /\ s.rows[i].size # 0 THEN s.rows[i].size ELSE final

(* tool-call, tool-output, tool-bundle and web-search-progress.  A call the*)
(* backend runs itself (skip_frontend_execution) leaves the latch.         *)
ShowsCall(s, t, skipped) ==
  TrackedIn([AddRow(s, ToolRow(t)) EXCEPT !.sending = @ /\ skipped], t, "tool-call")
ShowsOutput(s, t) ==
  TrackedIn([AddRow(s, ToolRow(t)) EXCEPT !.sending = FALSE], t, "tool-output")
ShowsBundle(s, t) == TrackedIn(AddRow(s, ToolRow(t)), t, "tool-call")
ShowsSearch(s, t) == TrackedIn(AddRow(s, ToolRow(t)), t, "tool-call")

(* token-count and memory-store end a turn that shows no other end.        *)
CountsTokens(s, t) ==
  IF s.sending /\ s.phase \notin {"complete", "error"}
  THEN TrackedIn([s EXCEPT !.sending = FALSE], t, "complete")
  ELSE Tracked(s, t)

StoresMemory(s, t) ==
  IF s.sending /\ s.phase = "awaiting-first-chunk"
  THEN TrackedIn([s EXCEPT !.sending = FALSE], t, "complete")
  ELSE Tracked(s, t)

ShowsError_Latched(s, t) == TrackedIn(AddRow(s, ErrorRow(t)), t, "error")
ShowsError(s, t) ==
  TrackedIn([AddRow(s, ErrorRow(t)) EXCEPT !.sending = FALSE], t, "error")

-----------------------------------------------------------------------------
(* The turns of a conversation and the send in it that are not over.       *)
InWork(c) == OpenIn(c) \union {d \in {c} \ {NoConversation} : outbox[d] = "shown"}

(* A turn that still emits while a later query of its conversation is shown*)
(* or running.                                                             *)
Overtaken(t) ==
  \/ outbox[Home(t)] = "shown"
  \/ \E u \in Born : Home(u) = Home(t) /\ Newer(u, t)

Target(t, named) ==
  LET c == Resolved(t, named) IN IF c = NoConversation THEN foreground ELSE c

(* The workspace an event of t is for.                                     *)
Hearer(t, named) == spaces[Target(t, named)]

Heeds(t, named) == ~StaleTurn(Hearer(t, named), t)

(* The ingress of one event: routing, projection, registration of the turn,*)
(* session sync and gate; its handler makes `after` of the workspace.      *)
Hears(t, named, after) ==
  LET c == Resolved(t, named)
  IN /\ foreground' = Projected(c, named, FALSE)
     /\ turnConversation' = Registered(t, c)
     /\ session' = SyncedSession(c, FALSE)
     /\ spaces' = IF Heeds(t, named) THEN [spaces EXCEPT ![Target(t, named)] = after]
                                     ELSE spaces
     /\ crossed' = IF Overtaken(t) THEN crossed \union {t} \union InWork(Home(t)) ELSE crossed
     /\ UNCHANGED <<outbox, severed, chatActs>>

(* An event that leaves the turn where it is.                              *)
Marks(t, named, after) == Hears(t, named, after) /\ UNCHANGED <<turns, kept>>

-----------------------------------------------------------------------------
(* The backend's events.                                                   *)

(* system-prompt, user-message-full, assistant-message-full, tool-schemas. *)
HearMetadata(t) == Open(t) /\ Marks(t, TRUE, Tracked(Hearer(t, TRUE), t))

(* context-compaction-started, -completed and -failed.                     *)
HearCompaction(t) == Open(t) /\ Marks(t, TRUE, Tracked(Hearer(t, TRUE), t))

(* An error shouldIgnoreStreamError suppresses passes the ingress only.    *)
HearBenignError(t) == Open(t) /\ Marks(t, TRUE, Hearer(t, TRUE))

HearThought(t) == Open(t) /\ Marks(t, TRUE, ShowsThought(Hearer(t, TRUE), t))

HearChunk(t) ==
  LET fresh == turns[t].cut \/ turns[t].said = 0
  IN /\ Open(t)
     /\ fresh \/ turns[t].said < MaxChunks
     /\ Hears(t, TRUE, ShowsChunk(Hearer(t, TRUE), t))
     /\ turns' = [turns EXCEPT ![t].said = IF fresh THEN 1 ELSE @ + 1, ![t].cut = FALSE]
     /\ UNCHANGED kept

HearToolRow(t, after) ==
  /\ Open(t)
  /\ turns[t].tools < MaxTools
  /\ Hears(t, TRUE, after)
  /\ turns' = [turns EXCEPT ![t].tools = @ + 1, ![t].cut = turns[t].said > 0]
  /\ UNCHANGED kept

HearToolCall(t) ==
  \E skipped \in BOOLEAN : HearToolRow(t, ShowsCall(Hearer(t, TRUE), t, skipped))
HearToolOutput(t) == HearToolRow(t, ShowsOutput(Hearer(t, TRUE), t))
HearToolBundle(t) == HearToolRow(t, ShowsBundle(Hearer(t, TRUE), t))
HearSearch(t)     == HearToolRow(t, ShowsSearch(Hearer(t, TRUE), t))

(* streaming-complete, with the final response or without.  The transcript *)
(* gets what the row shows.                                                *)
HearComplete(t) ==
  \E final \in {0, turns[t].said} :
    LET n == Recorded(Hearer(t, TRUE), t, final)
    IN /\ Open(t)
       /\ Hears(t, TRUE, Completed(Hearer(t, TRUE), t, final))
       /\ turns' = [turns EXCEPT ![t].stage = IF @ = "open" /\ turns[t].said > 0
                                              THEN "answered" ELSE "ended"]
       /\ kept' = IF Heeds(t, TRUE) /\ n > 0
                  THEN [kept EXCEPT ![t] = IF n = turns[t].said THEN "whole" ELSE "cut"]
                  ELSE kept

HearError(t) ==
  /\ Open(t)
  /\ Hears(t, TRUE, ShowsError(Hearer(t, TRUE), t))
  /\ turns' = [turns EXCEPT ![t].stage = "ended"]
  /\ UNCHANGED kept

(* token-count, during the turn or after it, and memory-store after it; the*)
(* late ones may come without a conversation reference.                    *)
HearTokenCount(t) ==
  \E named \in BOOLEAN :
    /\ (named /\ Open(t)) \/ Over(t)
    /\ Marks(t, named, CountsTokens(Hearer(t, named), t))

HearMemoryStore(t) ==
  \E named \in BOOLEAN :
    Over(t) /\ Marks(t, named, StoresMemory(Hearer(t, named), t))

(* The connection is lost, and the backend's turns with it.                *)
LoseTurns ==
  /\ \E t \in Turns : Open(t)
  /\ turns' = [t \in Turns |-> [turns[t] EXCEPT !.stage = IF @ = "open" THEN "lost" ELSE @]]
  /\ severed' = severed \union {Home(t) : t \in {u \in Turns : Open(u)}}
  /\ UNCHANGED <<store, outbox, kept, crossed, chatActs>>

-----------------------------------------------------------------------------
(* The user.                                                               *)

ActsOnChat == chatActs < MaxChatActs /\ chatActs' = chatActs + 1

(* A conversation nobody has used: what createConversationRef returns.     *)
Unused(c) ==
  /\ c \notin {foreground, session}
  /\ spaces[c] = EmptyWorkspace
  /\ outbox[c] = "none"
  /\ \A t \in Turns : Home(t) # c

(* The composer is locked while the presentation of the foreground is busy:*)
(* resolveOverlayTurnLifecycle over phase, latch and visible reply.        *)
ShowsReply(s) ==
  \E i \in DOMAIN s.rows :
    /\ s.rows[i].kind \in {"error", "text"} /\ s.rows[i].size > 0
    /\ \A j \in DOMAIN s.rows : s.rows[j].kind = "user" => j < i

Busy(s) ==
  \/ s.phase \in BusyPhases
  \/ s.sending /\ (s.phase = "idle" \/ ~ShowsReply(s))

(* sendMessage up to its awaits: ensureConversationRefForSend takes the    *)
(* conversation of the session, of the store, or a new one.  The link's    *)
(* loss unlocks the composer whatever the store says.                      *)
SendTarget(c) ==
  IF session # NoConversation THEN c = session
  ELSE IF foreground # NoConversation THEN c = foreground
  ELSE Unused(c)

Ask(c) ==
  /\ ActsOnChat
  /\ ~Busy(spaces[foreground]) \/ foreground \in severed
  /\ SendTarget(c)
  /\ outbox[c] = "none"
  /\ outbox' = [outbox EXCEPT ![c] = "asked"]
  /\ foreground' = c
  /\ session' = c
  /\ UNCHANGED <<spaces, turnConversation, turns, kept, crossed, severed>>

(* ... after the awaits: the optimistic row and the latch.                 *)
ShowQuery(c) ==
  /\ outbox[c] = "asked"
  /\ outbox' = [outbox EXCEPT ![c] = "shown"]
  /\ spaces' = [spaces EXCEPT ![c] = [AddRow(@, UserRow(NoTurn)) EXCEPT !.sending = TRUE]]
  /\ crossed' = IF OpenIn(c) # {} THEN crossed \union {c} \union InWork(c) ELSE crossed
  /\ UNCHANGED <<foreground, session, turnConversation, turns, kept, severed, chatActs>>

Bear(t, c) ==
  /\ turns[t].stage = "unborn"
  /\ turns' = [turns EXCEPT ![t] = [Unborn EXCEPT !.home = c, !.stage = "open",
                                                  !.age = Cardinality(Born) + 1]]

(* ... and the query reaches the backend, which answers this window with   *)
(* no local-user-message, or it does not and the latch is taken back.      *)
Dispatch(c, t) ==
  /\ outbox[c] = "shown"
  /\ Bear(t, c)
  /\ outbox' = [outbox EXCEPT ![c] = "none"]
  /\ crossed' = (crossed \ {c}) \union IF c \in crossed \/ OpenIn(c) # {}
                                      THEN {t} \union OpenIn(c) ELSE {}
  /\ UNCHANGED <<store, kept, severed, chatActs>>

SendFailure(s) == [AddRow(s, ErrorRow(NoTurn)) EXCEPT !.sending = FALSE]

FailToSend(c) ==
  /\ outbox[c] = "shown"
  /\ outbox' = [outbox EXCEPT ![c] = "none"]
  /\ spaces' = [spaces EXCEPT ![c] = SendFailure(@)]
  /\ crossed' = crossed \ {c}
  /\ UNCHANGED <<foreground, session, turnConversation, turns, kept, severed, chatActs>>

(* A query of the chat pill: main tells the other windows with a           *)
(* local-user-message, which the gate does not hold back.                  *)
PillSends(c, t) ==
  /\ ActsOnChat
  /\ Bear(t, c)
  /\ foreground' = Projected(c, TRUE, TRUE)
  /\ session' = SyncedSession(c, TRUE)
  /\ turnConversation' = Registered(t, c)
  /\ spaces' = [spaces EXCEPT ![c] = ShowsQuery(@, t)]
  /\ crossed' = IF InWork(c) # {} THEN crossed \union {t} \union InWork(c) ELSE crossed
  /\ UNCHANGED <<outbox, kept, severed>>

(* applyStopQueryUiState.  The backend may go on until it reads the stop.  *)
Stop ==
  /\ ActsOnChat
  /\ Busy(spaces[foreground])
  /\ spaces' = [spaces EXCEPT ![foreground].sending = FALSE, ![foreground].phase = "complete"]
  /\ crossed' = crossed \union InWork(foreground)
  /\ UNCHANGED <<foreground, session, turnConversation, outbox, turns, kept, severed>>

(* handleOpenConversation, after the snapshot has been loaded: the rows are*)
(* the stored ones, which carry no turn; the tracking stays.               *)
Snapshots == {<<>>, <<UserRow(NoTurn)>>, <<TextRow(NoTurn, 1, FALSE)>>}

OpenConversation(c) ==
  /\ ActsOnChat
  /\ foreground' = c
  /\ session' = c
  /\ \E rows \in Snapshots :
       spaces' = [spaces EXCEPT ![c].rows = rows, ![c].sending = FALSE]
  /\ crossed' = crossed \union InWork(c)
  /\ UNCHANGED <<turnConversation, outbox, turns, kept, severed>>

(* clearMessages and setIsSending(false) of resetActiveChatSession.        *)
Cleared(s) == EmptyWorkspace

(* startNewChatSession clears the foreground and selects a new session; the*)
(* store follows in an effect.                                             *)
NewChat(c) ==
  /\ ActsOnChat
  /\ Unused(c)
  /\ session' = c
  /\ spaces' = [spaces EXCEPT ![foreground] = Cleared(@)]
  /\ crossed' = crossed \union InWork(foreground)
  /\ UNCHANGED <<foreground, turnConversation, outbox, turns, kept, severed>>

(* The effect of ChatProvider.                                             *)
FollowSession ==
  /\ session # NoConversation
  /\ foreground # session
  /\ foreground' = session
  /\ UNCHANGED <<session, spaces, turnConversation, outbox, turns, kept, crossed, severed, chatActs>>

(* handleDeleteConversation: only the session's conversation is reset.     *)
DeleteConversation(c) ==
  /\ ActsOnChat
  /\ session = c
  /\ session' = NoConversation
  /\ foreground' = NoConversation
  /\ spaces' = [spaces EXCEPT ![c] = Cleared(@)]
  /\ crossed' = crossed \union InWork(c)
  /\ UNCHANGED <<turnConversation, outbox, turns, kept, severed>>

-----------------------------------------------------------------------------
ChatInit ==
  /\ foreground = NoConversation
  /\ session = NoConversation
  /\ spaces = [c \in Conversations \union {NoConversation} |-> EmptyWorkspace]
  /\ turnConversation = [t \in Turns |-> NoConversation]
  /\ outbox = [c \in Conversations |-> "none"]
  /\ turns = [t \in Turns |-> Unborn]
  /\ kept = [t \in Turns |-> "none"]
  /\ crossed = {}
  /\ severed = {}
  /\ chatActs = 0

HearEvent(t) ==
  \/ HearMetadata(t) \/ HearCompaction(t) \/ HearBenignError(t)
  \/ HearThought(t) \/ HearChunk(t) \/ HearComplete(t) \/ HearError(t)
  \/ HearToolCall(t) \/ HearToolOutput(t) \/ HearToolBundle(t) \/ HearSearch(t)
  \/ HearTokenCount(t) \/ HearMemoryStore(t)

ChatUserActs(c) ==
  \/ Ask(c) \/ ShowQuery(c) \/ FailToSend(c)
  \/ OpenConversation(c) \/ NewChat(c) \/ DeleteConversation(c)
  \/ \E t \in Turns : Dispatch(c, t) \/ PillSends(c, t)

ChatNext ==
  \/ \E t \in Turns : HearEvent(t)
  \/ \E c \in Conversations : ChatUserActs(c)
  \/ Stop \/ FollowSession \/ LoseTurns

ChatSpec == ChatInit /\ [][ChatNext]_chatVars

-----------------------------------------------------------------------------
ChatTypeOK ==
  /\ foreground \in Conversations \union {NoConversation}
  /\ session \in Conversations \union {NoConversation}
  /\ spaces \in [Conversations \union {NoConversation} -> Workspaces]
  /\ turnConversation \in [Turns -> Conversations \union {NoConversation}]
  /\ outbox \in [Conversations -> {"none", "asked", "shown"}]
  /\ turns \in [Turns -> TurnRecords]
  /\ kept \in [Turns -> {"none", "cut", "whole"}]
  /\ crossed \subseteq Conversations \union Turns
  /\ severed \subseteq Conversations
  /\ chatActs \in 0..MaxChatActs

(* Whatever the user opens, clears or deletes meanwhile, and whether or not*)
(* an event names its conversation, the rows and the tracking of a turn are*)
(* only ever found in the workspace of its own conversation.               *)
TurnsStayHome ==
  \A c \in Conversations \union {NoConversation}, t \in Born :
    spaces[c].turn = t \/ (\E i \in DOMAIN spaces[c].rows : spaces[c].rows[i].turn = t)
      => c = Home(t)

(* A workspace that shows work in progress has some: a send of this window *)
(* on its way or a turn the backend still works on.  After the loss of the *)
(* link the store may keep showing it; the presentation is unlocked by the *)
(* recovery watchdog instead (see TurnLifecycle).                          *)
BusyMeansWork ==
  \A c \in Conversations :
    spaces[c].sending \/ spaces[c].phase \in BusyPhases
      => outbox[c] = "shown" \/ OpenIn(c) # {} \/ c \in severed

(* An answered turn that nothing overlapped in its own conversation, which *)
(* lost no earlier turn with the link, is in the transcript with all of its*)
(* last stretch of text, whatever went on in the conversation before and in*)
(* the others meanwhile, and wherever the foreground was.                  *)
AnswersAreKept ==
  \A t \in Turns :
    turns[t].stage = "answered" /\ t \notin crossed /\ Home(t) \notin severed
      => kept[t] = "whole"

(* An event of the backend never takes the foreground from a conversation, *)
(* and leaves the workspace in front alone unless the turn is of it.       *)
Intrudes(t) ==
  /\ foreground # NoConversation
  /\ \/ foreground' # foreground
     \/ Home(t) # foreground /\ spaces'[foreground] # spaces[foreground]

(* A workspace goes back from a turn to an older one only while a query    *)
(* waits for its first event: once the latch is down the gate holds.       *)
GoesBack(c) ==
  LET old == spaces[c].turn
      new == spaces'[c].turn
  IN old \in Born /\ new \in Born /\ Newer(old, new) /\ ~spaces[c].sending

(* However the events of the turns interleave, none disturbs what the user *)
(* is looking at, and none takes a workspace back to a turn that is over.  *)
EventsKeepTheirPlace ==
  [][/\ \A c \in Conversations : ~GoesBack(c)
     /\ \A t \in Turns : Intrudes(t) => ~HearEvent(t)]_chatVars
=============================================================================

------------------------------- MODULE Composer -------------------------------
(***************************************************************************)
(* A composer of the chat (MessageInput.jsx in the dashboard, ChatBox.jsx  *)
(* in the pill) and the messages sent from it: files and pasted images are *)
(* read while the user goes on typing, a submit takes the draft, and the   *)
(* message is shown, its images are uploaded or the screen is captured,    *)
(* its files are read, its row is recorded and its query goes to main      *)
(* (useChatComposerDraft.js, useChatMessageSender.ts).                     *)
(*                                                                         *)
(* An attachment is a model value that is attached at most once.  The text *)
(* matters only as being there or not, whether typed or spoken.  What makes*)
(* a conversation and its inference session ready is InferenceSession: here*)
(* it ends or fails, in the order of the submits.                          *)
(***************************************************************************)
EXTENDS Naturals, Sequences, SequencesExt

CONSTANTS
  Images, Files,
  Screen,       \* the capture of the screen
  MaxMessages,  \* bound: submits
  MaxToggles    \* bound: clicks on the camera

ASSUME ComposerAssumption ==
  Images \cap Files = {} /\ Screen \notin Images /\ MaxMessages \in Nat

Attachments == Images \union Files

VARIABLES
  surface,   \* senderSurface
  camera,    \* include_query_screenshot
  toggles,
  draft,     \* inputValue, clipboardImages and selectedReadableFiles
  reading,   \* selections and pastes whose files are being read
  removed,   \* attachments taken out again, or that could not be read
  sending,   \* isSending of the conversation
  messages,  \* the messages in the order of their submits
  shownOrder, rowOrder, queryOrder,  \* messages in the order of the chat, its rows, its queries
  rushed    \* history: a submit before the previous message had gone

composerVars == <<surface, camera, toggles, draft, reading, removed, sending, messages,
                  shownOrder, rowOrder, queryOrder, rushed>>

Stages == {"ensuring", "shown", "uploaded", "sent", "dropped"}

MessageRecords ==
  [items : SUBSET Attachments, capture : BOOLEAN, stage : Stages,
   refs : SUBSET (Images \union {Screen}), context : SUBSET Files]

ComposerTypeOK ==
  /\ surface \in {"main-window", "overlay-chatbox"} /\ camera \in BOOLEAN
  /\ draft \in [typed : BOOLEAN, items : SUBSET Attachments]
  /\ reading \subseteq SUBSET Attachments
  /\ messages \in Seq(MessageRecords)
  /\ {shownOrder, rowOrder, queryOrder} \subseteq Seq(DOMAIN messages)
  /\ removed \subseteq Attachments /\ sending \in BOOLEAN

EmptyDraft == [typed |-> FALSE, items |-> {}]

Sent == UNION {messages[m].items : m \in DOMAIN messages}
Fresh == Attachments \ (Sent \union (UNION reading) \union draft.items \union removed)

Stage(m, stage) == [messages EXCEPT ![m].stage = stage]

-----------------------------------------------------------------------------
(* The draft.  The composer is disabled while a message is being answered, *)
(* but a file that is still being read then comes into the draft all the   *)
(* same.                                                                   *)

HandleInputChange ==
  /\ ~sending
  /\ draft' = [draft EXCEPT !.typed = ~@]
  /\ UNCHANGED <<surface, camera, toggles, reading, removed, sending, messages, shownOrder,
                 rowOrder, queryOrder, rushed>>

(* handleAttachmentSelection, or handleComposerPaste of images             *)
SelectAttachments(selection) ==
  /\ ~sending
  /\ reading' = reading \union {selection}
  /\ UNCHANGED <<surface, camera, toggles, draft, removed, sending, messages, shownOrder, rowOrder,
                 queryOrder, rushed>>

(* parseSelectedComposerFiles: what becomes of selected files.  One        *)
(* without a path is left out, and an image that cannot be read takes the  *)
(* whole selection with it.                                                *)
ReadableFiles(selection) == SUBSET selection

(* parseClipboardImageItems: what becomes of pasted images.  One that is   *)
(* not an image after all is left out.                                     *)
ReadableImages(selection) == IF selection \subseteq Images THEN SUBSET selection ELSE {}

(* setSelectedReadableFiles, setClipboardImages: added to what is there.   *)
AttachmentsRead(selection) ==
  \E kept \in ReadableFiles(selection) \union ReadableImages(selection) :
    /\ draft' = [draft EXCEPT !.items = @ \union kept]
    /\ removed' = removed \union (selection \ kept)
    /\ reading' = reading \ {selection}
    /\ UNCHANGED <<surface, camera, toggles, sending, messages, shownOrder, rowOrder, queryOrder, rushed>>

RemoveAttachment(item) ==
  /\ item \in draft.items
  /\ draft' = [draft EXCEPT !.items = @ \ {item}]
  /\ removed' = removed \union {item}
  /\ UNCHANGED <<surface, camera, toggles, reading, sending, messages, shownOrder, rowOrder, queryOrder,
                 rushed>>

(* handleToggleQueryScreenshot                                             *)
ToggleCamera ==
  /\ surface = "overlay-chatbox" /\ ~sending
  /\ toggles < MaxToggles /\ toggles' = toggles + 1
  /\ camera' = ~camera
  /\ UNCHANGED <<surface, draft, reading, removed, sending, messages, shownOrder, rowOrder, queryOrder,
                 rushed>>

(* clearDraft                                                              *)
ClearDraft_KeepsFiles(d) == [EmptyDraft EXCEPT !.items = d.items \cap Files]
ClearDraft(d) == EmptyDraft

(* resolveChatPillSendLifecycle                                            *)
ShouldCapture == surface = "overlay-chatbox" /\ camera

(* buildOutgoingMessage                                                    *)
OutgoingMessage(d) ==
  [items |-> d.items, capture |-> ShouldCapture, stage |-> "ensuring", refs |-> {},
   context |-> {}]

(* submitMessageValue: only a draft with text or an attachment is sent.    *)
SubmitMessage ==
  /\ ~sending /\ draft # EmptyDraft
  /\ Len(messages) < MaxMessages
  /\ messages' = Append(messages, OutgoingMessage(draft))
  /\ draft' = ClearDraft(draft)
  /\ rushed' = (rushed \/ \E m \in DOMAIN messages : messages[m].stage \notin {"sent", "dropped"})
  /\ UNCHANGED <<surface, camera, toggles, reading, removed, sending, shownOrder, rowOrder, queryOrder>>

-----------------------------------------------------------------------------
(* sendMessage.                                                            *)

(* The conversation and its session are ready: the message is shown.       *)
ShowMessage(m) ==
  /\ messages[m].stage = "ensuring"
  /\ \A k \in 1 .. m - 1 : messages[k].stage # "ensuring"
  /\ messages' = Stage(m, "shown")
  /\ shownOrder' = Append(shownOrder, m)
  /\ sending' = TRUE
  /\ UNCHANGED <<surface, camera, toggles, draft, reading, removed, rowOrder, queryOrder, rushed>>

(* One of them fails: nothing shows the message, its draft is gone.        *)
DropMessage(m) ==
  /\ messages[m].stage = "ensuring"
  /\ \A k \in 1 .. m - 1 : messages[k].stage # "ensuring"
  /\ messages' = Stage(m, "dropped")
  /\ UNCHANGED <<surface, camera, toggles, draft, reading, removed, sending, shownOrder, rowOrder,
                 queryOrder, rushed>>

(* resolveQueryScreenshotArtifacts: pasted images go before a capture, and *)
(* what cannot be captured or uploaded is left out.                        *)
Artifacts(message) ==
  IF message.items \cap Images # {} THEN message.items \cap Images
  ELSE IF message.capture THEN {Screen} ELSE {}

(* uploadArtifact, and resolveScreenshotAttachmentState: the references    *)
(* of those that the backend has taken                                     *)
Uploaded(message) == SUBSET Artifacts(message)

UploadImages(m) ==
  /\ messages[m].stage = "shown"
  /\ \E uploaded \in Uploaded(messages[m]) :
       messages' = [messages EXCEPT ![m].stage = "uploaded", ![m].refs = uploaded]
  /\ UNCHANGED <<surface, camera, toggles, draft, reading, removed, sending, shownOrder, rowOrder,
                 queryOrder, rushed>>

(* buildReadableFileAttachmentContext: a file that cannot be read is left  *)
(* out.                                                                    *)
FileContext(message) == SUBSET (message.items \cap Files)

(* recordUserMessage and sendQuery                                         *)
SendQuery(m) ==
  /\ messages[m].stage = "uploaded"
  /\ \E read \in FileContext(messages[m]) :
       messages' = [messages EXCEPT ![m].stage = "sent", ![m].context = read]
  /\ rowOrder' = Append(rowOrder, m)
  /\ queryOrder' = Append(queryOrder, m)
  /\ UNCHANGED <<surface, camera, toggles, draft, reading, removed, sending, shownOrder, rushed>>

(* The turn of a query ends, or the user stops what is shown as busy       *)
(* (handleStopQuery), whether the query has gone or not.                   *)
SendingEnds ==
  /\ sending
  /\ sending' = FALSE
  /\ UNCHANGED <<surface, camera, toggles, draft, reading, removed, messages, shownOrder, rowOrder,
                 queryOrder, rushed>>

-----------------------------------------------------------------------------
ComposerInit ==
  /\ surface \in {"main-window", "overlay-chatbox"}
  /\ camera = TRUE /\ toggles = 0
  /\ draft = EmptyDraft
  /\ reading = {} /\ removed = {}
  /\ sending = FALSE
  /\ messages = << >> /\ shownOrder = << >> /\ rowOrder = << >> /\ queryOrder = << >>
  /\ rushed = FALSE

ComposerNext ==
  \/ HandleInputChange \/ ToggleCamera \/ SubmitMessage \/ SendingEnds
  \/ \E selection \in (SUBSET Fresh) \ {{}} : SelectAttachments(selection)
  \/ \E selection \in reading : AttachmentsRead(selection)
  \/ \E item \in Attachments : RemoveAttachment(item)
  \/ \E m \in DOMAIN messages :
       ShowMessage(m) \/ DropMessage(m) \/ UploadImages(m) \/ SendQuery(m)

ComposerSpec == ComposerInit /\ [][ComposerNext]_composerVars

-----------------------------------------------------------------------------
(* An attachment is in one place: still being read, in the draft, or in    *)
(* one message, whose query alone carries it.  A query never carries both  *)
(* the screen and pasted images, nor a screen its user did not want.       *)
AttachmentsTravelOnce ==
  /\ draft.items \cap (Sent \union (UNION reading)) = {}
  /\ (UNION reading) \cap Sent = {}
  /\ \A m, k \in DOMAIN messages :
       m # k => messages[m].items \cap messages[k].items = {}
  /\ \A m \in DOMAIN messages :
       LET message == messages[m]
       IN  /\ message.refs \subseteq message.items \union {Screen}
           /\ message.context \subseteq message.items
           /\ Screen \in message.refs =>
                message.capture /\ message.refs = {Screen} /\ message.items \cap Images = {}

(* A user who lets a message go before submitting the next finds the rows  *)
(* and the queries in the order of the chat, each message once.            *)
SentAsShown ==
  /\ ToSet(queryOrder) \subseteq ToSet(shownOrder)
  /\ rowOrder = queryOrder /\ IsInjective(queryOrder)
  /\ ~rushed => IsPrefix(queryOrder, shownOrder)

ComposedMessagesArrive == AttachmentsTravelOnce /\ SentAsShown
=============================================================================

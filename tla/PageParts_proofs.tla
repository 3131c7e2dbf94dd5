--------------------------- MODULE PageParts_proofs ---------------------------
(***************************************************************************)
(* Proofs about the parts of the desktop around a chat that MCPagesParts   *)
(* checks side by side: the composer and its messages (Composer), the      *)
(* places of the overlay windows (OverlayPlaces), the folder of a chat     *)
(* (WorkspaceBinding), the shortcut that stops the agent (StopShortcut),   *)
(* the permissions (Permissions) and the response window                   *)
(* (ResponseOverlay).                                                      *)
(***************************************************************************)
EXTENDS Composer, OverlayPlaces, WorkspaceBinding, StopShortcut, Permissions,
        ResponseOverlay, SequenceTheorems, WellFoundedInduction, TLAPS

-----------------------------------------------------------------------------
(* Sequences.                                                              *)

LEMMA AppendedSets ==
  ASSUME NEW S, NEW s \in Seq(S), NEW e \in S
  PROVE  ToSet(Append(s, e)) = ToSet(s) \union {e}
BY AppendProperties, LenProperties DEF ToSet

LEMMA AppendedInjections ==
  ASSUME NEW S, NEW s \in Seq(S), NEW e \in S, IsInjective(s), e \notin ToSet(s)
  PROVE  IsInjective(Append(s, e))
BY AppendProperties, LenProperties DEF ToSet, IsInjective

LEMMA OwnPrefix ==
  ASSUME NEW S, NEW s \in Seq(S)
  PROVE  IsPrefix(s, s)
BY LenProperties DEF IsPrefix

LEMMA AppendedPrefix ==
  ASSUME NEW S, NEW s \in Seq(S), NEW e \in S
  PROVE  IsPrefix(s, Append(s, e))
<1> DEFINE n == Len(s)
           t == Append(s, e)
<1>1. n \in Nat /\ DOMAIN s = 1 .. n
  BY LenProperties
<1>2. t \in Seq(S) /\ Len(t) = n + 1 /\ \A i \in 1 .. n : t[i] = s[i]
  BY AppendProperties, <1>1
<1>3. /\ SubSeq(s, 1, n) \in Seq(S) /\ SubSeq(t, 1, n) \in Seq(S)
      /\ Len(SubSeq(s, 1, n)) = n /\ Len(SubSeq(t, 1, n)) = n
      /\ \A i \in 1 .. n : SubSeq(s, 1, n)[i] = s[i] /\ SubSeq(t, 1, n)[i] = t[i]
  <2> HIDE DEF n, t
  <2>1. \A i \in 1 .. n : s[i] \in S /\ t[i] \in S
    BY <1>1, <1>2, ElementOfSeq
  <2>2. 1 \in Int /\ n \in Int /\ n - 1 + 1 = n /\ \A i \in 1 .. n : 1 + i - 1 = i
    BY <1>1
  <2>3. (IF 1 <= n THEN n - 1 + 1 ELSE 0) = n
    BY <1>1
  <2> QED
    BY <2>1, <2>2, <2>3, SubSeqProperties
<1>4. SubSeq(s, 1, n) = SubSeq(t, 1, n)
  <2> HIDE DEF n, t
  <2> QED
    BY <1>2, <1>3, SeqEqual
<1> QED
  BY <1>1, <1>2, <1>4 DEF IsPrefix

-----------------------------------------------------------------------------
(* The composer.  Its invariant: what is being read, what is in the draft  *)
(* and what the messages carry are apart (AttachmentsApart), every message *)
(* shows, uploads and sends what it was submitted with (MessagesAreTrue),  *)
(* the chat shows what has left "ensuring" and the queries are those that  *)
(* have been sent, each once (OrdersFollow), and while no submit is rushed *)
(* only the last message can be on its way, so that the chat is ahead of   *)
(* the queries by that message at most (CalmOrders).                       *)

ComposerTypes ==
  /\ draft \in [typed : BOOLEAN, items : SUBSET Attachments]
  /\ reading \subseteq SUBSET Attachments
  /\ messages \in Seq(MessageRecords)
  /\ shownOrder \in Seq(DOMAIN messages)
  /\ queryOrder \in Seq(DOMAIN messages)
  /\ rushed \in BOOLEAN

BeingRead == {a \in Attachments : \E r \in reading : a \in r}

AttachmentsApart ==
  /\ \A r, s \in reading : r # s => r \cap s = {}
  /\ draft.items \cap (Sent \union BeingRead) = {}
  /\ BeingRead \cap Sent = {}
  /\ \A m, k \in DOMAIN messages : m # k => messages[m].items \cap messages[k].items = {}

TrueMessage(message) ==
  /\ message.refs \subseteq message.items \union {Screen}
  /\ message.context \subseteq message.items
  /\ Screen \in message.refs =>
       message.capture /\ message.refs = {Screen} /\ message.items \cap Images = {}

MessagesAreTrue == \A m \in DOMAIN messages : TrueMessage(messages[m])

OrdersFollow ==
  /\ \A m \in DOMAIN messages :
       messages[m].stage \in {"shown", "uploaded", "sent"} => m \in ToSet(shownOrder)
  /\ ToSet(queryOrder) = {m \in DOMAIN messages : messages[m].stage = "sent"}
  /\ rowOrder = queryOrder /\ IsInjective(queryOrder)

OnItsWay == {"shown", "uploaded"}

CalmOrders ==
  ~rushed =>
    /\ \A m \in DOMAIN messages :
         m # Len(messages) => messages[m].stage \in {"sent", "dropped"}
    /\ shownOrder = IF \E m \in DOMAIN messages : messages[m].stage \in OnItsWay
                    THEN Append(queryOrder, Len(messages)) ELSE queryOrder

ComposerIInv ==
  ComposerTypes /\ AttachmentsApart /\ MessagesAreTrue /\ OrdersFollow /\ CalmOrders

LEMMA ComposerTypesAtStart == ComposerInit => ComposerTypes
<1> SUFFICES ASSUME ComposerInit PROVE ComposerTypes
  OBVIOUS
<1>1. messages = << >> /\ shownOrder = << >> /\ queryOrder = << >>
  BY DEF ComposerInit
<1>2. messages \in Seq(MessageRecords) /\ << >> \in Seq(DOMAIN messages)
  BY <1>1, EmptySeq
<1> QED
  BY <1>1, <1>2 DEF ComposerInit, ComposerTypes, EmptyDraft

LEMMA ComposerIInvAtStart == ComposerInit => ComposerIInv
<1> SUFFICES ASSUME ComposerInit PROVE ComposerIInv
  OBVIOUS
<1>1. ComposerTypes
  BY ComposerTypesAtStart
<1>2. /\ messages = << >> /\ shownOrder = << >> /\ queryOrder = << >> /\ rowOrder = << >>
      /\ draft.items = {} /\ reading = {}
  BY DEF ComposerInit, EmptyDraft
<1>3. DOMAIN messages = {} /\ DOMAIN queryOrder = {}
  BY <1>2, EmptySeq, LenProperties
<1>4. AttachmentsApart /\ MessagesAreTrue
  BY <1>2, <1>3 DEF AttachmentsApart, MessagesAreTrue, Sent
<1>5. ToSet(queryOrder) = {} /\ IsInjective(queryOrder)
  BY <1>3 DEF ToSet, IsInjective
<1>6. OrdersFollow
  BY <1>2, <1>3, <1>5 DEF OrdersFollow
<1>7. CalmOrders
  BY <1>2, <1>3 DEF CalmOrders
<1> QED
  BY <1>1, <1>4, <1>6, <1>7 DEF ComposerIInv

LEMMA ReadingAsSet ==
  ASSUME ComposerTypes
  PROVE  BeingRead = (UNION reading)
<1>1. \A a : a \in BeingRead <=> a \in (UNION reading)
  BY DEF BeingRead, ComposerTypes
<1> QED
  BY <1>1

(* AttachmentsApart from what the attachments under way are now.           *)
LEMMA ApartAgain ==
  ASSUME \A r, s \in reading' : r # s => r \cap s = {},
         draft'.items \cap Sent' = {}, draft'.items \cap BeingRead' = {},
         BeingRead' \cap Sent' = {},
         \A m, k \in DOMAIN messages' : m # k => messages'[m].items \cap messages'[k].items = {}
  PROVE  AttachmentsApart'
BY DEF AttachmentsApart

LEMMA ApartBefore ==
  ASSUME AttachmentsApart
  PROVE  /\ \A r, s \in reading : r # s => r \cap s = {}
         /\ draft.items \cap Sent = {} /\ draft.items \cap BeingRead = {}
         /\ BeingRead \cap Sent = {}
         /\ \A m, k \in DOMAIN messages : m # k => messages[m].items \cap messages[k].items = {}
BY DEF AttachmentsApart

(* What a step that leaves the messages and their orders alone keeps.      *)
LEMMA MessagesUntouched ==
  ASSUME ComposerIInv, UNCHANGED <<messages, shownOrder, rowOrder, queryOrder, rushed>>
  PROVE  /\ MessagesAreTrue' /\ OrdersFollow' /\ CalmOrders'
         /\ Sent' = Sent
         /\ messages' \in Seq(MessageRecords) /\ shownOrder' \in Seq(DOMAIN messages')
         /\ queryOrder' \in Seq(DOMAIN messages') /\ rushed' \in BOOLEAN
BY DEF ComposerIInv, ComposerTypes, MessagesAreTrue, OrdersFollow, CalmOrders, Sent

(* What a step that rewrites one message without its attachments keeps.    *)
LEMMA MessageRewritten ==
  ASSUME ComposerIInv, NEW m \in DOMAIN messages, NEW r \in MessageRecords,
         messages' = [messages EXCEPT ![m] = r], r.items = messages[m].items,
         UNCHANGED <<draft, reading, rushed>>
  PROVE  /\ messages' \in Seq(MessageRecords) /\ Len(messages') = Len(messages)
         /\ DOMAIN messages' = DOMAIN messages
         /\ messages'[m] = r /\ \A k \in DOMAIN messages : k # m => messages'[k] = messages[k]
         /\ AttachmentsApart'
         /\ TrueMessage(r) => MessagesAreTrue'
         /\ draft' \in [typed : BOOLEAN, items : SUBSET Attachments]
         /\ reading' \subseteq SUBSET Attachments /\ rushed' \in BOOLEAN
<1>1. messages \in Seq(MessageRecords) /\ DOMAIN messages = 1 .. Len(messages) /\ Len(messages) \in Nat
  BY LenProperties DEF ComposerIInv, ComposerTypes
<1>2. /\ messages' \in Seq(MessageRecords) /\ Len(messages') = Len(messages)
      /\ DOMAIN messages' = DOMAIN messages
  BY <1>1, ExceptSeq
<1>3. messages'[m] = r /\ \A k \in DOMAIN messages : k # m => messages'[k] = messages[k]
  BY <1>1
<1>4. \A k \in DOMAIN messages : messages'[k].items = messages[k].items
  BY <1>3
<1>5. Sent' = Sent
  BY <1>2, <1>4 DEF Sent
<1>6. AttachmentsApart'
  <2>1. BeingRead' = BeingRead
    BY DEF BeingRead
  <2> QED
    BY <2>1, <1>2, <1>4, <1>5 DEF ComposerIInv, AttachmentsApart
<1>7. TrueMessage(r) => MessagesAreTrue'
  <2> SUFFICES ASSUME TrueMessage(r), NEW k \in DOMAIN messages PROVE TrueMessage(messages'[k])
    BY <1>2 DEF MessagesAreTrue, TrueMessage
  <2>1. CASE k = m
    BY <2>1, <1>3
  <2>2. CASE k # m
    BY <2>2, <1>3 DEF ComposerIInv, MessagesAreTrue
  <2> QED
    BY <2>1, <2>2
<1> QED
  BY <1>2, <1>3, <1>6, <1>7 DEF ComposerIInv, ComposerTypes

LEMMA InputKeepsComposerIInv ==
  ASSUME ComposerIInv, HandleInputChange PROVE ComposerIInv'
<1>1. /\ MessagesAreTrue' /\ OrdersFollow' /\ CalmOrders' /\ Sent' = Sent
      /\ messages' \in Seq(MessageRecords) /\ shownOrder' \in Seq(DOMAIN messages')
      /\ queryOrder' \in Seq(DOMAIN messages') /\ rushed' \in BOOLEAN
  BY MessagesUntouched DEF HandleInputChange
<1>2. /\ draft' \in [typed : BOOLEAN, items : SUBSET Attachments] /\ draft'.items = draft.items
      /\ reading' = reading /\ UNCHANGED messages
  BY DEF HandleInputChange, ComposerIInv, ComposerTypes
<1>3. AttachmentsApart'
  <2>1. BeingRead' = BeingRead
    BY <1>2 DEF BeingRead
  <2> QED
    BY <2>1, <1>1, <1>2 DEF ComposerIInv, AttachmentsApart
<1> QED
  BY <1>1, <1>2, <1>3 DEF ComposerIInv, ComposerTypes

LEMMA SelectionKeepsComposerIInv ==
  ASSUME ComposerIInv, NEW selection \in (SUBSET Fresh) \ {{}}, SelectAttachments(selection)
  PROVE  ComposerIInv'
<1>1. /\ MessagesAreTrue' /\ OrdersFollow' /\ CalmOrders' /\ Sent' = Sent
      /\ messages' \in Seq(MessageRecords) /\ shownOrder' \in Seq(DOMAIN messages')
      /\ queryOrder' \in Seq(DOMAIN messages') /\ rushed' \in BOOLEAN
  BY MessagesUntouched DEF SelectAttachments
<1>a. \A a \in Fresh : a \in Attachments /\ a \notin Sent /\ a \notin BeingRead /\ a \notin draft.items
  <2> SUFFICES ASSUME NEW a \in Fresh
               PROVE  a \in Attachments /\ a \notin Sent /\ a \notin BeingRead /\ a \notin draft.items
    OBVIOUS
  <2> HIDE DEF Sent
  <2>1. a \in Attachments /\ a \notin Sent /\ a \notin (UNION reading) /\ a \notin draft.items
    <3>1. a \in Attachments \ (Sent \union (UNION reading) \union draft.items \union removed)
      BY DEF Fresh
    <3> HIDE DEF Attachments
    <3> QED
      BY <3>1
  <2>2. BeingRead = (UNION reading)
    BY ReadingAsSet DEF ComposerIInv
  <2> QED
    BY <2>1, <2>2
<1>2. /\ UNCHANGED <<draft, messages>> /\ reading' = reading \union {selection}
      /\ selection \subseteq Attachments
      /\ selection \cap (Sent \union BeingRead \union draft.items) = {}
  <2> HIDE DEF Fresh, Sent, BeingRead
  <2> QED
    BY <1>a DEF SelectAttachments
<1>3. BeingRead' = BeingRead \union selection
  BY <1>2 DEF BeingRead
<1>4. AttachmentsApart
  BY DEF ComposerIInv
<1>5. \A r \in reading : r \subseteq BeingRead
  BY DEF BeingRead, ComposerIInv, ComposerTypes
<1>6. \A r, s \in reading' : r # s => r \cap s = {}
  <2>1. \A r \in reading : r \cap selection = {}
    BY <1>2, <1>5
  <2> QED
    BY <1>2, <1>4, <2>1, ApartBefore
<1>7. BeingRead' \cap Sent' = {} /\ draft'.items \cap BeingRead' = {}
  <2> HIDE DEF Sent
  <2> QED
    BY <1>1, <1>2, <1>3, <1>4, ApartBefore
<1>8. AttachmentsApart'
  BY <1>1, <1>2, <1>4, <1>6, <1>7, ApartBefore, ApartAgain
<1> QED
  BY <1>1, <1>2, <1>8 DEF ComposerIInv, ComposerTypes

LEMMA ReadingKeepsComposerIInv ==
  ASSUME ComposerIInv, NEW selection \in reading, AttachmentsRead(selection)
  PROVE  ComposerIInv'
<1> PICK kept \in ReadableFiles(selection) \union ReadableImages(selection) :
      /\ draft' = [draft EXCEPT !.items = @ \union kept]
      /\ reading' = reading \ {selection}
      /\ UNCHANGED <<messages, shownOrder, rowOrder, queryOrder, rushed>>
  BY DEF AttachmentsRead
<1>1. /\ MessagesAreTrue' /\ OrdersFollow' /\ CalmOrders' /\ Sent' = Sent
      /\ messages' \in Seq(MessageRecords) /\ shownOrder' \in Seq(DOMAIN messages')
      /\ queryOrder' \in Seq(DOMAIN messages') /\ rushed' \in BOOLEAN
  BY MessagesUntouched
<1>2. kept \subseteq selection /\ selection \subseteq Attachments
  BY DEF ReadableFiles, ReadableImages, ComposerIInv, ComposerTypes
<1>3. /\ draft' \in [typed : BOOLEAN, items : SUBSET Attachments]
      /\ draft'.items = draft.items \union kept
  BY <1>2 DEF ComposerIInv, ComposerTypes
<1>4. AttachmentsApart
  BY DEF ComposerIInv
<1>5. /\ BeingRead' \subseteq BeingRead /\ BeingRead' \cap kept = {}
      /\ reading' \subseteq reading
  BY <1>2, <1>4, ApartBefore DEF BeingRead
<1>6. kept \subseteq BeingRead
  BY <1>2 DEF BeingRead
<1>7. /\ draft'.items \cap Sent' = {} /\ draft'.items \cap BeingRead' = {}
      /\ BeingRead' \cap Sent' = {}
  BY <1>1, <1>3, <1>4, <1>5, <1>6, ApartBefore
<1>8. AttachmentsApart'
  BY <1>1, <1>4, <1>5, <1>7, ApartBefore, ApartAgain
<1> QED
  BY <1>1, <1>3, <1>5, <1>8 DEF ComposerIInv, ComposerTypes

LEMMA RemovalKeepsComposerIInv ==
  ASSUME ComposerIInv, NEW item \in Attachments, RemoveAttachment(item)
  PROVE  ComposerIInv'
<1>1. /\ MessagesAreTrue' /\ OrdersFollow' /\ CalmOrders' /\ Sent' = Sent
      /\ messages' \in Seq(MessageRecords) /\ shownOrder' \in Seq(DOMAIN messages')
      /\ queryOrder' \in Seq(DOMAIN messages') /\ rushed' \in BOOLEAN
  BY MessagesUntouched DEF RemoveAttachment
<1>2. /\ draft' \in [typed : BOOLEAN, items : SUBSET Attachments]
      /\ draft'.items \subseteq draft.items
      /\ reading' = reading /\ UNCHANGED messages
  BY DEF RemoveAttachment, ComposerIInv, ComposerTypes
<1>3. AttachmentsApart'
  <2>1. BeingRead' = BeingRead
    BY <1>2 DEF BeingRead
  <2> QED
    BY <2>1, <1>1, <1>2 DEF ComposerIInv, AttachmentsApart
<1> QED
  BY <1>1, <1>2, <1>3 DEF ComposerIInv, ComposerTypes

LEMMA OtherStepsKeepComposerIInv ==
  ASSUME ComposerIInv,
         UNCHANGED <<draft, reading, messages, shownOrder, rowOrder, queryOrder, rushed>>
  PROVE  ComposerIInv'
<1>1. MessagesAreTrue' /\ OrdersFollow' /\ CalmOrders' /\ Sent' = Sent
  BY MessagesUntouched
<1>2. BeingRead' = BeingRead
  BY DEF BeingRead
<1> QED
  BY <1>1, <1>2 DEF ComposerIInv, ComposerTypes, AttachmentsApart

LEMMA SubmitKeepsComposerIInv ==
  ASSUME ComposerIInv, SubmitMessage PROVE ComposerIInv'
<1> DEFINE n == Len(messages)
           r == OutgoingMessage(draft)
<1>1. messages \in Seq(MessageRecords) /\ DOMAIN messages = 1 .. n /\ n \in Nat
  BY LenProperties DEF ComposerIInv, ComposerTypes
<1>2. /\ r \in MessageRecords /\ r.items = draft.items /\ r.stage = "ensuring"
      /\ r.refs = {} /\ r.context = {}
  BY DEF OutgoingMessage, MessageRecords, ComposerIInv, ComposerTypes, Stages, ShouldCapture,
         ComposerAssumption
<1>3. /\ messages' = Append(messages, r) /\ draft' = EmptyDraft
      /\ UNCHANGED <<reading, shownOrder, rowOrder, queryOrder>>
      /\ rushed' = (rushed \/ \E m \in DOMAIN messages : messages[m].stage \notin {"sent", "dropped"})
  BY DEF SubmitMessage, ClearDraft
<1> HIDE DEF r
<1>4. /\ messages' \in Seq(MessageRecords) /\ Len(messages') = n + 1
      /\ DOMAIN messages' = 1 .. n + 1
      /\ \A m \in 1 .. n : messages'[m] = messages[m]
      /\ messages'[n + 1] = r
  BY <1>1, <1>2, <1>3, AppendProperties, LenProperties
<1>5. 1 .. n + 1 = (1 .. n) \union {n + 1} /\ n + 1 \notin 1 .. n
  BY <1>1
<1> HIDE DEF n
<1>6. Sent' = Sent \union draft.items
  BY <1>1, <1>2, <1>4, <1>5 DEF Sent
<1>7. AttachmentsApart'
  <2>1. draft'.items = {}
    BY <1>3 DEF EmptyDraft
  <2>2. \A m \in 1 .. n : messages[m].items \cap draft.items = {}
    BY <1>1 DEF ComposerIInv, AttachmentsApart, Sent
  <2>3. \A m, k \in DOMAIN messages' : m # k => messages'[m].items \cap messages'[k].items = {}
    BY <1>1, <1>2, <1>4, <1>5, <2>2 DEF ComposerIInv, AttachmentsApart
  <2>4. AttachmentsApart
    BY DEF ComposerIInv
  <2>5. BeingRead' \cap Sent' = {}
    <3>1. BeingRead' = BeingRead
      BY <1>3 DEF BeingRead
    <3> QED
      BY <3>1, <2>4, <1>6, ApartBefore
  <2>6. \A a, b \in reading' : a # b => a \cap b = {}
    BY <2>4, <1>3, ApartBefore
  <2> QED
    BY <2>1, <2>3, <2>5, <2>6, ApartAgain
<1>8. MessagesAreTrue'
  BY <1>1, <1>2, <1>4, <1>5 DEF ComposerIInv, MessagesAreTrue, TrueMessage
<1>9. OrdersFollow'
  BY <1>1, <1>2, <1>3, <1>4, <1>5 DEF ComposerIInv, OrdersFollow
<1>10. CalmOrders'
  <2> SUFFICES ASSUME ~rushed'
               PROVE  /\ \A m \in DOMAIN messages' :
                           m # n + 1 => messages'[m].stage \in {"sent", "dropped"}
                      /\ shownOrder' = IF \E m \in DOMAIN messages' : messages'[m].stage \in OnItsWay
                                       THEN Append(queryOrder', n + 1) ELSE queryOrder'
    BY <1>4 DEF CalmOrders
  <2>1. ~rushed /\ \A m \in 1 .. n : messages[m].stage \in {"sent", "dropped"}
    BY <1>1, <1>3 DEF ComposerIInv, ComposerTypes
  <2>2. shownOrder = queryOrder
    BY <2>1, <1>1 DEF ComposerIInv, CalmOrders, OnItsWay
  <2>3. \A m \in DOMAIN messages' : messages'[m].stage \notin OnItsWay
    BY <2>1, <1>2, <1>4, <1>5 DEF OnItsWay
  <2> QED
    BY <2>1, <2>2, <2>3, <1>3, <1>4, <1>5
<1>11. ComposerTypes'
  <2>1. \A s : s \in Seq(DOMAIN messages) => s \in Seq(DOMAIN messages')
    BY <1>1, <1>4, <1>5, SeqMonotonic
  <2>2. EmptyDraft \in [typed : BOOLEAN, items : SUBSET Attachments]
    BY DEF EmptyDraft
  <2>3. rushed' \in BOOLEAN
    BY <1>3 DEF ComposerIInv, ComposerTypes
  <2> QED
    BY <2>1, <2>2, <2>3, <1>3, <1>4 DEF ComposerIInv, ComposerTypes
<1> QED
  BY <1>7, <1>8, <1>9, <1>10, <1>11 DEF ComposerIInv

LEMMA ShowingKeepsComposerIInv ==
  ASSUME ComposerIInv, NEW m \in DOMAIN messages, ShowMessage(m)
  PROVE  ComposerIInv'
<1> DEFINE r == [messages[m] EXCEPT !.stage = "shown"]
<1>1. /\ messages[m] \in MessageRecords /\ messages[m].stage = "ensuring"
      /\ shownOrder \in Seq(DOMAIN messages) /\ queryOrder \in Seq(DOMAIN messages)
      /\ messages \in Seq(MessageRecords)
  BY ElementOfSeq, LenProperties DEF ComposerIInv, ComposerTypes, ShowMessage
<1>2. /\ r \in MessageRecords /\ r.items = messages[m].items /\ r.stage = "shown"
      /\ r.refs = messages[m].refs /\ r.context = messages[m].context
      /\ r.capture = messages[m].capture
  BY <1>1 DEF MessageRecords, Stages
<1>3. /\ messages' = [messages EXCEPT ![m] = r]
      /\ shownOrder' = Append(shownOrder, m)
      /\ UNCHANGED <<draft, reading, rushed, rowOrder, queryOrder>>
  BY DEF ShowMessage, Stage
<1> HIDE DEF r
<1>4. /\ messages' \in Seq(MessageRecords) /\ Len(messages') = Len(messages)
      /\ DOMAIN messages' = DOMAIN messages
      /\ messages'[m] = r /\ \A k \in DOMAIN messages : k # m => messages'[k] = messages[k]
      /\ AttachmentsApart'
      /\ TrueMessage(r) => MessagesAreTrue'
      /\ draft' \in [typed : BOOLEAN, items : SUBSET Attachments]
      /\ reading' \subseteq SUBSET Attachments /\ rushed' \in BOOLEAN
  BY <1>2, <1>3, MessageRewritten
<1>5. MessagesAreTrue'
  BY <1>2, <1>4 DEF ComposerIInv, MessagesAreTrue, TrueMessage
<1>6. shownOrder' \in Seq(DOMAIN messages) /\ ToSet(shownOrder') = ToSet(shownOrder) \union {m}
  BY <1>1, <1>3, AppendProperties, AppendedSets
<1>7. ComposerTypes'
  BY <1>1, <1>3, <1>4, <1>6 DEF ComposerTypes
<1>8. OrdersFollow'
  <2>1. \A k \in DOMAIN messages' :
          messages'[k].stage \in {"shown", "uploaded", "sent"} => k \in ToSet(shownOrder')
    BY <1>4, <1>6 DEF ComposerIInv, OrdersFollow
  <2>2. ToSet(queryOrder') = {k \in DOMAIN messages' : messages'[k].stage = "sent"}
    <3>1. \A k \in DOMAIN messages : messages'[k].stage = "sent" <=> messages[k].stage = "sent"
      BY <1>1, <1>2, <1>4
    <3> QED
      BY <3>1, <1>3, <1>4 DEF ComposerIInv, OrdersFollow
  <2> QED
    BY <2>1, <2>2, <1>3 DEF ComposerIInv, OrdersFollow
<1>9. CalmOrders'
  <2> SUFFICES ASSUME ~rushed
               PROVE  /\ \A k \in DOMAIN messages' :
                           k # Len(messages) => messages'[k].stage \in {"sent", "dropped"}
                      /\ shownOrder' = IF \E k \in DOMAIN messages' : messages'[k].stage \in OnItsWay
                                       THEN Append(queryOrder', Len(messages)) ELSE queryOrder'
    BY <1>3, <1>4 DEF CalmOrders
  <2>1. m = Len(messages)
    BY <1>1 DEF ComposerIInv, CalmOrders
  <2>2. \A k \in DOMAIN messages : messages[k].stage \notin OnItsWay
    BY <2>1, <1>1 DEF ComposerIInv, CalmOrders, OnItsWay
  <2>3. shownOrder = queryOrder
    BY <2>2 DEF ComposerIInv, CalmOrders
  <2>4. messages'[m].stage \in OnItsWay
    BY <1>2, <1>4 DEF OnItsWay
  <2> QED
    BY <2>1, <2>3, <2>4, <1>3, <1>4 DEF ComposerIInv, CalmOrders
<1> QED
  BY <1>4, <1>5, <1>7, <1>8, <1>9 DEF ComposerIInv

LEMMA DroppingKeepsComposerIInv ==
  ASSUME ComposerIInv, NEW m \in DOMAIN messages, DropMessage(m)
  PROVE  ComposerIInv'
<1> DEFINE r == [messages[m] EXCEPT !.stage = "dropped"]
<1>1. /\ messages[m] \in MessageRecords /\ messages[m].stage = "ensuring"
      /\ messages \in Seq(MessageRecords)
  BY ElementOfSeq, LenProperties DEF ComposerIInv, ComposerTypes, DropMessage
<1>2. /\ r \in MessageRecords /\ r.items = messages[m].items /\ r.stage = "dropped"
      /\ r.refs = messages[m].refs /\ r.context = messages[m].context
      /\ r.capture = messages[m].capture
  BY <1>1 DEF MessageRecords, Stages
<1>3. /\ messages' = [messages EXCEPT ![m] = r]
      /\ UNCHANGED <<draft, reading, rushed, shownOrder, rowOrder, queryOrder>>
  BY DEF DropMessage, Stage
<1> HIDE DEF r
<1>4. /\ messages' \in Seq(MessageRecords) /\ Len(messages') = Len(messages)
      /\ DOMAIN messages' = DOMAIN messages
      /\ messages'[m] = r /\ \A k \in DOMAIN messages : k # m => messages'[k] = messages[k]
      /\ AttachmentsApart'
      /\ TrueMessage(r) => MessagesAreTrue'
      /\ draft' \in [typed : BOOLEAN, items : SUBSET Attachments]
      /\ reading' \subseteq SUBSET Attachments /\ rushed' \in BOOLEAN
  BY <1>2, <1>3, MessageRewritten
<1>5. MessagesAreTrue'
  BY <1>2, <1>4 DEF ComposerIInv, MessagesAreTrue, TrueMessage
<1>6. ComposerTypes'
  BY <1>3, <1>4 DEF ComposerIInv, ComposerTypes
<1>7. \A k \in DOMAIN messages :
        /\ messages'[k].stage = "sent" <=> messages[k].stage = "sent"
        /\ messages'[k].stage \in OnItsWay <=> messages[k].stage \in OnItsWay
  BY <1>1, <1>2, <1>4 DEF OnItsWay
<1>8. OrdersFollow'
  BY <1>2, <1>3, <1>4, <1>7 DEF ComposerIInv, OrdersFollow
<1>9. CalmOrders'
  <2>1. \A k \in DOMAIN messages :
          messages[k].stage \in {"sent", "dropped"} => messages'[k].stage \in {"sent", "dropped"}
    BY <1>2, <1>4
  <2> QED
    BY <2>1, <1>3, <1>4, <1>7 DEF ComposerIInv, CalmOrders
<1> QED
  BY <1>4, <1>5, <1>6, <1>8, <1>9 DEF ComposerIInv

LEMMA UploadKeepsComposerIInv ==
  ASSUME ComposerIInv, NEW m \in DOMAIN messages, UploadImages(m)
  PROVE  ComposerIInv'
<1> PICK uploaded \in Uploaded(messages[m]) :
      messages' = [messages EXCEPT ![m].stage = "uploaded", ![m].refs = uploaded]
  BY DEF UploadImages
<1> DEFINE r == [messages[m] EXCEPT !.stage = "uploaded", !.refs = uploaded]
<1>1. /\ messages[m] \in MessageRecords /\ messages[m].stage = "shown"
      /\ messages \in Seq(MessageRecords)
  BY ElementOfSeq, LenProperties DEF ComposerIInv, ComposerTypes, UploadImages
<1>a. uploaded \subseteq Images \union {Screen}
  BY <1>1 DEF Uploaded, Artifacts, MessageRecords
<1>2. /\ r \in MessageRecords /\ r.items = messages[m].items /\ r.stage = "uploaded"
      /\ r.refs = uploaded /\ r.context = messages[m].context
      /\ r.capture = messages[m].capture
  BY <1>1, <1>a DEF MessageRecords, Stages
<1>3. messages' = [messages EXCEPT ![m] = r]
  BY <1>1 DEF MessageRecords
<1>b. UNCHANGED <<draft, reading, rushed, shownOrder, rowOrder, queryOrder>>
  BY DEF UploadImages
<1> HIDE DEF r
<1>4. /\ messages' \in Seq(MessageRecords) /\ Len(messages') = Len(messages)
      /\ DOMAIN messages' = DOMAIN messages
      /\ messages'[m] = r /\ \A k \in DOMAIN messages : k # m => messages'[k] = messages[k]
      /\ AttachmentsApart'
      /\ TrueMessage(r) => MessagesAreTrue'
      /\ draft' \in [typed : BOOLEAN, items : SUBSET Attachments]
      /\ reading' \subseteq SUBSET Attachments /\ rushed' \in BOOLEAN
  BY <1>2, <1>3, <1>b, MessageRewritten
<1>c. /\ uploaded \subseteq messages[m].items \union {Screen}
      /\ Screen \in uploaded =>
           messages[m].capture /\ uploaded = {Screen} /\ messages[m].items \cap Images = {}
  BY ComposerAssumption DEF Uploaded, Artifacts
<1>5. MessagesAreTrue'
  BY <1>2, <1>4, <1>c DEF ComposerIInv, MessagesAreTrue, TrueMessage
<1>6. ComposerTypes'
  BY <1>b, <1>4 DEF ComposerIInv, ComposerTypes
<1>7. \A k \in DOMAIN messages :
        /\ messages'[k].stage = "sent" <=> messages[k].stage = "sent"
        /\ messages'[k].stage \in OnItsWay <=> messages[k].stage \in OnItsWay
  BY <1>1, <1>2, <1>4 DEF OnItsWay
<1>8. OrdersFollow'
  BY <1>1, <1>b, <1>4, <1>7 DEF ComposerIInv, OrdersFollow
<1>9. CalmOrders'
  <2>1. \A k \in DOMAIN messages :
          messages[k].stage \in {"sent", "dropped"} => messages'[k].stage \in {"sent", "dropped"}
    BY <1>1, <1>4
  <2> QED
    BY <2>1, <1>b, <1>4, <1>7 DEF ComposerIInv, CalmOrders
<1> QED
  BY <1>4, <1>5, <1>6, <1>8, <1>9 DEF ComposerIInv

LEMMA SendingKeepsComposerIInv ==
  ASSUME ComposerIInv, NEW m \in DOMAIN messages, SendQuery(m)
  PROVE  ComposerIInv'
<1> PICK read \in FileContext(messages[m]) :
      messages' = [messages EXCEPT ![m].stage = "sent", ![m].context = read]
  BY DEF SendQuery
<1> DEFINE r == [messages[m] EXCEPT !.stage = "sent", !.context = read]
<1>1. /\ messages[m] \in MessageRecords /\ messages[m].stage = "uploaded"
      /\ messages \in Seq(MessageRecords) /\ queryOrder \in Seq(DOMAIN messages)
  BY ElementOfSeq, LenProperties DEF ComposerIInv, ComposerTypes, SendQuery
<1>a. read \subseteq Files /\ read \subseteq messages[m].items
  BY DEF FileContext
<1>2. /\ r \in MessageRecords /\ r.items = messages[m].items /\ r.stage = "sent"
      /\ r.refs = messages[m].refs /\ r.context = read
      /\ r.capture = messages[m].capture
  BY <1>1, <1>a DEF MessageRecords, Stages
<1>3. messages' = [messages EXCEPT ![m] = r]
  BY <1>1 DEF MessageRecords
<1>b. /\ UNCHANGED <<draft, reading, rushed, shownOrder>>
      /\ rowOrder' = Append(rowOrder, m) /\ queryOrder' = Append(queryOrder, m)
  BY DEF SendQuery
<1> HIDE DEF r
<1>4. /\ messages' \in Seq(MessageRecords) /\ Len(messages') = Len(messages)
      /\ DOMAIN messages' = DOMAIN messages
      /\ messages'[m] = r /\ \A k \in DOMAIN messages : k # m => messages'[k] = messages[k]
      /\ AttachmentsApart'
      /\ TrueMessage(r) => MessagesAreTrue'
      /\ draft' \in [typed : BOOLEAN, items : SUBSET Attachments]
      /\ reading' \subseteq SUBSET Attachments /\ rushed' \in BOOLEAN
  BY <1>2, <1>3, <1>b, MessageRewritten
<1>5. MessagesAreTrue'
  BY <1>2, <1>4, <1>a DEF ComposerIInv, MessagesAreTrue, TrueMessage
<1>6. queryOrder' \in Seq(DOMAIN messages) /\ ToSet(queryOrder') = ToSet(queryOrder) \union {m}
  BY <1>1, <1>b, AppendProperties, AppendedSets
<1>7. ComposerTypes'
  BY <1>b, <1>4, <1>6 DEF ComposerIInv, ComposerTypes
<1>8. OrdersFollow'
  <2>1. m \notin ToSet(queryOrder) /\ m \in ToSet(shownOrder)
    BY <1>1 DEF ComposerIInv, OrdersFollow
  <2>2. IsInjective(queryOrder')
    BY <2>1, <1>1, <1>b, AppendedInjections DEF ComposerIInv, OrdersFollow
  <2>3. rowOrder' = queryOrder'
    BY <1>b DEF ComposerIInv, OrdersFollow
  <2>4. ToSet(queryOrder') = {k \in DOMAIN messages' : messages'[k].stage = "sent"}
    BY <1>2, <1>4, <1>6 DEF ComposerIInv, OrdersFollow
  <2>5. \A k \in DOMAIN messages' :
          messages'[k].stage \in {"shown", "uploaded", "sent"} => k \in ToSet(shownOrder')
    BY <2>1, <1>b, <1>4 DEF ComposerIInv, OrdersFollow
  <2> QED
    BY <2>2, <2>3, <2>4, <2>5 DEF OrdersFollow
<1>9. CalmOrders'
  <2> SUFFICES ASSUME ~rushed
               PROVE  /\ \A k \in DOMAIN messages' :
                           k # Len(messages) => messages'[k].stage \in {"sent", "dropped"}
                      /\ shownOrder' = IF \E k \in DOMAIN messages' : messages'[k].stage \in OnItsWay
                                       THEN Append(queryOrder', Len(messages)) ELSE queryOrder'
    BY <1>b, <1>4 DEF CalmOrders
  <2>1. m = Len(messages)
    BY <1>1 DEF ComposerIInv, CalmOrders
  <2>2. \A k \in DOMAIN messages : k # m => messages[k].stage \in {"sent", "dropped"}
    BY <2>1 DEF ComposerIInv, CalmOrders
  <2>3. shownOrder = Append(queryOrder, m)
    BY <2>1, <1>1 DEF ComposerIInv, CalmOrders, OnItsWay
  <2>4. \A k \in DOMAIN messages' : messages'[k].stage \in {"sent", "dropped"}
    BY <2>2, <1>2, <1>4
  <2> QED
    BY <2>3, <2>4, <1>b DEF OnItsWay
<1> QED
  BY <1>4, <1>5, <1>7, <1>8, <1>9 DEF ComposerIInv

LEMMA ComposerStepsKeepTheInvariant ==
  ComposerIInv /\ [ComposerNext]_composerVars => ComposerIInv'
<1> SUFFICES ASSUME ComposerIInv, [ComposerNext]_composerVars PROVE ComposerIInv'
  OBVIOUS
<1>1. CASE HandleInputChange
  BY <1>1, InputKeepsComposerIInv
<1>2. CASE ToggleCamera
  BY <1>2, OtherStepsKeepComposerIInv DEF ToggleCamera
<1>3. CASE SubmitMessage
  BY <1>3, SubmitKeepsComposerIInv
<1>4. CASE SendingEnds
  BY <1>4, OtherStepsKeepComposerIInv DEF SendingEnds
<1>5. CASE \E selection \in (SUBSET Fresh) \ {{}} : SelectAttachments(selection)
  BY <1>5, SelectionKeepsComposerIInv
<1>6. CASE \E selection \in reading : AttachmentsRead(selection)
  BY <1>6, ReadingKeepsComposerIInv
<1>7. CASE \E item \in Attachments : RemoveAttachment(item)
  BY <1>7, RemovalKeepsComposerIInv
<1>8. CASE \E m \in DOMAIN messages :
             ShowMessage(m) \/ DropMessage(m) \/ UploadImages(m) \/ SendQuery(m)
  BY <1>8, ShowingKeepsComposerIInv, DroppingKeepsComposerIInv, UploadKeepsComposerIInv,
     SendingKeepsComposerIInv
<1>9. CASE UNCHANGED composerVars
  BY <1>9, OtherStepsKeepComposerIInv DEF composerVars
<1> QED
  BY <1>1, <1>2, <1>3, <1>4, <1>5, <1>6, <1>7, <1>8, <1>9 DEF ComposerNext

LEMMA ComposedMessagesFromTheInvariant == ComposerIInv => ComposedMessagesArrive
<1> SUFFICES ASSUME ComposerIInv PROVE ComposedMessagesArrive
  OBVIOUS
<1>1. BeingRead = (UNION reading)
  BY ReadingAsSet DEF ComposerIInv
<1>2. /\ draft.items \cap (Sent \union (UNION reading)) = {}
      /\ (UNION reading) \cap Sent = {}
  <2>1. draft.items \cap (Sent \union BeingRead) = {} /\ BeingRead \cap Sent = {}
    BY DEF ComposerIInv, AttachmentsApart
  <2>2. \A a \in draft.items : a \notin Sent /\ a \notin (UNION reading)
    BY <1>1, <2>1
  <2>3. \A a \in Sent : a \notin (UNION reading)
    BY <1>1, <2>1
  <2>4. draft.items \cap (Sent \union (UNION reading)) = {}
    BY <2>2, Zenon
  <2>5. (UNION reading) \cap Sent = {}
    BY <2>3, Zenon
  <2> QED
    BY <2>4, <2>5
<1>3. AttachmentsTravelOnce
  BY <1>2 DEF ComposerIInv, AttachmentsApart, MessagesAreTrue, TrueMessage, AttachmentsTravelOnce
<1>4. ToSet(queryOrder) \subseteq ToSet(shownOrder) /\ rowOrder = queryOrder /\ IsInjective(queryOrder)
  BY DEF ComposerIInv, OrdersFollow
<1>5. ASSUME ~rushed PROVE IsPrefix(queryOrder, shownOrder)
  <2>1. queryOrder \in Seq(DOMAIN messages) /\ messages \in Seq(MessageRecords)
    BY DEF ComposerIInv, ComposerTypes
  <2>2. CASE \E m \in DOMAIN messages : messages[m].stage \in OnItsWay
    <3>1. shownOrder = Append(queryOrder, Len(messages))
      BY <1>5, <2>2 DEF ComposerIInv, CalmOrders
    <3>2. Len(messages) \in DOMAIN messages
      BY <2>1, <2>2, LenProperties
    <3> QED
      BY <2>1, <3>1, <3>2, AppendedPrefix
  <2>3. CASE ~\E m \in DOMAIN messages : messages[m].stage \in OnItsWay
    BY <1>5, <2>1, <2>3, OwnPrefix DEF ComposerIInv, CalmOrders
  <2> QED
    BY <2>2, <2>3
<1> QED
  BY <1>3, <1>4, <1>5 DEF ComposedMessagesArrive, SentAsShown

(* An attachment travels in one message only, whose query alone carries    *)
(* it, and a user who lets a message go before submitting the next finds   *)
(* rows and queries in the order of the chat (useChatComposerDraft.js,     *)
(* useChatMessageSender.ts).                                               *)
THEOREM ComposedMessagesArriveHolds == ComposerSpec => []ComposedMessagesArrive
<1>1. ComposerInit => ComposerIInv
  BY ComposerIInvAtStart
<1>2. ComposerIInv /\ [ComposerNext]_composerVars => ComposerIInv'
  BY ComposerStepsKeepTheInvariant
<1>3. ComposerIInv => ComposedMessagesArrive
  BY ComposedMessagesFromTheInvariant
<1> QED
  BY <1>1, <1>2, <1>3, PTL DEF ComposerSpec

-----------------------------------------------------------------------------
(* The places of the overlay windows.  Arithmetic first: Max and Min of    *)
(* two numbers, the edges of the monitors, and the monitor a pill is on.   *)

LEMMA MaxOfTwo ==
  ASSUME NEW a \in Int, NEW b \in Int
  PROVE  Max({a, b}) \in {a, b} /\ Max({a, b}) >= a /\ Max({a, b}) >= b
<1>1. \E x \in {a, b} : \A y \in {a, b} : x >= y
  <2>1. CASE a >= b
    BY <2>1
  <2>2. CASE ~(a >= b)
    BY <2>2
  <2> QED
    BY <2>1, <2>2
<1>2. Max({a, b}) \in {a, b} /\ \A y \in {a, b} : Max({a, b}) >= y
  BY <1>1 DEF Max
<1> QED
  BY <1>2

LEMMA MinOfTwo ==
  ASSUME NEW a \in Int, NEW b \in Int
  PROVE  Min({a, b}) \in {a, b} /\ Min({a, b}) <= a /\ Min({a, b}) <= b
<1>1. \E x \in {a, b} : \A y \in {a, b} : x <= y
  <2>1. CASE a <= b
    BY <2>1
  <2>2. CASE ~(a <= b)
    BY <2>2
  <2> QED
    BY <2>1, <2>2
<1>2. Min({a, b}) \in {a, b} /\ \A y \in {a, b} : Min({a, b}) <= y
  BY <1>1 DEF Min
<1> QED
  BY <1>2

LEMMA EdgesInOrder ==
  ASSUME NEW m \in Nat, NEW n \in Nat, m < n
  PROVE  /\ m * ScreenWidth \in Int /\ (m + 1) * ScreenWidth \in Int
         /\ (m + 1) * ScreenWidth = m * ScreenWidth + ScreenWidth
         /\ (m + 1) * ScreenWidth <= n * ScreenWidth
<1>1. PICK k \in Nat : n = m + 1 + k
  <2>1. n - m - 1 \in Nat /\ n = m + 1 + (n - m - 1)
    OBVIOUS
  <2> QED
    BY <2>1
<1>2. k * ScreenWidth >= 0
  BY PlacesAssumption
<1>3. n * ScreenWidth = (m + 1) * ScreenWidth + k * ScreenWidth
  BY <1>1, PlacesAssumption
<1> QED
  BY <1>2, <1>3, PlacesAssumption

LEMMA EdgesOfAMonitor ==
  ASSUME NEW m \in Nat
  PROVE  /\ m * ScreenWidth \in Int /\ (m + 1) * ScreenWidth \in Int
         /\ (m + 1) * ScreenWidth = m * ScreenWidth + ScreenWidth
         /\ 0 <= m * ScreenWidth
BY PlacesAssumption

(* A pill at x is inside monitor m.                                        *)
Fits(x, m) == m * ScreenWidth <= x /\ x <= (m + 1) * ScreenWidth - PillWidth

LEMMA OverlapOfAMonitor ==
  ASSUME NEW m \in Nat, NEW x \in Int
  PROVE  /\ Overlap(m, x) \in Nat
         /\ x + PillWidth <= m * ScreenWidth \/ (m + 1) * ScreenWidth <= x => Overlap(m, x) = 0
         /\ Fits(x, m) => Overlap(m, x) = PillWidth
<1> DEFINE lo == m * ScreenWidth
           hi == (m + 1) * ScreenWidth
           a == Min({x + PillWidth, hi})
           b == Max({x, lo})
<1>1. lo \in Int /\ hi \in Int /\ lo <= hi /\ PillWidth \in Nat \ {0}
  <2>1. lo \in Int /\ hi \in Int /\ hi = lo + ScreenWidth
    BY EdgesOfAMonitor
  <2> HIDE DEF lo, hi
  <2> QED
    BY <2>1, PlacesAssumption
<1>2. Overlap(m, x) = Max({0, a - b})
  BY DEF Overlap
<1>3. Fits(x, m) <=> lo <= x /\ x <= hi - PillWidth
  BY DEF Fits
<1> HIDE DEF lo, hi
<1>4. a \in {x + PillWidth, hi} /\ a <= x + PillWidth /\ a <= hi
  BY <1>1, MinOfTwo
<1>5. b \in {x, lo} /\ b >= x /\ b >= lo
  BY <1>1, MaxOfTwo
<1> HIDE DEF a, b
<1>6. a \in Int /\ b \in Int /\ a - b \in Int
  BY <1>1, <1>4, <1>5
<1>7. Max({0, a - b}) \in {0, a - b} /\ Max({0, a - b}) >= 0 /\ Max({0, a - b}) >= a - b
  BY <1>6, MaxOfTwo
<1>8. Overlap(m, x) \in Nat
  BY <1>2, <1>6, <1>7
<1>9. ASSUME x + PillWidth <= lo \/ hi <= x PROVE Overlap(m, x) = 0
  BY <1>1, <1>2, <1>4, <1>5, <1>6, <1>7, <1>9
<1>10. ASSUME lo <= x, x <= hi - PillWidth PROVE Overlap(m, x) = PillWidth
  <2>1. a = x + PillWidth /\ b = x
    BY <1>1, <1>4, <1>5, <1>10
  <2> QED
    BY <2>1, <1>1, <1>2, <1>7
<1> QED
  BY <1>3, <1>8, <1>9, <1>10 DEF lo, hi

(* getDisplayMatching finds a monitor for every place, and the one a pill  *)
(* is inside of when there is one.                                         *)
Matches(x, m) ==
  \A n \in Monitors :
    Overlap(m, x) > Overlap(n, x) \/ (Overlap(m, x) = Overlap(n, x) /\ m <= n)

LEMMA BestOfTwoMatches ==
  ASSUME NEW x \in Int, NEW q \in Nat,
         \A n \in Monitors : n \notin {q, q + 1} => Overlap(n, x) = 0
  PROVE  \E m \in Monitors : Matches(x, m)
<1>1. \A n \in Monitors : n \in Nat /\ Overlap(n, x) \in Nat
  BY OverlapOfAMonitor, PlacesAssumption
<1>2. 0 \in Monitors
  BY PlacesAssumption
<1> DEFINE o == [n \in Monitors |-> Overlap(n, x)]
<1>3. \A n \in Monitors : o[n] = Overlap(n, x)
  OBVIOUS
<1> HIDE DEF o
<1>4. \A n \in Monitors : o[n] \in Nat /\ (n \notin {q, q + 1} => o[n] = 0)
  BY <1>1, <1>3
<1>5. \E m \in Monitors : \A n \in Monitors : o[m] > o[n] \/ (o[m] = o[n] /\ m <= n)
  <2>1. CASE \A n \in Monitors : o[n] = 0
    BY <2>1, <1>1, <1>2
  <2>2. CASE q \in Monitors /\ o[q] > 0 /\ (q + 1 \in Monitors => o[q + 1] <= o[q])
    BY <2>2, <1>1, <1>4
  <2>3. CASE q + 1 \in Monitors /\ o[q + 1] > 0 /\ (q \in Monitors => o[q] < o[q + 1])
    BY <2>3, <1>1, <1>4
  <2> QED
    BY <2>1, <2>2, <2>3, <1>1, <1>4
<1> QED
  BY <1>3, <1>5 DEF Matches

LEMMA Quotient ==
  ASSUME NEW x \in Int, NEW w \in Int, w > 0, x >= 0
  PROVE  \E q \in Nat : q * w <= x /\ x < (q + 1) * w
<1>1. x \div w \in Int /\ (x \div w) * w <= x /\ x < (x \div w + 1) * w
  OBVIOUS
<1> QED
  BY <1>1

LEMMA FarMonitorsDoNotOverlap ==
  ASSUME NEW x \in Int
  PROVE  \E q \in Nat : \A n \in Monitors : n \notin {q, q + 1} => Overlap(n, x) = 0
<1>1. CASE x < 0
  <2>1. ASSUME NEW n \in Monitors, n # 0 PROVE Overlap(n, x) = 0
    <3>1. n \in Nat /\ 0 < n
      BY <2>1, PlacesAssumption
    <3>2. (0 + 1) * ScreenWidth <= n * ScreenWidth /\ (0 + 1) * ScreenWidth = 0 * ScreenWidth + ScreenWidth
      BY <3>1, EdgesInOrder
    <3>3. ScreenWidth <= n * ScreenWidth /\ n * ScreenWidth \in Int
      BY <3>1, <3>2, EdgesOfAMonitor, PlacesAssumption
    <3>4. x + PillWidth <= n * ScreenWidth
      BY <3>3, <1>1, PlacesAssumption
    <3> QED
      BY <3>1, <3>4, OverlapOfAMonitor
  <2> QED
    BY <2>1
<1>2. CASE x >= 0
  <2>1. PICK q \in Nat : q * ScreenWidth <= x /\ x < (q + 1) * ScreenWidth
    <3>1. ScreenWidth \in Int /\ ScreenWidth > 0
      BY PlacesAssumption
    <3> QED
      BY <3>1, <1>2, Quotient
  <2>2. ASSUME NEW n \in Monitors, n \notin {q, q + 1} PROVE Overlap(n, x) = 0
    <3>1. n \in Nat /\ (n < q \/ q + 1 < n)
      BY <2>2, PlacesAssumption
    <3>2. CASE n < q
      <4>1. (n + 1) * ScreenWidth <= q * ScreenWidth /\ (n + 1) * ScreenWidth \in Int
        BY <3>1, <3>2, EdgesInOrder
      <4>2. (n + 1) * ScreenWidth <= x
        BY <4>1, <2>1, EdgesOfAMonitor
      <4> QED
        BY <3>1, <4>2, OverlapOfAMonitor
    <3>3. CASE q + 1 < n
      <4>1. (q + 1 + 1) * ScreenWidth <= n * ScreenWidth
            /\ (q + 1 + 1) * ScreenWidth = (q + 1) * ScreenWidth + ScreenWidth
        BY <3>1, <3>3, EdgesInOrder
      <4>2. (q + 1) * ScreenWidth \in Int /\ n * ScreenWidth \in Int
        BY <3>1, EdgesOfAMonitor
      <4>3. x + PillWidth <= n * ScreenWidth
        BY <4>1, <4>2, <2>1, PlacesAssumption
      <4> QED
        BY <3>1, <4>3, OverlapOfAMonitor
    <3> QED
      BY <3>1, <3>2, <3>3
  <2> QED
    BY <2>2
<1> QED
  BY <1>1, <1>2

LEMMA SomeMonitorMatches ==
  ASSUME NEW x \in Int
  PROVE  Matching(x) \in Monitors /\ Matches(x, Matching(x))
<1>1. \E m \in Monitors : Matches(x, m)
  BY FarMonitorsDoNotOverlap, BestOfTwoMatches
<1>2. Matching(x) = CHOOSE m \in Monitors : Matches(x, m)
  BY DEF Matching, Matches
<1> QED
  BY <1>1, <1>2

LEMMA TheMonitorInsideMatches ==
  ASSUME NEW x \in Int, NEW m \in Monitors, Fits(x, m)
  PROVE  Matching(x) = m
<1> DEFINE n == Matching(x)
<1>1. n \in Monitors /\ Matches(x, n)
  BY SomeMonitorMatches
<1> HIDE DEF n
<1>2. m \in Nat /\ n \in Nat
  BY <1>1, PlacesAssumption
<1>3. Overlap(m, x) = PillWidth /\ PillWidth \in Nat \ {0}
  BY <1>2, OverlapOfAMonitor, PlacesAssumption
<1>4. /\ m * ScreenWidth <= x /\ x <= (m + 1) * ScreenWidth - PillWidth
      /\ m * ScreenWidth \in Int /\ (m + 1) * ScreenWidth \in Int
      /\ n * ScreenWidth \in Int /\ (n + 1) * ScreenWidth \in Int
  BY <1>2, EdgesOfAMonitor DEF Fits
<1>5. ASSUME n < m PROVE Overlap(n, x) = 0
  <2>1. (n + 1) * ScreenWidth <= m * ScreenWidth
    BY <1>2, <1>5, EdgesInOrder
  <2>2. (n + 1) * ScreenWidth <= x
    BY <2>1, <1>4
  <2> QED
    BY <2>2, <1>2, OverlapOfAMonitor
<1>6. ASSUME m < n PROVE Overlap(n, x) = 0
  <2>1. (m + 1) * ScreenWidth <= n * ScreenWidth
    BY <1>2, <1>6, EdgesInOrder
  <2>2. x + PillWidth <= n * ScreenWidth
    BY <2>1, <1>3, <1>4
  <2> QED
    BY <2>2, <1>2, OverlapOfAMonitor
<1>7. ~(0 > PillWidth) /\ 0 # PillWidth
  BY <1>3
<1>8. Overlap(n, x) > PillWidth \/ Overlap(n, x) = PillWidth
  BY <1>1, <1>3 DEF Matches
<1>9. n = m
  BY <1>2, <1>5, <1>6, <1>7, <1>8
<1> QED
  BY <1>9 DEF n

LEMMA ClampedFits ==
  ASSUME NEW x \in Int, NEW m \in Monitors
  PROVE  /\ Clamped(x, m) \in Int /\ Fits(Clamped(x, m), m)
         /\ Fits(x, m) => Clamped(x, m) = x
<1> DEFINE lo == m * ScreenWidth
           hi == (m + 1) * ScreenWidth
           a == Min({x, hi - PillWidth})
           c == Max({lo, a})
<1>1. /\ lo \in Int /\ hi \in Int /\ hi = lo + ScreenWidth
      /\ PillWidth \in Nat /\ ScreenWidth \in Nat /\ PillWidth <= ScreenWidth
  BY EdgesOfAMonitor, PlacesAssumption
<1>2. \A y : Fits(y, m) <=> lo <= y /\ y <= hi - PillWidth
  BY DEF Fits
<1>3. Clamped(x, m) = c
  BY DEF Clamped
<1> HIDE DEF lo, hi
<1>4. a \in {x, hi - PillWidth} /\ a <= x /\ a <= hi - PillWidth
  <2>1. hi - PillWidth \in Int
    BY <1>1
  <2> QED
    BY <2>1, MinOfTwo
<1> HIDE DEF a
<1>5. a \in Int
  BY <1>1, <1>4
<1>6. c \in {lo, a} /\ c >= lo /\ c >= a
  BY <1>1, <1>5, MaxOfTwo
<1> HIDE DEF c
<1>7. c \in Int /\ lo <= c /\ c <= hi - PillWidth
  BY <1>1, <1>4, <1>5, <1>6
<1>8. ASSUME lo <= x, x <= hi - PillWidth PROVE c = x
  BY <1>1, <1>4, <1>5, <1>6, <1>8
<1> QED
  BY <1>2, <1>3, <1>7, <1>8

-----------------------------------------------------------------------------
(* The invariant of the places.  A response whose flag is up stands on the *)
(* pill even while both are hidden (Stands), or showing it again would     *)
(* show it elsewhere; a visible pill is seated on the monitor the affinity *)
(* names (PillStands), and the affinity, seen or not, describes that       *)
(* monitor as it is now unless its work area has changed under it          *)
(* (AffinityIsFresh), since the pill is placed by it when it opens; pill   *)
(* and dashboard are never visible together (OneSurface), so that the      *)
(* visible one owns the affinity; and before any of them was seen the pill *)
(* waits where the primary monitor puts it (NeverSeen).                    *)

Pills == [x : Int, y : Int, visible : BOOLEAN]
Responses == [x : Int, y : Int, w : Int, h : Int, shown : BOOLEAN, flag : BOOLEAN]

PlacesTypes ==
  /\ area \in [Monitors -> AreaHeights]
  /\ affinity \in Affinities \union {NoAffinity}
  /\ manual \in Drags \union {NoManual}
  /\ pill \in Pills
  /\ dashboard \in [monitor : Monitors, visible : BOOLEAN]
  /\ anchor \in Int
  /\ response \in Responses
  /\ activeLoop \in BOOLEAN /\ aged \in BOOLEAN

Stands(r, p, height) ==
  /\ r.shown => r.flag
  /\ r.flag => /\ r.x = ResponsePlace(p, height, r.w, r.h).x
               /\ r.y = ResponsePlace(p, height, r.w, r.h).y

(* A pill at x, y is where a user on monitor m expects it.                 *)
InPlace(x, y, moved, a) ==
  /\ Fits(x, a.monitor)
  /\ y + PillHeight = IF DraggedHere(moved, a) THEN moved.bottom ELSE a.height - Margin

(* A pill at x, y is where the affinity a allows; old: a may be old.       *)
Seated(x, y, moved, a, old) ==
  /\ Fits(x, a.monitor)
  /\ DraggedHere(moved, a) => y + PillHeight = moved.bottom
  /\ ~DraggedHere(moved, a) /\ ~old => y + PillHeight = a.height - Margin

PillStands ==
  pill.visible =>
    /\ affinity # NoAffinity /\ affinity.monitor = Matching(pill.x)
    /\ Seated(pill.x, pill.y, manual, affinity, aged)

DescribesItsMonitor(a) == a = NoAffinity \/ a = DisplayAffinity(a.monitor)

AffinityIsFresh == ~aged => DescribesItsMonitor(affinity)

OneSurface == ~(pill.visible /\ dashboard.visible)

NeverSeen ==
  affinity = NoAffinity =>
    /\ ~pill.visible /\ ~dashboard.visible /\ manual = NoManual /\ ~aged
    /\ pill.x = DefaultPlace(NoAffinity).x /\ pill.y = DefaultPlace(NoAffinity).y

PlacesIInv ==
  /\ PlacesTypes /\ Stands(response, pill, anchor) /\ PillStands /\ AffinityIsFresh
  /\ OneSurface /\ NeverSeen

LEMMA HalfIsANumber ==
  ASSUME NEW v \in Int
  PROVE  Half(v) \in Int
BY DEF Half

LEMMA HalfOfTheRoom == 0 <= Half(ScreenWidth - PillWidth)
                       /\ Half(ScreenWidth - PillWidth) <= ScreenWidth - PillWidth
<1>1. ScreenWidth - PillWidth \in Nat
  BY PlacesAssumption
<1>2. \A v \in Nat : 0 <= (v + 1) \div 2 /\ (v + 1) \div 2 <= v
  OBVIOUS
<1> QED
  BY <1>1, <1>2 DEF Half

LEMMA AffinityTypes ==
  ASSUME PlacesTypes, NEW m \in Monitors
  PROVE  /\ DisplayAffinity(m) \in Affinities /\ DisplayAffinity(m).monitor = m
         /\ DisplayAffinity(m).height = area[m] /\ DisplayAffinity(m) # NoAffinity
         /\ DescribesItsMonitor(DisplayAffinity(m))
<1>1. DisplayAffinity(m) \in Affinities /\ DisplayAffinity(m).monitor = m
      /\ DisplayAffinity(m).height = area[m]
  BY DEF DisplayAffinity, Affinities, PlacesTypes
<1> QED
  BY <1>1, PlacesAssumption DEF DescribesItsMonitor

(* Who is seated by one affinity is seated by another of that monitor.     *)
LEMMA SeatedByTheMonitor ==
  ASSUME NEW x, NEW y, NEW moved, NEW a, NEW b, NEW old,
         a # NoAffinity, b # NoAffinity, b.monitor = a.monitor, old \/ b.height = a.height,
         Seated(x, y, moved, a, old)
  PROVE  Seated(x, y, moved, b, old)
BY DEF Seated, DraggedHere

LEMMA InPlaceIsSeated ==
  ASSUME NEW x, NEW y, NEW moved, NEW a, NEW old, InPlace(x, y, moved, a)
  PROVE  Seated(x, y, moved, a, old)
BY DEF Seated, InPlace

LEMMA AsItIsDescribes ==
  ASSUME PlacesTypes, NEW a
  PROVE  /\ AsItIs(a) => a \in Affinities /\ a # NoAffinity /\ a = DisplayAffinity(a.monitor)
         /\ a \in Affinities /\ a = DisplayAffinity(a.monitor) => AsItIs(a)
<1>1. ASSUME AsItIs(a) PROVE a \in Affinities /\ a # NoAffinity /\ a = DisplayAffinity(a.monitor)
  <2>1. PICK m \in Monitors : a = DisplayAffinity(m)
    BY <1>1 DEF AsItIs
  <2> QED
    BY <2>1, AffinityTypes
<1>2. ASSUME a \in Affinities, a = DisplayAffinity(a.monitor) PROVE AsItIs(a)
  <2>1. a.monitor \in Monitors
    BY <1>2 DEF Affinities
  <2> QED
    BY <1>2, <2>1 DEF AsItIs
<1> QED
  BY <1>1, <1>2

(* Placing a response on a pill.                                           *)
LEMMA ResponsePlaceIsTyped ==
  ASSUME NEW p \in Pills, NEW height \in Int, NEW w \in Int, NEW h \in Int
  PROVE  /\ ResponsePlace(p, height, w, h) \in [x : Int, y : Int, w : Int, h : Int]
         /\ ResponsePlace(p, height, w, h).w = w /\ ResponsePlace(p, height, w, h).h = h
<1>1. p.x \in Int /\ p.y \in Int
  BY DEF Pills
<1>2. Half(2 * p.x + PillWidth - w) \in Int
  BY <1>1, PlacesAssumption, HalfIsANumber
<1>3. Max({0, PillHeight - height}) \in Int
  <2> DEFINE e == PillHeight - height
  <2>1. e \in Int
    BY PlacesAssumption
  <2> HIDE DEF e
  <2>2. Max({0, e}) \in {0, e}
    BY <2>1, MaxOfTwo
  <2>3. Max({0, e}) \in Int
    BY <2>1, <2>2
  <2> QED
    BY <2>3 DEF e
<1>4. AnchorTop(p.y, height) \in Int
  BY <1>1, <1>3 DEF AnchorTop
<1>5. ResponseGap(h) \in Int
  BY PlacesAssumption DEF ResponseGap
<1>6. AnchorTop(p.y, height) - ResponseGap(h) - h \in Int
  BY <1>4, <1>5
<1> QED
  BY <1>2, <1>6 DEF ResponsePlace

LEMMA PlacedResponseStands ==
  ASSUME NEW r \in Responses, NEW p \in Pills, NEW height \in Int, NEW w \in Int, NEW h \in Int,
         NEW onScreen \in BOOLEAN, NEW flag \in BOOLEAN, onScreen => flag,
         NEW s, s = [At(r, ResponsePlace(p, height, w, h)) EXCEPT !.flag = flag, !.shown = onScreen]
  PROVE  s \in Responses /\ Stands(s, p, height)
<1> DEFINE place == ResponsePlace(p, height, w, h)
<1>1. place \in [x : Int, y : Int, w : Int, h : Int] /\ place.w = w /\ place.h = h
  BY ResponsePlaceIsTyped
<1>2. s.w = w /\ s.h = h /\ s.x = place.x /\ s.y = place.y /\ s.flag = flag /\ s.shown = onScreen
      /\ s \in Responses
  <2> HIDE DEF place
  <2>1. At(r, place) = [r EXCEPT !.x = place.x, !.y = place.y, !.w = place.w, !.h = place.h]
    BY DEF At
  <2> QED
    BY <1>1, <2>1 DEF Responses, place
<1> QED
  BY <1>2 DEF Stands

LEMMA PositionKeeps ==
  ASSUME NEW r \in Responses, NEW p \in Pills, NEW height \in Int, r.shown => r.flag
  PROVE  /\ PositionResponse(r, p, height) \in Responses
         /\ Stands(PositionResponse(r, p, height), p, height)
         /\ PositionResponse(r, p, height).flag = r.flag
         /\ PositionResponse(r, p, height).shown = r.shown
<1>1. r.w \in Int /\ r.h \in Int /\ r.shown \in BOOLEAN /\ r.flag \in BOOLEAN
  BY DEF Responses
<1>2. CASE r.flag
  <2> DEFINE s == [At(r, ResponsePlace(p, height, r.w, r.h)) EXCEPT !.flag = r.flag, !.shown = r.shown]
  <2>1. s \in Responses /\ Stands(s, p, height)
    BY <1>1, PlacedResponseStands
  <2>2. PositionResponse(r, p, height) = At(r, ResponsePlace(p, height, r.w, r.h))
    BY <1>2 DEF PositionResponse
  <2>3. /\ s = At(r, ResponsePlace(p, height, r.w, r.h))
        /\ s.flag = r.flag /\ s.shown = r.shown
    BY DEF At, Responses
  <2> QED
    BY <2>1, <2>2, <2>3
<1>3. CASE ~r.flag
  BY <1>1, <1>3 DEF PositionResponse, Stands
<1> QED
  BY <1>2, <1>3

LEMMA FallbackStands ==
  ASSUME NEW r \in Responses, NEW p \in Pills, anchor \in Int,
         NEW onScreen \in BOOLEAN, NEW flag \in BOOLEAN, onScreen => flag,
         NEW s, s = [FallbackBounds(r, p) EXCEPT !.flag = flag, !.shown = onScreen]
  PROVE  s \in Responses /\ Stands(s, p, anchor)
<1>1. r.w \in Int /\ r.h \in Int
  BY DEF Responses
<1>2. Max({CompactHeight, r.h}) \in Int
  <2>1. CompactHeight \in Int
    BY PlacesAssumption
  <2>2. Max({CompactHeight, r.h}) \in {CompactHeight, r.h}
    BY <1>1, <2>1, MaxOfTwo
  <2> QED
    BY <1>1, <2>1, <2>2
<1> QED
  BY <1>1, <1>2, PlacedResponseStands DEF FallbackBounds

LEMMA StandsByPlaceOnly ==
  ASSUME NEW r, NEW p, NEW q, NEW height, p.x = q.x, p.y = q.y, Stands(r, p, height)
  PROVE  Stands(r, q, height)
BY DEF Stands, ResponsePlace

(* Placing the pill by an affinity.                                        *)
LEMMA PillPlaceIsInPlace ==
  ASSUME NEW moved \in Drags \union {NoManual}, NEW a \in Affinities
  PROVE  /\ PillPlace(moved, a).x \in Int /\ PillPlace(moved, a).y \in Int
         /\ InPlace(PillPlace(moved, a).x, PillPlace(moved, a).y, moved, a)
         /\ Matching(PillPlace(moved, a).x) = a.monitor
<1>1. /\ a.monitor \in Monitors /\ a.monitor \in Nat /\ a.height \in Int /\ a # NoAffinity
      /\ PillHeight \in Int /\ Margin \in Int
  <2>1. a # NoAffinity /\ PillHeight \in Int /\ Margin \in Int
    BY PlacesAssumption
  <2>2. Monitors \subseteq Nat /\ AreaHeights \subseteq Nat
    BY PlacesAssumption
  <2>3. a.monitor \in Monitors /\ a.height \in AreaHeights
    BY DEF Affinities
  <2>4. a.monitor \in Nat /\ a.height \in Nat
    BY <2>2, <2>3, Zenon
  <2> QED
    BY <2>1, <2>3, <2>4
<1>2. /\ PillPlace(moved, a).x \in Int /\ PillPlace(moved, a).y \in Int
      /\ InPlace(PillPlace(moved, a).x, PillPlace(moved, a).y, moved, a)
  <2>1. CASE DraggedHere(moved, a)
    <3>1. moved \in Drags /\ moved.x \in Int /\ moved.bottom \in Int
      BY <2>1, PlacesAssumption DEF DraggedHere, Drags
    <3>2. PillPlace(moved, a) = [x |-> Clamped(moved.x, a.monitor), y |-> moved.bottom - PillHeight]
      BY <2>1 DEF PillPlace
    <3>3. Clamped(moved.x, a.monitor) \in Int /\ Fits(Clamped(moved.x, a.monitor), a.monitor)
      BY <1>1, <3>1, ClampedFits
    <3>4. moved.bottom - PillHeight \in Int /\ moved.bottom - PillHeight + PillHeight = moved.bottom
      BY <1>1, <3>1
    <3> QED
      BY <2>1, <3>2, <3>3, <3>4 DEF InPlace
  <2>2. CASE ~DraggedHere(moved, a)
    <3> DEFINE x == a.monitor * ScreenWidth + Half(ScreenWidth - PillWidth)
               y == a.height - PillHeight - Margin
    <3>1. PillPlace(moved, a) = [x |-> x, y |-> y]
      BY <1>1, <2>2 DEF PillPlace, DefaultPlace, WorkArea
    <3>2. x \in Int /\ Fits(x, a.monitor)
      <4>1. /\ a.monitor * ScreenWidth \in Int /\ (a.monitor + 1) * ScreenWidth \in Int
            /\ (a.monitor + 1) * ScreenWidth = a.monitor * ScreenWidth + ScreenWidth
        BY <1>1, EdgesOfAMonitor
      <4>2. Half(ScreenWidth - PillWidth) \in Int
        BY HalfIsANumber, PlacesAssumption
      <4> DEFINE lo == a.monitor * ScreenWidth
                 hi == (a.monitor + 1) * ScreenWidth
                 half == Half(ScreenWidth - PillWidth)
      <4>3. x = lo + half /\ (Fits(x, a.monitor) <=> lo <= x /\ x <= hi - PillWidth)
        BY DEF Fits
      <4>4. lo \in Int /\ hi \in Int /\ hi = lo + ScreenWidth /\ half \in Int /\ 0 <= half
            /\ half <= ScreenWidth - PillWidth
        BY <4>1, <4>2, HalfOfTheRoom
      <4> HIDE DEF lo, hi, half, x
      <4> QED
        BY <4>3, <4>4, PlacesAssumption
    <3>3. y \in Int /\ y + PillHeight = a.height - Margin
      BY <1>1
    <3> HIDE DEF x, y
    <3> QED
      BY <2>2, <3>1, <3>2, <3>3 DEF InPlace
  <2> QED
    BY <2>1, <2>2
<1>3. Matching(PillPlace(moved, a).x) = a.monitor
  BY <1>1, <1>2, TheMonitorInsideMatches DEF InPlace
<1> QED
  BY <1>2, <1>3

LEMMA PlacedPill ==
  ASSUME NEW p \in Pills, NEW moved \in Drags \union {NoManual}, NEW a \in Affinities
  PROVE  /\ Placed(p, moved, a) \in Pills
         /\ Placed(p, moved, a).visible = p.visible
         /\ InPlace(Placed(p, moved, a).x, Placed(p, moved, a).y, moved, a)
         /\ Matching(Placed(p, moved, a).x) = a.monitor
<1> DEFINE place == PillPlace(moved, a)
<1>1. /\ place.x \in Int /\ place.y \in Int /\ InPlace(place.x, place.y, moved, a)
      /\ Matching(place.x) = a.monitor
  BY PillPlaceIsInPlace
<1>2. Placed(p, moved, a) = [p EXCEPT !.x = place.x, !.y = place.y]
  BY DEF Placed
<1> HIDE DEF place
<1>3. /\ Placed(p, moved, a) \in Pills /\ Placed(p, moved, a).visible = p.visible
      /\ Placed(p, moved, a).x = place.x /\ Placed(p, moved, a).y = place.y
  BY <1>1, <1>2 DEF Pills
<1> QED
  BY <1>1, <1>3

LEMMA PlacesIInvAtStart == PlacesInit => PlacesIInv
<1> SUFFICES ASSUME PlacesInit PROVE PlacesIInv
  OBVIOUS
<1> DEFINE place == DefaultPlace(NoAffinity)
<1>1. area \in [Monitors -> AreaHeights] /\ affinity = NoAffinity /\ manual = NoManual
  BY DEF PlacesInit
<1>2. place.x \in Int /\ place.y \in Int
  <2>1. WorkArea(NoAffinity) = DisplayAffinity(0) /\ 0 \in Monitors
    BY PlacesAssumption DEF WorkArea
  <2>2. WorkArea(NoAffinity).monitor = 0 /\ WorkArea(NoAffinity).height = area[0]
    BY <2>1 DEF DisplayAffinity
  <2>3. area[0] \in Nat
    BY <1>1, <2>1, PlacesAssumption
  <2>4. Half(ScreenWidth - PillWidth) \in Int
    BY HalfIsANumber, PlacesAssumption
  <2>5. 0 * ScreenWidth + Half(ScreenWidth - PillWidth) \in Int
    BY <2>4, PlacesAssumption
  <2>6. area[0] - PillHeight - Margin \in Int
    BY <2>3, PlacesAssumption
  <2> QED
    BY <2>2, <2>5, <2>6 DEF DefaultPlace
<1>3. pill = [x |-> place.x, y |-> place.y, visible |-> FALSE]
  BY DEF PlacesInit
<1> HIDE DEF place
<1>4. pill \in Pills /\ ~pill.visible /\ pill.x = place.x /\ pill.y = place.y
  BY <1>2, <1>3 DEF Pills
<1>5. dashboard = [monitor |-> 0, visible |-> FALSE] /\ 0 \in Monitors
  BY PlacesAssumption DEF PlacesInit
<1>6. dashboard \in [monitor : Monitors, visible : BOOLEAN] /\ ~dashboard.visible
  BY <1>5
<1>7. response \in Responses /\ ~response.shown /\ ~response.flag
  <2>1. PillWidth \in Int /\ CompactHeight \in Int
    BY PlacesAssumption
  <2>2. response = [x |-> 0, y |-> 0, w |-> PillWidth, h |-> CompactHeight,
                    shown |-> FALSE, flag |-> FALSE]
    BY DEF PlacesInit
  <2> QED
    BY <2>1, <2>2 DEF Responses
<1>8. anchor \in Int /\ activeLoop = FALSE /\ aged = FALSE
  BY PlacesAssumption DEF PlacesInit
<1>9. PlacesTypes
  BY <1>1, <1>4, <1>6, <1>7, <1>8 DEF PlacesTypes
<1>10. Stands(response, pill, anchor)
  BY <1>7 DEF Stands
<1>11. PillStands /\ AffinityIsFresh /\ OneSurface
  BY <1>1, <1>4, <1>6 DEF PillStands, AffinityIsFresh, DescribesItsMonitor, OneSurface
<1>12. NeverSeen
  BY <1>1, <1>4, <1>6, <1>8 DEF NeverSeen, place
<1> QED
  BY <1>9, <1>10, <1>11, <1>12 DEF PlacesIInv

(* What a step keeps that leaves the pill, the dashboard, the affinity and *)
(* the areas alone.                                                        *)
LEMMA PillUntouched ==
  ASSUME PlacesIInv, UNCHANGED <<area, affinity, manual, pill, dashboard, aged>>,
         anchor' \in Int, activeLoop' \in BOOLEAN, response' \in Responses,
         Stands(response', pill', anchor')
  PROVE  PlacesIInv'
<1>1. PlacesTypes'
  BY DEF PlacesIInv, PlacesTypes
<1>2. PillStands'
  BY DEF PlacesIInv, PillStands, DisplayAffinity
<1>3. AffinityIsFresh' /\ OneSurface'
  BY DEF PlacesIInv, AffinityIsFresh, DescribesItsMonitor, OneSurface, DisplayAffinity
<1>4. NeverSeen'
  BY DEF PlacesIInv, NeverSeen, DefaultPlace, WorkArea, DisplayAffinity
<1> QED
  BY <1>1, <1>2, <1>3, <1>4 DEF PlacesIInv

LEMMA AnchorKeepsPlacesIInv ==
  ASSUME PlacesIInv, NEW height \in Anchors, SetAnchor(height)
  PROVE  PlacesIInv'
<1>1. height \in Int
  BY PlacesAssumption
<1>2. response \in Responses /\ pill \in Pills /\ (response.shown => response.flag)
  BY DEF PlacesIInv, PlacesTypes, Stands
<1>3. /\ anchor' = height /\ response' = PositionResponse(response, pill, height)
      /\ UNCHANGED <<area, affinity, manual, pill, dashboard, activeLoop, aged>>
  BY DEF SetAnchor
<1>4. response' \in Responses /\ Stands(response', pill', anchor')
  BY <1>1, <1>2, <1>3, PositionKeeps
<1> QED
  BY <1>1, <1>3, <1>4, PillUntouched DEF PlacesIInv, PlacesTypes

LEMMA SizeKeepsPlacesIInv ==
  ASSUME PlacesIInv, NEW w \in FrameWidths, NEW h \in FrameHeights, SetResponseSize(w, h)
  PROVE  PlacesIInv'
<1>1. w \in Int /\ h \in Int
  <2>1. FrameWidths \subseteq Nat /\ FrameHeights \subseteq Nat
    BY PlacesAssumption
  <2> QED
    BY <2>1
<1>2. response \in Responses /\ pill \in Pills /\ anchor \in Int
  BY DEF PlacesIInv, PlacesTypes
<1> DEFINE onScreen == response.shown \/ pill.visible
<1>3. onScreen \in BOOLEAN
  BY <1>2 DEF Responses, Pills
<1>4. /\ response' = [At(response, ResponsePlace(pill, anchor, w, h))
                        EXCEPT !.flag = TRUE, !.shown = onScreen]
      /\ UNCHANGED <<area, affinity, manual, pill, dashboard, anchor, activeLoop, aged>>
  BY DEF SetResponseSize
<1> HIDE DEF onScreen
<1> DEFINE up == TRUE
<1>5. up \in BOOLEAN /\ (onScreen => up)
      /\ response' = [At(response, ResponsePlace(pill, anchor, w, h))
                        EXCEPT !.flag = up, !.shown = onScreen]
  BY <1>4
<1> HIDE DEF up
<1>6. response' \in Responses /\ Stands(response', pill, anchor)
  BY <1>1, <1>2, <1>3, <1>5, PlacedResponseStands
<1> QED
  BY <1>2, <1>4, <1>6, PillUntouched DEF PlacesIInv, PlacesTypes

LEMMA HiddenResponseStands ==
  ASSUME NEW r \in Responses, NEW p, NEW height, Stands(r, p, height)
  PROVE  /\ HideResponse(r) \in Responses /\ Stands(HideResponse(r), p, height)
         /\ [HideResponse(r) EXCEPT !.flag = FALSE] \in Responses
         /\ Stands([HideResponse(r) EXCEPT !.flag = FALSE], p, height)
<1> DEFINE s == HideResponse(r)
           t == [s EXCEPT !.flag = FALSE]
<1>1. s \in Responses /\ ~s.shown /\ s.flag = r.flag /\ s.x = r.x /\ s.y = r.y /\ s.w = r.w /\ s.h = r.h
  BY DEF HideResponse, Responses
<1> HIDE DEF s
<1>2. t \in Responses /\ ~t.shown /\ ~t.flag
  BY <1>1 DEF Responses
<1> HIDE DEF t
<1>3. Stands(s, p, height) /\ Stands(t, p, height)
  BY <1>1, <1>2 DEF Stands
<1> QED
  BY <1>1, <1>2, <1>3 DEF s, t

LEMMA SizeHiddenKeepsPlacesIInv ==
  ASSUME PlacesIInv, SetResponseHidden PROVE PlacesIInv'
<1>1. /\ response' = [HideResponse(response) EXCEPT !.flag = FALSE]
      /\ UNCHANGED <<area, affinity, manual, pill, dashboard, anchor, activeLoop, aged>>
  BY DEF SetResponseHidden
<1>2. response \in Responses /\ Stands(response, pill, anchor) /\ anchor \in Int /\ activeLoop \in BOOLEAN
  BY DEF PlacesIInv, PlacesTypes
<1>3. response' \in Responses /\ Stands(response', pill, anchor)
  BY <1>1, <1>2, HiddenResponseStands
<1> QED
  BY <1>1, <1>2, <1>3, PillUntouched

LEMMA ModeKeepsPlacesIInv ==
  ASSUME PlacesIInv, NEW mode \in {"hidden", "active-loop", "terminal"}, ModeChanges(mode)
  PROVE  PlacesIInv'
<1>1. /\ activeLoop' \in BOOLEAN
      /\ UNCHANGED <<area, affinity, manual, pill, dashboard, anchor, aged>>
  BY DEF ModeChanges
<1>2. response \in Responses /\ pill \in Pills /\ Stands(response, pill, anchor) /\ anchor \in Int
  BY DEF PlacesIInv, PlacesTypes
<1>3. response.shown \in BOOLEAN /\ response.flag \in BOOLEAN /\ pill.visible \in BOOLEAN
  BY <1>2 DEF Responses, Pills
<1>4. CASE mode = "hidden"
  <2>1. response' = [HideResponse(response) EXCEPT !.flag = FALSE]
    BY <1>4 DEF ModeChanges
  <2>2. response' \in Responses /\ Stands(response', pill, anchor)
    BY <1>2, <2>1, HiddenResponseStands
  <2> QED
    BY <1>1, <1>2, <2>2, PillUntouched
<1>5. CASE mode = "active-loop"
  <2> DEFINE onScreen == response.shown \/ pill.visible
             up == TRUE
  <2>1. onScreen \in BOOLEAN /\ up \in BOOLEAN /\ (onScreen => up)
    BY <1>3
  <2>2. response' = [FallbackBounds(response, pill) EXCEPT !.flag = up, !.shown = onScreen]
    BY <1>5 DEF ModeChanges
  <2> HIDE DEF onScreen, up
  <2>3. response' \in Responses /\ Stands(response', pill, anchor)
    BY <1>2, <2>1, <2>2, FallbackStands
  <2> QED
    BY <1>1, <1>2, <2>3, PillUntouched
<1>6. CASE mode = "terminal"
  <2> DEFINE onScreen == response.shown \/ (response.flag /\ pill.visible)
  <2>1. onScreen \in BOOLEAN /\ (onScreen => response.flag)
    BY <1>2, <1>3 DEF Stands
  <2>2. response' = [response EXCEPT !.shown = onScreen]
    BY <1>6 DEF ModeChanges
  <2> HIDE DEF onScreen
  <2>3. response' \in Responses
    BY <1>2, <2>1, <2>2 DEF Responses
  <2>4. /\ response'.shown = onScreen /\ response'.flag = response.flag /\ response'.x = response.x
        /\ response'.y = response.y /\ response'.w = response.w /\ response'.h = response.h
    BY <1>2, <2>1, <2>2 DEF Responses
  <2>5. Stands(response', pill, anchor)
    BY <1>2, <2>1, <2>4 DEF Stands
  <2> QED
    BY <1>1, <1>2, <2>3, <2>5, PillUntouched
<1> QED
  BY <1>4, <1>5, <1>6

LEMMA MoveKeepsPlacesIInv ==
  ASSUME PlacesIInv, NEW x \in DragXs, NEW y \in DragYs, MovePill(x, y)
  PROVE  PlacesIInv'
<1> DEFINE m == Matching(x)
           target == DisplayAffinity(m)
           moved == [x |-> x, bottom |-> y + PillHeight, monitor |-> target.monitor]
           placed == Placed(pill, moved, target)
<1>1. x \in Int /\ y \in Int /\ y + PillHeight \in Int
  <2>1. DragXs \subseteq Int /\ DragYs \subseteq Int /\ PillHeight \in Int
    BY PlacesAssumption
  <2>2. x \in Int /\ y \in Int
    BY <2>1
  <2> QED
    BY <2>1, <2>2
<1>2. m \in Monitors
  BY <1>1, SomeMonitorMatches
<1> HIDE DEF m
<1>3. target \in Affinities /\ target.monitor = m /\ target.height = area[m] /\ target # NoAffinity
  BY <1>2, AffinityTypes DEF PlacesIInv
<1>4. moved \in Drags
  BY <1>1, <1>2, <1>3 DEF Drags
<1>5. /\ manual' = moved /\ aged' = FALSE /\ UNCHANGED <<area, dashboard, anchor, activeLoop>>
      /\ pill' = placed /\ response' = PositionResponse(response, pill', anchor)
      /\ affinity' = IF pill.visible THEN DisplayAffinity(Matching(pill'.x)) ELSE target
  BY DEF MovePill, PositionChat, Synced, m
<1>6. /\ pill \in Pills /\ response \in Responses /\ anchor \in Int
      /\ (response.shown => response.flag)
  BY DEF PlacesIInv, PlacesTypes, Stands
<1> HIDE DEF target, moved
<1>7. /\ placed \in Pills /\ placed.visible = pill.visible
      /\ InPlace(placed.x, placed.y, moved, target) /\ Matching(placed.x) = target.monitor
  BY <1>3, <1>4, <1>6, PlacedPill
<1> HIDE DEF placed
<1>8. affinity' = target
  BY <1>3, <1>5, <1>7 DEF target
<1>9. target = [monitor |-> m, height |-> area[m]]
  BY DEF target, DisplayAffinity
<1>10. response' \in Responses /\ Stands(response', pill', anchor')
  BY <1>5, <1>6, <1>7, PositionKeeps
<1>11. PlacesTypes'
  BY <1>3, <1>4, <1>5, <1>7, <1>8, <1>10 DEF PlacesIInv, PlacesTypes
<1>12. Seated(pill'.x, pill'.y, manual', affinity', aged')
  BY <1>5, <1>7, <1>8, InPlaceIsSeated
<1>13. PillStands' /\ AffinityIsFresh' /\ NeverSeen'
  BY <1>3, <1>5, <1>7, <1>8, <1>9, <1>12
     DEF PillStands, AffinityIsFresh, DescribesItsMonitor, NeverSeen, DisplayAffinity
<1>14. OneSurface'
  BY <1>5, <1>7 DEF PlacesIInv, OneSurface
<1> QED
  BY <1>10, <1>11, <1>13, <1>14 DEF PlacesIInv

LEMMA MoveMainKeepsPlacesIInv ==
  ASSUME PlacesIInv, NEW m \in Monitors, MoveMain(m)
  PROVE  PlacesIInv'
<1>1. /\ dashboard.visible /\ dashboard' = [dashboard EXCEPT !.monitor = m]
      /\ affinity' = DisplayAffinity(m) /\ aged' = FALSE
      /\ UNCHANGED <<area, manual, pill, anchor, response, activeLoop>>
  BY DEF MoveMain
<1>2. dashboard' \in [monitor : Monitors, visible : BOOLEAN] /\ dashboard'.visible = dashboard.visible
  BY <1>1 DEF PlacesIInv, PlacesTypes
<1>3. DisplayAffinity(m) \in Affinities /\ DisplayAffinity(m) # NoAffinity
      /\ DisplayAffinity(m).monitor = m
  BY AffinityTypes DEF PlacesIInv
<1>4. ~pill.visible
  BY <1>1 DEF PlacesIInv, OneSurface
<1>5. PlacesTypes' /\ Stands(response', pill', anchor')
  BY <1>1, <1>2, <1>3 DEF PlacesIInv, PlacesTypes
<1>6. PillStands' /\ AffinityIsFresh' /\ OneSurface' /\ NeverSeen'
  BY <1>1, <1>2, <1>3, <1>4
     DEF PillStands, AffinityIsFresh, DescribesItsMonitor, OneSurface, NeverSeen, DisplayAffinity
<1> QED
  BY <1>5, <1>6 DEF PlacesIInv

LEMMA CloseKeepsPlacesIInv ==
  ASSUME PlacesIInv, ClosePill PROVE PlacesIInv'
<1>1. /\ pill' = [pill EXCEPT !.visible = FALSE] /\ response' = HideResponse(response)
      /\ UNCHANGED <<area, affinity, manual, dashboard, anchor, activeLoop, aged>>
  BY DEF ClosePill
<1>2. /\ pill' \in Pills /\ ~pill'.visible /\ pill'.x = pill.x /\ pill'.y = pill.y
  BY <1>1 DEF PlacesIInv, PlacesTypes, Pills
<1>3. response' \in Responses /\ Stands(response', pill', anchor)
  BY <1>1, <1>2, HiddenResponseStands, StandsByPlaceOnly DEF PlacesIInv, PlacesTypes
<1>4. PlacesTypes'
  BY <1>1, <1>2, <1>3 DEF PlacesIInv, PlacesTypes
<1>5. PillStands' /\ AffinityIsFresh' /\ OneSurface'
  BY <1>1, <1>2 DEF PlacesIInv, PillStands, AffinityIsFresh, DescribesItsMonitor, OneSurface, DisplayAffinity
<1>6. NeverSeen'
  BY <1>1, <1>2 DEF PlacesIInv, NeverSeen, DefaultPlace, WorkArea, DisplayAffinity
<1> QED
  BY <1>1, <1>3, <1>4, <1>5, <1>6 DEF PlacesIInv

LEMMA HideMainKeepsPlacesIInv ==
  ASSUME PlacesIInv, HideMain PROVE PlacesIInv'
<1>1. /\ dashboard' = [dashboard EXCEPT !.visible = FALSE]
      /\ UNCHANGED <<area, affinity, manual, pill, anchor, response, activeLoop, aged>>
  BY DEF HideMain
<1>2. dashboard' \in [monitor : Monitors, visible : BOOLEAN] /\ ~dashboard'.visible
  BY <1>1 DEF PlacesIInv, PlacesTypes
<1>3. PlacesTypes' /\ Stands(response', pill', anchor')
  BY <1>1, <1>2 DEF PlacesIInv, PlacesTypes
<1>4. PillStands' /\ AffinityIsFresh' /\ OneSurface'
  BY <1>1, <1>2 DEF PlacesIInv, PillStands, AffinityIsFresh, DescribesItsMonitor, OneSurface, DisplayAffinity
<1>5. NeverSeen'
  BY <1>1, <1>2 DEF PlacesIInv, NeverSeen, DefaultPlace, WorkArea, DisplayAffinity
<1> QED
  BY <1>3, <1>4, <1>5 DEF PlacesIInv

(* The target of a request describes its monitor as it is now.             *)
LEMMA TargetsAreFresh ==
  ASSUME PlacesIInv, NEW visible \in BOOLEAN, NEW target \in Targets(visible)
  PROVE  /\ target \in Affinities \union {NoAffinity}
         /\ ~aged => DescribesItsMonitor(target)
         /\ target = NoAffinity /\ ~visible => affinity = NoAffinity
<1>1. PlacesTypes /\ pill \in Pills /\ dashboard.monitor \in Monitors
      /\ affinity \in Affinities \union {NoAffinity}
  BY DEF PlacesIInv, PlacesTypes
<1>2. Matching(pill.x) \in Monitors
  BY <1>1, SomeMonitorMatches DEF Pills
<1>3. /\ DisplayAffinity(dashboard.monitor) \in Affinities /\ DescribesItsMonitor(DisplayAffinity(dashboard.monitor))
      /\ DisplayAffinity(Matching(pill.x)) \in Affinities /\ DescribesItsMonitor(DisplayAffinity(Matching(pill.x)))
      /\ DisplayAffinity(dashboard.monitor) # NoAffinity /\ DisplayAffinity(Matching(pill.x)) # NoAffinity
  BY <1>1, <1>2, AffinityTypes
<1>4. ~aged => DescribesItsMonitor(affinity)
  BY DEF PlacesIInv, AffinityIsFresh
<1>5. \A sender \in {"main", "pill"} :
        ActiveSurface(sender) \in {DisplayAffinity(dashboard.monitor), DisplayAffinity(Matching(pill.x)), affinity}
  BY <1>1 DEF ActiveSurface, PlacesTypes, Pills
<1>6. \/ target \in {DisplayAffinity(dashboard.monitor), DisplayAffinity(Matching(pill.x)), affinity}
      \/ target = NoAffinity /\ visible
  BY <1>5 DEF Targets
<1>7. DescribesItsMonitor(NoAffinity)
  BY DEF DescribesItsMonitor
<1> QED
  BY <1>1, <1>3, <1>4, <1>6, <1>7

LEMMA ShowMainKeepsPlacesIInv ==
  ASSUME PlacesIInv, ShowMain PROVE PlacesIInv'
<1>1. dashboard \in [monitor : Monitors, visible : BOOLEAN] /\ dashboard.visible \in BOOLEAN
  BY DEF PlacesIInv, PlacesTypes
<1> PICK target \in Targets(dashboard.visible) :
      LET monitor == IF target = NoAffinity THEN dashboard.monitor ELSE target.monitor
      IN  /\ dashboard' = [monitor |-> monitor, visible |-> TRUE]
          /\ affinity' = DisplayAffinity(monitor)
          /\ pill' = [pill EXCEPT !.visible = FALSE]
          /\ response' = HideResponse(response)
          /\ aged' = FALSE
          /\ UNCHANGED <<area, manual, anchor, activeLoop>>
  BY DEF ShowMain
<1>2. target \in Affinities \union {NoAffinity}
  BY <1>1, TargetsAreFresh
<1> PICK monitor : monitor = IF target = NoAffinity THEN dashboard.monitor ELSE target.monitor
  OBVIOUS
<1>3. monitor \in Monitors
  BY <1>1, <1>2 DEF Affinities
<1>4. /\ dashboard' = [monitor |-> monitor, visible |-> TRUE]
      /\ affinity' = DisplayAffinity(monitor)
      /\ pill' = [pill EXCEPT !.visible = FALSE]
      /\ response' = HideResponse(response)
      /\ aged' = FALSE
      /\ UNCHANGED <<area, manual, anchor, activeLoop>>
  OBVIOUS
<1>5. /\ pill' \in Pills /\ ~pill'.visible /\ pill'.x = pill.x /\ pill'.y = pill.y
  BY <1>4 DEF PlacesIInv, PlacesTypes, Pills
<1>6. DisplayAffinity(monitor) \in Affinities /\ DisplayAffinity(monitor) # NoAffinity
      /\ DisplayAffinity(monitor).monitor = monitor
  BY <1>3, AffinityTypes DEF PlacesIInv
<1>7. response' \in Responses /\ Stands(response', pill', anchor)
  <2>1. response \in Responses /\ Stands(response, pill, anchor)
    BY DEF PlacesIInv, PlacesTypes
  <2>2. response' \in Responses /\ Stands(response', pill, anchor)
    BY <1>4, <2>1, HiddenResponseStands
  <2> QED
    BY <1>5, <2>2, StandsByPlaceOnly
<1>8. PlacesTypes'
  <2>1. aged' \in BOOLEAN /\ activeLoop' \in BOOLEAN
    BY <1>4 DEF PlacesIInv, PlacesTypes
  <2>2. dashboard' \in [monitor : Monitors, visible : BOOLEAN]
    BY <1>3, <1>4
  <2>3. /\ area' \in [Monitors -> AreaHeights] /\ manual' \in Drags \union {NoManual}
        /\ anchor' \in Int /\ affinity' \in Affinities
    BY <1>4, <1>6 DEF PlacesIInv, PlacesTypes
  <2> QED
    BY <1>5, <1>7, <2>1, <2>2, <2>3 DEF PlacesTypes
<1>9. PillStands' /\ AffinityIsFresh' /\ OneSurface' /\ NeverSeen'
  BY <1>4, <1>5, <1>6
     DEF PillStands, AffinityIsFresh, DescribesItsMonitor, OneSurface, NeverSeen, DisplayAffinity
<1> QED
  BY <1>4, <1>7, <1>8, <1>9 DEF PlacesIInv

LEMMA OpenKeepsPlacesIInv ==
  ASSUME PlacesIInv, NEW focus \in BOOLEAN, NEW restore \in BOOLEAN, OpenPill(focus, restore)
  PROVE  PlacesIInv'
<1>1. /\ PlacesTypes /\ pill \in Pills /\ response \in Responses /\ anchor \in Int
      /\ manual \in Drags \union {NoManual} /\ Stands(response, pill, anchor)
      /\ affinity \in Affinities \union {NoAffinity} /\ activeLoop \in BOOLEAN
  BY DEF PlacesIInv, PlacesTypes
<1>2. pill.visible \in BOOLEAN /\ pill.x \in Int /\ response.shown \in BOOLEAN /\ response.flag \in BOOLEAN
      /\ (response.shown => response.flag)
  BY <1>1 DEF Pills, Responses, Stands
<1>3. PICK target \in Targets(pill.visible) :
        LET choice  == IF target = NoAffinity THEN affinity ELSE target
            opened  == [(IF target = NoAffinity THEN pill ELSE Placed(pill, manual, choice))
                          EXCEPT !.visible = TRUE]
            moved   == IF target = NoAffinity THEN response
                       ELSE PositionResponse(response, opened, anchor)
            primed  == IF activeLoop THEN FallbackBounds([moved EXCEPT !.flag = TRUE], opened)
                       ELSE moved
            returns == (focus \/ restore) /\ (moved.flag \/ activeLoop)
        IN  /\ pill' = opened
            /\ dashboard' = [dashboard EXCEPT !.visible = FALSE]
            /\ affinity' = DisplayAffinity(Matching(opened.x))
            /\ response' = IF returns THEN [primed EXCEPT !.shown = TRUE] ELSE moved
            /\ aged' = (aged /\ ~AsItIs(target))
            /\ UNCHANGED <<area, manual, anchor, activeLoop>>
  BY DEF OpenPill
<1>4. /\ target \in Affinities \union {NoAffinity} /\ (~aged => DescribesItsMonitor(target))
      /\ (target = NoAffinity /\ ~pill.visible => affinity = NoAffinity)
  BY <1>2, TargetsAreFresh
<1> PICK stood : stood = IF target = NoAffinity THEN pill ELSE Placed(pill, manual, target)
  OBVIOUS
<1>5. stood \in Pills
  <2>1. CASE target = NoAffinity
    BY <2>1, <1>1
  <2>2. CASE target # NoAffinity
    BY <2>2, <1>1, <1>4, PlacedPill
  <2> QED
    BY <2>1, <2>2
<1> PICK opened : opened = [stood EXCEPT !.visible = TRUE]
  OBVIOUS
<1>6. opened \in Pills /\ opened.visible /\ opened.x = stood.x /\ opened.y = stood.y /\ stood.x \in Int
  BY <1>5 DEF Pills
<1> PICK moved : moved = IF target = NoAffinity THEN response
                         ELSE PositionResponse(response, opened, anchor)
  OBVIOUS
<1>7. /\ moved \in Responses /\ Stands(moved, opened, anchor)
      /\ moved.flag = response.flag /\ moved.shown = response.shown
  <2>1. CASE target = NoAffinity
    BY <2>1, <1>1, <1>6, StandsByPlaceOnly
  <2>2. CASE target # NoAffinity
    BY <2>2, <1>1, <1>2, <1>6, PositionKeeps
  <2> QED
    BY <2>1, <2>2
<1>8. /\ pill' = opened
      /\ dashboard' = [dashboard EXCEPT !.visible = FALSE]
      /\ affinity' = DisplayAffinity(Matching(opened.x))
      /\ aged' = (aged /\ ~AsItIs(target))
      /\ UNCHANGED <<area, manual, anchor, activeLoop>>
  BY <1>3, Zenon
<1>9. response' \in Responses /\ Stands(response', opened, anchor)
  <2> DEFINE primed == IF activeLoop THEN FallbackBounds([moved EXCEPT !.flag = TRUE], opened)
                       ELSE moved
             returns == (focus \/ restore) /\ (moved.flag \/ activeLoop)
  <2>1. response' = IF returns THEN [primed EXCEPT !.shown = TRUE] ELSE moved
    BY <1>3
  <2>2. CASE ~returns
    BY <2>1, <2>2, <1>7
  <2>3. CASE returns /\ ~activeLoop
    <3>1. response' = [moved EXCEPT !.shown = TRUE] /\ moved.flag
      BY <2>1, <2>3
    <3>2. response' \in Responses
      BY <3>1, <1>7 DEF Responses
    <3>3. /\ response'.flag = moved.flag /\ response'.x = moved.x
          /\ response'.y = moved.y /\ response'.w = moved.w /\ response'.h = moved.h
      BY <3>1, <1>7 DEF Responses
    <3> QED
      BY <3>1, <3>2, <3>3, <1>7 DEF Stands
  <2>4. CASE returns /\ activeLoop
    <3> DEFINE up == TRUE
               raised == [moved EXCEPT !.flag = TRUE]
    <3>1. response' = [FallbackBounds(raised, opened) EXCEPT !.shown = TRUE]
      BY <2>1, <2>4
    <3>2. raised \in Responses /\ raised.flag = TRUE
      BY <1>7 DEF Responses
    <3> HIDE DEF raised
    <3>3. FallbackBounds(raised, opened).flag = TRUE /\ FallbackBounds(raised, opened) = [FallbackBounds(raised, opened) EXCEPT !.flag = TRUE]
      BY <3>2 DEF FallbackBounds, At, Responses
    <3>4. response' = [FallbackBounds(raised, opened) EXCEPT !.flag = up, !.shown = up]
      BY <3>1, <3>3
    <3>5. up \in BOOLEAN /\ (up => up)
      OBVIOUS
    <3> HIDE DEF up
    <3> QED
      BY <3>2, <3>4, <3>5, <1>1, <1>6, FallbackStands
  <2> QED
    BY <2>2, <2>3, <2>4
<1>10. Matching(opened.x) \in Monitors
  BY <1>6, SomeMonitorMatches
<1>11. /\ affinity' \in Affinities /\ affinity' # NoAffinity /\ affinity'.monitor = Matching(opened.x)
       /\ affinity'.height = area[Matching(opened.x)]
  BY <1>1, <1>8, <1>10, AffinityTypes
<1>12. dashboard' \in [monitor : Monitors, visible : BOOLEAN] /\ ~dashboard'.visible
  BY <1>8 DEF PlacesIInv, PlacesTypes
<1>13. PlacesTypes'
  BY <1>6, <1>8, <1>9, <1>11, <1>12 DEF PlacesIInv, PlacesTypes
<1>14. Seated(opened.x, opened.y, manual, affinity', aged')
  <2>1. CASE target # NoAffinity
    <3>1. target \in Affinities
      BY <2>1, <1>4
    <3>2. /\ InPlace(stood.x, stood.y, manual, target) /\ Matching(stood.x) = target.monitor
      BY <2>1, <3>1, <1>1, PlacedPill
    <3>3. Seated(opened.x, opened.y, manual, target, aged')
      BY <3>2, <1>6, InPlaceIsSeated
    <3>4. affinity'.monitor = target.monitor
      BY <3>2, <1>6, <1>11
    <3>5. aged' \/ target = DisplayAffinity(target.monitor)
      BY <2>1, <1>1, <1>4, <1>8, AsItIsDescribes DEF DescribesItsMonitor
    <3>6. aged' \/ affinity'.height = target.height
      BY <3>2, <3>5, <1>6, <1>8
    <3> QED
      BY <2>1, <3>3, <3>4, <3>6, <1>11, SeatedByTheMonitor
  <2>2. CASE target = NoAffinity /\ pill.visible
    <3>1. /\ affinity # NoAffinity /\ affinity.monitor = Matching(pill.x)
          /\ Seated(pill.x, pill.y, manual, affinity, aged)
      BY <2>2 DEF PlacesIInv, PillStands
    <3>2. stood = pill /\ opened.x = pill.x /\ opened.y = pill.y
      BY <2>2, <1>6
    <3>3. affinity'.monitor = affinity.monitor
      BY <3>1, <3>2, <1>11
    <3>4. aged' = aged
      <4>1. ~AsItIs(target)
        BY <2>2, <1>1, AsItIsDescribes
      <4> QED
        BY <4>1, <1>8 DEF PlacesIInv, PlacesTypes
    <3>5. aged \/ affinity = DisplayAffinity(affinity.monitor)
      BY <3>1 DEF PlacesIInv, AffinityIsFresh, DescribesItsMonitor
    <3>6. aged \/ affinity'.height = affinity.height
      BY <3>1, <3>2, <3>5, <1>8
    <3>7. Seated(pill.x, pill.y, manual, affinity', aged)
      BY <3>1, <3>3, <3>6, <1>11, SeatedByTheMonitor
    <3> QED
      BY <3>2, <3>4, <3>7
  <2>3. CASE target = NoAffinity /\ ~pill.visible
    <3>1. affinity = NoAffinity /\ manual = NoManual
          /\ stood.x = DefaultPlace(NoAffinity).x /\ stood.y = DefaultPlace(NoAffinity).y
      BY <2>3, <1>4 DEF PlacesIInv, NeverSeen
    <3> DEFINE first == DisplayAffinity(0)
    <3>2. first \in Affinities /\ first.monitor = 0 /\ first # NoAffinity
      BY <1>1, AffinityTypes, PlacesAssumption
    <3>3. PillPlace(NoManual, first) = DefaultPlace(NoAffinity)
      BY <3>2 DEF PillPlace, DraggedHere, DefaultPlace, WorkArea
    <3>4. /\ InPlace(stood.x, stood.y, NoManual, first) /\ Matching(stood.x) = 0
      BY <3>1, <3>2, <3>3, PillPlaceIsInPlace
    <3>5. affinity' = first
      BY <3>4, <1>6, <1>8
    <3> QED
      BY <3>1, <3>4, <3>5, <1>6, InPlaceIsSeated
  <2> QED
    BY <2>1, <2>2, <2>3
<1>15. PillStands'
  BY <1>8, <1>11, <1>14 DEF PillStands
<1>16. AffinityIsFresh' /\ OneSurface' /\ NeverSeen'
  BY <1>8, <1>11, <1>12 DEF AffinityIsFresh, DescribesItsMonitor, OneSurface, NeverSeen, DisplayAffinity
<1>17. aged' \in BOOLEAN
  BY <1>8 DEF PlacesIInv, PlacesTypes
<1> QED
  BY <1>8, <1>9, <1>13, <1>15, <1>16, <1>17 DEF PlacesIInv

LEMMA QueryKeepsPlacesIInv ==
  ASSUME PlacesIInv, NEW sender \in {"main", "pill"}, QuerySends(sender)
  PROVE  PlacesIInv'
<1>1. /\ affinity' = ActiveSurface(sender)
      /\ aged' = (aged /\ (pill.visible \/ ~AsItIs(affinity')))
      /\ UNCHANGED <<area, manual, pill, dashboard, anchor, response, activeLoop>>
  BY DEF QuerySends
<1>2. /\ PlacesTypes /\ pill \in Pills /\ dashboard \in [monitor : Monitors, visible : BOOLEAN]
      /\ pill.visible \in BOOLEAN /\ pill.x \in Int /\ aged \in BOOLEAN
      /\ affinity \in Affinities \union {NoAffinity} /\ Stands(response', pill', anchor')
  BY <1>1 DEF PlacesIInv, PlacesTypes, Pills
<1>3. Matching(pill.x) \in Monitors /\ dashboard.monitor \in Monitors
  BY <1>2, SomeMonitorMatches
<1>4. CASE pill.visible
  <2>1. affinity' = DisplayAffinity(Matching(pill.x)) /\ ~dashboard.visible /\ aged' = aged
    BY <1>1, <1>2, <1>4 DEF PlacesIInv, OneSurface, ActiveSurface
  <2>2. /\ affinity' \in Affinities /\ affinity' # NoAffinity
        /\ affinity'.monitor = Matching(pill.x) /\ affinity'.height = area[Matching(pill.x)]
    BY <2>1, <1>2, <1>3, AffinityTypes
  <2>3. /\ affinity # NoAffinity /\ affinity.monitor = Matching(pill.x)
        /\ Seated(pill.x, pill.y, manual, affinity, aged)
    BY <1>4 DEF PlacesIInv, PillStands
  <2>4. aged \/ affinity' = affinity
    BY <2>1, <2>3 DEF PlacesIInv, AffinityIsFresh, DescribesItsMonitor
  <2>5. Seated(pill.x, pill.y, manual, affinity', aged)
    BY <2>2, <2>3, <2>4, SeatedByTheMonitor
  <2>6. PlacesTypes' /\ PillStands'
    BY <1>1, <1>2, <2>1, <2>2, <2>5 DEF PlacesTypes, PillStands
  <2>7. AffinityIsFresh' /\ NeverSeen' /\ OneSurface'
    BY <1>1, <2>1, <2>2 DEF AffinityIsFresh, DescribesItsMonitor, NeverSeen, OneSurface, DisplayAffinity
  <2> QED
    BY <1>2, <2>6, <2>7 DEF PlacesIInv
<1>5. CASE ~pill.visible /\ dashboard.visible
  <2>1. affinity' = DisplayAffinity(dashboard.monitor)
    BY <1>1, <1>5 DEF ActiveSurface
  <2>2. /\ affinity' \in Affinities /\ affinity' # NoAffinity
        /\ affinity'.monitor = dashboard.monitor /\ affinity'.height = area[dashboard.monitor]
    BY <2>1, <1>2, <1>3, AffinityTypes
  <2>3. PlacesTypes' /\ PillStands'
    BY <1>1, <1>2, <1>5, <2>2 DEF PlacesTypes, PillStands
  <2>4. AffinityIsFresh' /\ NeverSeen' /\ OneSurface'
    BY <1>1, <1>5, <2>1, <2>2 DEF AffinityIsFresh, DescribesItsMonitor, NeverSeen, OneSurface, DisplayAffinity
  <2> QED
    BY <1>2, <2>3, <2>4 DEF PlacesIInv
<1>6. CASE ~pill.visible /\ ~dashboard.visible
  <2>1. affinity' = affinity
    BY <1>1, <1>6 DEF ActiveSurface
  <2>2. aged' \in BOOLEAN /\ (affinity = NoAffinity => ~aged')
    BY <1>1, <1>2 DEF PlacesIInv, NeverSeen
  <2>3. AffinityIsFresh'
    <3>1. ~aged' => DescribesItsMonitor(affinity)
      BY <1>1, <1>2, <1>6, <2>1, AsItIsDescribes DEF PlacesIInv, AffinityIsFresh, DescribesItsMonitor
    <3> QED
      BY <1>1, <2>1, <3>1 DEF AffinityIsFresh, DescribesItsMonitor, DisplayAffinity
  <2>4. PlacesTypes' /\ PillStands' /\ OneSurface'
    BY <1>1, <1>2, <1>6, <2>1, <2>2 DEF PlacesTypes, PillStands, OneSurface
  <2>5. NeverSeen'
    BY <1>1, <1>6, <2>1, <2>2
       DEF PlacesIInv, NeverSeen, DefaultPlace, WorkArea, DisplayAffinity
  <2> QED
    BY <1>2, <2>3, <2>4, <2>5 DEF PlacesIInv
<1> QED
  BY <1>2, <1>4, <1>5, <1>6

LEMMA MetricsKeepPlacesIInv ==
  ASSUME PlacesIInv, NEW m \in Monitors, NEW height \in AreaHeights, MetricsChanged(m, height)
  PROVE  PlacesIInv'
<1>1. /\ PlacesTypes /\ pill \in Pills /\ response \in Responses /\ anchor \in Int
      /\ manual \in Drags \union {NoManual} /\ Stands(response, pill, anchor)
      /\ affinity \in Affinities \union {NoAffinity} /\ area \in [Monitors -> AreaHeights]
      /\ dashboard \in [monitor : Monitors, visible : BOOLEAN]
  BY DEF PlacesIInv, PlacesTypes
<1>2. /\ pill.visible \in BOOLEAN /\ pill.x \in Int /\ dashboard.visible \in BOOLEAN
      /\ dashboard.monitor \in Monitors /\ (response.shown => response.flag)
  BY <1>1 DEF Pills, Stands
<1>3. /\ area' = [area EXCEPT ![m] = height] /\ area' \in [Monitors -> AreaHeights]
      /\ aged' = (aged \/ (affinity # NoAffinity /\ m = affinity.monitor))
      /\ UNCHANGED <<manual, dashboard, anchor, activeLoop>>
  BY <1>1 DEF MetricsChanged
<1> DEFINE fresh(n) == [monitor |-> n, height |-> area'[n]]
           a == IF affinity = NoAffinity THEN fresh(0) ELSE affinity
<1>4. /\ PositionChat(manual, a)
      /\ affinity' = IF pill.visible /\ pill' # pill THEN fresh(Matching(pill'.x)) ELSE affinity
  BY DEF MetricsChanged
<1>5. a \in Affinities /\ (affinity # NoAffinity => a = affinity)
  <2>1. fresh(0) \in Affinities
    BY <1>3, PlacesAssumption DEF Affinities
  <2> QED
    BY <2>1, <1>1
<1>6. affinity = NoAffinity => a = fresh(0)
  OBVIOUS
<1> HIDE DEF a
<1>7. pill' = Placed(pill, manual, a) /\ response' = PositionResponse(response, pill', anchor)
  BY <1>4 DEF PositionChat
<1>8. /\ pill' \in Pills /\ pill'.visible = pill.visible
      /\ InPlace(pill'.x, pill'.y, manual, a) /\ Matching(pill'.x) = a.monitor
  BY <1>1, <1>5, <1>7, PlacedPill
<1>9. response' \in Responses /\ Stands(response', pill', anchor')
  BY <1>1, <1>2, <1>3, <1>7, <1>8, PositionKeeps
<1>10. /\ a.monitor \in Monitors /\ fresh(a.monitor) \in Affinities
       /\ fresh(a.monitor) # NoAffinity /\ fresh(a.monitor).monitor = a.monitor
  <2>1. a.monitor \in Monitors
    BY <1>5 DEF Affinities
  <2>2. fresh(a.monitor) \in Affinities
    BY <2>1, <1>3 DEF Affinities
  <2> QED
    BY <2>1, <2>2, PlacesAssumption
<1>11. \/ affinity' = affinity
       \/ affinity' = fresh(a.monitor) /\ pill.visible
  BY <1>4, <1>8
<1>12. PlacesTypes'
  <2>1. affinity' \in Affinities \union {NoAffinity}
    BY <1>1, <1>10, <1>11
  <2>2. aged' \in BOOLEAN
    BY <1>1, <1>3 DEF PlacesTypes
  <2> QED
    BY <1>1, <1>3, <1>8, <1>9, <2>1, <2>2 DEF PlacesTypes
(* An affinity that is not old describes its monitor before and after.     *)
<1>13. ASSUME affinity # NoAffinity, ~aged' PROVE affinity = fresh(affinity.monitor)
  <2>1. ~aged /\ m # affinity.monitor
    BY <1>1, <1>3, <1>13 DEF PlacesTypes
  <2>2. affinity = DisplayAffinity(affinity.monitor)
    BY <2>1, <1>13 DEF PlacesIInv, AffinityIsFresh, DescribesItsMonitor
  <2>3. affinity.monitor \in Monitors
    BY <1>1, <1>13 DEF Affinities
  <2>4. area'[affinity.monitor] = area[affinity.monitor]
    BY <2>1, <2>3, <1>1, <1>3
  <2> QED
    BY <2>2, <2>4 DEF DisplayAffinity
<1>14. PillStands'
  <2> SUFFICES ASSUME pill.visible
               PROVE  /\ affinity' # NoAffinity /\ affinity'.monitor = Matching(pill'.x)
                      /\ Seated(pill'.x, pill'.y, manual, affinity', aged')
    BY <1>3, <1>8 DEF PillStands
  <2>1. affinity # NoAffinity /\ a = affinity
    BY <1>5 DEF PlacesIInv, PillStands
  <2>2. affinity' # NoAffinity /\ affinity'.monitor = a.monitor
    BY <2>1, <1>10, <1>11
  <2>3. aged' \/ affinity' = a
    BY <2>1, <1>11, <1>13
  <2>4. Seated(pill'.x, pill'.y, manual, a, aged')
    BY <1>8, InPlaceIsSeated
  <2>5. Seated(pill'.x, pill'.y, manual, affinity', aged')
    BY <2>1, <2>2, <2>3, <2>4, SeatedByTheMonitor
  <2> QED
    BY <2>2, <2>5, <1>8
<1>15. AffinityIsFresh'
  <2> SUFFICES ASSUME ~aged', affinity' # NoAffinity
               PROVE  affinity' = fresh(affinity'.monitor)
    BY DEF AffinityIsFresh, DescribesItsMonitor, DisplayAffinity
  <2>1. CASE affinity' = affinity
    BY <2>1, <1>13
  <2>2. CASE affinity' = fresh(a.monitor)
    BY <2>2, <1>10
  <2> QED
    BY <2>1, <2>2, <1>11
<1>16. NeverSeen'
  <2> SUFFICES ASSUME affinity' = NoAffinity
               PROVE  /\ ~pill'.visible /\ ~dashboard.visible /\ manual = NoManual /\ ~aged'
                      /\ pill'.x = DefaultPlace(NoAffinity)'.x /\ pill'.y = DefaultPlace(NoAffinity)'.y
    BY <1>3 DEF NeverSeen
  <2>1. affinity = NoAffinity
    BY <1>10, <1>11
  <2>2. ~pill.visible /\ ~dashboard.visible /\ manual = NoManual /\ ~aged
    BY <2>1 DEF PlacesIInv, NeverSeen
  <2>3. a = fresh(0) /\ a # NoAffinity
    BY <2>1, <1>5, <1>6, PlacesAssumption
  <2>4. PillPlace(NoManual, a) = DefaultPlace(a)
    BY DEF PillPlace, DraggedHere
  <2>5. DefaultPlace(a) = DefaultPlace(NoAffinity)'
    BY <2>3 DEF DefaultPlace, WorkArea, DisplayAffinity
  <2>6. pill'.x = PillPlace(NoManual, a).x /\ pill'.y = PillPlace(NoManual, a).y
    BY <1>1, <1>7, <2>2 DEF Placed, Pills
  <2> QED
    BY <1>3, <1>8, <2>1, <2>2, <2>4, <2>5, <2>6
<1>17. OneSurface'
  BY <1>3, <1>8 DEF PlacesIInv, OneSurface
<1> QED
  BY <1>9, <1>12, <1>14, <1>15, <1>16, <1>17 DEF PlacesIInv

LEMMA PlacesStepsKeepTheInvariant ==
  PlacesIInv /\ [PlacesNext]_placesVars => PlacesIInv'
<1> SUFFICES ASSUME PlacesIInv, [PlacesNext]_placesVars PROVE PlacesIInv'
  OBVIOUS
<1>1. CASE \E x \in DragXs, y \in DragYs : MovePill(x, y)
  BY <1>1, MoveKeepsPlacesIInv
<1>2. CASE \E m \in Monitors : MoveMain(m)
  BY <1>2, MoveMainKeepsPlacesIInv
<1>3. CASE \E focus, restore \in BOOLEAN : OpenPill(focus, restore)
  BY <1>3, OpenKeepsPlacesIInv
<1>4. CASE ClosePill \/ ShowMain \/ HideMain
  BY <1>4, CloseKeepsPlacesIInv, ShowMainKeepsPlacesIInv, HideMainKeepsPlacesIInv
<1>5. CASE \E height \in Anchors : SetAnchor(height)
  BY <1>5, AnchorKeepsPlacesIInv
<1>6. CASE \E w \in FrameWidths, h \in FrameHeights : SetResponseSize(w, h)
  BY <1>6, SizeKeepsPlacesIInv
<1>7. CASE SetResponseHidden
  BY <1>7, SizeHiddenKeepsPlacesIInv
<1>8. CASE \E mode \in {"hidden", "active-loop", "terminal"} : ModeChanges(mode)
  BY <1>8, ModeKeepsPlacesIInv
<1>9. CASE \E m \in Monitors, height \in AreaHeights : MetricsChanged(m, height)
  BY <1>9, MetricsKeepPlacesIInv
<1>10. CASE \E sender \in {"main", "pill"} : QuerySends(sender)
  BY <1>10, QueryKeepsPlacesIInv
<1>11. CASE UNCHANGED placesVars
  BY <1>11, PillUntouched DEF placesVars, PlacesIInv, PlacesTypes
<1> QED
  BY <1>1, <1>2, <1>3, <1>4, <1>5, <1>6, <1>7, <1>8, <1>9, <1>10, <1>11 DEF PlacesNext

LEMMA OverlaysFromTheInvariant == PlacesIInv => OverlaysInPlace
<1> SUFFICES ASSUME PlacesIInv PROVE OverlaysInPlace
  OBVIOUS
<1>1. response \in Responses /\ pill \in Pills /\ Stands(response, pill, anchor) /\ anchor \in Int
      /\ affinity \in Affinities \union {NoAffinity}
  BY DEF PlacesIInv, PlacesTypes
<1>2. ResponseOnThePill
  <2> SUFFICES ASSUME response.shown
               PROVE  response = At(response, ResponsePlace(pill, anchor, response.w, response.h))
    BY DEF ResponseOnThePill
  <2> DEFINE place == ResponsePlace(pill, anchor, response.w, response.h)
  <2>1. place.w = response.w /\ place.h = response.h
    BY <1>1, ResponsePlaceIsTyped DEF Responses
  <2>2. place.x = response.x /\ place.y = response.y
    BY <1>1 DEF Stands
  <2> HIDE DEF place
  <2>3. response = [response EXCEPT !.x = place.x, !.y = place.y, !.w = place.w, !.h = place.h]
    BY <1>1, <2>1, <2>2 DEF Responses
  <2> QED
    BY <2>3 DEF At, place
<1>3. PillWhereTheUserWorks
  <2> SUFFICES ASSUME pill.visible
               PROVE  /\ affinity # NoAffinity /\ affinity.monitor = Matching(pill.x)
                      /\ pill.x = Clamped(pill.x, affinity.monitor)
                      /\ DraggedHere(manual, affinity) => pill.y + PillHeight = manual.bottom
                      /\ ~DraggedHere(manual, affinity) /\ ~aged =>
                           pill.y + PillHeight = area[affinity.monitor] - Margin
    BY DEF PillWhereTheUserWorks
  <2>1. /\ affinity # NoAffinity /\ affinity.monitor = Matching(pill.x)
        /\ Seated(pill.x, pill.y, manual, affinity, aged)
    BY DEF PlacesIInv, PillStands
  <2>2. pill.x \in Int /\ affinity.monitor \in Monitors
    BY <1>1, <2>1 DEF Pills, Affinities
  <2>3. ~aged => affinity.height = area[affinity.monitor]
    BY <2>1, <2>2, AffinityTypes DEF PlacesIInv, AffinityIsFresh, DescribesItsMonitor
  <2>4. pill.x = Clamped(pill.x, affinity.monitor)
    BY <2>1, <2>2, ClampedFits DEF Seated
  <2> QED
    BY <2>1, <2>3, <2>4 DEF Seated
<1> QED
  BY <1>2, <1>3 DEF OverlaysInPlace

(* A response that is shown stands on the pill, and a visible pill is on   *)
(* the monitor the user works on, where it was dragged there or at the     *)
(* bottom of its work area, as that is now unless it changed under the     *)
(* affinity main goes by (display_affinity_runtime,                        *)
(* overlay_window_helpers_runtime).                                        *)
THEOREM OverlaysInPlaceHolds == PlacesSpec => []OverlaysInPlace
<1>1. PlacesInit => PlacesIInv
  BY PlacesIInvAtStart
<1>2. PlacesIInv /\ [PlacesNext]_placesVars => PlacesIInv'
  BY PlacesStepsKeepTheInvariant
<1>3. PlacesIInv => OverlaysInPlace
  BY OverlaysFromTheInvariant
<1> QED
  BY <1>1, <1>2, <1>3, PTL DEF PlacesSpec

-----------------------------------------------------------------------------
(* The folder of a chat.                                                   *)

ChoiceStages == {"none", "load", "store", "announce", "select"}
SendStages == {"none", "fetch", "ensure", "query"}
NewsItems == [folder : MaybeFolder, picked : BOOLEAN]
MaybeChat == Chats \union {NoChat}
ChoiceRecords == [at : ChoiceStages, chat : MaybeChat, folder : MaybeFolder]
SendRecords == [at : SendStages, chat : MaybeChat, folder : MaybeFolder]

BindingTypes ==
  /\ stored \in MaybeFolder
  /\ choices \in [Dialogs -> ChoiceRecords]
  /\ \A o \in Dialogs : choices[o].at \in {"load", "select"} => choices[o].chat \in Chats
  /\ news \in Seq(NewsItems)
  /\ display \in [folder : MaybeFolder, asked : BOOLEAN, valid : BOOLEAN]
  /\ current \in [Surfaces -> MaybeChat]
  /\ heard \in [Surfaces -> Chats \union {NotHeard}]
  /\ bound \in [Surfaces -> [Chats -> MaybeFolder]]
  /\ known \in [Surfaces -> SUBSET Chats]
  /\ sends \in [Surfaces -> SendRecords]
  /\ \A w \in Surfaces : sends[w].at # "none" => sends[w].chat \in Chats
  /\ rows \in [Chats -> SUBSET MaybeFolder]
  /\ queries \in [Chats -> SUBSET MaybeFolder]
  /\ hurried \in BOOLEAN

(* A chat all of whose rows record folders.                                *)
Homed(c) == rows[c] # {} /\ NoFolder \notin rows[c]

Choosing == \E o \in Dialogs : choices[o].at # "none"
Sending == \E w \in Surfaces : sends[w].at # "none"
Hearing == \E w \in Surfaces : heard[w] # NotHeard

(* While nobody hurries one act is under way: a choice, the message it     *)
(* sends the dashboard, a send, or a window that has not heard.            *)
OneChoice ==
  /\ \A o, p \in Dialogs : choices[o].at # "none" /\ choices[p].at # "none" => o = p
  /\ Choosing => ~Sending /\ ~Hearing
  /\ \A o \in Dialogs : choices[o].at \in {"load", "store", "announce"} => news = <<>>
OneSend ==
  \A w, v \in Surfaces : sends[w].at # "none" /\ sends[v].at # "none" => w = v
OneMessage ==
  news # <<>> =>
    /\ news = <<Head(news)>> /\ Head(news).folder \in {stored, NoFolder}
    /\ Head(news).picked => /\ Head(news).folder = stored /\ stored # NoFolder
                            /\ ~Choosing
    /\ ~Sending /\ ~Hearing
OneChat ==
  /\ \A w \in Surfaces : heard[w] # NotHeard => /\ heard[w] = current[Other(w)]
                                                /\ heard[Other(w)] = NotHeard
  /\ ~Hearing => current[Dashboard] = current[Pill]

(* A choice carries, then has stored, the folder it is about.              *)
ChoicesAreTrue ==
  \A o \in Dialogs :
    LET c == choices[o].chat IN
    /\ choices[o].at # "none" /\ c # NoChat => rows[c] # {}
    /\ choices[o].at = "store" => IF c = NoChat THEN choices[o].folder # NoFolder
                                  ELSE choices[o].folder = Recorded(c)
    /\ choices[o].at \in {"announce", "select"} => IF c = NoChat THEN stored # NoFolder
                                                   ELSE stored = Recorded(c)

(* What the dashboard shows, when no message about it is on the way.       *)
DisplayIsTrue ==
  (\A o \in Dialogs : choices[o].at # "announce") /\ news = <<>> =>
    display.folder \in {stored, NoFolder}

(* The windows hold the folder of a chat that has rows, or none; of a chat *)
(* without rows only the dashboard does, and a window knows such a chat.   *)
ChatsAreBound ==
  \A c \in Chats :
    /\ Homed(c) => /\ rows[c] = {Recorded(c)} /\ queries[c] \subseteq {Recorded(c)}
                   /\ \A w \in Surfaces : bound[w][c] \in {Recorded(c), NoFolder}
    /\ rows[c] = {} =>
         /\ queries[c] = {}
         /\ \/ bound[Pill][c] = NoFolder
            \/ sends[Pill].at \in {"ensure", "query"} /\ sends[Pill].chat = c
         /\ (\E w \in Surfaces : bound[w][c] # NoFolder \/ current[w] = c) =>
              c \in known[Dashboard] \union known[Pill]

(* Outside a choice the chat of the windows is one of the stored folder.   *)
Settled == /\ \A o \in Dialogs : choices[o].at \notin {"announce", "select"}
           /\ news # <<>> => ~Head(news).picked
CurrentIsStored ==
  Settled => \A w \in Surfaces : heard[w] = NotHeard /\ current[w] # NoChat =>
    /\ Homed(current[w]) => stored = Recorded(current[w])
    /\ rows[current[w]] = {} => bound[Dashboard][current[w]] \in {NoFolder, stored}

(* What a send carries.                                                    *)
SendsAreTrue ==
  \A w \in Surfaces : sends[w].at # "none" =>
    LET c == sends[w].chat IN
    /\ c = current[w] /\ heard[w] = NotHeard
    /\ sends[w].at \in {"ensure", "query"} =>
         /\ Homed(c) => sends[w].folder = Recorded(c) /\ bound[w][c] = Recorded(c)
         /\ rows[c] = {} => sends[w].folder = stored /\ bound[w][c] \in {stored, NoFolder}

Calm == /\ OneChoice /\ OneSend /\ OneMessage /\ OneChat /\ ChoicesAreTrue
        /\ DisplayIsTrue /\ ChatsAreBound /\ CurrentIsStored /\ SendsAreTrue
BindingIInv == BindingTypes /\ (~hurried => Calm)

FolderOf(s) == IF s \subseteq {NoFolder} THEN NoFolder ELSE CHOOSE f \in Folders : f \in s

LEMMA RecordedIs ==
  \A c : Recorded(c) = FolderOf(rows[c]) /\ Recorded(c)' = FolderOf(rows'[c])
BY DEF Recorded, FolderOf

LEMMA FolderOfRows ==
  ASSUME NEW s \in SUBSET MaybeFolder
  PROVE  /\ FolderOf(s) \in MaybeFolder
         /\ s # {} /\ NoFolder \notin s => FolderOf(s) \in Folders /\ FolderOf(s) \in s
         /\ s \subseteq {NoFolder} => FolderOf(s) = NoFolder
<1>1. CASE s \subseteq {NoFolder}
  BY <1>1 DEF FolderOf, MaybeFolder
<1>2. CASE ~(s \subseteq {NoFolder})
  <2>1. PICK f \in Folders : f \in s
    BY <1>2 DEF MaybeFolder
  <2>2. FolderOf(s) = CHOOSE g \in Folders : g \in s
    BY <1>2 DEF FolderOf
  <2>3. FolderOf(s) \in Folders /\ FolderOf(s) \in s
    BY <2>1, <2>2
  <2>. QED
    BY <1>2, <2>3 DEF MaybeFolder
<1>. QED
  BY <1>1, <1>2

LEMMA RecordedIsAFolder ==
  ASSUME NEW c \in Chats, rows \in [Chats -> SUBSET MaybeFolder]
  PROVE  /\ Recorded(c) \in MaybeFolder
         /\ Homed(c) => Recorded(c) \in Folders /\ Recorded(c) \in rows[c]
         /\ rows[c] \subseteq {NoFolder} => Recorded(c) = NoFolder
<1>1. rows[c] \in SUBSET MaybeFolder
  OBVIOUS
<1>2. /\ FolderOf(rows[c]) \in MaybeFolder
      /\ rows[c] # {} /\ NoFolder \notin rows[c] =>
           FolderOf(rows[c]) \in Folders /\ FolderOf(rows[c]) \in rows[c]
      /\ rows[c] \subseteq {NoFolder} => FolderOf(rows[c]) = NoFolder
  BY <1>1, FolderOfRows
<1>. QED
  BY <1>2, RecordedIs DEF Homed

LEMMA RecordedStays ==
  ASSUME rows' = rows
  PROVE  /\ \A c : Recorded(c)' = Recorded(c)
         /\ \A c : Homed(c)' = Homed(c)
BY DEF Recorded, Homed

(* An act begins when all is at rest, or someone hurries.                  *)
LEMMA CalmActsStartAtRest ==
  ASSUME Acts, ~hurried', hurried \in BOOLEAN
  PROVE  ~hurried /\ Resting
BY DEF Acts

LEMMA AtRest ==
  ASSUME Resting, BindingTypes
  PROVE  /\ ~Choosing /\ ~Sending /\ ~Hearing /\ news = <<>> /\ ~display.asked
BY DEF Resting, Choosing, Sending, Hearing

-----------------------------------------------------------------------------
(* Types.                                                                  *)

LEMMA TakingNews ==
  ASSUME NEW S, NEW s \in Seq(S), s # <<>>
  PROVE  Head(s) \in S /\ Tail(s) \in Seq(S)
BY HeadTailProperties

LEMMA NewChatsAreTyped ==
  ASSUME BindingTypes, NEW f \in MaybeFolder, NewChat(f)
  PROVE  /\ current' \in [Surfaces -> MaybeChat]
         /\ heard' \in [Surfaces -> Chats \union {NotHeard}]
         /\ bound' \in [Surfaces -> [Chats -> MaybeFolder]]
         /\ known' \in [Surfaces -> SUBSET Chats]
<1>. PICK c \in Chats : /\ Selects(Dashboard, c)
                        /\ bound' = [bound EXCEPT ![Dashboard][c] = f]
                        /\ known' = [known EXCEPT ![Dashboard] = @ \union {c}]
  BY DEF NewChat, Unused
<1>. QED
  BY DEF BindingTypes, Selects, Other, Surfaces, MaybeChat

LEMMA RecordsMove ==
  ASSUME NEW f \in MaybeFolder
  PROVE  /\ \A r \in SendRecords, s \in SendStages :
              /\ [r EXCEPT !.at = s] \in SendRecords
              /\ [r EXCEPT !.at = s, !.folder = f] \in SendRecords
         /\ \A r \in ChoiceRecords, s \in ChoiceStages :
              /\ [r EXCEPT !.at = s] \in ChoiceRecords
              /\ [r EXCEPT !.at = s, !.folder = f] \in ChoiceRecords
         /\ NoChoice \in ChoiceRecords /\ NoSend \in SendRecords
<1>1. \A r \in SendRecords, s \in SendStages :
        /\ [r EXCEPT !.at = s] \in SendRecords
        /\ [r EXCEPT !.at = s, !.folder = f] \in SendRecords
  BY DEF SendRecords
<1>2. \A r \in ChoiceRecords, s \in ChoiceStages :
        /\ [r EXCEPT !.at = s] \in ChoiceRecords
        /\ [r EXCEPT !.at = s, !.folder = f] \in ChoiceRecords
  BY DEF ChoiceRecords
<1>3. NoChoice \in ChoiceRecords /\ NoSend \in SendRecords
  BY DEF NoChoice, NoSend, ChoiceRecords, SendRecords, ChoiceStages, SendStages, MaybeFolder,
         MaybeChat
<1>. QED
  BY <1>1, <1>2, <1>3

(* What a record that moves on holds.                                      *)
LEMMA MovedSends ==
  ASSUME BindingTypes, NEW w \in Surfaces, NEW r \in SendRecords,
         r.at # "none" => r.chat \in Chats, sends' = [sends EXCEPT ![w] = r]
  PROVE  /\ sends' \in [Surfaces -> SendRecords]
         /\ \A v \in Surfaces : sends'[v].at # "none" => sends'[v].chat \in Chats
         /\ sends'[w] = r /\ \A v \in Surfaces \ {w} : sends'[v] = sends[v]
BY DEF BindingTypes

LEMMA MovedChoices ==
  ASSUME BindingTypes, NEW o \in Dialogs, NEW r \in ChoiceRecords,
         r.at \in {"load", "select"} => r.chat \in Chats, choices' = [choices EXCEPT ![o] = r]
  PROVE  /\ choices' \in [Dialogs -> ChoiceRecords]
         /\ \A p \in Dialogs : choices'[p].at \in {"load", "select"} => choices'[p].chat \in Chats
         /\ choices'[o] = r /\ \A p \in Dialogs \ {o} : choices'[p] = choices[p]
BY DEF BindingTypes

LEMMA BoundChats ==
  ASSUME BindingTypes, NEW w \in Surfaces, NEW c \in Chats, NEW f \in MaybeFolder,
         bound' = [bound EXCEPT ![w][c] = f]
  PROVE  /\ bound' \in [Surfaces -> [Chats -> MaybeFolder]]
         /\ \A v \in Surfaces, d \in Chats :
              bound'[v][d] = IF v = w /\ d = c THEN f ELSE bound[v][d]
BY DEF BindingTypes

LEMMA NewsGrow ==
  ASSUME BindingTypes, NEW f \in MaybeFolder, NEW p \in BOOLEAN,
         news' = Append(news, [folder |-> f, picked |-> p])
  PROVE  /\ news' \in Seq(NewsItems) /\ news' # <<>>
         /\ news = <<>> => news' = <<[folder |-> f, picked |-> p]>>
                           /\ Head(news') = [folder |-> f, picked |-> p]
<1>. DEFINE item == [folder |-> f, picked |-> p]
<1>1. item \in NewsItems
  BY DEF NewsItems
<1>2. news' = Append(news, item)
  OBVIOUS
<1>. HIDE DEF item
<1>3. news' \in Seq(NewsItems) /\ news' # <<>>
  BY <1>1, <1>2, AppendProperties DEF BindingTypes
<1>4. news = <<>> => news' = <<item>> /\ Head(news') = item
  BY <1>1, <1>2
<1>. QED
  BY <1>3, <1>4 DEF item

-----------------------------------------------------------------------------
(* The steps of the windows.                                               *)

LEMMA HearsKeepsBindingIInv ==
  ASSUME BindingIInv, NEW w \in Surfaces, Hears(w)
  PROVE  BindingIInv'
<1>. USE DEF BindingIInv
<1>1. /\ heard[w] # NotHeard /\ heard[w] \in Chats
      /\ current'[w] = heard[w] /\ heard'[w] = NotHeard
      /\ \A v \in Surfaces \ {w} : current'[v] = current[v] /\ heard'[v] = heard[v]
      /\ hurried' = hurried
      /\ UNCHANGED <<stored, choices, news, display, bound, known, sends, rows, queries>>
  BY DEF Hears, Follows, BindingTypes
<1>2. BindingTypes'
  BY DEF BindingTypes, Hears, Follows, MaybeChat
<1>3. ASSUME ~hurried' PROVE Calm'
  <2>. Calm
    BY <1>1, <1>3
  <2>0. /\ w \in {Dashboard, Pill} /\ Other(w) \in Surfaces /\ Other(w) # w /\ Other(Other(w)) = w
        /\ \A v \in Surfaces : v = w \/ v = Other(w)
    BY FolderBounds DEF Surfaces, Other
  <2>1. heard[w] = current[Other(w)] /\ heard[Other(w)] = NotHeard
    BY <1>1 DEF Calm, OneChat
  <2>2. /\ current'[w] = current[Other(w)] /\ current'[Other(w)] = current[Other(w)]
        /\ heard'[w] = NotHeard /\ heard'[Other(w)] = NotHeard
    BY <1>1, <2>0, <2>1
  <2>3. ~Hearing' /\ OneChat'
    BY <2>0, <2>2 DEF OneChat, Hearing, Surfaces
  <2>4. Choosing' = Choosing /\ Sending' = Sending
    BY <1>1 DEF Choosing, Sending
  <2>5. OneChoice' /\ OneSend' /\ OneMessage'
    BY <1>1, <2>3, <2>4 DEF Calm, OneChoice, OneSend, OneMessage
  <2>6. (\A c : Recorded(c)' = Recorded(c)) /\ (\A c : Homed(c)' = Homed(c))
    BY <1>1, RecordedStays
  <2>7. ChoicesAreTrue'
    BY <1>1, <2>6 DEF Calm, ChoicesAreTrue
  <2>8. DisplayIsTrue'
    BY <1>1 DEF Calm, DisplayIsTrue
  <2>9. ChatsAreBound'
    BY <1>1, <2>0, <2>2, <2>6 DEF Calm, ChatsAreBound
  <2>10. CurrentIsStored'
    BY <1>1, <2>0, <2>1, <2>2, <2>6 DEF Calm, CurrentIsStored, Settled
  <2>11. SendsAreTrue'
    BY <1>1, <2>0, <2>2, <2>6 DEF Calm, SendsAreTrue
  <2>. QED
    BY <2>3, <2>5, <2>7, <2>8, <2>9, <2>10, <2>11 DEF Calm
<1>. QED
  BY <1>2, <1>3

LEMMA SendsKeepsBindingIInv ==
  ASSUME BindingIInv, NEW w \in Surfaces, Sends(w)
  PROVE  BindingIInv'
<1>. USE DEF BindingIInv
<1>0. PICK c \in IF current[w] = NoChat THEN Unused ELSE {current[w]} :
        /\ sends' = [sends EXCEPT ![w] =
             [at |-> IF bound[w][c] = NoFolder THEN "fetch" ELSE "ensure",
              chat |-> c, folder |-> bound[w][c]]]
        /\ IF current[w] = NoChat
           THEN Selects(w, c) /\ known' = [known EXCEPT ![w] = @ \union {c}]
           ELSE UNCHANGED <<current, heard, known>>
  BY DEF Sends
<1>1. c \in Chats
  BY <1>0 DEF Unused, BindingTypes, MaybeChat
<1>2. DEFINE r == [at |-> IF bound[w][c] = NoFolder THEN "fetch" ELSE "ensure",
                   chat |-> c, folder |-> bound[w][c]]
<1>3. r \in SendRecords /\ r.chat \in Chats
  BY <1>1 DEF SendRecords, SendStages, MaybeChat, BindingTypes
<1>4. sends' = [sends EXCEPT ![w] = r]
  BY <1>0
<1>5. r.chat = c /\ r.folder = bound[w][c]
      /\ r.at = (IF bound[w][c] = NoFolder THEN "fetch" ELSE "ensure")
  OBVIOUS
<1>6. /\ sends' \in [Surfaces -> SendRecords]
      /\ \A v \in Surfaces : sends'[v].at # "none" => sends'[v].chat \in Chats
      /\ sends'[w] = r /\ \A v \in Surfaces \ {w} : sends'[v] = sends[v]
  <2>. HIDE DEF r
  <2>. QED
    BY <1>3, <1>4, MovedSends
<1>. HIDE DEF r
<1>7. hurried' \in BOOLEAN /\ UNCHANGED <<stored, choices, news, display, bound, rows, queries>>
  BY DEF Sends, Acts, BindingTypes
<1>8. /\ current' \in [Surfaces -> MaybeChat]
      /\ heard' \in [Surfaces -> Chats \union {NotHeard}]
      /\ known' \in [Surfaces -> SUBSET Chats]
  BY <1>0, <1>1 DEF BindingTypes, Selects, Other, Surfaces, MaybeChat
<1>9. BindingTypes'
  BY <1>6, <1>7, <1>8 DEF BindingTypes
<1>10. ASSUME ~hurried' PROVE Calm'
  <2>1. ~hurried /\ Resting
    BY <1>10, CalmActsStartAtRest DEF Sends, BindingTypes
  <2>. Calm
    BY <2>1
  <2>2. ~Choosing /\ ~Sending /\ ~Hearing /\ news = <<>>
    BY <2>1, AtRest
  <2>3. /\ w \in {Dashboard, Pill} /\ Other(w) \in Surfaces /\ Other(w) # w /\ Other(Other(w)) = w
        /\ \A v \in Surfaces : v = w \/ v = Other(w)
    BY FolderBounds DEF Surfaces, Other
  <2>4. current[w] = current[Other(w)] /\ heard[w] = NotHeard /\ heard[Other(w)] = NotHeard
    BY <2>2, <2>3 DEF Calm, OneChat, Hearing, Surfaces
  <2>5. /\ current'[w] = c /\ heard'[w] = NotHeard
        /\ current'[Other(w)] = current[Other(w)]
        /\ \/ current[w] = c /\ heard'[Other(w)] = NotHeard /\ known' = known
           \/ /\ current[w] = NoChat /\ heard'[Other(w)] = c /\ c \in Unused
              /\ known'[w] = known[w] \union {c} /\ known'[Other(w)] = known[Other(w)]
    BY <1>0, <1>1, <2>3, <2>4 DEF Selects, BindingTypes
  <2>6. ~Choosing'
    BY <1>7, <2>2 DEF Choosing
  <2>7. OneChoice'
    BY <2>6 DEF OneChoice, Choosing
  <2>8. OneSend'
    BY <1>6, <2>2 DEF OneSend, Sending
  <2>9. OneMessage'
    BY <1>7, <2>2 DEF OneMessage
  <2>10. OneChat'
    BY <1>1, <2>3, <2>4, <2>5, FolderBounds DEF OneChat, Hearing, Surfaces
  <2>11. (\A d : Recorded(d)' = Recorded(d)) /\ (\A d : Homed(d)' = Homed(d))
    BY <1>7, RecordedStays
  <2>12. ChoicesAreTrue'
    BY <1>7, <2>11 DEF Calm, ChoicesAreTrue
  <2>13. DisplayIsTrue'
    BY <1>7 DEF Calm, DisplayIsTrue
  <2>14. ChatsAreBound'
    BY <1>6, <1>7, <2>2, <2>3, <2>5, <2>11 DEF Calm, ChatsAreBound, Sending, Surfaces
  <2>15. c \in Unused => rows[c] = {} /\ bound[Dashboard][c] = NoFolder /\ bound[Pill][c] = NoFolder
    BY <1>1 DEF Calm, Unused, ChatsAreBound, Surfaces
  <2>16. CurrentIsStored'
    <3>1. Settled
      BY <2>2 DEF Settled, Choosing
    <3>2. ASSUME NEW v \in Surfaces, heard'[v] = NotHeard, current'[v] # NoChat
          PROVE  /\ Homed(current'[v]) => stored = Recorded(current'[v])
                 /\ rows[current'[v]] = {} => bound[Dashboard][current'[v]] \in {NoFolder, stored}
      <4>1. CASE current[w] = c
        BY <2>3, <2>4, <2>5, <3>1, <3>2, <4>1 DEF Calm, CurrentIsStored
      <4>2. CASE c \in Unused
        <5>1. current[w] = c \/ v = w
          BY <1>1, <2>3, <2>5, <3>2, FolderBounds
        <5>2. CASE v = w
          BY <2>5, <2>15, <4>2, <5>2 DEF Homed
        <5>. QED
          BY <4>1, <5>1, <5>2
      <4>. QED
        BY <2>5, <4>1, <4>2
    <3>. QED
      BY <1>7, <2>11, <3>2 DEF CurrentIsStored
  <2>17. SendsAreTrue'
    <3>1. bound[w][c] # NoFolder =>
            /\ Homed(c) => bound[w][c] = Recorded(c)
            /\ rows[c] = {} => bound[w][c] = stored
      <4>1. Homed(c) => bound[w][c] \in {Recorded(c), NoFolder}
        BY <1>1 DEF Calm, ChatsAreBound
      <4>2. c \in Unused => bound[w][c] = NoFolder
        BY <2>3, <2>15
      <4>3. rows[c] = {} => bound[Pill][c] = NoFolder
        BY <1>1, <2>2 DEF Calm, ChatsAreBound, Sending, Surfaces
      <4>4. c = current[w] /\ c # NoChat /\ rows[c] = {} => bound[Dashboard][c] \in {NoFolder, stored}
        BY <2>2, <2>4 DEF Calm, CurrentIsStored, Settled, Choosing
      <4>. QED
        BY <1>1, <2>3, <2>5, <4>1, <4>2, <4>3, <4>4, FolderBounds
    <3>2. \A v \in Surfaces \ {w} : sends'[v].at = "none"
      BY <1>6, <2>2 DEF Sending
    <3>3. sends'[w].at = "ensure" => bound[w][c] # NoFolder
      BY <1>5, <1>6
    <3>4. sends'[w].at # "query"
      BY <1>5, <1>6
    <3>. QED
      BY <1>5, <1>6, <1>7, <2>5, <2>11, <3>1, <3>2, <3>3, <3>4 DEF SendsAreTrue
  <2>. QED
    BY <2>7, <2>8, <2>9, <2>10, <2>12, <2>13, <2>14, <2>16, <2>17 DEF Calm
<1>. QED
  BY <1>9, <1>10

LEMMA BindsKeepsBindingIInv ==
  ASSUME BindingIInv, NEW w \in Surfaces, Binds(w)
  PROVE  BindingIInv'
<1>. USE DEF BindingIInv
<1>. DEFINE c == sends[w].chat
            r == [sends[w] EXCEPT !.at = "ensure", !.folder = stored]
<1>1. c \in Chats /\ sends[w].at = "fetch" /\ stored \in MaybeFolder /\ sends[w] \in SendRecords
  BY DEF Binds, BindingTypes
<1>2. r \in SendRecords /\ r.chat = c /\ r.at = "ensure" /\ r.folder = stored
  BY <1>1, RecordsMove DEF SendRecords, SendStages
<1>3. sends' = [sends EXCEPT ![w] = r]
  BY DEF Binds
<1>4. /\ sends' \in [Surfaces -> SendRecords]
      /\ \A v \in Surfaces : sends'[v].at # "none" => sends'[v].chat \in Chats
      /\ sends'[w] = r /\ \A v \in Surfaces \ {w} : sends'[v] = sends[v]
  <2>. HIDE DEF r
  <2>. QED
    BY <1>1, <1>2, <1>3, MovedSends
<1>. HIDE DEF r
<1>5. /\ bound' \in [Surfaces -> [Chats -> MaybeFolder]]
      /\ \A v \in Surfaces, d \in Chats :
           bound'[v][d] = IF v = w /\ d = c THEN stored ELSE bound[v][d]
  <2>1. bound' = [bound EXCEPT ![w][c] = stored]
    BY DEF Binds
  <2>. HIDE DEF c
  <2>. QED
    BY <1>1, <2>1, BoundChats
<1>6. UNCHANGED <<stored, choices, news, display, current, heard, known, rows, queries, hurried>>
  BY DEF Binds, Follows
<1>7. BindingTypes'
  BY <1>4, <1>5, <1>6 DEF BindingTypes
<1>8. ASSUME ~hurried' PROVE Calm'
  <2>. Calm
    BY <1>6, <1>8
  <2>1. Sending /\ ~Choosing /\ news = <<>> /\ c = current[w] /\ heard[w] = NotHeard
    BY <1>1 DEF Calm, Sending, OneChoice, OneMessage, SendsAreTrue
  <2>2. \A v \in Surfaces \ {w} : sends[v].at = "none"
    BY <1>1 DEF Calm, OneSend
  <2>3. ~Choosing' /\ Hearing' = Hearing
    BY <1>6, <2>1 DEF Choosing, Hearing
  <2>4. (\A d : Recorded(d)' = Recorded(d)) /\ (\A d : Homed(d)' = Homed(d))
    BY <1>6, RecordedStays
  <2>5. OneChoice' /\ OneMessage' /\ OneChat' /\ ChoicesAreTrue' /\ DisplayIsTrue'
    BY <1>6, <2>1, <2>3, <2>4
       DEF Calm, OneChoice, OneMessage, OneChat, ChoicesAreTrue, DisplayIsTrue, Choosing
  <2>6. OneSend'
    BY <1>4, <2>2 DEF OneSend
  <2>7. Settled /\ c # NoChat
    BY <1>1, <2>1, FolderBounds DEF Settled, Choosing
  <2>8. Homed(c) => stored = Recorded(c)
    BY <2>1, <2>7 DEF Calm, CurrentIsStored
  <2>9. ChatsAreBound'
    <3>1. ASSUME NEW d \in Chats, rows[d] = {}
          PROVE  /\ \/ bound'[Pill][d] = NoFolder
                    \/ sends'[Pill].at \in {"ensure", "query"} /\ sends'[Pill].chat = d
                 /\ (\E v \in Surfaces : bound'[v][d] # NoFolder \/ current[v] = d) =>
                      d \in known[Dashboard] \union known[Pill]
      <4>1. CASE d = c
        BY <1>1, <1>2, <1>4, <1>5, <2>1, <3>1, <4>1 DEF Calm, ChatsAreBound, Surfaces
      <4>2. CASE d # c
        BY <1>1, <1>2, <1>4, <1>5, <2>2, <3>1, <4>2 DEF Calm, ChatsAreBound, Surfaces
      <4>. QED
        BY <4>1, <4>2
    <3>2. ASSUME NEW d \in Chats, Homed(d)
          PROVE  \A v \in Surfaces : bound'[v][d] \in {Recorded(d), NoFolder}
      BY <1>5, <2>8, <3>2 DEF Calm, ChatsAreBound
    <3>. QED
      BY <1>6, <2>4, <3>1, <3>2 DEF Calm, ChatsAreBound
  <2>10. CurrentIsStored'
    <3>1. \A d \in Chats : bound[Dashboard][d] \in {NoFolder, stored}
                             => bound'[Dashboard][d] \in {NoFolder, stored}
      BY <1>5 DEF Surfaces
    <3>2. \A v \in Surfaces : current[v] # NoChat => current[v] \in Chats
      BY DEF BindingTypes, MaybeChat
    <3>. QED
      BY <1>6, <2>4, <2>7, <3>1, <3>2 DEF Calm, CurrentIsStored
  <2>11. SendsAreTrue'
    BY <1>1, <1>2, <1>4, <1>5, <1>6, <2>1, <2>2, <2>4, <2>8 DEF SendsAreTrue
  <2>. QED
    BY <2>5, <2>6, <2>9, <2>10, <2>11 DEF Calm
<1>. QED
  BY <1>7, <1>8

LEMMA EnsuresKeepsBindingIInv ==
  ASSUME BindingIInv, NEW w \in Surfaces, Ensures(w)
  PROVE  BindingIInv'
<1>. USE DEF BindingIInv
<1>. DEFINE c == sends[w].chat
            r == [sends[w] EXCEPT !.at = "query"]
<1>1. c \in Chats /\ sends[w].at = "ensure" /\ sends[w] \in SendRecords
  BY DEF Ensures, BindingTypes
<1>2. r \in SendRecords /\ r.chat = c /\ r.at = "query" /\ r.folder = sends[w].folder
  BY <1>1 DEF SendRecords, SendStages
<1>3. sends' = [sends EXCEPT ![w] = r]
  BY DEF Ensures
<1>4. /\ sends' \in [Surfaces -> SendRecords]
      /\ \A v \in Surfaces : sends'[v].at # "none" => sends'[v].chat \in Chats
      /\ sends'[w] = r /\ \A v \in Surfaces \ {w} : sends'[v] = sends[v]
  <2>. HIDE DEF r
  <2>. QED
    BY <1>1, <1>2, <1>3, MovedSends
<1>. HIDE DEF r
<1>5. Recorded(c) \in MaybeFolder
  <2>. HIDE DEF c
  <2>. QED
    BY <1>1, RecordedIsAFolder DEF BindingTypes
<1>6. /\ bound' \in [Surfaces -> [Chats -> MaybeFolder]]
      /\ \A v \in Surfaces, d \in Chats : \/ bound'[v][d] = bound[v][d]
                                          \/ v = w /\ d = c /\ bound'[v][d] = Recorded(c)
  <2>1. CASE c \in known[w]
    BY <2>1 DEF Ensures, BindingTypes
  <2>2. CASE c \notin known[w]
    <3>1. bound' = [bound EXCEPT ![w][c] = Recorded(c)]
      BY <2>2 DEF Ensures
    <3>. HIDE DEF c
    <3>. QED
      BY <1>1, <1>5, <3>1, BoundChats
  <2>. QED
    BY <2>1, <2>2
<1>7. /\ known' \in [Surfaces -> SUBSET Chats]
      /\ \A v \in Surfaces : known[v] \subseteq known'[v]
  BY <1>1 DEF Ensures, BindingTypes
<1>8. UNCHANGED <<stored, choices, news, display, current, heard, rows, queries, hurried>>
  BY DEF Ensures, Follows
<1>9. BindingTypes'
  BY <1>4, <1>6, <1>7, <1>8 DEF BindingTypes
<1>10. ASSUME ~hurried' PROVE Calm'
  <2>. Calm
    BY <1>8, <1>10
  <2>1. Sending /\ ~Choosing /\ news = <<>> /\ c = current[w] /\ heard[w] = NotHeard
    BY <1>1 DEF Calm, Sending, OneChoice, OneMessage, SendsAreTrue
  <2>2. \A v \in Surfaces \ {w} : sends[v].at = "none"
    BY <1>1 DEF Calm, OneSend
  <2>3. ~Choosing' /\ Hearing' = Hearing
    BY <1>8, <2>1 DEF Choosing, Hearing
  <2>4. (\A d : Recorded(d)' = Recorded(d)) /\ (\A d : Homed(d)' = Homed(d))
    BY <1>8, RecordedStays
  <2>5. OneChoice' /\ OneMessage' /\ OneChat' /\ ChoicesAreTrue' /\ DisplayIsTrue'
    BY <1>8, <2>1, <2>3, <2>4
       DEF Calm, OneChoice, OneMessage, OneChat, ChoicesAreTrue, DisplayIsTrue, Choosing
  <2>6. OneSend'
    BY <1>4, <2>2 DEF OneSend
  <2>7. rows[c] = {} => Recorded(c) = NoFolder
    BY <1>1, RecordedIsAFolder DEF BindingTypes
  <2>8. Pill \in Surfaces /\ Dashboard \in Surfaces
    BY DEF Surfaces
  <2>9. ChatsAreBound'
    <3>1. ASSUME NEW d \in Chats, rows[d] = {}
          PROVE  /\ \/ bound'[Pill][d] = NoFolder
                    \/ sends'[Pill].at \in {"ensure", "query"} /\ sends'[Pill].chat = d
                 /\ (\E v \in Surfaces : bound'[v][d] # NoFolder \/ current[v] = d) =>
                      d \in known'[Dashboard] \union known'[Pill]
      <4>1. \/ bound[Pill][d] = NoFolder
            \/ sends[Pill].at \in {"ensure", "query"} /\ sends[Pill].chat = d
        BY <3>1 DEF Calm, ChatsAreBound
      <4>2. sends[Pill].at \in {"ensure", "query"} /\ sends[Pill].chat = d =>
              sends'[Pill].at \in {"ensure", "query"} /\ sends'[Pill].chat = d
        BY <1>2, <1>4, <2>2, <2>8
      <4>3. bound[Pill][d] = NoFolder => bound'[Pill][d] = NoFolder
        BY <1>6, <2>7, <2>8, <3>1
      <4>4. \A v \in Surfaces : bound'[v][d] # NoFolder => bound[v][d] # NoFolder
        BY <1>6, <2>7, <3>1
      <4>5. (\E v \in Surfaces : bound[v][d] # NoFolder \/ current[v] = d) =>
              d \in known[Dashboard] \union known[Pill]
        BY <3>1 DEF Calm, ChatsAreBound
      <4>. QED
        BY <1>7, <2>8, <4>1, <4>2, <4>3, <4>4, <4>5
    <3>2. ASSUME NEW d \in Chats, Homed(d)
          PROVE  \A v \in Surfaces : bound'[v][d] \in {Recorded(d), NoFolder}
      BY <1>6, <3>2 DEF Calm, ChatsAreBound
    <3>. QED
      BY <1>8, <2>4, <3>1, <3>2 DEF Calm, ChatsAreBound
  <2>10. CurrentIsStored'
    <3>1. \A d \in Chats : rows[d] = {} /\ bound[Dashboard][d] \in {NoFolder, stored}
                             => bound'[Dashboard][d] \in {NoFolder, stored}
      BY <1>6, <2>7, <2>8
    <3>2. \A v \in Surfaces : current[v] # NoChat => current[v] \in Chats
      BY DEF BindingTypes, MaybeChat
    <3>3. Settled' = Settled
      BY <1>8 DEF Settled
    <3>. QED
      BY <1>8, <2>4, <3>1, <3>2, <3>3 DEF Calm, CurrentIsStored
  <2>11. SendsAreTrue'
    <3>1. /\ Homed(c) => sends[w].folder = Recorded(c) /\ bound[w][c] = Recorded(c)
          /\ rows[c] = {} => sends[w].folder = stored /\ bound[w][c] \in {stored, NoFolder}
      BY <1>1 DEF Calm, SendsAreTrue
    <3>2. bound'[w][c] = bound[w][c] \/ bound'[w][c] = Recorded(c)
      BY <1>1, <1>6
    <3>. QED
      BY <1>2, <1>4, <1>8, <2>1, <2>2, <2>4, <2>7, <3>1, <3>2 DEF SendsAreTrue
  <2>. QED
    BY <2>5, <2>6, <2>9, <2>10, <2>11 DEF Calm
<1>. QED
  BY <1>9, <1>10

LEMMA QueriesKeepsBindingIInv ==
  ASSUME BindingIInv, NEW w \in Surfaces, Queries(w)
  PROVE  BindingIInv'
<1>. USE DEF BindingIInv
<1>0. PICK c : c = sends[w].chat
  OBVIOUS
<1>1. c \in Chats /\ sends[w].at = "query" /\ sends[w].folder \in MaybeFolder
      /\ bound[w][c] \in MaybeFolder
  BY <1>0 DEF Queries, BindingTypes, SendRecords
<1>2. NoSend \in SendRecords /\ NoSend.at = "none"
  BY DEF NoSend, SendRecords, SendStages, MaybeChat, MaybeFolder
<1>3. sends' = [sends EXCEPT ![w] = NoSend]
  BY DEF Queries
<1>4. /\ sends' \in [Surfaces -> SendRecords]
      /\ \A v \in Surfaces : sends'[v].at # "none" => sends'[v].chat \in Chats
      /\ sends'[w] = NoSend /\ \A v \in Surfaces \ {w} : sends'[v] = sends[v]
  BY <1>2, <1>3, MovedSends
<1>5. /\ rows' \in [Chats -> SUBSET MaybeFolder] /\ queries' \in [Chats -> SUBSET MaybeFolder]
      /\ rows'[c] = rows[c] \union {bound[w][c]}
      /\ queries'[c] = queries[c] \union {sends[w].folder}
      /\ \A d \in Chats \ {c} : rows'[d] = rows[d] /\ queries'[d] = queries[d]
  BY <1>0, <1>1 DEF Queries, BindingTypes
<1>6. UNCHANGED <<stored, choices, news, display, current, heard, bound, known, hurried>>
  BY DEF Queries, Follows
<1>7. BindingTypes'
  BY <1>4, <1>5, <1>6 DEF BindingTypes
<1>8. ASSUME ~hurried' PROVE Calm'
  <2>. Calm
    BY <1>6, <1>8
  <2>1. Sending /\ ~Choosing /\ news = <<>> /\ c = current[w] /\ heard[w] = NotHeard
    BY <1>0, <1>1 DEF Calm, Sending, OneChoice, OneMessage, SendsAreTrue
  <2>2. \A v \in Surfaces : sends'[v].at = "none"
    BY <1>1, <1>2, <1>4 DEF Calm, OneSend
  <2>3. ~Choosing' /\ Hearing' = Hearing
    BY <1>6, <2>1 DEF Choosing, Hearing
  <2>4. \A d \in Chats \ {c} : Recorded(d)' = Recorded(d) /\ (Homed(d)' <=> Homed(d))
    BY <1>5, RecordedIs DEF Homed
  <2>5. OneChoice' /\ OneMessage' /\ OneChat' /\ DisplayIsTrue'
    BY <1>6, <2>1, <2>3 DEF Calm, OneChoice, OneMessage, OneChat, DisplayIsTrue, Choosing
  <2>6. OneSend' /\ SendsAreTrue'
    BY <2>2 DEF OneSend, SendsAreTrue
  <2>7. ChoicesAreTrue'
    BY <2>3 DEF ChoicesAreTrue, Choosing
  <2>8. /\ Homed(c) => sends[w].folder = Recorded(c) /\ bound[w][c] = Recorded(c)
        /\ rows[c] = {} => sends[w].folder = stored /\ bound[w][c] \in {stored, NoFolder}
    BY <1>0, <1>1 DEF Calm, SendsAreTrue
  <2>9. rows'[c] # {} /\ Recorded(c)' \in MaybeFolder
        /\ (Homed(c)' => Recorded(c)' \in rows'[c] /\ Recorded(c)' \in Folders)
    <3>1. rows'[c] \in SUBSET MaybeFolder
      BY <1>1, <1>5
    <3>2. /\ FolderOf(rows'[c]) \in MaybeFolder
          /\ rows'[c] # {} /\ NoFolder \notin rows'[c] =>
               FolderOf(rows'[c]) \in Folders /\ FolderOf(rows'[c]) \in rows'[c]
      BY <3>1, FolderOfRows
    <3>. QED
      BY <1>5, <3>2, RecordedIs DEF Homed
  <2>10. ASSUME Homed(c)'
         PROVE  /\ rows'[c] = {Recorded(c)'} /\ queries'[c] \subseteq {Recorded(c)'}
                /\ bound[w][c] = Recorded(c)'
                /\ Homed(c) => Recorded(c)' = Recorded(c)
                /\ ~Homed(c) => rows[c] = {} /\ Recorded(c)' = stored
    <3>1. bound[w][c] # NoFolder /\ (rows[c] = {} \/ Homed(c))
      BY <1>1, <1>5, <2>10 DEF Homed
    <3>2. CASE Homed(c)
      <4>1. rows[c] = {Recorded(c)} /\ queries[c] \subseteq {Recorded(c)}
        BY <1>1, <3>2 DEF Calm, ChatsAreBound
      <4>2. rows'[c] = {Recorded(c)} /\ queries'[c] \subseteq {Recorded(c)}
        BY <1>5, <2>8, <3>2, <4>1
      <4>. QED
        BY <2>8, <2>9, <2>10, <3>2, <4>2
    <3>3. CASE rows[c] = {}
      <4>1. queries[c] = {}
        BY <1>1, <3>3 DEF Calm, ChatsAreBound
      <4>2. rows'[c] = {stored} /\ queries'[c] = {stored} /\ bound[w][c] = stored
        BY <1>5, <2>8, <3>1, <3>3, <4>1
      <4>. QED
        BY <2>9, <2>10, <3>3, <4>2 DEF Homed
    <3>. QED
      BY <3>1, <3>2, <3>3
  <2>11. ASSUME Homed(c)', NEW v \in Surfaces
         PROVE  bound[v][c] \in {Recorded(c)', NoFolder}
    <3>1. CASE Homed(c)
      BY <1>1, <2>10, <2>11, <3>1 DEF Calm, ChatsAreBound
    <3>2. CASE ~Homed(c) /\ v = w
      BY <2>10, <2>11, <3>2
    <3>3. CASE ~Homed(c) /\ v # w
      <4>1. rows[c] = {} /\ Recorded(c)' = stored
        BY <2>10, <2>11, <3>3
      <4>2. CASE v = Pill
        BY <1>1, <3>3, <4>1, <4>2 DEF Calm, ChatsAreBound, OneSend
      <4>3. CASE v = Dashboard
        <5>1. Settled /\ c # NoChat
          BY <1>1, <2>1, FolderBounds DEF Settled, Choosing
        <5>. QED
          BY <2>1, <4>1, <4>3, <5>1 DEF Calm, CurrentIsStored
      <4>. QED
        BY <4>2, <4>3 DEF Surfaces
    <3>. QED
      BY <3>1, <3>2, <3>3
  <2>12. ChatsAreBound'
    <3>1. ASSUME NEW d \in Chats \ {c}, rows[d] = {}
          PROVE  bound[Pill][d] = NoFolder
      <4>1. sends[Pill].at \in {"ensure", "query"} => sends[Pill].chat = c
        BY <1>0, <1>1 DEF Calm, OneSend, Surfaces
      <4>. QED
        BY <3>1, <4>1 DEF Calm, ChatsAreBound
    <3>. QED
      BY <1>5, <1>6, <2>4, <2>9, <2>10, <2>11, <3>1 DEF Calm, ChatsAreBound
  <2>13. CurrentIsStored'
    <3>1. Settled /\ c # NoChat /\ c \in Chats
      BY <1>1, <2>1, FolderBounds DEF Settled, Choosing
    <3>2. Homed(c)' => stored = Recorded(c)'
      <4>1. Homed(c) => stored = Recorded(c)
        BY <2>1, <3>1 DEF Calm, CurrentIsStored
      <4>. QED
        BY <2>10, <4>1
    <3>3. ASSUME NEW v \in Surfaces, heard[v] = NotHeard, current[v] # NoChat, current[v] # c
          PROVE  /\ rows'[current[v]] = rows[current[v]]
                 /\ Homed(current[v]) => stored = Recorded(current[v])
                 /\ rows[current[v]] = {} => bound[Dashboard][current[v]] \in {NoFolder, stored}
                 /\ current[v] \in Chats \ {c}
      BY <1>5, <3>1, <3>3 DEF Calm, CurrentIsStored, BindingTypes, MaybeChat
    <3>4. ASSUME NEW v \in Surfaces, heard[v] = NotHeard, NEW d, d = current[v], d # NoChat
          PROVE  /\ Homed(d)' => stored = Recorded(d)'
                 /\ rows'[d] = {} => bound[Dashboard][d] \in {NoFolder, stored}
      BY <2>4, <2>9, <3>2, <3>3, <3>4
    <3>. QED
      BY <1>6, <3>4 DEF CurrentIsStored
  <2>. QED
    BY <2>5, <2>6, <2>7, <2>12, <2>13 DEF Calm
<1>. QED
  BY <1>7, <1>8

-----------------------------------------------------------------------------
(* The steps of a choice.                                                  *)

(* What leaves the chats of the windows alone.                             *)
LEMMA ChatsLeftAlone ==
  ASSUME Calm, UNCHANGED <<current, heard, bound, known, sends, rows, queries>>
  PROVE  /\ Sending' = Sending /\ Hearing' = Hearing
         /\ (\A c : Recorded(c)' = Recorded(c)) /\ (\A c : Homed(c)' = Homed(c))
         /\ OneSend' /\ OneChat' /\ ChatsAreBound'
         /\ stored' = stored => SendsAreTrue'
         /\ ~Sending => SendsAreTrue'
         /\ stored' = stored /\ (Settled' => Settled) => CurrentIsStored'
         /\ ~Settled' => CurrentIsStored'
<1>1. (\A c : Recorded(c)' = Recorded(c)) /\ (\A c : Homed(c)' = Homed(c))
  BY RecordedStays
<1>2. Sending' = Sending /\ Hearing' = Hearing
  BY DEF Sending, Hearing
<1>3. OneSend' /\ OneChat'
  BY <1>2 DEF Calm, OneSend, OneChat
<1>4. ChatsAreBound'
  BY <1>1 DEF Calm, ChatsAreBound
<1>5. stored' = stored => SendsAreTrue'
  BY <1>1 DEF Calm, SendsAreTrue
<1>6. ~Sending => SendsAreTrue'
  BY DEF SendsAreTrue, Sending
<1>7. stored' = stored /\ (Settled' => Settled) => CurrentIsStored'
  BY <1>1 DEF Calm, CurrentIsStored
<1>8. ~Settled' => CurrentIsStored'
  BY DEF CurrentIsStored
<1>. QED
  BY <1>1, <1>2, <1>3, <1>4, <1>5, <1>6, <1>7, <1>8

LEMMA PicksKeepsBindingIInv ==
  ASSUME BindingIInv, NEW o \in Dialogs, NEW f \in Folders, Picks(o, f)
  PROVE  BindingIInv'
<1>. USE DEF BindingIInv
<1>. DEFINE r == [at |-> "store", chat |-> NoChat, folder |-> f]
<1>1. r \in ChoiceRecords /\ r.at = "store" /\ r.chat = NoChat /\ r.folder = f
  BY DEF ChoiceRecords, ChoiceStages, MaybeChat, MaybeFolder
<1>2. choices' = [choices EXCEPT ![o] = r]
  BY DEF Picks
<1>. HIDE DEF r
<1>3. /\ choices' \in [Dialogs -> ChoiceRecords]
      /\ \A p \in Dialogs : choices'[p].at \in {"load", "select"} => choices'[p].chat \in Chats
      /\ choices'[o] = r /\ \A p \in Dialogs \ {o} : choices'[p] = choices[p]
  BY <1>1, <1>2, MovedChoices
<1>4. UNCHANGED <<stored, news, display, current, heard, bound, known, sends, rows, queries>>
  BY DEF Picks
<1>5. BindingTypes'
  BY <1>3, <1>4 DEF Picks, Acts, BindingTypes
<1>6. ASSUME ~hurried' PROVE Calm'
  <2>1. ~hurried /\ Resting
    BY <1>6, CalmActsStartAtRest DEF Picks, BindingTypes
  <2>. Calm
    BY <2>1
  <2>2. ~Choosing /\ ~Sending /\ ~Hearing /\ news = <<>>
    BY <2>1, AtRest
  <2>3. /\ Sending' = Sending /\ Hearing' = Hearing
        /\ OneSend' /\ OneChat' /\ ChatsAreBound' /\ SendsAreTrue'
        /\ (Settled' => Settled) => CurrentIsStored'
    BY <1>4, ChatsLeftAlone
  <2>4. Settled
    BY <2>2 DEF Settled, Choosing
  <2>5. \A p \in Dialogs \ {o} : choices'[p].at = "none"
    BY <1>3, <2>2 DEF Choosing
  <2>6. OneChoice' /\ OneMessage'
    BY <1>3, <1>4, <2>2, <2>3, <2>5 DEF OneChoice, OneMessage
  <2>7. ChoicesAreTrue'
    BY <1>1, <1>3, <2>5, FolderBounds DEF ChoicesAreTrue
  <2>8. DisplayIsTrue'
    BY <1>4, <2>2 DEF Calm, DisplayIsTrue, Choosing
  <2>. QED
    BY <2>3, <2>4, <2>6, <2>7, <2>8 DEF Calm
<1>. QED
  BY <1>5, <1>6

LEMMA OpensKeepsBindingIInv ==
  ASSUME BindingIInv, NEW o \in Dialogs, NEW c \in Chats, Opens(o, c)
  PROVE  BindingIInv'
<1>. USE DEF BindingIInv
<1>. DEFINE r == [at |-> "load", chat |-> c, folder |-> NoFolder]
<1>1. r \in ChoiceRecords /\ r.at = "load" /\ r.chat = c
  BY DEF ChoiceRecords, ChoiceStages, MaybeChat, MaybeFolder
<1>2. choices' = [choices EXCEPT ![o] = r]
  BY DEF Opens
<1>. HIDE DEF r
<1>3. /\ choices' \in [Dialogs -> ChoiceRecords]
      /\ \A p \in Dialogs : choices'[p].at \in {"load", "select"} => choices'[p].chat \in Chats
      /\ choices'[o] = r /\ \A p \in Dialogs \ {o} : choices'[p] = choices[p]
  BY <1>1, <1>2, MovedChoices
<1>4. UNCHANGED <<stored, news, display, current, heard, bound, known, sends, rows, queries>>
      /\ rows[c] # {}
  BY DEF Opens
<1>5. BindingTypes'
  BY <1>3, <1>4 DEF Opens, Acts, BindingTypes
<1>6. ASSUME ~hurried' PROVE Calm'
  <2>1. ~hurried /\ Resting
    BY <1>6, CalmActsStartAtRest DEF Opens, BindingTypes
  <2>. Calm
    BY <2>1
  <2>2. ~Choosing /\ ~Sending /\ ~Hearing /\ news = <<>>
    BY <2>1, AtRest
  <2>3. /\ Sending' = Sending /\ Hearing' = Hearing
        /\ OneSend' /\ OneChat' /\ ChatsAreBound' /\ SendsAreTrue'
        /\ (Settled' => Settled) => CurrentIsStored'
    BY <1>4, ChatsLeftAlone
  <2>4. Settled
    BY <2>2 DEF Settled, Choosing
  <2>5. \A p \in Dialogs \ {o} : choices'[p].at = "none"
    BY <1>3, <2>2 DEF Choosing
  <2>6. OneChoice' /\ OneMessage'
    BY <1>3, <1>4, <2>2, <2>3, <2>5 DEF OneChoice, OneMessage
  <2>7. ChoicesAreTrue'
    BY <1>1, <1>3, <1>4, <2>5 DEF ChoicesAreTrue
  <2>8. DisplayIsTrue'
    BY <1>4, <2>2 DEF Calm, DisplayIsTrue, Choosing
  <2>. QED
    BY <2>3, <2>4, <2>6, <2>7, <2>8 DEF Calm
<1>. QED
  BY <1>5, <1>6

LEMMA StoresKeepsBindingIInv ==
  ASSUME BindingIInv, NEW o \in Dialogs, Stores(o)
  PROVE  BindingIInv'
<1>. USE DEF BindingIInv
<1>. DEFINE r == [choices[o] EXCEPT !.at = "announce"]
<1>1. /\ r \in ChoiceRecords /\ r.at = "announce" /\ r.chat = choices[o].chat
      /\ choices[o].at = "store" /\ choices[o].folder \in MaybeFolder
  BY DEF Stores, BindingTypes, ChoiceRecords, ChoiceStages
<1>2. choices' = [choices EXCEPT ![o] = r]
  BY DEF Stores
<1>. HIDE DEF r
<1>3. /\ choices' \in [Dialogs -> ChoiceRecords]
      /\ \A p \in Dialogs : choices'[p].at \in {"load", "select"} => choices'[p].chat \in Chats
      /\ choices'[o] = r /\ \A p \in Dialogs \ {o} : choices'[p] = choices[p]
  BY <1>1, <1>2, MovedChoices
<1>4. /\ stored' = choices[o].folder \/ (stored' = stored /\ \E p \in Dialogs \ {o} : choices[p].at # "none")
      /\ UNCHANGED <<news, display, current, heard, bound, known, sends, rows, queries, hurried>>
  BY DEF Stores, Follows
<1>5. BindingTypes'
  BY <1>1, <1>3, <1>4 DEF BindingTypes
<1>6. ASSUME ~hurried' PROVE Calm'
  <2>. Calm
    BY <1>4, <1>6
  <2>1. Choosing /\ ~Sending /\ ~Hearing /\ news = <<>>
    BY <1>1 DEF Calm, OneChoice, Choosing
  <2>2. \A p \in Dialogs \ {o} : choices[p].at = "none" /\ choices'[p].at = "none"
    BY <1>1, <1>3 DEF Calm, OneChoice
  <2>3. stored' = choices[o].folder
    BY <1>4, <2>2
  <2>4. ~Settled' /\ Choosing'
    BY <1>1, <1>3 DEF Settled, Choosing
  <2>5. /\ Sending' = Sending /\ Hearing' = Hearing /\ (\A c : Recorded(c)' = Recorded(c))
        /\ OneSend' /\ OneChat' /\ ChatsAreBound' /\ SendsAreTrue' /\ CurrentIsStored'
    BY <1>4, <2>1, <2>4, ChatsLeftAlone
  <2>6. OneChoice' /\ OneMessage'
    BY <1>4, <2>1, <2>2, <2>5 DEF OneChoice, OneMessage
  <2>7. ChoicesAreTrue'
    BY <1>1, <1>3, <1>4, <2>2, <2>3, <2>5 DEF Calm, ChoicesAreTrue
  <2>8. DisplayIsTrue'
    BY <1>1, <1>3 DEF DisplayIsTrue
  <2>. QED
    BY <2>5, <2>6, <2>7, <2>8 DEF Calm
<1>. QED
  BY <1>5, <1>6

LEMMA AnnouncesKeepsBindingIInv ==
  ASSUME BindingIInv, NEW o \in Dialogs, Announces(o)
  PROVE  BindingIInv'
<1>. USE DEF BindingIInv
<1>. DEFINE r == IF choices[o].chat = NoChat THEN NoChoice ELSE [choices[o] EXCEPT !.at = "select"]
<1>1. choices[o] \in ChoiceRecords /\ choices[o].at = "announce" /\ stored \in MaybeFolder
      /\ choices[o].chat \in MaybeChat
  BY DEF Announces, BindingTypes, ChoiceRecords
<1>2. /\ r \in ChoiceRecords /\ (r.at \in {"load", "select"} => r.chat \in Chats)
      /\ IF choices[o].chat = NoChat THEN r.at = "none"
         ELSE r.at = "select" /\ r.chat = choices[o].chat
  <2>1. CASE choices[o].chat = NoChat
    BY <1>1, <2>1, RecordsMove DEF NoChoice
  <2>2. CASE choices[o].chat # NoChat
    BY <1>1, <2>2 DEF ChoiceRecords, ChoiceStages, MaybeChat
  <2>. QED
    BY <2>1, <2>2
<1>3. choices' = [choices EXCEPT ![o] = r]
  BY DEF Announces
<1>. HIDE DEF r
<1>4. /\ choices' \in [Dialogs -> ChoiceRecords]
      /\ \A p \in Dialogs : choices'[p].at \in {"load", "select"} => choices'[p].chat \in Chats
      /\ choices'[o] = r /\ \A p \in Dialogs \ {o} : choices'[p] = choices[p]
  BY <1>2, <1>3, MovedChoices
<1>5. UNCHANGED <<stored, display, current, heard, bound, known, sends, rows, queries, hurried>>
  BY DEF Announces, Follows
<1>6. PICK picked \in BOOLEAN : picked = (choices[o].chat = NoChat)
  OBVIOUS
<1>7. news' = Append(news, [folder |-> stored, picked |-> picked])
  BY <1>6 DEF Announces
<1>8. /\ news' \in Seq(NewsItems) /\ news' # <<>>
      /\ news = <<>> => news' = <<[folder |-> stored, picked |-> picked]>>
                        /\ Head(news') = [folder |-> stored, picked |-> picked]
  BY <1>1, <1>7, NewsGrow
<1>9. BindingTypes'
  BY <1>4, <1>5, <1>8 DEF BindingTypes
<1>10. ASSUME ~hurried' PROVE Calm'
  <2>. Calm
    BY <1>5, <1>10
  <2>1. Choosing /\ ~Sending /\ ~Hearing /\ news = <<>>
    BY <1>1 DEF Calm, OneChoice, Choosing
  <2>2. \A p \in Dialogs \ {o} : choices[p].at = "none" /\ choices'[p].at = "none"
    BY <1>1, <1>4 DEF Calm, OneChoice
  <2>3. /\ news' = <<Head(news')>> /\ Head(news').folder = stored
        /\ Head(news').picked = picked
    BY <1>8, <2>1
  <2>4. ~Settled'
    BY <1>2, <1>4, <1>6, <1>8, <2>3 DEF Settled
  <2>5. /\ Sending' = Sending /\ Hearing' = Hearing /\ (\A c : Recorded(c)' = Recorded(c))
        /\ OneSend' /\ OneChat' /\ ChatsAreBound' /\ SendsAreTrue' /\ CurrentIsStored'
    BY <1>5, <2>1, <2>4, ChatsLeftAlone
  <2>6. OneChoice'
    BY <1>2, <1>4, <2>1, <2>2, <2>5 DEF OneChoice
  <2>7. IF choices[o].chat = NoChat THEN stored # NoFolder ELSE stored = Recorded(choices[o].chat)
    BY <1>1 DEF Calm, ChoicesAreTrue
  <2>8. choices[o].chat = NoChat => ~Choosing'
    BY <1>2, <1>4, <2>2 DEF Choosing
  <2>9. OneMessage'
    BY <1>5, <1>6, <2>1, <2>3, <2>5, <2>7, <2>8 DEF OneMessage
  <2>10. ChoicesAreTrue'
    BY <1>1, <1>2, <1>4, <1>5, <2>2, <2>5 DEF Calm, ChoicesAreTrue
  <2>11. DisplayIsTrue'
    BY <1>8 DEF DisplayIsTrue
  <2>. QED
    BY <2>5, <2>6, <2>9, <2>10, <2>11 DEF Calm
<1>. QED
  BY <1>9, <1>10

LEMMA LoadsSnapshotKeepsBindingIInv ==
  ASSUME BindingIInv, NEW o \in Dialogs, LoadsSnapshot(o)
  PROVE  BindingIInv'
<1>. USE DEF BindingIInv
<1>0. PICK c : c = choices[o].chat
  OBVIOUS
<1>1. /\ c \in Chats /\ choices[o].at = "load" /\ choices[o] \in ChoiceRecords
      /\ Recorded(c) \in MaybeFolder
  <2>1. c \in Chats /\ choices[o].at = "load" /\ choices[o] \in ChoiceRecords
    BY <1>0 DEF LoadsSnapshot, BindingTypes
  <2>. QED
    BY <2>1, RecordedIsAFolder DEF BindingTypes
<1>. DEFINE r == [choices[o] EXCEPT !.at = "store", !.folder = Recorded(c)]
<1>2. r \in ChoiceRecords /\ r.at = "store" /\ r.chat = c /\ r.folder = Recorded(c)
  BY <1>0, <1>1 DEF ChoiceRecords, ChoiceStages
<1>3. choices' = [choices EXCEPT ![o] = r]
  BY <1>0 DEF LoadsSnapshot
<1>. HIDE DEF r
<1>4. /\ choices' \in [Dialogs -> ChoiceRecords]
      /\ \A p \in Dialogs : choices'[p].at \in {"load", "select"} => choices'[p].chat \in Chats
      /\ choices'[o] = r /\ \A p \in Dialogs \ {o} : choices'[p] = choices[p]
  BY <1>2, <1>3, MovedChoices
<1>5. /\ bound' \in [Surfaces -> [Chats -> MaybeFolder]]
      /\ \A v \in Surfaces, d \in Chats :
           bound'[v][d] = IF v = Dashboard /\ d = c THEN Recorded(c) ELSE bound[v][d]
  <2>1. bound' = [bound EXCEPT ![Dashboard][c] = Recorded(c)] /\ Dashboard \in Surfaces
    BY <1>0 DEF LoadsSnapshot, Surfaces
  <2>. QED
    BY <1>1, <2>1, BoundChats
<1>6. UNCHANGED <<stored, news, display, current, heard, known, sends, rows, queries, hurried>>
  BY DEF LoadsSnapshot, Follows
<1>7. BindingTypes'
  BY <1>4, <1>5, <1>6 DEF BindingTypes
<1>8. ASSUME ~hurried' PROVE Calm'
  <2>. Calm
    BY <1>6, <1>8
  <2>1. Choosing /\ ~Sending /\ ~Hearing /\ news = <<>>
    BY <1>1 DEF Calm, OneChoice, Choosing
  <2>2. \A p \in Dialogs \ {o} : choices[p].at = "none" /\ choices'[p].at = "none"
    BY <1>1, <1>4 DEF Calm, OneChoice
  <2>3. (\A d : Recorded(d)' = Recorded(d)) /\ (\A d : Homed(d)' = Homed(d))
    BY <1>6, RecordedStays
  <2>4. ~Sending' /\ ~Hearing'
    BY <1>6, <2>1 DEF Sending, Hearing
  <2>5. OneChoice' /\ OneSend' /\ OneMessage' /\ SendsAreTrue'
    BY <1>6, <2>1, <2>2, <2>4 DEF OneChoice, OneSend, OneMessage, SendsAreTrue, Sending
  <2>6. OneChat'
    BY <1>6, <2>1, <2>4 DEF Calm, OneChat
  <2>7. rows[c] # {}
    BY <1>0, <1>1, FolderBounds DEF Calm, ChoicesAreTrue
  <2>8. c # NoChat
    BY <1>1, FolderBounds
  <2>9. ChoicesAreTrue'
    BY <1>2, <1>4, <1>6, <2>2, <2>3, <2>7, <2>8 DEF ChoicesAreTrue
  <2>10. DisplayIsTrue'
    BY <1>1, <1>6, <2>1, <2>2 DEF Calm, DisplayIsTrue
  <2>11. ChatsAreBound'
    <3>1. ASSUME NEW d \in Chats, rows[d] = {}
          PROVE  \A v \in Surfaces : bound'[v][d] = bound[v][d]
      BY <1>5, <2>7, <3>1
    <3>2. Pill \in Surfaces
      BY DEF Surfaces
    <3>3. ASSUME NEW d \in Chats, Homed(d)
          PROVE  \A v \in Surfaces : bound'[v][d] \in {Recorded(d), NoFolder}
      BY <1>5, <3>3 DEF Calm, ChatsAreBound
    <3>. QED
      BY <1>6, <2>3, <3>1, <3>2, <3>3 DEF Calm, ChatsAreBound
  <2>12. CurrentIsStored'
    <3>1. Settled
      BY <1>1, <2>1, <2>2 DEF Settled
    <3>2. \A d \in Chats : rows[d] = {} => bound'[Dashboard][d] = bound[Dashboard][d]
      BY <1>5, <2>7 DEF Surfaces
    <3>3. \A v \in Surfaces : current[v] # NoChat => current[v] \in Chats
      BY DEF BindingTypes, MaybeChat
    <3>. QED
      BY <1>6, <2>3, <3>1, <3>2, <3>3 DEF Calm, CurrentIsStored
  <2>. QED
    BY <2>5, <2>6, <2>9, <2>10, <2>11, <2>12 DEF Calm
<1>. QED
  BY <1>7, <1>8

LEMMA SelectsOpenedKeepsBindingIInv ==
  ASSUME BindingIInv, NEW o \in Dialogs, SelectsOpened(o)
  PROVE  BindingIInv'
<1>. USE DEF BindingIInv
<1>0. PICK c : c = choices[o].chat
  OBVIOUS
<1>1. c \in Chats /\ choices[o].at = "select" /\ c # NoChat /\ news = <<>>
  BY <1>0, FolderBounds DEF SelectsOpened, BindingTypes
<1>2. NoChoice \in ChoiceRecords /\ NoChoice.at = "none"
  BY DEF NoChoice, ChoiceRecords, ChoiceStages, MaybeChat, MaybeFolder
<1>3. choices' = [choices EXCEPT ![o] = NoChoice]
  BY DEF SelectsOpened
<1>4. /\ choices' \in [Dialogs -> ChoiceRecords]
      /\ \A p \in Dialogs : choices'[p].at \in {"load", "select"} => choices'[p].chat \in Chats
      /\ choices'[o] = NoChoice /\ \A p \in Dialogs \ {o} : choices'[p] = choices[p]
  BY <1>2, <1>3, MovedChoices
<1>5. /\ current' = [current EXCEPT ![Dashboard] = c]
      /\ heard' = [heard EXCEPT ![Pill] = c]
      /\ known' = [known EXCEPT ![Dashboard] =
                     IF current[Dashboard] = c THEN @ ELSE @ \ {c}]
      /\ UNCHANGED <<stored, news, display, bound, sends, rows, queries, hurried>>
  BY <1>0 DEF SelectsOpened, Selects, Other, Follows
<1>6. Pill \in Surfaces /\ Dashboard \in Surfaces /\ Pill # Dashboard
      /\ \A v \in Surfaces : v = Pill \/ v = Dashboard
  BY FolderBounds DEF Surfaces
<1>7. /\ current'[Dashboard] = c /\ current'[Pill] = current[Pill]
      /\ heard'[Pill] = c /\ heard'[Dashboard] = heard[Dashboard]
      /\ known'[Pill] = known[Pill]
      /\ \A d \in Chats \ {c} : d \in known'[Dashboard] <=> d \in known[Dashboard]
  BY <1>5, <1>6 DEF BindingTypes
<1>8. BindingTypes'
  BY <1>1, <1>4, <1>5, <1>6 DEF BindingTypes, MaybeChat
<1>9. ASSUME ~hurried' PROVE Calm'
  <2>. Calm
    BY <1>5, <1>9
  <2>1. Choosing /\ ~Sending /\ ~Hearing
    BY <1>1 DEF Calm, OneChoice, Choosing
  <2>2. \A p \in Dialogs : choices'[p].at = "none"
    BY <1>1, <1>2, <1>4 DEF Calm, OneChoice
  <2>3. (\A d : Recorded(d)' = Recorded(d)) /\ (\A d : Homed(d)' = Homed(d))
    BY <1>5, RecordedStays
  <2>4. ~Sending' /\ ~Choosing'
    BY <1>5, <2>1, <2>2 DEF Sending, Choosing
  <2>5. /\ OneChoice' /\ OneSend' /\ OneMessage' /\ SendsAreTrue' /\ ChoicesAreTrue'
    BY <1>1, <1>5, <2>2, <2>4
       DEF OneChoice, OneSend, OneMessage, SendsAreTrue, ChoicesAreTrue, Sending
  <2>6. heard[Dashboard] = NotHeard /\ heard[Pill] = NotHeard
    BY <1>6, <2>1 DEF Hearing
  <2>7. OneChat'
    BY <1>1, <1>6, <1>7, <2>6, FolderBounds DEF OneChat, Hearing, Other
  <2>8. rows[c] # {} /\ stored = Recorded(c)
    BY <1>0, <1>1 DEF Calm, ChoicesAreTrue
  <2>9. DisplayIsTrue'
    BY <1>0, <1>1, <1>4, <1>5, <2>1 DEF Calm, DisplayIsTrue, OneChoice
  <2>10. ChatsAreBound'
    <3>1. ASSUME NEW d \in Chats, rows[d] = {}
          PROVE  (\E v \in Surfaces : bound[v][d] # NoFolder \/ current'[v] = d) =>
                   d \in known'[Dashboard] \union known'[Pill]
      BY <1>6, <1>7, <2>8, <3>1 DEF Calm, ChatsAreBound
    <3>. QED
      BY <1>5, <2>3, <3>1 DEF Calm, ChatsAreBound
  <2>11. CurrentIsStored'
    BY <1>1, <1>5, <1>6, <1>7, <2>3, <2>8, FolderBounds DEF CurrentIsStored
  <2>. QED
    BY <2>5, <2>7, <2>9, <2>10, <2>11 DEF Calm
<1>. QED
  BY <1>8, <1>9

-----------------------------------------------------------------------------
(* The steps of the dashboard and of the program.                          *)

LEMMA CancelsMenuKeepsBindingIInv ==
  ASSUME BindingIInv, CancelsMenu
  PROVE  BindingIInv'
<1>. USE DEF BindingIInv
<1>1. UNCHANGED <<stored, choices, display, current, heard, bound, known, sends, rows, queries>>
  BY DEF CancelsMenu
<1>. DEFINE no == FALSE
<1>2. no \in BOOLEAN /\ ~no /\ NoFolder \in MaybeFolder
  BY DEF MaybeFolder
<1>3. news' = Append(news, [folder |-> NoFolder, picked |-> no])
  BY DEF CancelsMenu
<1>. HIDE DEF no
<1>4. /\ news' \in Seq(NewsItems) /\ news' # <<>>
      /\ news = <<>> => news' = <<[folder |-> NoFolder, picked |-> no]>>
                        /\ Head(news') = [folder |-> NoFolder, picked |-> no]
  BY <1>2, <1>3, NewsGrow
<1>5. BindingTypes'
  BY <1>1, <1>4 DEF CancelsMenu, Acts, BindingTypes
<1>6. ASSUME ~hurried' PROVE Calm'
  <2>1. ~hurried /\ Resting
    BY <1>6, CalmActsStartAtRest DEF CancelsMenu, BindingTypes
  <2>. Calm
    BY <2>1
  <2>2. ~Choosing /\ ~Sending /\ ~Hearing /\ news = <<>>
    BY <2>1, AtRest
  <2>3. /\ news' = <<Head(news')>> /\ Head(news').folder = NoFolder /\ ~Head(news').picked
    BY <1>2, <1>4, <2>2
  <2>4. Settled
    BY <2>2 DEF Settled, Choosing
  <2>5. /\ Sending' = Sending /\ Hearing' = Hearing /\ (\A c : Recorded(c)' = Recorded(c))
        /\ OneSend' /\ OneChat' /\ ChatsAreBound' /\ SendsAreTrue' /\ CurrentIsStored'
    BY <1>1, <2>2, <2>4, ChatsLeftAlone
  <2>6. OneChoice' /\ ChoicesAreTrue'
    BY <1>1, <2>2 DEF OneChoice, ChoicesAreTrue, Choosing
  <2>7. OneMessage'
    BY <2>2, <2>3, <2>5 DEF OneMessage
  <2>8. DisplayIsTrue'
    BY <1>4 DEF DisplayIsTrue
  <2>. QED
    BY <2>5, <2>6, <2>7, <2>8 DEF Calm
<1>. QED
  BY <1>5, <1>6

LEMMA NewChatsAreCalm ==
  ASSUME Calm, BindingTypes, ~Choosing, ~Sending, ~Hearing, news' = <<>>,
         NEW f \in {stored, NoFolder}, NewChat(f),
         UNCHANGED <<stored, choices, sends, rows, queries>>
  PROVE  /\ OneChoice' /\ OneSend' /\ OneMessage' /\ OneChat' /\ ChoicesAreTrue'
         /\ ChatsAreBound' /\ CurrentIsStored' /\ SendsAreTrue'
<1>0. PICK c \in Unused : /\ Selects(Dashboard, c)
                          /\ bound' = [bound EXCEPT ![Dashboard][c] = f]
                          /\ known' = [known EXCEPT ![Dashboard] = @ \union {c}]
  BY DEF NewChat
<1>1. /\ c \in Chats /\ rows[c] = {} /\ c # NoChat /\ c # NotHeard /\ f \in MaybeFolder
  BY <1>0, FolderBounds DEF Unused, MaybeFolder, BindingTypes
<1>2. Pill \in Surfaces /\ Dashboard \in Surfaces /\ Pill # Dashboard
      /\ \A v \in Surfaces : v = Pill \/ v = Dashboard
  BY FolderBounds DEF Surfaces
<1>3. /\ current'[Dashboard] = c /\ current'[Pill] = current[Pill]
      /\ heard'[Pill] = c /\ heard'[Dashboard] = heard[Dashboard]
      /\ known'[Pill] = known[Pill] /\ known'[Dashboard] = known[Dashboard] \union {c}
  BY <1>0, <1>2 DEF BindingTypes, Selects, Other
<1>4. \A v \in Surfaces, d \in Chats :
        bound'[v][d] = IF v = Dashboard /\ d = c THEN f ELSE bound[v][d]
  BY <1>0, <1>1, <1>2, BoundChats
<1>5. (\A d : Recorded(d)' = Recorded(d)) /\ (\A d : Homed(d)' = Homed(d))
  BY RecordedStays
<1>6. ~Sending' /\ ~Choosing'
  BY DEF Sending, Choosing
<1>7. OneChoice' /\ OneSend' /\ OneMessage' /\ ChoicesAreTrue' /\ SendsAreTrue'
  BY <1>6 DEF OneChoice, OneSend, OneMessage, ChoicesAreTrue, SendsAreTrue, Choosing, Sending
<1>8. heard[Dashboard] = NotHeard /\ heard[Pill] = NotHeard
  BY <1>2 DEF Hearing
<1>9. OneChat'
  BY <1>1, <1>2, <1>3, <1>8, FolderBounds DEF OneChat, Hearing, Other
<1>10. ChatsAreBound'
  <2>1. ASSUME NEW d \in Chats, rows[d] = {}
        PROVE  /\ bound'[Pill][d] = NoFolder
               /\ (\E v \in Surfaces : bound'[v][d] # NoFolder \/ current'[v] = d) =>
                    d \in known'[Dashboard] \union known'[Pill]
    BY <1>2, <1>3, <1>4, <2>1 DEF Calm, ChatsAreBound, Sending
  <2>2. ASSUME NEW d \in Chats, Homed(d)
        PROVE  \A v \in Surfaces : bound'[v][d] = bound[v][d]
    BY <1>1, <1>4, <2>2 DEF Homed
  <2>. QED
    BY <1>5, <2>1, <2>2 DEF Calm, ChatsAreBound
<1>11. CurrentIsStored'
  <2>1. ASSUME NEW v \in Surfaces, heard'[v] = NotHeard PROVE v = Dashboard
    BY <1>1, <1>2, <1>3, <2>1
  <2>2. bound'[Dashboard][c] \in {NoFolder, stored}
    BY <1>1, <1>2, <1>4
  <2>. QED
    BY <1>1, <1>3, <1>5, <2>1, <2>2 DEF CurrentIsStored, Homed
<1>. QED
  BY <1>7, <1>9, <1>10, <1>11

LEMMA TakesNewsKeepsBindingIInv ==
  ASSUME BindingIInv, TakesNews
  PROVE  BindingIInv'
<1>. USE DEF BindingIInv
<1>0. PICK n : n = Head(news)
  OBVIOUS
<1>1. n \in NewsItems /\ n.folder \in MaybeFolder /\ Tail(news) \in Seq(NewsItems)
      /\ news # <<>> /\ news' = Tail(news)
  <2>1. news \in Seq(NewsItems) /\ news # <<>> /\ news' = Tail(news)
    BY DEF TakesNews, BindingTypes
  <2>2. Head(news) \in NewsItems /\ Tail(news) \in Seq(NewsItems)
    BY <2>1, TakingNews
  <2>. QED
    BY <1>0, <2>1, <2>2 DEF NewsItems
<1>2. /\ display'.folder = n.folder
      /\ display' \in [folder : MaybeFolder, asked : BOOLEAN, valid : BOOLEAN]
      /\ UNCHANGED <<stored, choices, sends, rows, queries, hurried>>
  BY <1>0, <1>1 DEF TakesNews, Follows, BindingTypes
<1>3. \/ UNCHANGED <<current, heard, bound, known>>
      \/ n.picked /\ NewChat(n.folder)
  BY <1>0 DEF TakesNews, FolderChosen
<1>4. \/ ~n.picked
      \/ NewChat(n.folder)
      \/ current[Dashboard] # NoChat /\ bound[Dashboard][current[Dashboard]] = n.folder
  BY <1>0 DEF TakesNews, FolderChosen
<1>5. /\ current' \in [Surfaces -> MaybeChat]
      /\ heard' \in [Surfaces -> Chats \union {NotHeard}]
      /\ bound' \in [Surfaces -> [Chats -> MaybeFolder]]
      /\ known' \in [Surfaces -> SUBSET Chats]
  BY <1>1, <1>3, NewChatsAreTyped DEF BindingTypes
<1>6. BindingTypes'
  BY <1>1, <1>2, <1>5 DEF BindingTypes
<1>7. ASSUME ~hurried' PROVE Calm'
  <2>. Calm
    BY <1>2, <1>7
  <2>1. news = <<n>> /\ n.folder \in {stored, NoFolder} /\ ~Sending /\ ~Hearing
        /\ (n.picked => n.folder = stored /\ stored # NoFolder /\ ~Choosing)
    BY <1>0, <1>1 DEF Calm, OneMessage
  <2>2. news' = <<>>
    BY <1>1, <2>1
  <2>3. DisplayIsTrue'
    BY <1>2, <2>1 DEF DisplayIsTrue
  <2>4. CASE n.picked /\ NewChat(n.folder)
    <3>1. /\ OneChoice' /\ OneSend' /\ OneMessage' /\ OneChat' /\ ChoicesAreTrue'
          /\ ChatsAreBound' /\ CurrentIsStored' /\ SendsAreTrue'
      BY <1>2, <2>1, <2>2, <2>4, NewChatsAreCalm
    <3>. QED
      BY <2>3, <3>1 DEF Calm
  <2>5. CASE UNCHANGED <<current, heard, bound, known>>
    <3>1. /\ Sending' = Sending /\ Hearing' = Hearing /\ (\A c : Recorded(c)' = Recorded(c))
          /\ (\A c : Homed(c)' = Homed(c))
          /\ OneSend' /\ OneChat' /\ ChatsAreBound' /\ SendsAreTrue'
          /\ (Settled' => Settled) => CurrentIsStored'
      BY <1>2, <2>1, <2>5, ChatsLeftAlone
    <3>2. OneChoice' /\ OneMessage' /\ ChoicesAreTrue'
      BY <1>2, <2>2, <3>1 DEF Calm, OneChoice, OneMessage, ChoicesAreTrue, Choosing
    <3>3. CurrentIsStored'
      <4>1. CASE ~n.picked
        BY <1>0, <1>2, <3>1, <4>1 DEF Settled
      <4>2. CASE n.picked /\ ~NewChat(n.folder)
        <5>1. current[Dashboard] # NoChat /\ bound[Dashboard][current[Dashboard]] = stored
              /\ current[Dashboard] \in Chats
          BY <1>4, <2>1, <4>2 DEF BindingTypes, MaybeChat, Surfaces
        <5>2. \A v \in Surfaces : current[v] = current[Dashboard]
          BY <2>1 DEF Calm, OneChat, Surfaces
        <5>3. Homed(current[Dashboard]) => stored = Recorded(current[Dashboard])
          BY <2>1, <4>2, <5>1 DEF Calm, ChatsAreBound, Surfaces
        <5>. QED
          BY <1>2, <2>5, <3>1, <5>1, <5>2, <5>3 DEF CurrentIsStored
      <4>. QED
        BY <2>4, <4>1, <4>2 DEF Calm
    <3>. QED
      BY <2>3, <3>1, <3>2, <3>3 DEF Calm
  <2>. QED
    BY <1>3, <2>4, <2>5
<1>. QED
  BY <1>6, <1>7

LEMMA PressesNewChatKeepsBindingIInv ==
  ASSUME BindingIInv, PressesNewChat
  PROVE  BindingIInv'
<1>. USE DEF BindingIInv
<1>1. PICK f \in MaybeFolder : f = display.folder
  BY DEF BindingTypes
<1>2. NewChat(f) /\ UNCHANGED <<stored, choices, news, display, sends, rows, queries>>
  BY <1>1 DEF PressesNewChat
<1>3. BindingTypes'
  BY <1>2, NewChatsAreTyped DEF PressesNewChat, Acts, BindingTypes
<1>4. ASSUME ~hurried' PROVE Calm'
  <2>1. ~hurried /\ Resting
    BY <1>4, CalmActsStartAtRest DEF PressesNewChat, BindingTypes
  <2>. Calm
    BY <2>1
  <2>2. ~Choosing /\ ~Sending /\ ~Hearing /\ news = <<>>
    BY <2>1, AtRest
  <2>3. f \in {stored, NoFolder}
    BY <1>1, <2>2 DEF Calm, DisplayIsTrue, Choosing
  <2>4. /\ OneChoice' /\ OneSend' /\ OneMessage' /\ OneChat' /\ ChoicesAreTrue'
        /\ ChatsAreBound' /\ CurrentIsStored' /\ SendsAreTrue'
    BY <1>2, <2>2, <2>3, NewChatsAreCalm
  <2>5. DisplayIsTrue'
    BY <1>1, <1>2, <2>3 DEF DisplayIsTrue
  <2>. QED
    BY <2>4, <2>5 DEF Calm
<1>. QED
  BY <1>3, <1>4

LEMMA RefreshKeepsBindingIInv ==
  ASSUME BindingIInv, Refreshes \/ Refreshed
  PROVE  BindingIInv'
<1>. USE DEF BindingIInv
<1>1. UNCHANGED <<stored, choices, news, current, heard, bound, known, sends, rows, queries, hurried>>
  BY DEF Refreshes, Refreshed
<1>2. /\ display' \in [folder : MaybeFolder, asked : BOOLEAN, valid : BOOLEAN]
      /\ display'.folder = display.folder \/ (news = <<>> /\ display'.folder = stored)
  <2>1. stored \in MaybeFolder /\ display \in [folder : MaybeFolder, asked : BOOLEAN, valid : BOOLEAN]
    BY DEF BindingTypes
  <2>2. CASE Refreshes
    BY <2>1, <2>2 DEF Refreshes
  <2>3. CASE Refreshed
    <3>1. CASE display.valid
      BY <2>1, <2>3, <3>1 DEF Refreshed
    <3>2. CASE ~display.valid
      BY <2>1, <2>3, <3>2 DEF Refreshed
    <3>. QED
      BY <3>1, <3>2
  <2>. QED
    BY <2>2, <2>3
<1>3. BindingTypes'
  BY <1>1, <1>2 DEF BindingTypes
<1>4. ASSUME ~hurried' PROVE Calm'
  <2>. Calm
    BY <1>1, <1>4
  <2>1. /\ Sending' = Sending /\ Hearing' = Hearing /\ (\A c : Recorded(c)' = Recorded(c))
        /\ OneSend' /\ OneChat' /\ ChatsAreBound' /\ SendsAreTrue'
        /\ (Settled' => Settled) => CurrentIsStored'
    BY <1>1, ChatsLeftAlone
  <2>2. Settled' = Settled /\ Choosing' = Choosing
    BY <1>1 DEF Settled, Choosing
  <2>3. OneChoice' /\ OneMessage' /\ ChoicesAreTrue'
    BY <1>1, <2>1, <2>2 DEF Calm, OneChoice, OneMessage, ChoicesAreTrue
  <2>4. DisplayIsTrue'
    BY <1>1, <1>2 DEF Calm, DisplayIsTrue
  <2>. QED
    BY <2>1, <2>2, <2>3, <2>4 DEF Calm
<1>. QED
  BY <1>3, <1>4

LEMMA RestartsKeepsBindingIInv ==
  ASSUME BindingIInv, Restarts
  PROVE  BindingIInv'
<1>. USE DEF BindingIInv
<1>1. /\ \A w \in Surfaces : current'[w] = NoChat /\ known'[w] = {}
      /\ \A w \in Surfaces, c \in Chats : bound'[w][c] = NoFolder
      /\ UNCHANGED <<stored, choices, news, heard, sends, rows, queries>>
      /\ Resting /\ Acts
  BY DEF Restarts
<1>2. BindingTypes'
  <2>1. bound' \in [Surfaces -> [Chats -> MaybeFolder]]
    BY DEF Restarts, MaybeFolder
  <2>2. /\ current' \in [Surfaces -> MaybeChat] /\ known' \in [Surfaces -> SUBSET Chats]
        /\ display' \in [folder : MaybeFolder, asked : BOOLEAN, valid : BOOLEAN]
    BY DEF Restarts, MaybeChat, BindingTypes
  <2>. QED
    BY <1>1, <2>1, <2>2 DEF BindingTypes, Acts
<1>3. ASSUME ~hurried' PROVE Calm'
  <2>. Calm
    BY <1>1, <1>3, CalmActsStartAtRest DEF BindingTypes
  <2>1. ~Choosing /\ ~Sending /\ ~Hearing /\ news = <<>>
    BY <1>1, AtRest
  <2>2. ~Choosing' /\ ~Sending' /\ ~Hearing' /\ news' = <<>>
    BY <1>1, <2>1 DEF Choosing, Sending, Hearing
  <2>3. (\A c : Recorded(c)' = Recorded(c)) /\ (\A c : Homed(c)' = Homed(c))
    BY <1>1, RecordedStays
  <2>4. /\ OneChoice' /\ OneSend' /\ OneMessage' /\ ChoicesAreTrue' /\ SendsAreTrue'
    BY <2>2 DEF OneChoice, OneSend, OneMessage, ChoicesAreTrue, SendsAreTrue, Choosing, Sending
  <2>5. OneChat' /\ CurrentIsStored'
    BY <1>1, <2>2 DEF OneChat, CurrentIsStored, Hearing, Surfaces
  <2>6. ChatsAreBound'
    <3>1. ASSUME NEW c \in Chats, Homed(c)
          PROVE  rows[c] = {Recorded(c)} /\ queries[c] \subseteq {Recorded(c)}
      BY <3>1 DEF Calm, ChatsAreBound
    <3>2. ASSUME NEW c \in Chats, rows[c] = {}
          PROVE  queries[c] = {}
      BY <3>2 DEF Calm, ChatsAreBound
    <3>3. ASSUME NEW c \in Chats, NEW w \in Surfaces PROVE bound'[w][c] = NoFolder /\ current'[w] # c
      BY <1>1, FolderBounds
    <3>4. Pill \in Surfaces
      BY DEF Surfaces
    <3>. QED
      BY <1>1, <2>3, <3>1, <3>2, <3>3, <3>4 DEF ChatsAreBound
  <2>7. DisplayIsTrue'
    BY <1>1 DEF DisplayIsTrue, Restarts, BindingTypes
  <2>. QED
    BY <2>4, <2>5, <2>6, <2>7 DEF Calm
<1>. QED
  BY <1>2, <1>3

-----------------------------------------------------------------------------
LEMMA BindingStartsTrue ==
  BindingInit => BindingIInv
<1>. SUFFICES ASSUME BindingInit PROVE BindingIInv
  OBVIOUS
<1>1. NoChoice \in ChoiceRecords /\ NoChoice.at = "none" /\ NoSend \in SendRecords /\ NoSend.at = "none"
  BY DEF NoChoice, NoSend, ChoiceRecords, SendRecords, ChoiceStages, SendStages, MaybeChat, MaybeFolder
<1>2. bound \in [Surfaces -> [Chats -> MaybeFolder]]
  BY DEF BindingInit, MaybeFolder
<1>3. /\ choices \in [Dialogs -> ChoiceRecords] /\ \A o \in Dialogs : choices[o].at = "none"
      /\ sends \in [Surfaces -> SendRecords] /\ \A w \in Surfaces : sends[w].at = "none"
  BY <1>1 DEF BindingInit
<1>4. /\ current \in [Surfaces -> MaybeChat] /\ heard \in [Surfaces -> Chats \union {NotHeard}]
      /\ known \in [Surfaces -> SUBSET Chats]
      /\ rows \in [Chats -> SUBSET MaybeFolder] /\ queries \in [Chats -> SUBSET MaybeFolder]
  BY DEF BindingInit, MaybeChat
<1>5. stored \in MaybeFolder /\ news = <<>> /\ ~hurried /\ hurried \in BOOLEAN
      /\ display \in [folder : MaybeFolder, asked : BOOLEAN, valid : BOOLEAN]
      /\ display.folder = NoFolder
  BY DEF BindingInit, MaybeFolder
<1>6. news \in Seq(NewsItems)
  BY <1>5
<1>7. BindingTypes
  BY <1>2, <1>3, <1>4, <1>5, <1>6 DEF BindingTypes
<1>8. /\ \A c \in Chats : rows[c] = {} /\ queries[c] = {}
      /\ \A w \in Surfaces : current[w] = NoChat /\ heard[w] = NotHeard
      /\ \A w \in Surfaces, c \in Chats : bound[w][c] = NoFolder
  BY DEF BindingInit
<1>9. ~Choosing /\ ~Sending /\ ~Hearing
  BY <1>3, <1>8 DEF Choosing, Sending, Hearing
<1>10. /\ OneChoice /\ OneSend /\ OneMessage /\ OneChat /\ ChoicesAreTrue
       /\ DisplayIsTrue /\ CurrentIsStored /\ SendsAreTrue
  BY <1>3, <1>5, <1>8, <1>9
     DEF OneChoice, OneSend, OneMessage, OneChat, ChoicesAreTrue, DisplayIsTrue,
         CurrentIsStored, SendsAreTrue, Surfaces
<1>11. ChatsAreBound
  BY <1>8, FolderBounds DEF ChatsAreBound, Homed, Surfaces
<1>. QED
  BY <1>7, <1>10, <1>11 DEF BindingIInv, Calm

LEMMA StepsKeepBindingIInv ==
  BindingIInv /\ [BindingNext]_bindingVars => BindingIInv'
<1>. SUFFICES ASSUME BindingIInv, [BindingNext]_bindingVars PROVE BindingIInv'
  OBVIOUS
<1>1. ASSUME NEW w \in Surfaces, Hears(w) \/ Sends(w) \/ Binds(w) \/ Ensures(w) \/ Queries(w)
      PROVE  BindingIInv'
  BY <1>1, HearsKeepsBindingIInv, SendsKeepsBindingIInv, BindsKeepsBindingIInv,
     EnsuresKeepsBindingIInv, QueriesKeepsBindingIInv
<1>2. ASSUME NEW o \in Dialogs, Stores(o) \/ Announces(o) \/ LoadsSnapshot(o) \/ SelectsOpened(o)
      PROVE  BindingIInv'
  BY <1>2, StoresKeepsBindingIInv, AnnouncesKeepsBindingIInv, LoadsSnapshotKeepsBindingIInv,
     SelectsOpenedKeepsBindingIInv
<1>3. ASSUME NEW o \in Dialogs, NEW f \in Folders, Picks(o, f) PROVE BindingIInv'
  BY <1>3, PicksKeepsBindingIInv
<1>4. ASSUME NEW o \in Dialogs, NEW c \in Chats, Opens(o, c) PROVE BindingIInv'
  BY <1>4, OpensKeepsBindingIInv
<1>5. ASSUME CancelsMenu \/ TakesNews \/ Refreshes \/ Refreshed \/ PressesNewChat \/ Restarts
      PROVE  BindingIInv'
  BY <1>5, CancelsMenuKeepsBindingIInv, TakesNewsKeepsBindingIInv, RefreshKeepsBindingIInv,
     PressesNewChatKeepsBindingIInv, RestartsKeepsBindingIInv
<1>6. CASE UNCHANGED bindingVars
  <2>1. UNCHANGED <<stored, choices, news, display, current, heard, bound, known, sends, rows,
                    queries, hurried>>
    BY <1>6 DEF bindingVars
  <2>2. BindingTypes' = BindingTypes
    BY <2>1 DEF BindingTypes
  <2>3. Choosing' = Choosing /\ Sending' = Sending /\ Hearing' = Hearing /\ Settled' = Settled
        /\ (\A c : Recorded(c)' = Recorded(c)) /\ (\A c : Homed(c)' = Homed(c))
    BY <2>1, RecordedStays DEF Choosing, Sending, Hearing, Settled
  <2>4. /\ OneChoice' = OneChoice /\ OneSend' = OneSend /\ OneMessage' = OneMessage
        /\ OneChat' = OneChat /\ ChoicesAreTrue' = ChoicesAreTrue /\ SendsAreTrue' = SendsAreTrue
        /\ DisplayIsTrue' = DisplayIsTrue /\ ChatsAreBound' = ChatsAreBound
        /\ CurrentIsStored' = CurrentIsStored
    BY <2>1, <2>3
       DEF OneChoice, OneSend, OneMessage, OneChat, ChoicesAreTrue, SendsAreTrue, DisplayIsTrue,
           ChatsAreBound, CurrentIsStored
  <2>. QED
    BY <2>1, <2>2, <2>4 DEF BindingIInv, Calm
<1>. QED
  BY <1>1, <1>2, <1>3, <1>4, <1>5, <1>6 DEF BindingNext

(* In each state of the chats: a chat whose rows record folders, all of    *)
(* them the same one, has been asked about with no other.                  *)
LEMMA CalmChatsKeepTheirFolder ==
  BindingIInv => RecordedFoldersStay
BY DEF BindingIInv, Calm, ChatsAreBound, RecordedFoldersStay, Homed

(* A chat whose rows record folders keeps one folder, in its rows and in   *)
(* its queries, while the user lets each act come to its end before the    *)
(* next (useChatMessageSender.ts, useDashboardConversations.js,            *)
(* ChatInterface.jsx), for any chats, folders and overlapping dialogs.     *)
THEOREM RecordedFoldersStayHolds ==
  BindingSpec => []RecordedFoldersStay
<1>1. BindingInit => BindingIInv
  BY BindingStartsTrue
<1>2. BindingIInv /\ [BindingNext]_bindingVars => BindingIInv'
  BY StepsKeepBindingIInv
<1>3. BindingIInv => RecordedFoldersStay
  BY CalmChatsKeepTheirFolder
<1>. QED
  BY <1>1, <1>2, <1>3, PTL DEF BindingSpec

-----------------------------------------------------------------------------
(* The stop shortcut.                                                      *)

Saves == [kind : {"save"}, shortcut : Accelerators]
ReportRecords == [status : Statuses]

Window(w) ==
  /\ w = [shortcut |-> w.shortcut, status |-> w.status]
  /\ w.shortcut \in Accelerators

ShortcutTypes ==
  /\ runtime \in Runtimes /\ runtime.report = NoStatus
  /\ others \subseteq Accelerators
  /\ told \in Statuses
  /\ latest \in Accelerators \union {NoKey} /\ disk \in Accelerators
  /\ writes \in Seq(Accelerators)
  /\ Window(window)

(* What is registered is what the status says, and is nobody else's; it is *)
(* the requested shortcut, or a fallback, or a failure is reported.        *)
Registered(r) ==
  /\ r.held \notin others
  /\ ~r.enabled => r.held = NoKey
  /\ r.enabled => IF r.failed THEN r.held = NoKey ELSE r.held = r.resolved

(* Main knows the status of the runtime, and the window will when all      *)
(* reports have arrived.                                                   *)
StatusIsKnown ==
  /\ runtime.last = StatusOf(runtime) /\ told = runtime.last
  /\ toWindow = << >> => window.status = told

(* The last save on its way names the shortcut the window shows, else main *)
(* asks for it; and a fallback that was heard is answered by a save.       *)
Settling ==
  /\ asked \in Seq(Saves) /\ toWindow \in Seq(ReportRecords)
  /\ toWindow # << >> => Last(toWindow).status = told
  /\ window.shortcut = IF asked = << >> THEN runtime.requested ELSE Last(asked).shortcut
  /\ toWindow = << >> /\ UsingFallback(told) =>
       \E i \in 1 .. Len(asked) : asked[i].shortcut = told.resolved

Unforced(s) == s.resolved = s.requested /\ ~s.failed

(* The start, before main has been asked for the config, and after.        *)
Asking ==
  /\ asked = <<[kind |-> "load", shortcut |-> window.shortcut]>>
  /\ toWindow \in {<< >>, <<[status |-> told]>>}

Answering ==
  /\ asked = << >>
  /\ toWindow \in Seq(ReportRecords \union [config : Accelerators]) /\ toWindow # << >>
  /\ Last(toWindow) = [config |-> runtime.requested]
  /\ \A i \in 1 .. Len(toWindow) - 1 :
       toWindow[i] \in ReportRecords /\ Unforced(toWindow[i].status)
  /\ IF Len(toWindow) = 1 THEN window.status = told
     ELSE toWindow[Len(toWindow) - 1].status = told

Starting == ~runtime.enabled /\ Unforced(told) /\ (Asking \/ Answering)

ShortcutIInv ==
  /\ ShortcutTypes
  /\ Registered(runtime)
  /\ StatusIsKnown
  /\ Settling \/ Starting

-----------------------------------------------------------------------------
(* The runtime.                                                            *)

(* The status a runtime would report; all of it.                           *)
Told(r) == r.last = StatusOf(r) /\ r.report \in {NoStatus, StatusOf(r)}

LEMMA StatusType ==
  ASSUME NEW r \in Runtimes
  PROVE  StatusOf(r) \in Statuses
BY DEF Runtimes, Statuses, StatusOf

(* A shortcut is free: the one that is registered in its stead is.         *)
LEMMA CandidateIsFree ==
  ASSUME NEW r \in Runtimes, Free # {}
  PROVE  Candidate(r) \in Free
<1>1. CASE r.requested \in Free
  BY <1>1 DEF Candidate
<1>2. CASE r.requested \notin Free
  <2> DEFINE S == {i \in DOMAIN Catalog : Catalog[i] \in Free}
  <2>1. DOMAIN Catalog = 1 .. Len(Catalog) /\ Len(Catalog) \in Nat
    BY ShortcutAssumption, LenProperties
  <2>2. S \subseteq Nat
    BY <2>1
  <2>3. PICK a \in Accelerators : a \in Free
    BY DEF Free
  <2>4. PICK i \in DOMAIN Catalog : Catalog[i] = a
    BY <2>3 DEF Accelerators, Range
  <2>5. i \in S
    BY <2>3, <2>4
  <2>6. PICK x \in S : \A y \in S : <<y, x>> \notin OpToRel(<, Nat)
    <3> HIDE DEF S
    <3> QED BY <2>2, <2>5, NatLessThanWellFounded, WFMin
  <2>7. \A y \in S : x <= y
    <3>1. \A y \in S : ~(y < x)
      <4> HIDE DEF S
      <4> QED BY <2>2, <2>6 DEF OpToRel
    <3> HIDE DEF S
    <3> QED BY <2>2, <3>1
  <2>8. Min(S) \in S
    <3> HIDE DEF S
    <3> QED BY <2>7 DEF Min
  <2>9. Candidate(r) = Catalog[Min(S)]
    BY <1>2 DEF Candidate
  <2> QED BY <2>8, <2>9
<1> QED BY <1>1, <1>2

LEMMA EmitDoes ==
  ASSUME NEW r \in Runtimes, r.last \in Statuses
  PROVE  /\ Emit(r) \in Runtimes
         /\ Emit(r).enabled = r.enabled /\ Emit(r).held = r.held
         /\ Emit(r).requested = r.requested /\ Emit(r).resolved = r.resolved
         /\ Emit(r).failed = r.failed
         /\ Emit(r).last = StatusOf(r)
         /\ Emit(r).report = IF StatusOf(r) = r.last THEN r.report ELSE StatusOf(r)
         /\ StatusOf(Emit(r)) = StatusOf(r)
<1>1. StatusOf(r) \in Statuses
  BY StatusType
<1> QED BY <1>1 DEF Emit, Runtimes, StatusOf

LEMMA UnregisterDoes ==
  ASSUME NEW r \in Runtimes, Told(r), r.report = NoStatus
  PROVE  /\ Unregister(r) \in Runtimes
         /\ Unregister(r).enabled = r.enabled /\ Unregister(r).held = NoKey
         /\ Unregister(r).requested = r.requested /\ Unregister(r).resolved = r.resolved
         /\ Unregister(r).failed = r.failed
         /\ Unregister(r).last = r.last /\ Unregister(r).report = NoStatus
         /\ StatusOf(Unregister(r)) = StatusOf(r)
<1> DEFINE q == [r EXCEPT !.held = NoKey]
<1>1. /\ q \in Runtimes /\ StatusOf(q) = StatusOf(r) /\ q.last = r.last
      /\ q.enabled = r.enabled /\ q.held = NoKey /\ q.requested = r.requested
      /\ q.resolved = r.resolved /\ q.failed = r.failed /\ q.report = r.report
  BY DEF Runtimes, StatusOf
<1>2. q.last \in Statuses
  BY <1>1, StatusType DEF Told
<1>3. Unregister(r) = Emit(q)
  BY DEF Unregister
<1> HIDE DEF q
<1> QED BY <1>1, <1>2, <1>3, EmitDoes DEF Told

(* A report that changes nothing is not made.                              *)
LEMMA EmitTells ==
  ASSUME NEW r \in Runtimes, r.last \in Statuses, r.report = NoStatus
  PROVE  /\ Told(Emit(r))
         /\ Emit(r).report = NoStatus => StatusOf(Emit(r)) = r.last
<1>1. StatusOf(r) \in Statuses /\ StatusOf(r) # NoStatus
  BY StatusType, ShortcutAssumption
<1>2. /\ Emit(r).last = StatusOf(r) /\ StatusOf(Emit(r)) = StatusOf(r)
      /\ Emit(r).report = IF StatusOf(r) = r.last THEN NoStatus ELSE StatusOf(r)
  BY EmitDoes
<1> QED BY <1>1, <1>2 DEF Told

(* Registering: the requested shortcut, another that is free, or none.     *)
LEMMA EnsureRegisteredDoes ==
  ASSUME ShortcutAssumption, NEW r \in Runtimes, r.last \in Statuses, r.report = NoStatus,
         others \subseteq Accelerators, r.held # NoKey => Told(r), r.enabled,
         r.held = NoKey \/ Registered(r)
  PROVE  LET q == EnsureRegistered(r)
         IN  /\ q \in Runtimes /\ Told(q) /\ Registered(q)
             /\ q.enabled = r.enabled /\ q.requested = r.requested
             /\ q.report = NoStatus => StatusOf(q) = r.last
             /\ Free # {} /\ r.held = NoKey => q.held # NoKey
<1> DEFINE tries == [r EXCEPT !.tripped = @ \/ r.requested \in others]
           none == [tries EXCEPT !.resolved = r.requested, !.failed = TRUE]
           one == [tries EXCEPT !.held = Candidate(r), !.resolved = Candidate(r),
                                !.failed = FALSE]
<1>1. CASE r.held # NoKey
  <2>1. EnsureRegistered(r) = r
    BY <1>1 DEF EnsureRegistered
  <2> QED BY <1>1, <2>1 DEF Told
<1>2. CASE r.held = NoKey /\ Free = {}
  <2>1. EnsureRegistered(r) = Emit(none)
    BY <1>2 DEF EnsureRegistered
  <2>2. /\ none \in Runtimes /\ none.last = r.last /\ none.report = NoStatus
        /\ none.enabled = r.enabled /\ none.requested = r.requested /\ none.held = NoKey
        /\ none.failed
    BY <1>2 DEF Runtimes
  <2> HIDE DEF none
  <2>3. /\ Emit(none) \in Runtimes /\ Told(Emit(none)) /\ Emit(none).enabled = r.enabled
        /\ Emit(none).held = NoKey /\ Emit(none).failed
        /\ Emit(none).requested = r.requested
        /\ Emit(none).report = NoStatus => StatusOf(Emit(none)) = r.last
    BY <2>2, EmitDoes, EmitTells
  <2>4. Registered(Emit(none))
    BY <2>3, ShortcutAssumption DEF Registered
  <2> QED BY <1>2, <2>1, <2>3, <2>4
<1>3. CASE r.held = NoKey /\ Free # {}
  <2>1. EnsureRegistered(r) = Emit(one)
    BY <1>3 DEF EnsureRegistered
  <2>2. Candidate(r) \in Accelerators /\ Candidate(r) \notin others
    BY <1>3, CandidateIsFree DEF Free
  <2>3. /\ one \in Runtimes /\ one.last = r.last /\ one.report = NoStatus
        /\ one.enabled = r.enabled /\ one.requested = r.requested
        /\ one.held = Candidate(r) /\ one.resolved = Candidate(r) /\ ~one.failed
    BY <2>2 DEF Runtimes
  <2> HIDE DEF one
  <2>4. /\ Emit(one) \in Runtimes /\ Told(Emit(one)) /\ Emit(one).enabled = r.enabled
        /\ Emit(one).held = Candidate(r) /\ Emit(one).resolved = Candidate(r)
        /\ ~Emit(one).failed /\ Emit(one).requested = r.requested
        /\ Emit(one).report = NoStatus => StatusOf(Emit(one)) = r.last
    BY <2>3, EmitDoes, EmitTells
  <2>5. Registered(Emit(one))
    BY <2>2, <2>4 DEF Registered
  <2> QED BY <1>3, <2>1, <2>2, <2>4, <2>5, ShortcutAssumption
<1> QED BY <1>1, <1>2, <1>3

LEMMA SetEnabledDoes ==
  ASSUME NEW r \in Runtimes, Told(r), r.report = NoStatus, Registered(r),
         others \subseteq Accelerators, NEW on \in BOOLEAN, on = ~r.enabled
  PROVE  LET q == SetEnabled(r, on)
         IN  /\ q \in Runtimes /\ Told(q) /\ Registered(q)
             /\ q.enabled = on /\ q.requested = r.requested
             /\ q.report = NoStatus => StatusOf(q) = r.last
<1>0. r.last = StatusOf(r) /\ r.last \in Statuses
  BY StatusType DEF Told
<1>1. CASE on
  <2> DEFINE s == [r EXCEPT !.enabled = TRUE]
  <2>1. /\ s \in Runtimes /\ s.last = r.last /\ s.report = NoStatus /\ s.enabled
        /\ s.requested = r.requested /\ s.held = NoKey
    BY <1>1 DEF Runtimes, Registered
  <2>2. SetEnabled(r, on) = EnsureRegistered(s)
    BY <1>1 DEF SetEnabled
  <2> HIDE DEF s
  <2> QED BY <1>0, <1>1, <2>1, <2>2, EnsureRegisteredDoes, ShortcutAssumption
<1>2. CASE ~on
  <2> DEFINE s == [r EXCEPT !.enabled = FALSE]
  <2>1. /\ s \in Runtimes /\ s.last = r.last /\ s.report = NoStatus /\ s.enabled = FALSE
        /\ s.requested = r.requested /\ StatusOf(s) = StatusOf(r)
    BY <1>2 DEF Runtimes, StatusOf
  <2>2. SetEnabled(r, on) = Unregister(s)
    BY <1>2 DEF SetEnabled
  <2>3. Told(s)
    BY <1>0, <2>1 DEF Told
  <2> HIDE DEF s
  <2>4. /\ Unregister(s) \in Runtimes /\ Unregister(s).enabled = FALSE
        /\ Unregister(s).held = NoKey /\ Unregister(s).requested = r.requested
        /\ Unregister(s).last = r.last /\ Unregister(s).report = NoStatus
        /\ StatusOf(Unregister(s)) = r.last
    BY <1>0, <2>1, <2>3, UnregisterDoes
  <2> QED BY <1>2, <2>2, <2>4, ShortcutAssumption DEF Told, Registered
<1> QED BY <1>1, <1>2

(* Asking for another shortcut: it is asked for, and that is reported.  The*)
(* old one is free again, so one can be registered if one was before, and  *)
(* the way back is never taken.                                            *)
LEMMA SetAcceleratorDoes ==
  ASSUME NEW r \in Runtimes, Told(r), r.report = NoStatus, Registered(r),
         others \subseteq Accelerators, NEW a \in Accelerators
  PROVE  LET q == SetAccelerator(r, a)
         IN  /\ q \in Runtimes /\ Told(q) /\ Registered(q)
             /\ q.enabled = r.enabled /\ q.requested = a
             /\ q.report = NoStatus => StatusOf(q) = r.last
             /\ q.report = NoStatus <=> a = r.requested
             /\ a = r.requested => q = r
<1> DEFINE fresh == [Unregister(r) EXCEPT !.requested = a, !.resolved = a, !.failed = FALSE]
           tried == IF r.enabled THEN EnsureRegistered(fresh) ELSE fresh
<1>0. r.last = StatusOf(r) /\ r.last \in Statuses /\ r.last.requested = r.requested
  BY StatusType DEF Told, StatusOf
<1>1. CASE a = r.requested
  <2>1. SetAccelerator(r, a) = r
    BY <1>1 DEF SetAccelerator
  <2> QED BY <1>0, <1>1, <2>1
<1>2. CASE a # r.requested
  <2>1. /\ fresh \in Runtimes /\ fresh.enabled = r.enabled /\ fresh.held = NoKey
        /\ fresh.requested = a /\ fresh.last = r.last /\ fresh.report = NoStatus
    BY UnregisterDoes DEF Runtimes
  <2> HIDE DEF fresh
  <2>2. r.enabled =>
           /\ tried \in Runtimes /\ Told(tried) /\ Registered(tried)
           /\ tried.enabled = r.enabled /\ tried.requested = a
           /\ tried.report = NoStatus => StatusOf(tried) = r.last
           /\ Free # {} => tried.held # NoKey
    BY <1>0, <2>1, EnsureRegisteredDoes, ShortcutAssumption
  <2>3. r.enabled /\ ~r.failed => Free # {}
    <3>1. r.enabled /\ ~r.failed => r.resolved \notin others /\ r.resolved \in Accelerators
      BY DEF Registered, Runtimes
    <3> QED BY <3>1 DEF Free
  <2>4. SetAccelerator(r, a) = Emit(tried)
    <3>1. ~(r.enabled /\ tried.held = NoKey /\ ~r.failed)
      BY <2>2, <2>3
    <3> QED BY <1>2, <3>1 DEF SetAccelerator, fresh
  <2>5. PICK q \in Runtimes : /\ q = Emit(tried)
                              /\ Told(q) /\ Registered(q) /\ q.enabled = r.enabled
                              /\ q.requested = a
                              /\ q.report = NoStatus => StatusOf(q) = r.last
    <3>1. CASE r.enabled
      <4>1. Emit(tried) = tried
        BY <2>2, <3>1 DEF Emit, Told
      <4> QED BY <2>2, <3>1, <4>1
    <3>2. CASE ~r.enabled
      <4>1. tried = fresh
        BY <3>2
      <4>2. PICK f \in Runtimes : f = fresh
        BY <2>1
      <4>3. /\ Emit(f) \in Runtimes /\ Told(Emit(f)) /\ Emit(f).enabled = r.enabled
            /\ Emit(f).held = NoKey /\ Emit(f).requested = a
            /\ Emit(f).report = NoStatus => StatusOf(Emit(f)) = r.last
        BY <1>0, <2>1, <4>2, EmitDoes, EmitTells
      <4>4. Registered(Emit(f))
        BY <3>2, <4>3, ShortcutAssumption DEF Registered
      <4> QED BY <4>1, <4>2, <4>3, <4>4
    <3> QED BY <3>1, <3>2
  <2>6. q.report # NoStatus
    <3>1. StatusOf(q).requested = a
      BY <2>5 DEF StatusOf
    <3> QED BY <1>0, <1>2, <2>5, <3>1
  <2>7. SetAccelerator(r, a) = q
    BY <2>4, <2>5
  <2> QED BY <1>2, <2>5, <2>6, <2>7
<1> QED BY <1>1, <1>2

-----------------------------------------------------------------------------
(* What a step of main that runs the runtime does to the rest.             *)
RunsTo(q, answer) ==
  /\ runtime' \in Runtimes /\ runtime'.report = NoStatus
  /\ runtime'.enabled = q.enabled /\ runtime'.requested = q.requested
  /\ runtime'.last = StatusOf(runtime') /\ told' = runtime'.last
  /\ told' \in Statuses
  /\ q.report = NoStatus => told' = told
  /\ told'.requested = q.requested
  /\ toWindow' = (IF q.report = NoStatus THEN toWindow
                  ELSE Append(toWindow, [status |-> told'])) \o answer
  /\ writes' \in Seq(Accelerators)

LEMMA WithFallbackType ==
  ASSUME NEW a \in Accelerators, NEW s \in Statuses
  PROVE  WithFallback(a, s) \in Accelerators
BY DEF WithFallback, Statuses

LEMMA RunsDoes ==
  ASSUME ShortcutTypes, StatusIsKnown, NEW q \in Runtimes, Told(q), Registered(q),
         q.report = NoStatus => StatusOf(q) = told,
         NEW held \in Accelerators \union {NoKey}, NEW saves \in Seq(Accelerators),
         NEW answer, Runs(q, held, saves, answer)
  PROVE  RunsTo(q, answer) /\ (UNCHANGED others => Registered(runtime)')
<1> DEFINE r == [q EXCEPT !.report = NoStatus, !.tripped = FALSE]
<1>1. /\ r \in Runtimes /\ r.report = NoStatus /\ StatusOf(r) = StatusOf(q)
      /\ r.enabled = q.enabled /\ r.requested = q.requested /\ r.last = q.last
      /\ r.held = q.held /\ r.failed = q.failed /\ r.resolved = q.resolved
  BY DEF Runtimes, StatusOf
<1>2. runtime' = r
  BY DEF Runs
<1>3. StatusOf(q) \in Statuses /\ StatusOf(q) # NoStatus /\ StatusOf(q).requested = q.requested
  BY StatusType, ShortcutAssumption DEF StatusOf
<1>4. told' = StatusOf(q)
  BY <1>3 DEF Runs, Told
<1>5. toWindow' = (IF q.report = NoStatus THEN toWindow
                   ELSE Append(toWindow, [status |-> told'])) \o answer
  BY <1>3, <1>4 DEF Runs, Told
<1>6. writes' \in Seq(Accelerators)
  <2>1. CASE q.report # NoStatus /\ held # NoKey /\ WithFallback(held, q.report) # held
    <3>1. WithFallback(held, q.report) \in Accelerators
      BY <1>3, <2>1, WithFallbackType DEF Told
    <3>2. writes' = Append(writes, WithFallback(held, q.report)) \o saves
      BY <2>1 DEF Runs
    <3> QED BY <3>1, <3>2, AppendProperties, ConcatProperties DEF ShortcutTypes
  <2>2. CASE ~(q.report # NoStatus /\ held # NoKey /\ WithFallback(held, q.report) # held)
    <3>1. writes' = writes \o saves
      BY <2>2 DEF Runs
    <3> QED BY <3>1, ConcatProperties DEF ShortcutTypes
  <2> QED BY <2>1, <2>2
<1> HIDE DEF r
<1>7. RunsTo(q, answer)
  BY <1>1, <1>2, <1>3, <1>4, <1>5, <1>6 DEF RunsTo, Told
<1>8. UNCHANGED others => Registered(runtime)'
  BY <1>1, <1>2 DEF Registered
<1> QED BY <1>7, <1>8

-----------------------------------------------------------------------------
(* The start.                                                              *)
LEMMA FirstTypes ==
  /\ Default \in Accelerators
  /\ FirstStatus \in Statuses /\ Unforced(FirstStatus)
  /\ NewRuntime \in Runtimes /\ NewRuntime.report = NoStatus /\ ~NewRuntime.enabled
  /\ NewRuntime.held = NoKey
  /\ NewRuntime.last = FirstStatus /\ StatusOf(NewRuntime) = FirstStatus
<1>1. Default \in Accelerators
  <2>1. 1 \in DOMAIN Catalog
    BY ShortcutAssumption, EmptySeq, LenProperties
  <2> QED BY <2>1 DEF Default, Accelerators, Range
<1>2. FirstStatus \in Statuses /\ Unforced(FirstStatus)
  BY <1>1 DEF FirstStatus, Statuses, Unforced
<1>3. NewRuntime.last = FirstStatus /\ StatusOf(NewRuntime) = FirstStatus
  BY DEF NewRuntime, StatusOf, FirstStatus
<1> QED BY <1>1, <1>2, <1>3 DEF NewRuntime, Runtimes

LEMMA StartKeeps ==
  ASSUME Starts(window.shortcut), ShortcutTypes, UNCHANGED <<others, disk>>
  PROVE  ShortcutIInv'
<1>1. ShortcutTypes'
  BY FirstTypes, EmptySeq DEF Starts, ShortcutTypes, Window
<1>2. Registered(runtime)'
  BY FirstTypes, ShortcutAssumption DEF Starts, ShortcutTypes, Registered
<1>3. StatusIsKnown'
  BY FirstTypes DEF Starts, StatusIsKnown
<1>4. Starting'
  BY FirstTypes DEF Starts, Starting, Asking
<1> QED BY <1>1, <1>2, <1>3, <1>4 DEF ShortcutIInv

LEMMA ShortcutIInvAtStart == ShortcutInit => ShortcutIInv
<1> SUFFICES ASSUME ShortcutInit PROVE ShortcutIInv
  OBVIOUS
<1>1. ShortcutTypes
  BY FirstTypes, EmptySeq DEF ShortcutInit, ShortcutTypes, Window
<1>2. Registered(runtime)
  BY FirstTypes, ShortcutAssumption DEF ShortcutInit, ShortcutTypes, Registered
<1>3. StatusIsKnown
  BY FirstTypes DEF ShortcutInit, StatusIsKnown
<1>4. Starting
  BY FirstTypes DEF ShortcutInit, Starting, Asking
<1> QED BY <1>1, <1>2, <1>3, <1>4 DEF ShortcutIInv

(* Once the config has arrived, the start is over.                         *)
LEMMA LoadedSettles ==
  ASSUME ShortcutIInv, Loaded
  PROVE  Settling
<1>1. ~Asking
  <2> SUFFICES ASSUME Asking PROVE FALSE
    OBVIOUS
  <2>1. Len(asked) = 1 /\ asked[1].kind = "load"
    BY DEF Asking
  <2> QED BY <2>1 DEF Loaded
<1>2. ~Answering
  <2> SUFFICES ASSUME Answering PROVE FALSE
    OBVIOUS
  <2>1. Len(toWindow) \in Nat \ {0}
    BY EmptySeq DEF Answering
  <2>2. "config" \in DOMAIN toWindow[Len(toWindow)]
    BY DEF Answering, Last
  <2> QED BY <2>1, <2>2 DEF Loaded
<1> QED BY <1>1, <1>2 DEF ShortcutIInv, Starting

(* A report behind the others; or none.                                    *)
LEMMA ReportQueues ==
  ASSUME toWindow \in Seq(ReportRecords), told' \in Statuses,
         toWindow # << >> => Last(toWindow).status = told,
         NEW q, q.report = NoStatus => told' = told,
         toWindow' = (IF q.report = NoStatus THEN toWindow
                      ELSE Append(toWindow, [status |-> told'])) \o << >>
  PROVE  /\ toWindow' \in Seq(ReportRecords)
         /\ toWindow' # << >> => Last(toWindow').status = told'
         /\ IF q.report = NoStatus THEN toWindow' = toWindow ELSE toWindow' # << >>
<1>1. CASE q.report = NoStatus
  BY <1>1, ConcatEmptySeq
<1>2. CASE q.report # NoStatus
  <2>1. [status |-> told'] \in ReportRecords
    BY DEF ReportRecords
  <2>2. toWindow' = Append(toWindow, [status |-> told'])
    <3>1. Append(toWindow, [status |-> told']) \in Seq(ReportRecords)
      BY <2>1, AppendProperties
    <3> QED BY <1>2, <3>1, ConcatEmptySeq
  <2>3. /\ toWindow' \in Seq(ReportRecords) /\ toWindow' # << >>
        /\ Len(toWindow') = Len(toWindow) + 1
        /\ toWindow'[Len(toWindow) + 1] = [status |-> told']
    BY <2>1, <2>2, AppendProperties
  <2> QED BY <1>2, <2>3 DEF Last
<1> QED BY <1>1, <1>2

LEMMA PhaseChangesKeeps == ShortcutIInv /\ PhaseChanges => ShortcutIInv'
<1> SUFFICES ASSUME ShortcutIInv, PhaseChanges PROVE ShortcutIInv'
  OBVIOUS
<1>0. Settling /\ ShortcutTypes /\ Registered(runtime) /\ StatusIsKnown
  BY LoadedSettles DEF PhaseChanges, ShortcutAct, ShortcutIInv
<1>1. runtime \in Runtimes /\ Told(runtime) /\ runtime.enabled \in BOOLEAN
  BY <1>0 DEF ShortcutTypes, StatusIsKnown, Told, Runtimes
<1>2. PICK on \in BOOLEAN : on = ~runtime.enabled
  BY <1>1
<1>3. PICK q \in Runtimes : /\ q = SetEnabled(runtime, on) /\ Told(q) /\ Registered(q)
                            /\ q.requested = runtime.requested
                            /\ q.report = NoStatus => StatusOf(q) = runtime.last
  BY <1>0, <1>1, <1>2, SetEnabledDoes DEF ShortcutTypes
<1>4. RunsTo(q, << >>) /\ Registered(runtime)'
  <2>1. Runs(q, latest, << >>, << >>) /\ UNCHANGED others
    BY <1>2, <1>3 DEF PhaseChanges
  <2>2. << >> \in Seq(Accelerators)
    BY EmptySeq
  <2> QED BY <1>0, <1>3, <2>1, <2>2, RunsDoes DEF ShortcutTypes, StatusIsKnown
<1>5. UNCHANGED <<others, latest, disk, asked, window>>
  BY DEF PhaseChanges
<1>6. ShortcutTypes'
  BY <1>0, <1>4, <1>5 DEF ShortcutTypes, RunsTo
<1>7. /\ toWindow' \in Seq(ReportRecords)
      /\ toWindow' # << >> => Last(toWindow').status = told'
      /\ IF q.report = NoStatus THEN toWindow' = toWindow ELSE toWindow' # << >>
  BY <1>0, <1>4, ReportQueues DEF Settling, RunsTo
<1>8. StatusIsKnown'
  BY <1>0, <1>4, <1>5, <1>7 DEF StatusIsKnown, RunsTo
<1>9. Settling'
  BY <1>0, <1>3, <1>4, <1>5, <1>7 DEF Settling, RunsTo
<1> QED BY <1>4, <1>6, <1>8, <1>9 DEF ShortcutIInv

LEMMA FirstAndRest ==
  ASSUME NEW S, NEW s \in Seq(S), s # << >>
  PROVE  /\ Head(s) = s[1] /\ Head(s) \in S /\ Tail(s) \in Seq(S)
         /\ Len(Tail(s)) = Len(s) - 1 /\ Len(s) \in Nat \ {0}
         /\ \A i \in 1 .. Len(s) - 1 : Tail(s)[i] = s[i + 1]
         /\ Tail(s) = << >> <=> Len(s) = 1
         /\ Tail(s) = << >> => Last(s) = s[1]
         /\ Tail(s) # << >> => Last(Tail(s)) = Last(s)
<1>1. /\ Head(s) \in S /\ Tail(s) \in Seq(S) /\ Len(Tail(s)) = Len(s) - 1
      /\ \A i \in 1 .. Len(s) - 1 : Tail(s)[i] = s[i + 1]
  BY HeadTailProperties
<1>2. Len(s) \in Nat \ {0}
  BY EmptySeq
<1>3. Head(s) = s[1]
  OBVIOUS
<1>4. Tail(s) = << >> <=> Len(s) = 1
  <2>1. Tail(s) # << >> => Len(Tail(s)) \in Nat \ {0}
    BY <1>1, EmptySeq
  <2>2. Tail(s) = << >> => Len(Tail(s)) = 0
    BY EmptySeq
  <2> QED BY <1>1, <1>2, <2>1, <2>2
<1>5. Tail(s) # << >> => Last(Tail(s)) = Last(s)
  <2>1. Tail(s) # << >> => Tail(s)[Len(s) - 1] = s[Len(s)]
    BY <1>1, <1>2, <1>4
  <2> QED BY <1>1, <2>1 DEF Last
<1> QED BY <1>1, <1>2, <1>3, <1>4, <1>5 DEF Last

LEMMA SaveRequestedKeeps == ShortcutIInv /\ SaveRequested => ShortcutIInv'
<1> SUFFICES ASSUME ShortcutIInv, SaveRequested PROVE ShortcutIInv'
  OBVIOUS
<1>0. Settling /\ ShortcutTypes /\ Registered(runtime) /\ StatusIsKnown
  <2>1. ~Asking
    BY DEF SaveRequested, Asking
  <2> QED BY <2>1 DEF ShortcutIInv, SaveRequested, Starting, Answering
<1>1. runtime \in Runtimes /\ Told(runtime)
  BY <1>0 DEF ShortcutTypes, StatusIsKnown, Told
<1>2. asked \in Seq(Saves) /\ asked # << >> /\ asked' = Tail(asked)
  BY <1>0 DEF Settling, SaveRequested
<1>3. PICK a \in Accelerators : a = asked[1].shortcut /\ a = Head(asked).shortcut
  <2>1. Head(asked) \in Saves /\ Head(asked) = asked[1]
    BY <1>2, FirstAndRest
  <2>2. Head(asked).shortcut \in Accelerators
    BY <2>1 DEF Saves
  <2> QED BY <2>1, <2>2
<1>4. PICK q \in Runtimes : /\ q = SetAccelerator(runtime, a) /\ Told(q) /\ Registered(q)
                            /\ q.requested = a
                            /\ q.report = NoStatus => StatusOf(q) = runtime.last
                            /\ q.report = NoStatus <=> a = runtime.requested
  BY <1>0, <1>1, SetAcceleratorDoes DEF ShortcutTypes
<1>5. RunsTo(q, << >>) /\ Registered(runtime)'
  <2>1. Runs(q, latest, <<a>>, << >>) /\ UNCHANGED others
    BY <1>3, <1>4 DEF SaveRequested
  <2>2. <<a>> \in Seq(Accelerators)
    OBVIOUS
  <2> QED BY <1>0, <1>4, <2>1, <2>2, RunsDoes DEF ShortcutTypes, StatusIsKnown
<1>6. UNCHANGED <<others, latest, disk, window>>
  BY DEF SaveRequested
<1>7. ShortcutTypes'
  BY <1>0, <1>5, <1>6 DEF ShortcutTypes, RunsTo
<1>8. /\ toWindow' \in Seq(ReportRecords)
      /\ toWindow' # << >> => Last(toWindow').status = told'
      /\ IF q.report = NoStatus THEN toWindow' = toWindow ELSE toWindow' # << >>
  BY <1>0, <1>5, ReportQueues DEF Settling, RunsTo
<1>9. StatusIsKnown'
  BY <1>0, <1>5, <1>6, <1>8 DEF StatusIsKnown, RunsTo
<1>10. asked' \in Seq(Saves)
  BY <1>2, FirstAndRest
<1>11. window'.shortcut = IF asked' = << >> THEN runtime'.requested ELSE Last(asked').shortcut
  <2>1. window.shortcut = Last(asked).shortcut /\ runtime'.requested = a
    BY <1>0, <1>2, <1>4, <1>5 DEF Settling, RunsTo
  <2>2. /\ Tail(asked) = << >> => Last(asked) = asked[1]
        /\ Tail(asked) # << >> => Last(Tail(asked)) = Last(asked)
    BY <1>2, FirstAndRest
  <2> QED BY <1>2, <1>3, <1>6, <2>1, <2>2
<1>12. ASSUME toWindow' = << >>, UsingFallback(told')
       PROVE  \E i \in 1 .. Len(asked') : asked'[i].shortcut = told'.resolved
  <2>1. q.report = NoStatus /\ toWindow = << >> /\ told' = told
    BY <1>5, <1>8, <1>12 DEF RunsTo
  <2>2. a = told.requested
    BY <1>0, <1>4, <2>1 DEF StatusIsKnown, StatusOf
  <2>3. PICK i \in 1 .. Len(asked) : asked[i].shortcut = told.resolved
    BY <1>0, <1>12, <2>1 DEF Settling
  <2>4. i # 1
    BY <1>3, <1>12, <2>1, <2>2, <2>3 DEF UsingFallback
  <2>5. i - 1 \in 1 .. Len(asked) - 1 /\ i - 1 + 1 = i
    BY <1>2, <2>4, FirstAndRest
  <2>6. Tail(asked)[i - 1] = asked[i] /\ Len(Tail(asked)) = Len(asked) - 1
    BY <1>2, <2>5, FirstAndRest
  <2> QED BY <1>2, <2>1, <2>3, <2>5, <2>6
<1>13. Settling'
  BY <1>8, <1>10, <1>11, <1>12 DEF Settling
<1> QED BY <1>5, <1>7, <1>9, <1>13 DEF ShortcutIInv

LEMMA LoadRequestedKeeps == ShortcutIInv /\ LoadRequested => ShortcutIInv'
<1> SUFFICES ASSUME ShortcutIInv, LoadRequested PROVE ShortcutIInv'
  OBVIOUS
<1>0. Asking /\ Starting /\ ShortcutTypes /\ Registered(runtime) /\ StatusIsKnown
  <2>1. asked # << >> /\ Head(asked).kind = "load"
    BY DEF LoadRequested
  <2>2. ~Settling
    <3> SUFFICES ASSUME Settling PROVE FALSE
      OBVIOUS
    <3>1. Head(asked) \in Saves
      BY <2>1, FirstAndRest DEF Settling
    <3> QED BY <2>1, <3>1 DEF Saves
  <2> QED BY <2>1, <2>2 DEF ShortcutIInv, Starting, Answering
<1>1. runtime \in Runtimes /\ Told(runtime)
  BY <1>0 DEF ShortcutTypes, StatusIsKnown, Told
<1>2. PICK a \in Accelerators : a = runtime.requested
  BY <1>1 DEF Runtimes
<1>3. latest' = a
  <2>1. ~told.failed /\ told.resolved = told.requested /\ told = StatusOf(runtime)
    BY <1>0 DEF Starting, Unforced, StatusIsKnown
  <2>2. told.requested = a
    BY <1>2, <2>1 DEF StatusOf
  <2> QED BY <2>1, <2>2 DEF LoadRequested, WithFallback
<1>4. SetAccelerator(runtime, a) = runtime /\ runtime.report = NoStatus
  BY <1>0, <1>2 DEF SetAccelerator, ShortcutTypes
<1>5. RunsTo(runtime, <<[config |-> a]>>) /\ Registered(runtime)'
  <2>1. Runs(runtime, a, << >>, <<[config |-> a]>>) /\ UNCHANGED others
    BY <1>3, <1>4 DEF LoadRequested
  <2>2. << >> \in Seq(Accelerators)
    BY EmptySeq
  <2>3. StatusOf(runtime) = told
    BY <1>0 DEF StatusIsKnown
  <2> QED BY <1>0, <1>1, <2>1, <2>2, <2>3, RunsDoes
<1>6. asked' = << >> /\ UNCHANGED <<others, disk, window>>
  BY <1>0 DEF LoadRequested, Asking
<1>7. told' = told /\ toWindow' = toWindow \o <<[config |-> a]>>
  BY <1>4, <1>5 DEF RunsTo
<1>8. ShortcutTypes'
  BY <1>0, <1>3, <1>5, <1>6 DEF ShortcutTypes, RunsTo
<1>9. /\ Answering'
      /\ toWindow' # << >>
  <2> DEFINE M == ReportRecords \union [config : Accelerators]
  <2>1. [status |-> told] \in ReportRecords /\ [config |-> a] \in [config : Accelerators]
    BY <1>0 DEF ShortcutTypes, ReportRecords
  <2>2. runtime'.requested = a
    BY <1>2, <1>5 DEF RunsTo
  <2>3. CASE toWindow = << >>
    <3>1. toWindow' = <<[config |-> a]>> /\ window.status = told
      BY <1>0, <1>7, <2>3 DEF StatusIsKnown
    <3>2. toWindow' \in Seq(M) /\ Len(toWindow') = 1 /\ toWindow'[1] = [config |-> a]
      BY <2>1, <3>1
    <3>3. toWindow' # << >>
      BY <3>1
    <3> QED BY <1>6, <1>7, <2>2, <3>1, <3>2, <3>3 DEF Answering, Last
  <2>4. CASE toWindow = <<[status |-> told]>>
    <3>1. PICK x, y : x = [status |-> told] /\ y = [config |-> a]
      OBVIOUS
    <3>2. toWindow' = <<x>> \o <<y>> /\ x \in M /\ y \in M
      BY <1>7, <2>1, <2>4, <3>1
    <3> HIDE DEF M
    <3>3. <<x>> \in Seq(M) /\ <<y>> \in Seq(M)
      BY <3>2
    <3>4. /\ toWindow' \in Seq(M) /\ Len(toWindow') = 2
          /\ toWindow'[1] = x /\ toWindow'[2] = y
      BY <3>2, <3>3, ConcatProperties
    <3>5. toWindow' # << >>
      BY <3>4, EmptySeq
    <3>6. Unforced(told)
      BY <1>0 DEF Starting
    <3> QED BY <1>6, <1>7, <2>1, <2>2, <3>1, <3>4, <3>5, <3>6 DEF Answering, Last, M
  <2> QED BY <1>0, <2>3, <2>4 DEF Asking
<1>10. StatusIsKnown'
  BY <1>5, <1>9 DEF StatusIsKnown, RunsTo
<1>11. Starting'
  BY <1>0, <1>5, <1>7, <1>9 DEF Starting, RunsTo
<1> QED BY <1>5, <1>8, <1>10, <1>11 DEF ShortcutIInv

LEMMA WriteEndsKeeps == ShortcutIInv /\ WriteEnds => ShortcutIInv'
<1> SUFFICES ASSUME ShortcutIInv, WriteEnds PROVE ShortcutIInv'
  OBVIOUS
<1>1. UNCHANGED <<runtime, others, told, toWindow, asked, window>>
  BY DEF WriteEnds
<1>2. Head(writes) \in Accelerators /\ Tail(writes) \in Seq(Accelerators)
  BY HeadTailProperties DEF ShortcutIInv, ShortcutTypes, WriteEnds
<1>3. ShortcutTypes'
  BY <1>1, <1>2 DEF ShortcutIInv, ShortcutTypes, WriteEnds
<1>4. Settling \/ Starting => (Settling \/ Starting)'
  BY <1>1 DEF Settling, Starting, Asking, Answering
<1> QED BY <1>1, <1>3, <1>4 DEF ShortcutIInv, Registered, StatusIsKnown

LEMMA OthersChangeKeeps ==
  ASSUME ShortcutIInv, NEW a \in Accelerators, OthersChange(a)
  PROVE  ShortcutIInv'
<1>1. UNCHANGED <<runtime, told, latest, disk, writes, toWindow, asked, window>>
  BY DEF OthersChange
<1>2. others' \subseteq Accelerators /\ (a # runtime.held) /\ others' \subseteq others \union {a}
  BY DEF OthersChange, ShortcutIInv, ShortcutTypes
<1>3. ShortcutTypes'
  BY <1>1, <1>2 DEF ShortcutIInv, ShortcutTypes
<1>4. Registered(runtime)'
  BY <1>1, <1>2 DEF ShortcutIInv, Registered
<1>5. Settling \/ Starting => (Settling \/ Starting)'
  BY <1>1 DEF Settling, Starting, Asking, Answering
<1> QED BY <1>1, <1>3, <1>4, <1>5 DEF ShortcutIInv, StatusIsKnown

(* Another save goes to main behind the others.                            *)
LEMMA SaveQueues ==
  ASSUME asked \in Seq(Saves), NEW a \in Accelerators, asked' = Asks("save", a)
  PROVE  /\ asked' \in Seq(Saves) /\ asked' # << >>
         /\ Last(asked').shortcut = a
         /\ Len(asked) \in Nat /\ Len(asked') = Len(asked) + 1
         /\ \A i \in 1 .. Len(asked) : asked'[i] = asked[i]
         /\ asked'[Len(asked')].shortcut = a
<1>1. PICK s \in Saves : s = [kind |-> "save", shortcut |-> a]
  BY DEF Saves
<1>2. asked' = Append(asked, s)
  BY <1>1 DEF Asks
<1>3. /\ asked' \in Seq(Saves) /\ asked' # << >> /\ Len(asked') = Len(asked) + 1
      /\ \A i \in 1 .. Len(asked) : asked'[i] = asked[i]
      /\ asked'[Len(asked) + 1] = s
  BY <1>2, AppendProperties
<1>4. Len(asked) \in Nat
  BY LenProperties
<1>5. s.shortcut = a
  BY <1>1
<1> QED BY <1>3, <1>4, <1>5 DEF Last

LEMMA ChoosesKeeps ==
  ASSUME ShortcutIInv, NEW a \in Accelerators, Chooses(a)
  PROVE  ShortcutIInv'
<1>0. Settling /\ ShortcutTypes /\ Registered(runtime) /\ StatusIsKnown
  BY LoadedSettles DEF Chooses, ShortcutAct, ShortcutIInv
<1>1. /\ UNCHANGED <<runtime, others, told, latest, disk, writes, toWindow>>
      /\ window' = [window EXCEPT !.shortcut = a] /\ asked' = Asks("save", a)
  BY DEF Chooses
<1>2. Window(window') /\ window'.shortcut = a /\ window'.status = window.status
  BY <1>0, <1>1 DEF ShortcutTypes, Window
<1>3. ShortcutTypes' /\ StatusIsKnown' /\ Registered(runtime)'
  BY <1>0, <1>1, <1>2 DEF ShortcutTypes, StatusIsKnown, Registered
<1>4. /\ asked' \in Seq(Saves) /\ asked' # << >> /\ Last(asked').shortcut = a
      /\ Len(asked) \in Nat /\ Len(asked') = Len(asked) + 1
      /\ \A i \in 1 .. Len(asked) : asked'[i] = asked[i]
  BY <1>0, <1>1, SaveQueues DEF Settling
<1>5. Settling'
  <2>1. toWindow' = toWindow /\ told' = told
    BY <1>1
  <2>2. \A i \in 1 .. Len(asked) : i \in 1 .. Len(asked')
    BY <1>4
  <2>3. toWindow = << >> /\ UsingFallback(told) =>
          \E i \in 1 .. Len(asked') : asked'[i].shortcut = told.resolved
    BY <1>0, <1>4, <2>2 DEF Settling
  <2> QED BY <1>0, <1>2, <1>4, <2>1, <2>3 DEF Settling
<1> QED BY <1>3, <1>5 DEF ShortcutIInv

LEMMA StatusHeardKeeps == ShortcutIInv /\ StatusHeard => ShortcutIInv'
<1> SUFFICES ASSUME ShortcutIInv, StatusHeard PROVE ShortcutIInv'
  OBVIOUS
<1> DEFINE s == Head(toWindow).status
           takes == UsingFallback(s) /\ window.shortcut # s.resolved
<1>0. ShortcutTypes /\ Registered(runtime) /\ StatusIsKnown
  BY DEF ShortcutIInv
<1>1. /\ toWindow # << >> /\ "status" \in DOMAIN Head(toWindow)
      /\ window' = [shortcut |-> IF takes THEN s.resolved ELSE window.shortcut,
                    status |-> s]
      /\ asked' = IF takes THEN Asks("save", s.resolved) ELSE asked
      /\ toWindow' = Tail(toWindow)
      /\ UNCHANGED <<runtime, others, told, latest, disk, writes>>
  BY DEF StatusHeard
<1> HIDE DEF takes
<1>2. CASE Settling
  <2>1. toWindow \in Seq(ReportRecords) /\ Head(toWindow) \in ReportRecords
    BY <1>1, <1>2, FirstAndRest DEF Settling
  <2>2. s \in Statuses /\ s.resolved \in Accelerators
    BY <2>1 DEF ReportRecords, Statuses
  <2>3. PICK b \in Accelerators : b = s.resolved
    BY <2>2
  <2>4. /\ window'.shortcut = IF takes THEN b ELSE window.shortcut
        /\ window'.status = s /\ Window(window')
        /\ asked' = IF takes THEN Asks("save", b) ELSE asked
    BY <1>0, <1>1, <2>2, <2>3 DEF ShortcutTypes, Window
  <2>5. ShortcutTypes' /\ Registered(runtime)'
    BY <1>0, <1>1, <2>4 DEF ShortcutTypes, Registered
  <2>6. /\ toWindow' \in Seq(ReportRecords)
        /\ toWindow' # << >> => Last(toWindow').status = told'
        /\ toWindow' = << >> => s = told'
    <3>1. Last(toWindow).status = told /\ told' = told
      BY <1>1, <1>2 DEF Settling
    <3> QED BY <1>1, <2>1, <3>1, FirstAndRest
  <2>7. StatusIsKnown'
    BY <1>0, <1>1, <2>4, <2>6 DEF StatusIsKnown
  <2>8. CASE takes
    <3>1. /\ asked' \in Seq(Saves) /\ asked' # << >> /\ Last(asked').shortcut = b
          /\ Len(asked') \in Nat \ {0} /\ asked'[Len(asked')].shortcut = b
      BY <1>2, <2>4, <2>8, SaveQueues, EmptySeq DEF Settling
    <3>2. toWindow' = << >> =>
            \E i \in 1 .. Len(asked') : asked'[i].shortcut = told'.resolved
      BY <2>3, <2>6, <3>1
    <3>3. Settling'
      BY <2>4, <2>6, <2>8, <3>1, <3>2 DEF Settling
    <3> QED BY <2>5, <2>7, <3>3 DEF ShortcutIInv
  <2>9. CASE ~takes
    <3>1. asked' = asked /\ window'.shortcut = window.shortcut /\ runtime' = runtime
      BY <1>1, <2>4, <2>9
    <3>2. ASSUME toWindow' = << >>, UsingFallback(told')
          PROVE  \E i \in 1 .. Len(asked) : asked[i].shortcut = told'.resolved
      <4>1. s = told' /\ told' = told /\ UsingFallback(s) /\ b = told.resolved
        BY <1>1, <2>3, <2>6, <3>2
      <4>2. window.shortcut = b
        BY <2>3, <2>9, <4>1 DEF takes
      <4>3. told.requested = runtime.requested /\ told.resolved # told.requested
        BY <1>0, <4>1 DEF StatusIsKnown, StatusOf, UsingFallback
      <4>4. asked # << >> /\ Last(asked).shortcut = b
        BY <1>2, <4>1, <4>2, <4>3 DEF Settling
      <4>5. Len(asked) \in Nat \ {0}
        BY <1>2, <4>4, EmptySeq DEF Settling
      <4> QED BY <4>1, <4>4, <4>5 DEF Last
    <3>3. Settling'
      BY <1>2, <2>6, <3>1, <3>2 DEF Settling
    <3> QED BY <2>5, <2>7, <3>3 DEF ShortcutIInv
  <2> QED BY <2>8, <2>9
<1>3. CASE Starting /\ Asking
  <2>1. toWindow = <<[status |-> told]>>
    BY <1>1, <1>3 DEF Asking
  <2>2. s = told /\ toWindow' = << >>
    BY <1>1, <2>1
  <2>3. ~takes
    BY <1>3, <2>2 DEF takes, Starting, Unforced, UsingFallback
  <2>4. Window(window') /\ window'.shortcut = window.shortcut /\ window'.status = told
    BY <1>0, <1>1, <2>2, <2>3 DEF ShortcutTypes, Window
  <2>5. ShortcutTypes' /\ Registered(runtime)' /\ StatusIsKnown'
    BY <1>0, <1>1, <2>4 DEF ShortcutTypes, Registered, StatusIsKnown
  <2>6. Starting'
    BY <1>1, <1>3, <2>2, <2>3, <2>4 DEF Starting, Asking
  <2> QED BY <2>5, <2>6 DEF ShortcutIInv
<1>4. CASE Starting /\ Answering
  <2> DEFINE Messages == ReportRecords \union [config : Accelerators]
  <2>1. /\ toWindow \in Seq(Messages) /\ Len(toWindow) \in Nat \ {0}
        /\ Head(toWindow) = toWindow[1] /\ Tail(toWindow) \in Seq(Messages)
        /\ Len(Tail(toWindow)) = Len(toWindow) - 1
        /\ \A i \in 1 .. Len(toWindow) - 1 : Tail(toWindow)[i] = toWindow[i + 1]
        /\ Tail(toWindow) = << >> <=> Len(toWindow) = 1
        /\ Tail(toWindow) # << >> => Last(Tail(toWindow)) = Last(toWindow)
    BY <1>1, <1>4, FirstAndRest DEF Answering
  <2> HIDE DEF Messages
  <2>2. Len(toWindow) # 1
    <3> SUFFICES ASSUME Len(toWindow) = 1 PROVE FALSE
      OBVIOUS
    <3>1. Head(toWindow) = [config |-> runtime.requested]
      BY <1>4, <2>1 DEF Answering, Last
    <3> QED BY <1>1, <3>1
  <2>3. PICK n \in Nat : n = Len(toWindow) /\ n >= 2
    <3>1. PICK n \in Nat : n = Len(toWindow)
      BY <2>1
    <3>2. n # 0 /\ n # 1
      BY <2>1, <2>2, <3>1
    <3> QED BY <3>1, <3>2
  <2>4. s \in Statuses /\ Unforced(s) /\ (n = 2 => s = told)
    <3>1. toWindow[1] \in ReportRecords /\ Unforced(toWindow[1].status)
      BY <1>4, <2>3 DEF Answering
    <3>2. n = 2 => toWindow[1].status = told
      BY <1>4, <2>3 DEF Answering
    <3> QED BY <2>1, <3>1, <3>2 DEF ReportRecords
  <2>5. ~takes
    BY <2>4 DEF takes, Unforced, UsingFallback
  <2>6. Window(window') /\ window'.shortcut = window.shortcut /\ window'.status = s
    BY <1>0, <1>1, <2>5 DEF ShortcutTypes, Window
  <2>7. /\ toWindow' \in Seq(Messages) /\ Len(toWindow') = n - 1 /\ toWindow' # << >>
        /\ Last(toWindow') = [config |-> runtime.requested]
        /\ \A i \in 1 .. n - 1 : toWindow'[i] = toWindow[i + 1]
    BY <1>1, <1>4, <2>1, <2>2, <2>3 DEF Answering
  <2>8. \A i \in 1 .. n - 2 : toWindow'[i] \in ReportRecords /\ Unforced(toWindow'[i].status)
    <3>1. \A i \in 1 .. n - 1 : toWindow[i] \in ReportRecords /\ Unforced(toWindow[i].status)
      BY <1>4, <2>3 DEF Answering
    <3>2. \A i \in 1 .. n - 2 : i + 1 \in 1 .. n - 1 /\ i \in 1 .. n - 1
      OBVIOUS
    <3> QED BY <2>7, <3>1, <3>2
  <2>9. IF n - 1 = 1 THEN window'.status = told ELSE toWindow'[n - 2].status = told
    <3>1. n # 2 => n - 2 \in 1 .. n - 1 /\ n - 2 + 1 = n - 1
      BY <2>3
    <3>2. n # 2 => toWindow[n - 1].status = told
      BY <1>4, <2>3 DEF Answering
    <3> QED BY <2>3, <2>4, <2>6, <2>7, <3>1, <3>2
  <2>10. Answering'
    <3>1. Len(toWindow') - 1 = n - 2 /\ asked' = << >> /\ runtime' = runtime /\ told' = told
      BY <1>1, <1>4, <2>3, <2>5, <2>7 DEF Answering
    <3> QED BY <2>3, <2>7, <2>8, <2>9, <3>1 DEF Answering, Messages
  <2>11. ShortcutTypes' /\ Registered(runtime)'
    BY <1>0, <1>1, <2>6 DEF ShortcutTypes, Registered
  <2>12. StatusIsKnown'
    BY <1>0, <1>1, <2>7 DEF StatusIsKnown
  <2>13. Starting'
    BY <1>1, <1>4, <2>10 DEF Starting
  <2> QED BY <2>11, <2>12, <2>13 DEF ShortcutIInv
<1> QED BY <1>2, <1>3, <1>4 DEF ShortcutIInv, Starting

LEMMA ConfigHeardKeeps == ShortcutIInv /\ ConfigHeard => ShortcutIInv'
<1> SUFFICES ASSUME ShortcutIInv, ConfigHeard PROVE ShortcutIInv'
  OBVIOUS
<1>0. ShortcutTypes /\ Registered(runtime) /\ StatusIsKnown
  BY DEF ShortcutIInv
<1>1. /\ toWindow # << >> /\ "config" \in DOMAIN Head(toWindow)
      /\ window' = [window EXCEPT !.shortcut = Head(toWindow).config]
      /\ toWindow' = Tail(toWindow)
      /\ UNCHANGED <<runtime, others, told, latest, disk, writes, asked>>
  BY DEF ConfigHeard
<1>2. \A m \in ReportRecords : "config" \notin DOMAIN m
  BY DEF ReportRecords
<1>3. ~Settling
  <2> SUFFICES ASSUME Settling PROVE FALSE
    OBVIOUS
  <2>1. Head(toWindow) \in ReportRecords
    BY <1>1, FirstAndRest DEF Settling
  <2> QED BY <1>1, <1>2, <2>1
<1>4. ~Asking
  <2> SUFFICES ASSUME Asking PROVE FALSE
    OBVIOUS
  <2>1. Head(toWindow) = [status |-> told]
    BY <1>1 DEF Asking
  <2> QED BY <1>1, <2>1
<1>5. Starting /\ Answering
  BY <1>3, <1>4 DEF ShortcutIInv, Starting
<1>6. /\ Len(toWindow) \in Nat \ {0} /\ Head(toWindow) = toWindow[1]
      /\ Tail(toWindow) = << >> <=> Len(toWindow) = 1
  BY <1>1, <1>5, FirstAndRest DEF Answering
<1>7. Len(toWindow) = 1
  <2> SUFFICES ASSUME Len(toWindow) # 1 PROVE FALSE
    OBVIOUS
  <2>1. toWindow[1] \in ReportRecords
    BY <1>5, <1>6 DEF Answering
  <2> QED BY <1>1, <1>2, <1>6, <2>1
<1>8. PICK a \in Accelerators : a = runtime.requested
  BY <1>0 DEF ShortcutTypes, Runtimes
<1>9. Head(toWindow).config = a /\ toWindow' = << >> /\ window.status = told
  BY <1>1, <1>5, <1>6, <1>7, <1>8 DEF Answering, Last
<1>10. Window(window') /\ window'.shortcut = a /\ window'.status = told
  BY <1>0, <1>1, <1>9 DEF ShortcutTypes, Window
<1>11. ShortcutTypes' /\ Registered(runtime)' /\ StatusIsKnown'
  BY <1>0, <1>1, <1>10 DEF ShortcutTypes, Registered, StatusIsKnown
<1>12. Settling'
  <2>1. asked' = << >> /\ << >> \in Seq(Saves) /\ << >> \in Seq(ReportRecords)
    BY <1>1, <1>5, EmptySeq DEF Answering
  <2>2. ~UsingFallback(told')
    BY <1>1, <1>5 DEF Starting, Unforced, UsingFallback
  <2> QED BY <1>1, <1>8, <1>9, <1>10, <2>1, <2>2 DEF Settling
<1> QED BY <1>11, <1>12 DEF ShortcutIInv

-----------------------------------------------------------------------------
LEMMA ShortcutIInvIsKept == ShortcutIInv /\ [ShortcutNext]_shortcutVars => ShortcutIInv'
<1> SUFFICES ASSUME ShortcutIInv, [ShortcutNext]_shortcutVars PROVE ShortcutIInv'
  OBVIOUS
<1>1. CASE PhaseChanges
  BY <1>1, PhaseChangesKeeps
<1>2. CASE SaveRequested
  BY <1>2, SaveRequestedKeeps
<1>3. CASE LoadRequested
  BY <1>3, LoadRequestedKeeps
<1>4. CASE WriteEnds
  BY <1>4, WriteEndsKeeps
<1>5. CASE \E a \in Accelerators : OthersChange(a) \/ Chooses(a)
  BY <1>5, OthersChangeKeeps, ChoosesKeeps
<1>6. CASE StatusHeard
  BY <1>6, StatusHeardKeeps
<1>7. CASE ConfigHeard
  BY <1>7, ConfigHeardKeeps
<1>8. CASE StartAgain
  BY <1>8, StartKeeps DEF StartAgain, ShortcutIInv
<1>9. CASE UNCHANGED shortcutVars
  <2>1. Settling \/ Starting => (Settling \/ Starting)'
    BY <1>9 DEF shortcutVars, Settling, Starting, Asking, Answering
  <2> QED BY <1>9, <2>1 DEF shortcutVars, ShortcutIInv, ShortcutTypes, Registered, StatusIsKnown
<1> QED BY <1>1, <1>2, <1>3, <1>4, <1>5, <1>6, <1>7, <1>8, <1>9 DEF ShortcutNext

LEMMA TheShownOneStops == ShortcutIInv => ShownShortcutStops
<1> SUFFICES ASSUME ShortcutIInv PROVE ShownShortcutStops
  OBVIOUS
<1>1. ~runtime.enabled => runtime.held = NoKey
  BY DEF ShortcutIInv, Registered
<1>2. ASSUME Quiet, runtime.enabled
      PROVE  (window.status.failed /\ runtime.held = NoKey) \/ runtime.held = window.shortcut
  <2>1. Settling /\ window.status = told /\ told = StatusOf(runtime)
    BY <1>2 DEF ShortcutIInv, Quiet, Starting, StatusIsKnown
  <2>2. window.shortcut = runtime.requested /\ ~UsingFallback(told)
    <3>1. Len(asked) = 0
      BY <1>2, EmptySeq DEF Quiet
    <3> QED BY <1>2, <2>1, <3>1 DEF Settling, Quiet
  <2>3. told.failed = runtime.failed /\ told.resolved = runtime.resolved
        /\ told.requested = runtime.requested
    BY <2>1 DEF StatusOf
  <2> QED BY <1>2, <2>1, <2>2, <2>3 DEF ShortcutIInv, Registered, UsingFallback
<1> QED BY <1>1, <1>2 DEF ShownShortcutStops

(* During a loop, once everything has arrived, the shortcut the dashboard  *)
(* names is the one that stops the agent, or it says that there is none;   *)
(* and outside a loop no shortcut is taken from other programs.            *)
THEOREM ShownShortcutStopsHolds == ShortcutSpec => []ShownShortcutStops
<1>1. ShortcutInit => ShortcutIInv
  BY ShortcutIInvAtStart
<1>2. ShortcutIInv /\ [ShortcutNext]_shortcutVars => ShortcutIInv'
  BY ShortcutIInvIsKept
<1>3. ShortcutIInv => ShownShortcutStops
  BY TheShownOneStops
<1> QED
  BY <1>1, <1>2, <1>3, PTL DEF ShortcutSpec

-----------------------------------------------------------------------------
(* Permissions.                                                            *)

CallFields ==
  [asks : {"none", "list", "all", "probe", "open", "grant", "poll"},
   of : Kinds \union {Nothing}, by : Mounts, at : {"none", "asking", "reading"},
   was : BOOLEAN, saw : [Kinds -> Answers \union {Nothing}]]
Shaped(call) ==
  /\ call.asks = "none" <=> call.at = "none"
  /\ call.at = "asking" \/ call.asks \in {"grant", "open", "poll"} => call.of \in Kinds
CallRecords == {call \in CallFields : Shaped(call)}

HookRecords == [watched : Kinds \union {Nothing}, late : BOOLEAN,
                pending : Kinds \union {Nothing}]
StoreRecords == [loading : BOOLEAN, bootstrapped : BOOLEAN,
                 completed : {"none", "older", "current"}]

PermissionTypes ==
  /\ listed \subseteq Kinds /\ allowed \subseteq Kinds
  /\ store \in StoreRecords
  /\ shown \in [Kinds -> Answers \union {Nothing}]
  /\ hooks \in [Mounts -> HookRecords] /\ mount \in Mounts
  /\ requests \in [Requests -> CallRecords]
  /\ due \subseteq Kinds /\ crossed \in BOOLEAN

(* The list is asked for once and before anything else of the slideshow,   *)
(* and the openings that are still to come watch nothing.                  *)
OpeningsFollow ==
  /\ \A c, d \in Open : requests[c].asks = "list" /\ requests[d].asks = "list" => c = d
  /\ \A c \in Open : requests[c].asks = "list" => store.loading /\ ~store.bootstrapped
  /\ \A c \in Open : requests[c].asks = "grant" => store.bootstrapped
  /\ \A c \in Requests : requests[c].by <= mount
  /\ \A m \in Mounts : hooks[m].watched # Nothing => m <= mount /\ store.bootstrapped

(* What is due is allowed, and only the slideshow owes it.                 *)
DueIsAllowed ==
  /\ due \subseteq allowed /\ due \subseteq listed
  /\ ~Onboards => due = {}

(* A watch is alone with what it watches, but for one poll at a time, and  *)
(* its opening polls for nothing else.                                     *)
WatchedAlone ==
  LET k == hooks[mount].watched IN
  ~crossed /\ Onboards /\ AtOnce(k) =>
    /\ \A c \in Open : Concerns(c, k) =>
         requests[c].asks = "poll" /\ requests[c].at = "reading"
    /\ \A c, d \in Open : requests[c].of = k /\ requests[d].of = k => c = d
    /\ \A c \in Open : requests[c].asks = "poll" /\ requests[c].by = mount
                        => requests[c].of = k

(* Shown or to be shown by the end of the watch, and no answer on its way  *)
(* says otherwise.                                                         *)
SettledGrant(k) ==
  /\ shown[k] = "granted" \/ hooks[mount].watched = k
  /\ \A c \in Open : Concerns(c, k) =>
       requests[c].at = "reading" /\ requests[c].saw[k] = "granted"

Owed(k) == hooks[mount].watched = k /\ ~hooks[mount].late

DueIsSettled == ~crossed => \A k \in due : AtOnce(k) => Owed(k) \/ SettledGrant(k)

PermissionIInv ==
  /\ PermissionTypes
  /\ OpeningsFollow
  /\ DueIsAllowed
  /\ WatchedAlone
  /\ DueIsSettled

LEMMA ProbeType ==
  ASSUME NEW k \in Kinds
  PROVE  Probe(k) \in Answers
BY DEF Kinds, Probe, Answers, Plain, ProbeScreen, ProbeInput, ProbeEvents, ProbeMicrophone,
       ProbeBrowser, ProbeFolder, ProbeShell

LEMMA ProbeTells ==
  ASSUME NEW k \in Kinds, AtOnce(k), k \in allowed
  PROVE  Probe(k) = "granted"
BY DEF AtOnce, Probe, Plain, ProbeScreen, ProbeInput, ProbeMicrophone

LEMMA RequestedType ==
  ASSUME NEW k \in Kinds, NEW was \in BOOLEAN, NEW outcome \in Requested(k, was)
  PROVE  outcome[1] \in Answers /\ outcome[2] \subseteq Kinds
<1> USE DEF Requested, NothingNew, Answers, Kinds
<1>1. CASE k = "screen"
  BY <1>1 DEF RequestScreen, Plain
<1>2. CASE k = "input"
  BY <1>2 DEF RequestInput, Plain
<1>3. CASE k = "microphone"
  BY <1>3 DEF RequestMicrophone, Plain
<1>4. CASE k = "events"
  BY <1>4 DEF RequestEvents, Plain
<1>5. CASE k = "browser"
  BY <1>5 DEF RequestBrowser, Warmed, Installed
<1>6. CASE k = "folder"
  BY <1>6 DEF RequestFolder
<1>7. CASE k = "shell"
  BY <1>7 DEF RequestShell
<1> QED BY <1>1, <1>2, <1>3, <1>4, <1>5, <1>6, <1>7

LEMMA SeesAtOnceType ==
  ASSUME NEW which
  PROVE  SeesAtOnce(which) \in [Kinds -> Answers \union {Nothing}]
BY ProbeType DEF SeesAtOnce

LEMMA SeesAtOnceTells ==
  ASSUME NEW which, NEW k \in Kinds, AtOnce(k), k \in allowed, k \in which
  PROVE  SeesAtOnce(which)[k] = "granted"
BY ProbeTells DEF SeesAtOnce

(* What a call of the dashboard does to the calls.                         *)
LEMMA CallsDoes ==
  ASSUME PermissionTypes, NEW c \in Requests, NEW of \in Kinds \union {Nothing},
         NEW asks \in {"list", "all", "probe", "open", "grant"},
         NEW at \in {"asking", "reading"}, Calls(c, asks, of, at),
         at = "asking" \/ asks \in {"grant", "open"} => of \in Kinds
  PROVE  /\ requests' \in [Requests -> CallRecords]
         /\ requests'[c].asks = asks /\ requests'[c].of = of /\ requests'[c].at = at
         /\ requests'[c].by = mount
         /\ \A k \in Kinds : at = "reading" /\ AtOnce(k) /\ k \in allowed
              /\ (k = of \/ (of = Nothing /\ k \in listed))
              => requests'[c].saw[k] = "granted"
         /\ \A d \in Requests \ {c} : requests'[d] = requests[d]
         /\ Open' = Open \union {c}
<1> DEFINE S == IF at = "asking" THEN Unseen
                ELSE SeesAtOnce(IF of = Nothing THEN listed ELSE {of})
           r == [asks |-> asks, of |-> of, by |-> mount, at |-> at, was |-> of \in allowed,
                 saw |-> S]
<1>1. requests' = [requests EXCEPT ![c] = r]
  BY DEF Calls
<1>2. S \in [Kinds -> Answers \union {Nothing}]
  BY SeesAtOnceType DEF Unseen
<1>3. \A k \in Kinds : at = "reading" /\ AtOnce(k) /\ k \in allowed
        /\ (k = of \/ (of = Nothing /\ k \in listed)) => S[k] = "granted"
  <2>1. Nothing \notin Kinds
    BY DEF Nothing, Kinds
  <2> QED BY <2>1, SeesAtOnceTells
<1> HIDE DEF S
<1>4. r \in CallRecords
  BY <1>2 DEF CallRecords, CallFields, Shaped, PermissionTypes
<1>5. r.asks = asks /\ r.of = of /\ r.at = at /\ r.by = mount /\ r.saw = S
  OBVIOUS
<1> HIDE DEF r
<1>6. /\ requests' \in [Requests -> CallRecords] /\ requests'[c] = r
      /\ \A d \in Requests \ {c} : requests'[d] = requests[d]
  BY <1>1, <1>4 DEF PermissionTypes
<1>7. Open' = Open \union {c}
  BY <1>5, <1>6 DEF Open, Idle
<1> QED BY <1>3, <1>5, <1>6, <1>7

LEMMA AtOnceIsKind ==
  ASSUME NEW k, AtOnce(k)
  PROVE  k \in Kinds /\ k # Nothing
BY DEF AtOnce, Kinds, Nothing

LEMMA PermissionIInvAtStart == PermissionInit => PermissionIInv
<1> SUFFICES ASSUME PermissionInit PROVE PermissionIInv
  OBVIOUS
<1>1. Open = {}
  BY DEF PermissionInit, Open, Idle, NoRequest
<1>2. NoRequest \in CallRecords
  BY PermissionBounds DEF NoRequest, CallRecords, CallFields, Shaped, Unseen, Kinds
<1>3. Unwatched \in HookRecords
  BY DEF Unwatched, HookRecords
<1>4. PermissionTypes
  <2>1. listed \subseteq Kinds /\ allowed \subseteq Kinds
    BY PermissionBounds DEF PermissionInit
  <2>2. store \in StoreRecords
    BY DEF PermissionInit, StoreRecords
  <2>3. /\ shown \in [Kinds -> Answers \union {Nothing}]
        /\ hooks \in [Mounts -> HookRecords] /\ mount \in Mounts
        /\ requests \in [Requests -> CallRecords]
        /\ due \subseteq Kinds /\ crossed \in BOOLEAN
    BY <1>2, <1>3, PermissionBounds DEF PermissionInit, Unseen
  <2> QED BY <2>1, <2>2, <2>3 DEF PermissionTypes
<1>5. OpeningsFollow
  <2>1. \A c \in Requests : requests[c].by = 1
    BY DEF PermissionInit, NoRequest
  <2>2. \A m \in Mounts : hooks[m].watched = Nothing
    BY DEF PermissionInit, Unwatched
  <2> QED BY <1>1, <2>1, <2>2 DEF OpeningsFollow, PermissionInit
<1> QED BY <1>1, <1>4, <1>5 DEF PermissionIInv, DueIsAllowed, WatchedAlone, DueIsSettled, PermissionInit

(* A call of a page that asks for all or for one, none of the slideshow's. *)
LEMMA PageCallKeeps ==
  ASSUME PermissionIInv, NEW c \in Idle, NEW of \in Kinds \union {Nothing},
         NEW asks \in {"list", "all", "probe", "open"}, NEW at \in {"asking", "reading"},
         Calls(c, asks, of, at), of = Nothing \/ of \in listed,
         at = "asking" \/ asks = "open" => of = "browser",
         UNCHANGED <<platform, listed, allowed, shown, hooks, mount, due, crossed>>,
         store' = [store EXCEPT !.loading = @ \/ asks = "list"],
         IF asks = "list" THEN ~store.bootstrapped /\ ~store.loading ELSE ~Onboards
  PROVE  PermissionIInv'
<1>0. PermissionTypes /\ c \in Requests /\ c \notin Open
  BY DEF PermissionIInv, Idle, Open
<1>1. /\ requests' \in [Requests -> CallRecords]
      /\ requests'[c].asks = asks /\ requests'[c].of = of /\ requests'[c].at = at
      /\ requests'[c].by = mount
      /\ \A k \in Kinds : at = "reading" /\ AtOnce(k) /\ k \in allowed
           /\ (k = of \/ (of = Nothing /\ k \in listed))
           => requests'[c].saw[k] = "granted"
      /\ \A d \in Requests \ {c} : requests'[d] = requests[d]
      /\ Open' = Open \union {c}
  <2>1. at = "asking" \/ asks \in {"grant", "open"} => of \in Kinds
    BY DEF Kinds
  <2> QED BY <1>0, <2>1, CallsDoes
<1>2. /\ store' \in StoreRecords /\ store'.bootstrapped = store.bootstrapped
      /\ store'.completed = store.completed
      /\ store'.loading = (store.loading \/ asks = "list")
  BY <1>0 DEF PermissionTypes, StoreRecords
<1>3. Onboards' = Onboards
  BY <1>2 DEF Onboards, NeedsOnboarding
<1>4. PermissionTypes'
  BY <1>0, <1>1, <1>2 DEF PermissionTypes
<1>5. \A d \in Open : d \in Requests /\ d # c
  BY <1>0 DEF Open
<1>6. OpeningsFollow'
  <2>1. \A d \in Open : requests[d].asks = "list" => store.loading
    BY DEF PermissionIInv, OpeningsFollow
  <2>2. mount <= mount
    BY <1>0, PermissionBounds DEF PermissionTypes
  <2>3. \A d \in Requests : requests'[d].by <= mount'
    BY <1>1, <2>2 DEF PermissionIInv, OpeningsFollow
  <2>4. \A d, e \in Open' : requests'[d].asks = "list" /\ requests'[e].asks = "list" => d = e
    BY <1>1, <1>5, <2>1 DEF PermissionIInv, OpeningsFollow
  <2>5. \A d \in Open' : requests'[d].asks = "list" => store'.loading /\ ~store'.bootstrapped
    BY <1>1, <1>2, <1>5 DEF PermissionIInv, OpeningsFollow
  <2>6. \A d \in Open' : requests'[d].asks = "grant" => store'.bootstrapped
    BY <1>1, <1>2, <1>5 DEF PermissionIInv, OpeningsFollow
  <2> QED BY <1>2, <2>3, <2>4, <2>5, <2>6 DEF PermissionIInv, OpeningsFollow
<1>7. DueIsAllowed'
  BY <1>3 DEF PermissionIInv, DueIsAllowed
<1>8. WatchedAlone'
  <2>1. ~(~crossed' /\ Onboards' /\ AtOnce(hooks[mount].watched))
    <3> SUFFICES ASSUME Onboards, AtOnce(hooks[mount].watched) PROVE FALSE
      BY <1>3
    <3>1. hooks[mount].watched # Nothing
      BY AtOnceIsKind
    <3> QED BY <1>0, <3>1 DEF PermissionIInv, OpeningsFollow, PermissionTypes
  <2>2. hooks'[mount'].watched = hooks[mount].watched /\ platform' = platform
    OBVIOUS
  <2> QED BY <2>1, <2>2 DEF WatchedAlone, AtOnce
<1>9. DueIsSettled'
  <2> SUFFICES ASSUME ~crossed, NEW k \in due, AtOnce(k), ~Owed(k) PROVE SettledGrant(k)'
    BY DEF DueIsSettled, AtOnce, Owed
  <2>1. SettledGrant(k) /\ k \in Kinds /\ k \in allowed /\ k \in listed
    BY <1>0 DEF PermissionIInv, DueIsSettled, DueIsAllowed, PermissionTypes
  <2>2. Concerns(c, k)' => at = "reading" /\ requests'[c].saw[k] = "granted"
    <3>1. k # "browser" /\ k # Nothing /\ Nothing # "browser"
      BY DEF AtOnce, Nothing
    <3> QED BY <1>1, <2>1, <3>1 DEF Concerns
  <2>3. \A d \in Open : Concerns(d, k)' <=> Concerns(d, k)
    BY <1>1, <1>5 DEF Concerns
  <2> QED BY <1>1, <1>5, <2>1, <2>2, <2>3 DEF SettledGrant
<1> QED BY <1>4, <1>6, <1>7, <1>8, <1>9 DEF PermissionIInv

LEMMA PagesKeep ==
  ASSUME PermissionIInv, NEW c \in Idle, Bootstrap(c) \/ Recheck(c) \/ OpenBrowser(c)
  PROVE  PermissionIInv'
<1>0. store \in StoreRecords /\ listed \subseteq Kinds
  BY DEF PermissionIInv, PermissionTypes
<1>1. CASE Bootstrap(c)
  <2>1. store' = [store EXCEPT !.loading = @ \/ "list" = "list"]
    BY <1>0, <1>1 DEF Bootstrap, StoreRecords
  <2>2. PICK asks \in {"list", "all", "probe", "open"} : asks = "list"
    OBVIOUS
  <2> QED BY <1>1, <2>1, <2>2, PageCallKeeps DEF Bootstrap
<1>2. CASE Recheck(c)
  <2>1. PICK asks \in {"all", "probe"}, of \in Kinds \union {Nothing} :
           Calls(c, asks, of, "reading") /\ (of = Nothing \/ of \in listed)
    BY <1>0, <1>2 DEF Recheck
  <2>2. store' = [store EXCEPT !.loading = @ \/ asks = "list"]
    BY <1>0, <1>2, <2>1 DEF Recheck, StoreRecords
  <2> QED BY <1>2, <2>1, <2>2, PageCallKeeps DEF Recheck
<1>3. CASE OpenBrowser(c)
  <2>1. PICK asks \in {"list", "all", "probe", "open"} : asks = "open"
    OBVIOUS
  <2>2. store' = [store EXCEPT !.loading = @ \/ asks = "list"]
    BY <1>0, <1>3, <2>1 DEF OpenBrowser, StoreRecords
  <2>3. PICK of \in Kinds : of = "browser"
    BY DEF Kinds
  <2> QED BY <1>3, <2>1, <2>2, <2>3, PageCallKeeps DEF OpenBrowser
<1> QED BY <1>1, <1>2, <1>3

LEMMA GrantKeeps ==
  ASSUME PermissionIInv, NEW c \in Idle, NEW k \in Kinds, Grant(c, k)
  PROVE  PermissionIInv'
<1>0. PermissionTypes /\ c \in Requests /\ c \notin Open /\ k # Nothing
  BY DEF PermissionIInv, Idle, Open, Kinds, Nothing
<1>1. /\ requests' \in [Requests -> CallRecords]
      /\ requests'[c].asks = "grant" /\ requests'[c].of = k /\ requests'[c].by = mount
      /\ \A d \in Requests \ {c} : requests'[d] = requests[d]
      /\ Open' = Open \union {c}
  <2>1. PICK asks \in {"list", "all", "probe", "open", "grant"} : asks = "grant"
    OBVIOUS
  <2>2. PICK at \in {"asking", "reading"} : at = "asking"
    OBVIOUS
  <2>3. Calls(c, asks, k, at)
    BY <2>1, <2>2 DEF Grant
  <2> QED BY <1>0, <2>1, <2>3, CallsDoes
<1>2. /\ UNCHANGED <<platform, listed, allowed, store, shown, mount>>
      /\ due' = due \ {k} /\ crossed' = crossed
      /\ hooks' = [hooks EXCEPT ![mount].pending = k]
      /\ store.bootstrapped /\ hooks[mount].watched # k
  BY DEF Grant, Offered
<1>3. /\ hooks' \in [Mounts -> HookRecords]
      /\ \A m \in Mounts : hooks'[m].watched = hooks[m].watched /\ hooks'[m].late = hooks[m].late
  BY <1>0, <1>2 DEF PermissionTypes, HookRecords
<1>4. mount \in Mounts /\ mount <= mount
  BY <1>0, PermissionBounds DEF PermissionTypes
<1>5. PermissionTypes'
  BY <1>0, <1>1, <1>2, <1>3 DEF PermissionTypes
<1>6. \A d \in Open : d \in Requests /\ d # c
  BY <1>0 DEF Open
<1>7. OpeningsFollow'
  <2>1. \A d \in Requests : requests'[d].by <= mount'
    BY <1>1, <1>2, <1>4 DEF PermissionIInv, OpeningsFollow
  <2>2. \A d, e \in Open' : requests'[d].asks = "list" /\ requests'[e].asks = "list" => d = e
    BY <1>1, <1>6 DEF PermissionIInv, OpeningsFollow
  <2>3. \A d \in Open' : requests'[d].asks = "list" => store'.loading /\ ~store'.bootstrapped
    BY <1>1, <1>2, <1>6 DEF PermissionIInv, OpeningsFollow
  <2> QED BY <1>2, <1>3, <2>1, <2>2, <2>3 DEF PermissionIInv, OpeningsFollow
<1>8. DueIsAllowed'
  BY <1>2 DEF PermissionIInv, DueIsAllowed, Onboards, NeedsOnboarding
<1>9. Onboards' = Onboards /\ hooks'[mount'].watched = hooks[mount].watched
  BY <1>2, <1>3, <1>4 DEF Onboards, NeedsOnboarding
<1>10. WatchedAlone'
  <2>1. PICK w : w = hooks[mount].watched
    OBVIOUS
  <2> SUFFICES ASSUME ~crossed, Onboards, AtOnce(w)
               PROVE  /\ \A d \in Open' : Concerns(d, w)' =>
                           requests'[d].asks = "poll" /\ requests'[d].at = "reading"
                      /\ \A d, e \in Open' : requests'[d].of = w /\ requests'[e].of = w => d = e
                      /\ \A d \in Open' : requests'[d].asks = "poll" /\ requests'[d].by = mount
                                           => requests'[d].of = w
    BY <1>2, <1>9, <2>1 DEF WatchedAlone, AtOnce, Concerns
  <2>2. /\ \A d \in Open : Concerns(d, w) =>
              requests[d].asks = "poll" /\ requests[d].at = "reading"
        /\ \A d, e \in Open : requests[d].of = w /\ requests[e].of = w => d = e
        /\ \A d \in Open : requests[d].asks = "poll" /\ requests[d].by = mount
                            => requests[d].of = w
    BY <2>1 DEF PermissionIInv, WatchedAlone
  <2>3. w # k
    BY <1>2, <2>1
  <2> QED BY <1>0, <1>1, <1>6, <2>2, <2>3 DEF Concerns
<1>11. DueIsSettled'
  <2> SUFFICES ASSUME ~crossed', NEW j \in due', AtOnce(j), ~Owed(j)' PROVE SettledGrant(j)'
    BY <1>2 DEF DueIsSettled, AtOnce
  <2>1. ~crossed /\ j \in due /\ j # k
    BY <1>2
  <2>2. ~Owed(j)
    BY <1>2, <1>3, <1>4 DEF Owed
  <2>3. SettledGrant(j)
    BY <2>1, <2>2 DEF PermissionIInv, DueIsSettled
  <2>4. ~Concerns(c, j)'
    BY <1>0, <1>1, <2>1 DEF Concerns
  <2>5. \A d \in Open : Concerns(d, j)' <=> Concerns(d, j)
    BY <1>1, <1>6 DEF Concerns
  <2> QED BY <1>1, <1>2, <1>6, <1>9, <2>3, <2>4, <2>5 DEF SettledGrant
<1> QED BY <1>5, <1>7, <1>8, <1>10, <1>11 DEF PermissionIInv

LEMMA PollKeeps ==
  ASSUME PermissionIInv, NEW c \in Idle, NEW m \in Mounts, Poll(c, m)
  PROVE  PermissionIInv'
<1>0. PermissionTypes /\ c \in Requests /\ c \notin Open
  BY DEF PermissionIInv, Idle, Open
<1> DEFINE k == hooks[m].watched
           r == [asks |-> "poll", of |-> k, by |-> m, at |-> "reading", was |-> FALSE,
                 saw |-> SeesAtOnce({k})]
<1>1. /\ k \in Kinds /\ k # Nothing /\ m <= mount
      /\ AtOnce(k) => ~\E d \in Open : requests[d].asks = "poll" /\ requests[d].of = k
      /\ requests' = [requests EXCEPT ![c] = r]
      /\ UNCHANGED <<platform, listed, allowed, store, shown, hooks, mount, due, crossed>>
  BY <1>0 DEF Poll, PermissionIInv, OpeningsFollow, PermissionTypes, HookRecords
<1> HIDE DEF k
<1>2. /\ r \in CallRecords /\ r.asks = "poll" /\ r.of = k /\ r.by = m /\ r.at = "reading"
      /\ r.saw = SeesAtOnce({k})
  BY <1>1, SeesAtOnceType DEF CallRecords, CallFields, Shaped
<1>3. AtOnce(k) /\ k \in allowed => r.saw[k] = "granted"
  BY <1>1, <1>2, SeesAtOnceTells
<1> HIDE DEF r
<1>4. /\ requests' \in [Requests -> CallRecords] /\ requests'[c] = r
      /\ \A d \in Requests \ {c} : requests'[d] = requests[d]
  BY <1>0, <1>1, <1>2 DEF PermissionTypes
<1>5. Open' = Open \union {c}
  BY <1>0, <1>2, <1>4 DEF Open, Idle
<1>6. PermissionTypes'
  BY <1>0, <1>1, <1>4 DEF PermissionTypes
<1>7. \A d \in Open : d \in Requests /\ d # c
  BY <1>0 DEF Open
<1>8. OpeningsFollow'
  <2>1. \A d \in Requests : requests'[d].by <= mount'
    BY <1>1, <1>2, <1>4 DEF PermissionIInv, OpeningsFollow
  <2>2. \A d, e \in Open' : requests'[d].asks = "list" /\ requests'[e].asks = "list" => d = e
    BY <1>2, <1>4, <1>5, <1>7 DEF PermissionIInv, OpeningsFollow
  <2>3. \A d \in Open' : requests'[d].asks = "list" => store'.loading /\ ~store'.bootstrapped
    BY <1>1, <1>2, <1>4, <1>5, <1>7 DEF PermissionIInv, OpeningsFollow
  <2>4. \A d \in Open' : requests'[d].asks = "grant" => store'.bootstrapped
    BY <1>1, <1>2, <1>4, <1>5, <1>7 DEF PermissionIInv, OpeningsFollow
  <2> QED BY <1>1, <2>1, <2>2, <2>3, <2>4 DEF PermissionIInv, OpeningsFollow
<1>9. DueIsAllowed'
  BY <1>1 DEF PermissionIInv, DueIsAllowed, Onboards, NeedsOnboarding
<1>10. WatchedAlone'
  <2>1. PICK w : w = hooks[mount].watched
    OBVIOUS
  <2> SUFFICES ASSUME ~crossed, Onboards, AtOnce(w)
               PROVE  /\ \A d \in Open' : Concerns(d, w)' =>
                           requests'[d].asks = "poll" /\ requests'[d].at = "reading"
                      /\ \A d, e \in Open' : requests'[d].of = w /\ requests'[e].of = w => d = e
                      /\ \A d \in Open' : requests'[d].asks = "poll" /\ requests'[d].by = mount
                                           => requests'[d].of = w
    BY <1>1, <2>1 DEF WatchedAlone, AtOnce, Onboards, NeedsOnboarding, Concerns
  <2>2. /\ \A d \in Open : Concerns(d, w) =>
              requests[d].asks = "poll" /\ requests[d].at = "reading"
        /\ \A d, e \in Open : requests[d].of = w /\ requests[e].of = w => d = e
        /\ \A d \in Open : requests[d].asks = "poll" /\ requests[d].by = mount
                            => requests[d].of = w
    BY <2>1 DEF PermissionIInv, WatchedAlone
  <2>3. k = w => \A d \in Open : requests[d].of # w
    BY <1>1, <2>2 DEF Concerns
  <2>4. m = mount => k = w
    BY <2>1 DEF k
  <2>5. \A d \in Open' : requests'[d].asks = "poll" /\ requests'[d].by = mount
                            => requests'[d].of = w
    BY <1>2, <1>4, <1>5, <1>7, <2>2, <2>4
  <2>6. \A d \in Open' : Concerns(d, w)' =>
                           requests'[d].asks = "poll" /\ requests'[d].at = "reading"
    BY <1>2, <1>4, <1>5, <1>7, <2>2 DEF Concerns
  <2>7. \A d, e \in Open' : requests'[d].of = w /\ requests'[e].of = w => d = e
    BY <1>2, <1>4, <1>5, <1>7, <2>2, <2>3
  <2> QED BY <2>5, <2>6, <2>7
<1>11. DueIsSettled'
  <2> SUFFICES ASSUME ~crossed, NEW j \in due, AtOnce(j), ~Owed(j) PROVE SettledGrant(j)'
    BY <1>1 DEF DueIsSettled, AtOnce, Owed
  <2>1. SettledGrant(j) /\ j \in allowed
    BY DEF PermissionIInv, DueIsSettled, DueIsAllowed
  <2>2. Concerns(c, j)' => requests'[c].at = "reading" /\ requests'[c].saw[j] = "granted"
    BY <1>1, <1>2, <1>3, <1>4, <2>1 DEF Concerns
  <2>3. \A d \in Open : Concerns(d, j)' <=> Concerns(d, j)
    BY <1>4, <1>7 DEF Concerns
  <2> QED BY <1>1, <1>4, <1>5, <1>7, <2>1, <2>2, <2>3 DEF SettledGrant
<1> QED BY <1>6, <1>8, <1>9, <1>10, <1>11 DEF PermissionIInv

(* An answer in the making: the call stays what it is.                     *)
LEMMA AnswerGrows ==
  ASSUME PermissionIInv, NEW c \in Open, NEW k \in Kinds, NEW a \in Answers,
         NEW r \in CallRecords, requests' \in [Requests -> CallRecords], requests'[c] = r,
         \A d \in Requests \ {c} : requests'[d] = requests[d],
         r.asks = requests[c].asks, r.of = requests[c].of, r.by = requests[c].by,
         r.at = "reading", r.saw = [requests[c].saw EXCEPT ![k] = a],
         requests[c].at = "reading" => requests[c].saw[k] = Nothing,
         allowed \subseteq allowed', allowed' \subseteq Kinds,
         UNCHANGED <<platform, listed, store, shown, hooks, mount, due, crossed>>
  PROVE  PermissionIInv'
<1>0. PermissionTypes /\ c \in Requests /\ requests[c].asks # "none"
  BY DEF PermissionIInv, Idle, Open
<1>1. /\ requests' \in [Requests -> CallRecords] /\ requests'[c] = r
      /\ \A d \in Requests \ {c} : requests'[d] = requests[d]
  OBVIOUS
<1>2. \A d \in Requests : /\ requests'[d].asks = requests[d].asks
                          /\ requests'[d].of = requests[d].of
                          /\ requests'[d].by = requests[d].by
  BY <1>1
<1>3. Open' = Open /\ Open \subseteq Requests
  BY <1>2 DEF Open, Idle
<1>4. PermissionTypes'
  BY <1>0, <1>1 DEF PermissionTypes
<1>5. OpeningsFollow'
  BY <1>2, <1>3 DEF PermissionIInv, OpeningsFollow
<1>6. DueIsAllowed'
  BY DEF PermissionIInv, DueIsAllowed, Onboards, NeedsOnboarding
<1>7. WatchedAlone'
  <2>1. hooks'[mount'].watched = hooks[mount].watched /\ Onboards' = Onboards
    BY DEF Onboards, NeedsOnboarding
  <2>2. \A d \in Open : requests[d].at = "reading" => requests'[d].at = "reading"
    BY <1>1, <1>3
  <2> QED BY <1>2, <1>3, <2>1, <2>2 DEF PermissionIInv, WatchedAlone, AtOnce, Concerns
<1>8. DueIsSettled'
  <2> SUFFICES ASSUME ~crossed, NEW j \in due, AtOnce(j), ~Owed(j) PROVE SettledGrant(j)'
    BY DEF DueIsSettled, AtOnce, Owed
  <2>1. SettledGrant(j) /\ j \in Kinds
    BY <1>0 DEF PermissionIInv, DueIsSettled, PermissionTypes
  <2>2. \A d \in Open : Concerns(d, j)' <=> Concerns(d, j)
    BY <1>2, <1>3 DEF Concerns
  <2>3. Concerns(c, j) => r.saw[j] = "granted"
    <3> SUFFICES ASSUME Concerns(c, j) PROVE r.saw[j] = "granted"
      OBVIOUS
    <3>1. requests[c].at = "reading" /\ requests[c].saw[j] = "granted"
      BY <2>1 DEF SettledGrant
    <3>2. j # k
      BY <3>1 DEF Nothing
    <3>3. requests[c].saw \in [Kinds -> Answers \union {Nothing}]
      BY <1>0 DEF PermissionTypes, CallRecords, CallFields
    <3> QED BY <2>1, <3>1, <3>2, <3>3
  <2>4. ASSUME NEW d \in Open, Concerns(d, j)
        PROVE  requests'[d].at = "reading" /\ requests'[d].saw[j] = "granted"
    <3>1. CASE d = c
      BY <1>1, <2>3, <2>4, <3>1
    <3>2. CASE d # c
      <4>1. requests'[d] = requests[d]
        BY <1>1, <1>3, <3>2
      <4> QED BY <2>1, <2>4, <4>1 DEF SettledGrant
    <3> QED BY <3>1, <3>2
  <2>5. shown' = shown /\ hooks' = hooks /\ mount' = mount
    OBVIOUS
  <2> QED BY <1>3, <2>1, <2>2, <2>4, <2>5 DEF SettledGrant
<1> QED BY <1>4, <1>5, <1>6, <1>7, <1>8 DEF PermissionIInv

LEMMA AnswersKeep ==
  ASSUME PermissionIInv, NEW c \in Requests,
         PromptEnds(c) \/ (\E k \in Kinds : ReadsState(c, k))
  PROVE  PermissionIInv'
<1>0. /\ requests[c] \in CallFields /\ Shaped(requests[c]) /\ requests[c] \in CallRecords
      /\ requests[c].was \in BOOLEAN /\ requests[c].saw \in [Kinds -> Answers \union {Nothing}]
      /\ allowed \subseteq Kinds /\ requests \in [Requests -> CallRecords]
  BY DEF PermissionIInv, PermissionTypes, CallRecords, CallFields
<1>1. CASE PromptEnds(c)
  <2>1. requests[c].at = "asking"
    BY <1>1 DEF PromptEnds
  <2>2. c \in Open /\ requests[c].of \in Kinds
    BY <1>0, <2>1 DEF Shaped, Open, Idle
  <2>3. PICK k \in Kinds : k = requests[c].of
    BY <2>2
  <2>4. PICK outcome \in Requested(k, requests[c].was) :
           /\ requests' = [requests EXCEPT ![c].at = "reading", ![c].saw[k] = outcome[1]]
           /\ allowed' = allowed \union outcome[2]
    BY <1>1, <2>3 DEF PromptEnds
  <2>5. outcome[1] \in Answers /\ outcome[2] \subseteq Kinds
    BY <1>0, RequestedType
  <2>6. PICK a \in Answers : a = outcome[1]
    BY <2>5
  <2> DEFINE r == [requests[c] EXCEPT !.at = "reading", !.saw[k] = a]
  <2>7. requests' = [requests EXCEPT ![c] = r]
    BY <1>0, <2>4, <2>6
  <2>8. /\ r \in CallFields
        /\ r.asks = requests[c].asks /\ r.of = requests[c].of /\ r.by = requests[c].by
        /\ r.at = "reading" /\ r.saw = [requests[c].saw EXCEPT ![k] = a]
    BY <1>0 DEF CallFields
  <2> HIDE DEF r
  <2>9. r \in CallRecords
    BY <1>0, <2>1, <2>8 DEF CallRecords, Shaped
  <2>10. /\ requests' \in [Requests -> CallRecords] /\ requests'[c] = r
         /\ \A d \in Requests \ {c} : requests'[d] = requests[d]
    BY <1>0, <2>7, <2>9
  <2>11. requests[c].at = "reading" => requests[c].saw[k] = Nothing
    BY <2>1
  <2>12. allowed \subseteq allowed' /\ allowed' \subseteq Kinds
    BY <1>0, <2>4, <2>5
  <2>13. UNCHANGED <<platform, listed, store, shown, hooks, mount, due, crossed>>
    BY <1>1 DEF PromptEnds
  <2> QED BY <2>2, <2>8, <2>9, <2>10, <2>11, <2>12, <2>13, AnswerGrows
<1>2. ASSUME NEW k \in Kinds, ReadsState(c, k) PROVE PermissionIInv'
  <2>1. /\ requests[c].at = "reading" /\ requests[c].saw[k] = Nothing
        /\ requests' = [requests EXCEPT ![c].saw[k] = Probe(k)]
        /\ UNCHANGED <<platform, listed, allowed, store, shown, hooks, mount, due, crossed>>
    BY <1>2 DEF ReadsState
  <2>2. PICK a \in Answers : a = Probe(k)
    BY ProbeType
  <2>3. c \in Open
    BY <1>0, <2>1 DEF Shaped, Open, Idle
  <2> DEFINE r == [requests[c] EXCEPT !.saw[k] = a]
  <2>4. requests' = [requests EXCEPT ![c] = r]
    BY <1>0, <2>1, <2>2
  <2>5. /\ r \in CallFields
        /\ r.asks = requests[c].asks /\ r.of = requests[c].of /\ r.by = requests[c].by
        /\ r.at = "reading" /\ r.saw = [requests[c].saw EXCEPT ![k] = a]
    BY <1>0, <2>1 DEF CallFields
  <2> HIDE DEF r
  <2>6. r \in CallRecords
    BY <1>0, <2>1, <2>5 DEF CallRecords, Shaped
  <2>7. /\ requests' \in [Requests -> CallRecords] /\ requests'[c] = r
        /\ \A d \in Requests \ {c} : requests'[d] = requests[d]
    BY <1>0, <2>4, <2>6
  <2>8. allowed \subseteq allowed' /\ allowed' \subseteq Kinds
    BY <1>0, <2>1
  <2> QED BY <2>1, <2>3, <2>5, <2>6, <2>7, <2>8, AnswerGrows
<1> QED BY <1>1, <1>2

(* The user allows or forbids it; the slideshow ends; two minutes end.     *)
LEMMA RestKeeps ==
  ASSUME PermissionIInv,
         \/ Complete \/ Restart \/ PreferenceArrives
         \/ \E m \in Mounts : DeadlinePasses(m)
         \/ \E k \in Kinds : UserAllows(k) \/ UserForbids(k)
         \/ UNCHANGED permissionVars
  PROVE  PermissionIInv'
<1>0. PermissionTypes
  BY DEF PermissionIInv
<1>1. CASE Complete
  <2>1. /\ UNCHANGED <<platform, listed, allowed, shown, mount, requests, crossed>>
        /\ store' = [store EXCEPT !.completed = "current"] /\ due' = {}
        /\ hooks' = [hooks EXCEPT ![mount].watched = Nothing, ![mount].late = FALSE]
    BY <1>1 DEF Complete
  <2>2. /\ store' \in StoreRecords /\ store'.completed = "current"
        /\ store'.loading = store.loading /\ store'.bootstrapped = store.bootstrapped
    BY <1>0, <2>1 DEF PermissionTypes, StoreRecords
  <2>3. /\ hooks' \in [Mounts -> HookRecords]
        /\ hooks'[mount].watched = Nothing
        /\ \A m \in Mounts \ {mount} : hooks'[m] = hooks[m]
    BY <1>0, <2>1 DEF PermissionTypes, HookRecords
  <2>4. PermissionTypes'
    BY <1>0, <2>1, <2>2, <2>3 DEF PermissionTypes
  <2>5. OpeningsFollow'
    BY <2>1, <2>2, <2>3 DEF PermissionIInv, OpeningsFollow, Open, Idle
  <2>6. ~Onboards'
    BY <2>2 DEF Onboards, NeedsOnboarding
  <2> QED BY <2>1, <2>4, <2>5, <2>6 DEF PermissionIInv, DueIsAllowed, WatchedAlone,
                                        DueIsSettled, Open, Idle
<1>2. CASE Restart
  <2>1. /\ UNCHANGED <<platform, listed, allowed, shown, hooks, requests, due, crossed>>
        /\ store' = [store EXCEPT !.completed = "none"]
        /\ mount' = mount + 1 /\ mount + 1 \in Mounts /\ ~Onboards
    BY <1>2 DEF Restart
  <2>2. /\ store' \in StoreRecords
        /\ store'.loading = store.loading /\ store'.bootstrapped = store.bootstrapped
    BY <1>0, <2>1 DEF PermissionTypes, StoreRecords
  <2>3. PermissionTypes'
    BY <1>0, <2>1, <2>2 DEF PermissionTypes
  <2>4. /\ mount \in Nat /\ \A m \in Mounts : m \in Nat
        /\ \A c \in Requests : requests[c].by \in Nat
    BY <1>0, PermissionBounds DEF PermissionTypes, CallRecords, CallFields
  <2>5. \A c \in Requests : requests[c].by <= mount + 1
    BY <2>4 DEF PermissionIInv, OpeningsFollow
  <2>6. \A m \in Mounts : hooks[m].watched # Nothing => m <= mount + 1
    BY <2>4 DEF PermissionIInv, OpeningsFollow
  <2>7. OpeningsFollow'
    BY <2>1, <2>2, <2>5, <2>6 DEF PermissionIInv, OpeningsFollow, Open, Idle
  <2>8. due = {}
    BY <2>1 DEF PermissionIInv, DueIsAllowed
  <2>9. hooks'[mount'].watched = Nothing
    <3>1. ~(mount + 1 <= mount)
      BY <2>4
    <3> QED BY <2>1, <3>1 DEF PermissionIInv, OpeningsFollow
  <2>10. WatchedAlone'
    <3>1. ~AtOnce(Nothing)
      BY AtOnceIsKind
    <3> QED BY <2>1, <2>9, <3>1 DEF WatchedAlone, AtOnce
  <2> QED BY <2>1, <2>3, <2>7, <2>8, <2>10 DEF PermissionIInv, DueIsAllowed, DueIsSettled, Open, Idle
<1>3. CASE PreferenceArrives \/ UNCHANGED permissionVars
  <2>1. UNCHANGED <<platform, listed, allowed, store, shown, hooks, mount, requests, due, crossed>>
    BY <1>3 DEF PreferenceArrives, permissionVars
  <2> QED BY <2>1 DEF PermissionIInv, PermissionTypes, OpeningsFollow, DueIsAllowed, WatchedAlone,
                      DueIsSettled, Owed, SettledGrant, Concerns, AtOnce, Onboards,
                      NeedsOnboarding, Open, Idle
<1>4. ASSUME NEW m \in Mounts, DeadlinePasses(m) PROVE PermissionIInv'
  <2>1. /\ UNCHANGED <<platform, listed, allowed, store, shown, mount, requests, crossed>>
        /\ hooks' = [hooks EXCEPT ![m].late = TRUE]
        /\ due' \subseteq due
        /\ \A k \in due' : m = mount /\ hooks[m].watched = k =>
             \A c \in Open : requests[c].of = k => requests[c].saw[k] = "granted"
    BY <1>4 DEF DeadlinePasses
  <2>2. /\ hooks' \in [Mounts -> HookRecords]
        /\ \A n \in Mounts : hooks'[n].watched = hooks[n].watched
        /\ \A n \in Mounts \ {m} : hooks'[n] = hooks[n]
    BY <1>0, <2>1 DEF PermissionTypes, HookRecords
  <2>3. PermissionTypes' /\ mount \in Mounts
    BY <1>0, <2>1, <2>2 DEF PermissionTypes
  <2>4. hooks'[mount'].watched = hooks[mount].watched
    BY <2>1, <2>2, <2>3
  <2>8. Open' = Open /\ Onboards' = Onboards
    BY <2>1 DEF Open, Idle, Onboards, NeedsOnboarding
  <2>5. OpeningsFollow'
    BY <2>1, <2>2, <2>8 DEF PermissionIInv, OpeningsFollow
  <2>6. WatchedAlone' /\ DueIsAllowed'
    BY <2>1, <2>4, <2>8 DEF PermissionIInv, WatchedAlone, DueIsAllowed, AtOnce, Concerns
  <2>7. DueIsSettled'
    <3> SUFFICES ASSUME ~crossed, NEW k \in due', AtOnce(k), ~Owed(k)' PROVE SettledGrant(k)'
      BY <2>1 DEF DueIsSettled, AtOnce
    <3>1. k \in due /\ Onboards
      BY <2>1 DEF PermissionIInv, DueIsAllowed
    <3>2. CASE Owed(k)
      <4>1. m = mount /\ hooks[m].watched = k
        BY <2>1, <2>2, <2>3, <3>2 DEF Owed
      <4>2. \A c \in Open : Concerns(c, k) =>
               requests[c].asks = "poll" /\ requests[c].at = "reading"
        BY <3>1, <4>1 DEF PermissionIInv, WatchedAlone
      <4>3. \A c \in Open : requests[c].asks = "poll" => requests[c].of # Nothing
        BY <1>0 DEF PermissionTypes, CallRecords, Shaped, Open, Idle, Kinds, Nothing
      <4>4. \A c \in Open : Concerns(c, k) =>
               requests[c].at = "reading" /\ requests[c].saw[k] = "granted"
        BY <2>1, <4>1, <4>2, <4>3 DEF Concerns
      <4> QED BY <2>1, <2>4, <2>8, <4>1, <4>4 DEF SettledGrant, Concerns
    <3>3. CASE ~Owed(k)
      <4>1. SettledGrant(k)
        BY <3>1, <3>3 DEF PermissionIInv, DueIsSettled
      <4> QED BY <2>1, <2>4, <2>8, <4>1 DEF SettledGrant, Concerns
    <3> QED BY <3>2, <3>3
  <2> QED BY <2>3, <2>5, <2>6, <2>7 DEF PermissionIInv
<1>5. ASSUME NEW k \in Kinds, UserAllows(k) \/ UserForbids(k) PROVE PermissionIInv'
  <2>1. UNCHANGED <<platform, listed, store, shown, hooks, mount, requests, crossed>>
    BY <1>5 DEF UserAllows, UserForbids
  <2>2. /\ allowed' \subseteq Kinds /\ due' \subseteq Kinds
        /\ due' \subseteq allowed' /\ due' \subseteq listed
        /\ ~Onboards => due' = {}
    BY <1>0, <1>5 DEF UserAllows, UserForbids, PermissionIInv, PermissionTypes, DueIsAllowed
  <2>3. Open' = Open /\ Onboards' = Onboards
    BY <2>1 DEF Open, Idle, Onboards, NeedsOnboarding
  <2>4. PermissionTypes' /\ DueIsAllowed'
    BY <1>0, <2>1, <2>2, <2>3 DEF PermissionTypes, DueIsAllowed
  <2>5. OpeningsFollow' /\ WatchedAlone'
    BY <2>1, <2>3 DEF PermissionIInv, OpeningsFollow, WatchedAlone, AtOnce, Concerns
  <2>6. \A j \in due' \ due : hooks[mount].watched = j /\ ~hooks[mount].late
    BY <1>5 DEF UserAllows, UserForbids
  <2>7. DueIsSettled'
    <3> SUFFICES ASSUME ~crossed, NEW j \in due', AtOnce(j), ~Owed(j) PROVE SettledGrant(j)'
      BY <2>1 DEF DueIsSettled, AtOnce, Owed
    <3>1. j \in due
      BY <2>6 DEF Owed
    <3>2. SettledGrant(j)
      BY <3>1 DEF PermissionIInv, DueIsSettled
    <3> QED BY <2>1, <2>3, <3>2 DEF SettledGrant, Concerns
  <2> QED BY <2>4, <2>5, <2>7 DEF PermissionIInv
<1> QED BY <1>1, <1>2, <1>3, <1>4, <1>5

(* What an answer does to the slideshow's refs: a grant may watch, a grant *)
(* or a poll may end the watch of the opening that asked.                  *)
LEMMA TakesHooks ==
  ASSUME PermissionIInv, NEW c \in Open, NEW r \in CallRecords, r = requests[c], Takes(c)
  PROVE  /\ hooks' \in [Mounts -> HookRecords]
         /\ \A m \in Mounts : hooks'[m] # hooks[m] => m = r.by /\ r.asks \in {"grant", "poll"}
         /\ LET h == hooks[r.by]
                g == hooks'[r.by] IN
            r.asks \in {"grant", "poll"} =>
              \/ g.watched = h.watched /\ g.late = h.late
              \/ /\ r.asks = "grant" /\ ShouldWatch(r.of, r.saw[r.of])
                 /\ g.watched = r.of /\ ~g.late
              \/ /\ r.asks = "grant" /\ h.watched = r.of /\ g.watched = Nothing
              \/ r.asks = "poll" /\ Ends(h, r.saw[r.of]) /\ g.watched = Nothing
<1> DEFINE h == hooks[r.by]
<1>1. /\ hooks \in [Mounts -> HookRecords] /\ r.by \in Mounts /\ h \in HookRecords
      /\ r.asks \in {"grant", "poll"} => r.of \in Kinds
      /\ r.saw \in [Kinds -> Answers \union {Nothing}]
  BY DEF PermissionIInv, PermissionTypes, CallRecords, CallFields, Shaped
<1>2. hooks' = CASE r.asks = "grant" -> [hooks EXCEPT ![r.by] = AfterGrant(r)]
                 [] r.asks = "poll"  -> [hooks EXCEPT ![r.by] = AfterPoll(r)]
                 [] OTHER            -> hooks
  BY DEF Takes
<1>3. CASE r.asks = "grant"
  <2>1. hooks' = [hooks EXCEPT ![r.by] = AfterGrant(r)]
    BY <1>2, <1>3
  <2> DEFINE i == [h EXCEPT !.pending = Nothing]
  <2>2. i \in HookRecords /\ i.watched = h.watched /\ i.late = h.late
    BY <1>1 DEF HookRecords
  <2>3. AfterGrant(r) = IF ShouldWatch(r.of, r.saw[r.of]) THEN WatchFor(i, r.of)
                        ELSE IF r.saw[r.of] = "granted" /\ i.watched = r.of THEN StopWatching(i)
                        ELSE i
    BY DEF AfterGrant
  <2> HIDE DEF i
  <2>4. /\ WatchFor(i, r.of) \in HookRecords
        /\ WatchFor(i, r.of).watched = r.of /\ ~WatchFor(i, r.of).late
    BY <1>1, <1>3, <2>2 DEF WatchFor, HookRecords
  <2>5. StopWatching(i) \in HookRecords /\ StopWatching(i).watched = Nothing
    BY <2>2 DEF StopWatching, HookRecords
  <2>6. AfterGrant(r) \in HookRecords
    BY <2>2, <2>3, <2>4, <2>5
  <2>7. /\ hooks' \in [Mounts -> HookRecords] /\ hooks'[r.by] = AfterGrant(r)
        /\ \A m \in Mounts : m # r.by => hooks'[m] = hooks[m]
    BY <1>1, <2>1, <2>6
  <2> QED BY <1>3, <2>2, <2>3, <2>4, <2>5, <2>7
<1>4. CASE r.asks = "poll"
  <2>1. hooks' = [hooks EXCEPT ![r.by] = AfterPoll(r)]
    BY <1>2, <1>4
  <2>2. AfterPoll(r) = IF Ends(h, r.saw[r.of]) THEN StopWatching(h) ELSE h
    BY DEF AfterPoll
  <2>3. StopWatching(h) \in HookRecords /\ StopWatching(h).watched = Nothing
    BY <1>1 DEF StopWatching, HookRecords
  <2>4. AfterPoll(r) \in HookRecords
    BY <1>1, <2>2, <2>3
  <2>5. /\ hooks' \in [Mounts -> HookRecords] /\ hooks'[r.by] = AfterPoll(r)
        /\ \A m \in Mounts : m # r.by => hooks'[m] = hooks[m]
    BY <1>1, <2>1, <2>4
  <2> QED BY <1>4, <2>2, <2>3, <2>5
<1>5. CASE r.asks \notin {"grant", "poll"}
  BY <1>1, <1>2, <1>5
<1> QED BY <1>3, <1>4, <1>5

(* An answer: what it leaves of the calls, of the store and of what is due.*)
LEMMA TakesKeeps ==
  ASSUME PermissionIInv, NEW c \in Requests, Takes(c)
  PROVE  PermissionIInv'
<1>0. PermissionTypes /\ requests[c].at = "reading" /\ c \in Open
  BY DEF PermissionIInv, PermissionTypes, CallRecords, Shaped, Takes, Answered, Open, Idle
<1>1. PICK r \in CallRecords : r = requests[c]
  BY <1>0 DEF PermissionTypes
<1>2. /\ r.asks # "none" /\ r.at = "reading" /\ r.of \in Kinds \union {Nothing}
      /\ r.asks \in {"grant", "poll"} => r.of \in Kinds
      /\ r.by \in Mounts /\ r.saw \in [Kinds -> Answers \union {Nothing}]
      /\ \A k \in listed : r.of \in {k, Nothing} => r.saw[k] # Nothing
  BY <1>0, <1>1 DEF CallRecords, CallFields, Shaped, Takes, Answered, PermissionTypes
<1>3. /\ \A k \in Kinds : shown'[k] = IF r.of \in {k, Nothing} THEN r.saw[k] ELSE shown[k]
      /\ shown' \in [Kinds -> Answers \union {Nothing}]
  <2>1. shown' = Shows(r)
    BY <1>1 DEF Takes
  <2> QED BY <1>0, <1>2, <2>1 DEF Shows, PermissionTypes
<1>4. /\ UNCHANGED <<platform, listed, allowed, mount>>
      /\ requests' = [requests EXCEPT ![c] = NoRequest]
      /\ store' = IF r.asks = "list"
                  THEN [store EXCEPT !.loading = FALSE, !.bootstrapped = TRUE] ELSE store
      /\ crossed' = (crossed \/ (r.asks = "grant" /\ ShouldWatch(r.of, r.saw[r.of])
                                  /\ \E d \in Open \ {c} : Disturbs(d, r)))
      /\ due' = IF hooks'[mount].watched \in Kinds
                THEN due \ ({hooks[mount].watched} \ {hooks'[mount].watched}) ELSE due
  BY <1>1 DEF Takes
<1>5. NoRequest \in CallRecords /\ NoRequest.asks = "none" /\ NoRequest.by = 1
  BY PermissionBounds DEF NoRequest, CallRecords, CallFields, Shaped, Unseen, Kinds
<1>6. /\ requests' \in [Requests -> CallRecords] /\ requests'[c] = NoRequest
      /\ \A d \in Requests \ {c} : requests'[d] = requests[d]
  BY <1>0, <1>4, <1>5 DEF PermissionTypes
<1>7. /\ Open' = Open \ {c} /\ Open' \subseteq Requests
      /\ \A d \in Open' : d \in Open /\ d # c /\ requests'[d] = requests[d]
  BY <1>5, <1>6 DEF Open, Idle
<1>8. /\ store' \in StoreRecords /\ store'.completed = store.completed
      /\ store'.bootstrapped = (store.bootstrapped \/ r.asks = "list")
      /\ r.asks # "list" => store' = store
  BY <1>0, <1>4 DEF PermissionTypes, StoreRecords
<1>9. /\ hooks' \in [Mounts -> HookRecords]
      /\ \A m \in Mounts : hooks'[m] # hooks[m] => m = r.by /\ r.asks \in {"grant", "poll"}
      /\ LET h == hooks[r.by]
             g == hooks'[r.by] IN
         r.asks \in {"grant", "poll"} =>
           \/ g.watched = h.watched /\ g.late = h.late
           \/ /\ r.asks = "grant" /\ ShouldWatch(r.of, r.saw[r.of])
              /\ g.watched = r.of /\ ~g.late
           \/ /\ r.asks = "grant" /\ h.watched = r.of /\ g.watched = Nothing
           \/ r.asks = "poll" /\ Ends(h, r.saw[r.of]) /\ g.watched = Nothing
  BY <1>0, <1>1, TakesHooks
<1>10. PermissionTypes' /\ mount \in Mounts /\ mount >= 1
  <2>1. crossed' \in BOOLEAN /\ due' \subseteq Kinds
    BY <1>0, <1>4 DEF PermissionTypes
  <2> QED BY <1>0, <1>3, <1>4, <1>6, <1>8, <1>9, <2>1, PermissionBounds DEF PermissionTypes
<1>11. r.asks = "list" => ~store.bootstrapped /\ \A d \in Open' : requests'[d].asks # "list"
  BY <1>0, <1>1, <1>7 DEF PermissionIInv, OpeningsFollow
<1>12. OpeningsFollow'
  <2>1. \A d \in Requests : requests'[d].by <= mount'
    BY <1>4, <1>5, <1>6, <1>10, PermissionBounds DEF PermissionIInv, OpeningsFollow
  <2>2. \A d, e \in Open' : requests'[d].asks = "list" /\ requests'[e].asks = "list" => d = e
    BY <1>7 DEF PermissionIInv, OpeningsFollow
  <2>3. \A d \in Open' : requests'[d].asks = "list" => store'.loading /\ ~store'.bootstrapped
    BY <1>7, <1>8, <1>11 DEF PermissionIInv, OpeningsFollow
  <2>4. \A d \in Open' : requests'[d].asks = "grant" => store'.bootstrapped
    BY <1>7, <1>8 DEF PermissionIInv, OpeningsFollow
  <2>5. ASSUME NEW m \in Mounts, hooks'[m].watched # Nothing
        PROVE  m <= mount' /\ store'.bootstrapped
    <3>1. CASE hooks[m].watched # Nothing
      BY <1>4, <1>8, <3>1 DEF PermissionIInv, OpeningsFollow
    <3>2. CASE hooks[m].watched = Nothing
      <4>1. m = r.by /\ r.asks = "grant"
        BY <1>9, <2>5, <3>2
      <4> QED BY <1>0, <1>1, <1>4, <1>8, <4>1 DEF PermissionIInv, OpeningsFollow
    <3> QED BY <3>1, <3>2
  <2> QED BY <2>1, <2>2, <2>3, <2>4, <2>5 DEF OpeningsFollow
<1>13. ~Onboards' => ~Onboards
  BY <1>8, <1>11 DEF Onboards, NeedsOnboarding
<1>14. due' \subseteq due
  BY <1>4
<1>15. DueIsAllowed'
  BY <1>4, <1>13, <1>14 DEF PermissionIInv, DueIsAllowed
<1>16. r.asks = "list" => hooks' = hooks /\ hooks[mount].watched = Nothing
  BY <1>0, <1>9, <1>10, <1>11 DEF PermissionIInv, OpeningsFollow, PermissionTypes
<1>17. r.asks # "list" => Onboards' = Onboards
  BY <1>8 DEF Onboards, NeedsOnboarding
<1>18. WatchedAlone'
  <2>1. PICK w : w = hooks'[mount].watched
    OBVIOUS
  <2> SUFFICES ASSUME ~crossed', Onboards', AtOnce(w)
               PROVE  /\ \A d \in Open' : Concerns(d, w)' =>
                           requests'[d].asks = "poll" /\ requests'[d].at = "reading"
                      /\ \A d, e \in Open' : requests'[d].of = w /\ requests'[e].of = w => d = e
                      /\ \A d \in Open' : requests'[d].asks = "poll" /\ requests'[d].by = mount
                                           => requests'[d].of = w
    BY <1>4, <2>1 DEF WatchedAlone, AtOnce, Concerns
  <2>2. w # Nothing
    BY AtOnceIsKind
  <2>3. CASE w = hooks[mount].watched
    <3>1. Onboards
      BY <1>16, <1>17, <2>2, <2>3
    <3>2. /\ \A d \in Open : Concerns(d, w) =>
                requests[d].asks = "poll" /\ requests[d].at = "reading"
          /\ \A d, e \in Open : requests[d].of = w /\ requests[e].of = w => d = e
          /\ \A d \in Open : requests[d].asks = "poll" /\ requests[d].by = mount
                              => requests[d].of = w
      BY <1>4, <2>3, <3>1 DEF PermissionIInv, WatchedAlone
    <3> QED BY <1>7, <3>2 DEF Concerns
  <2>4. CASE w # hooks[mount].watched
    <3>1. /\ r.asks = "grant" /\ ShouldWatch(r.of, r.saw[r.of])
          /\ w = r.of /\ r.by = mount
      BY <1>9, <1>10, <2>1, <2>2, <2>4
    <3>2. \A d \in Open' : /\ ~Concerns(d, w)
                           /\ ~(requests[d].asks = "poll" /\ requests[d].by = mount)
      BY <1>4, <1>7, <3>1 DEF Disturbs
    <3> QED BY <1>7, <3>2 DEF Concerns
  <2> QED BY <2>3, <2>4
<1>19. DueIsSettled'
  <2> SUFFICES ASSUME ~crossed', NEW j \in due', AtOnce(j), ~Owed(j)' PROVE SettledGrant(j)'
    BY <1>4 DEF DueIsSettled, AtOnce
  <2>1. ~crossed /\ j \in due /\ j \in Kinds /\ j \in listed /\ Onboards /\ j # Nothing
    BY <1>0, <1>4, <1>14, AtOnceIsKind DEF PermissionIInv, DueIsAllowed, PermissionTypes
  <2>2. CASE r.of \in {j, Nothing} /\ r.saw[j] = "granted"
                /\ \A d \in Open' : Concerns(d, j) =>
                     requests[d].at = "reading" /\ requests[d].saw[j] = "granted"
    <3>1. shown'[j] = "granted"
      BY <1>3, <2>1, <2>2
    <3> QED BY <1>7, <2>2, <3>1 DEF SettledGrant, Concerns
  <2>3. hooks[mount].watched = j =>
          /\ \A d \in Open : Concerns(d, j) =>
               requests[d].asks = "poll" /\ requests[d].at = "reading"
          /\ \A d, e \in Open : requests[d].of = j /\ requests[e].of = j => d = e
          /\ \A d \in Open : requests[d].asks = "poll" /\ requests[d].by = mount
                              => requests[d].of = j
    BY <2>1 DEF PermissionIInv, WatchedAlone
  <2>4. \A d \in Open : requests[d].asks = "poll" => requests[d].of # Nothing
    BY <1>0 DEF PermissionTypes, CallRecords, Shaped, Open, Idle, Kinds, Nothing
  <2>5. CASE hooks[mount].watched = j /\ hooks'[mount].watched # j
    <3>1. mount = r.by /\ r.asks \in {"grant", "poll"}
      BY <1>9, <1>10, <2>5
    <3>2. CASE r.asks = "grant"
      <4>1. r.of # j
        BY <1>0, <1>1, <2>3, <2>5, <3>2 DEF Concerns
      <4>2. hooks'[mount].watched = r.of
        BY <1>9, <2>5, <3>1, <3>2, <4>1
      <4>3. j \notin due'
        BY <1>2, <1>4, <2>5, <3>2, <4>1, <4>2
      <4> QED BY <4>3
    <3>3. CASE r.asks = "poll"
      <4>1. Ends(hooks[mount], r.saw[r.of]) /\ r.of = j
        BY <1>0, <1>1, <1>9, <2>3, <2>5, <3>1, <3>3
      <4>2. r.saw[j] = "granted"
        <5>1. CASE ~hooks[mount].late
          BY <4>1, <5>1 DEF Ends
        <5>2. CASE hooks[mount].late
          <6>1. SettledGrant(j)
            BY <2>1, <5>2 DEF PermissionIInv, DueIsSettled, Owed
          <6> QED BY <1>0, <1>1, <4>1, <6>1 DEF SettledGrant, Concerns
        <5> QED BY <5>1, <5>2
      <4>3. \A d \in Open' : ~Concerns(d, j)
        BY <1>0, <1>1, <1>7, <2>3, <2>4, <2>5, <4>1 DEF Concerns
      <4> QED BY <2>2, <4>1, <4>2, <4>3
    <3> QED BY <3>1, <3>2, <3>3
  <2>6. CASE ~(hooks[mount].watched = j /\ hooks'[mount].watched # j)
    <3>1. CASE ~Owed(j)
      <4>1. SettledGrant(j)
        BY <2>1, <3>1 DEF PermissionIInv, DueIsSettled
      <4>2. CASE r.of \in {j, Nothing}
        <5>1. r.saw[j] = "granted"
          BY <1>0, <1>1, <4>1, <4>2 DEF SettledGrant, Concerns
        <5> QED BY <1>7, <2>2, <4>1, <4>2, <5>1 DEF SettledGrant
      <4>3. CASE r.of \notin {j, Nothing}
        <5>1. shown'[j] = shown[j]
          BY <1>3, <2>1, <4>3
        <5> QED BY <1>4, <1>7, <2>6, <4>1, <5>1 DEF SettledGrant, Concerns
      <4> QED BY <4>2, <4>3
    <3>2. CASE Owed(j)
      <4>1. hooks[mount].watched = j /\ ~hooks[mount].late /\ hooks'[mount].watched = j
        BY <2>6, <3>2 DEF Owed
      <4>2. hooks'[mount].late
        BY <1>4, <4>1 DEF Owed
      <4> QED BY <1>2, <1>9, <1>10, <2>1, <4>1, <4>2
    <3> QED BY <3>1, <3>2
  <2> QED BY <2>5, <2>6
<1> QED BY <1>10, <1>12, <1>15, <1>18, <1>19 DEF PermissionIInv

LEMMA PermissionIInvIsKept ==
  ASSUME PermissionIInv, [PermissionNext]_permissionVars
  PROVE  PermissionIInv'
<1>1. CASE UNCHANGED permissionVars
  BY <1>1, RestKeeps
<1>2. CASE PermissionNext
  <2>1. \/ \E c \in Idle : Bootstrap(c) \/ Recheck(c) \/ OpenBrowser(c)
        \/ \E c \in Idle, k \in Kinds : Grant(c, k)
        \/ \E c \in Idle, m \in Mounts : Poll(c, m)
        \/ \E c \in Requests : PromptEnds(c) \/ (\E k \in Kinds : ReadsState(c, k))
        \/ \E c \in Requests : Takes(c)
        \/ \/ Complete \/ Restart \/ PreferenceArrives
           \/ \E m \in Mounts : DeadlinePasses(m)
           \/ \E k \in Kinds : UserAllows(k) \/ UserForbids(k)
    BY <1>2 DEF PermissionNext
  <2> QED BY <2>1, PagesKeep, GrantKeeps, PollKeeps, AnswersKeep, TakesKeeps, RestKeeps
<1> QED BY <1>1, <1>2

(* What the user allows while the slideshow of the onboarding watches for  *)
(* it is shown as granted or still watched for, while other permissions are*)
(* asked for, and polls, deadlines, other openings and answers of other    *)
(* pages come between, for any number of permissions, openings, calls and  *)
(* acts (useOnboardingPermissionActions.js, permissionStore.js).           *)
THEOREM WatchedGrantsAreShownHolds == PermissionSpec => []WatchedGrantsAreShown
<1>1. PermissionIInv => WatchedGrantsAreShown
  BY DEF WatchedGrantsAreShown, PermissionIInv, DueIsSettled, Owed, SettledGrant
<1> QED BY <1>1, PermissionIInvAtStart, PermissionIInvIsKept, PTL DEF PermissionSpec

-----------------------------------------------------------------------------
(* The response window.                                                    *)

LoopPhases == {"awaiting", "streaming", "tool"}

Says(message) == \E i \in DOMAIN toView : toView[i] = message
LoopIsSaid == \E phase \in LoopPhases : Says(Phase(phase))
LoopIsAnnounced ==
  \E i \in DOMAIN toView : /\ toView[i] = Visibility(TRUE)
                           /\ i + 1 \in DOMAIN toView
                           /\ \E phase \in LoopPhases : toView[i + 1] = Phase(phase)

(* What main will have heard of the view, or believes of it.               *)
Believes == IF toMain = << >> THEN main.flag \/ main.response ELSE toMain[Len(toMain)]

(* The last phase that is said is main's.                                  *)
PhaseIsSaid ==
  \E n \in 0 .. Len(toView) :
    /\ IF n = 0 THEN view.phase = main.phase ELSE toView[n] = Phase(main.phase)
    /\ \A j \in n + 1 .. Len(toView) : toView[j].kind # "phase"

(* A frame is drawn of what there is to see, and it has been reported.     *)
FramesAreReported ==
  /\ frame # "hidden" => Visible(view)
  /\ frame # "hidden" /\ toMain # << >> => toMain[Len(toMain)]
  /\ frame # "hidden" /\ ~parted /\ toMain = << >> =>
       main.response \/ Says(Visibility(FALSE))

(* What there is to see is drawn, or will be.                              *)
SightsAreDrawn ==
  Visible(view) /\ ~parted => scheduled \/ frame # "hidden" \/ LoopIsAnnounced

(* Main believes in what is drawn, what there is to see or what it said.   *)
BeliefsAreFounded ==
  Believes /\ ~parted => frame # "hidden" \/ Visible(view) \/ LoopIsSaid

(* After the answer was closed, no loop goes on but one that awaits.       *)
ClosedIsOver ==
  ~parted /\ view.closed # 0 =>
    \/ Says(Phase("awaiting"))
    \/ /\ ~turn /\ main.phase \notin LoopPhases
       /\ frame # "hidden" \/ ~Believes

LoopsHaveTurns == ~turn => main.phase \notin {"streaming", "tool"}

OverlayIInv ==
  /\ OverlayTypeOK
  /\ ~main.chat => parted
  /\ PhaseIsSaid
  /\ FramesAreReported
  /\ SightsAreDrawn
  /\ BeliefsAreFounded
  /\ ClosedIsOver
  /\ LoopsHaveTurns

LEMMA MessagesAre ==
  /\ \A phase \in OverlayPhases : Phase(phase) \in OverlayMessages
  /\ \A up \in BOOLEAN : Visibility(up) \in OverlayMessages
  /\ \A type \in Entries \union {"user", "complete", "usage"} : Event(type) \in OverlayMessages
  /\ \A p, q : Phase(p) = Phase(q) => p = q
  /\ \A p, up : Phase(p) # Visibility(up)
  /\ Visibility(TRUE) # Visibility(FALSE)
  /\ \A p : Phase(p).kind = "phase" /\ Phase(p).value = p
  /\ \A up : Visibility(up).kind = "visibility" /\ Visibility(up).value = up
  /\ \A type : Event(type).kind = "event" /\ Event(type).value = type
BY DEF Phase, Visibility, Event, OverlayMessages

(* More is said to the renderer: what had been said stays said.            *)
LEMMA SayingMore ==
  ASSUME NEW more \in Seq(OverlayMessages), toView \in Seq(OverlayMessages),
         toView' = toView \o more
  PROVE  /\ toView' \in Seq(OverlayMessages) /\ Len(toView') = Len(toView) + Len(more)
         /\ \A i \in DOMAIN toView : toView'[i] = toView[i]
         /\ \A i \in DOMAIN more : toView'[Len(toView) + i] = more[i]
         /\ \A message : Says(message) => Says(message)'
         /\ LoopIsSaid => LoopIsSaid'
         /\ LoopIsAnnounced => LoopIsAnnounced'
         /\ \A i \in DOMAIN more : Says(more[i])'
<1>1. /\ Len(toView) \in Nat /\ DOMAIN toView = 1 .. Len(toView)
      /\ Len(more) \in Nat /\ DOMAIN more = 1 .. Len(more)
  BY LenProperties
<1>2. /\ toView' \in Seq(OverlayMessages) /\ Len(toView') = Len(toView) + Len(more)
      /\ \A i \in 1 .. Len(toView) + Len(more) :
           toView'[i] = IF i <= Len(toView) THEN toView[i] ELSE more[i - Len(toView)]
  BY ConcatProperties
<1>3. DOMAIN toView' = 1 .. Len(toView) + Len(more)
  BY <1>2, LenProperties
<1>4. \A i \in DOMAIN toView : i \in DOMAIN toView' /\ toView'[i] = toView[i]
  BY <1>1, <1>2, <1>3
<1>5. \A i \in DOMAIN more : /\ Len(toView) + i \in DOMAIN toView'
                             /\ toView'[Len(toView) + i] = more[i]
  BY <1>1, <1>2, <1>3
<1>6. \A message : Says(message) => Says(message)'
  BY <1>4 DEF Says
<1>7. LoopIsSaid => LoopIsSaid'
  BY <1>6 DEF LoopIsSaid, Phase
<1>8. LoopIsAnnounced => LoopIsAnnounced'
  BY <1>4 DEF LoopIsAnnounced, Visibility, Phase
<1>9. \A i \in DOMAIN more : Says(more[i])'
  BY <1>5 DEF Says
<1> QED BY <1>2, <1>4, <1>5, <1>6, <1>7, <1>8, <1>9

(* The renderer takes the first of what was said.                          *)
LEMMA WordsAreHeard ==
  ASSUME toView \in Seq(OverlayMessages), toView # << >>, toView' = Tail(toView),
         NEW said, said = Head(toView)
  PROVE  /\ said \in OverlayMessages /\ toView' \in Seq(OverlayMessages)
         /\ Len(toView) \in Nat \ {0} /\ Len(toView') = Len(toView) - 1
         /\ toView[1] = said
         /\ \A i \in 2 .. Len(toView) : toView'[i - 1] = toView[i]
         /\ \A message : Says(message) => message = said \/ Says(message)'
         /\ LoopIsAnnounced => said = Visibility(TRUE) \/ LoopIsAnnounced'
<1>1. /\ said \in OverlayMessages /\ toView' \in Seq(OverlayMessages)
      /\ Len(toView) \in Nat \ {0} /\ Len(toView') = Len(toView) - 1
      /\ \A i \in 1 .. Len(toView') : toView'[i] = toView[i + 1]
      /\ toView[1] = said
  BY HeadTailProperties, EmptySeq, LenProperties
<1>2. /\ DOMAIN toView = 1 .. Len(toView) /\ DOMAIN toView' = 1 .. Len(toView) - 1
  BY <1>1, LenProperties
<1>3. \A i \in 2 .. Len(toView) : i - 1 \in DOMAIN toView' /\ toView'[i - 1] = toView[i]
  BY <1>1, <1>2
<1>4. ASSUME NEW message, Says(message), message # said
      PROVE  Says(message)'
  <2>1. PICK i \in DOMAIN toView : toView[i] = message
    BY <1>4 DEF Says
  <2>2. i \in 2 .. Len(toView)
    BY <1>1, <1>2, <1>4, <2>1
  <2>3. i - 1 \in DOMAIN toView' /\ toView'[i - 1] = message
    BY <1>3, <2>1, <2>2
  <2> QED BY <2>3 DEF Says
<1>5. LoopIsAnnounced => said = Visibility(TRUE) \/ LoopIsAnnounced'
  <2> SUFFICES ASSUME NEW i \in DOMAIN toView, toView[i] = Visibility(TRUE),
                      i + 1 \in DOMAIN toView, NEW phase \in LoopPhases,
                      toView[i + 1] = Phase(phase), i # 1
               PROVE  LoopIsAnnounced'
    BY <1>1 DEF LoopIsAnnounced
  <2>1. i \in 2 .. Len(toView) /\ i + 1 \in 2 .. Len(toView) /\ i + 1 - 1 = (i - 1) + 1
    BY <1>1, <1>2
  <2>2. i - 1 \in DOMAIN toView' /\ toView'[i - 1] = Visibility(TRUE)
    BY <1>3, <2>1
  <2>3. i + 1 - 1 \in DOMAIN toView' /\ toView'[i + 1 - 1] = Phase(phase)
    BY <1>3, <2>1
  <2> QED BY <2>1, <2>2, <2>3 DEF LoopIsAnnounced, Visibility, Phase
<1> QED BY <1>1, <1>3, <1>4, <1>5

LEMMA PhaseIsHeard ==
  ASSUME toView \in Seq(OverlayMessages), toView # << >>, toView' = Tail(toView),
         NEW said, said = Head(toView), PhaseIsSaid, main'.phase = main.phase,
         view'.phase = IF said.kind = "phase" THEN said.value ELSE view.phase
  PROVE  PhaseIsSaid'
<1>1. /\ Len(toView) \in Nat \ {0} /\ Len(toView') = Len(toView) - 1 /\ toView[1] = said
      /\ \A i \in 2 .. Len(toView) : toView'[i - 1] = toView[i]
  BY WordsAreHeard
<1>2. PICK n \in 0 .. Len(toView) :
        /\ IF n = 0 THEN view.phase = main.phase ELSE toView[n] = Phase(main.phase)
        /\ \A j \in n + 1 .. Len(toView) : toView[j].kind # "phase"
  BY DEF PhaseIsSaid
<1>3. \A p : Phase(p).kind = "phase" /\ Phase(p).value = p
  BY MessagesAre
<1>4. PICK m \in 0 .. Len(toView') : m = IF n = 0 THEN 0 ELSE n - 1
  BY <1>1
<1>5. IF m = 0 THEN view'.phase = main'.phase ELSE toView'[m] = Phase(main.phase)
  <2>1. CASE n = 0
    BY <1>1, <1>2, <1>4, <2>1
  <2>2. CASE n = 1
    BY <1>1, <1>2, <1>3, <1>4, <2>2
  <2>3. CASE n \in 2 .. Len(toView)
    BY <1>1, <1>2, <1>4, <2>3
  <2> QED BY <1>1, <2>1, <2>2, <2>3
<1>6. \A j \in m + 1 .. Len(toView') : toView'[j].kind # "phase"
  <2> SUFFICES ASSUME NEW j \in m + 1 .. Len(toView') PROVE toView'[j].kind # "phase"
    OBVIOUS
  <2>1. j + 1 \in 2 .. Len(toView) /\ j + 1 \in n + 1 .. Len(toView) /\ j = (j + 1) - 1
    BY <1>1, <1>4
  <2> QED BY <1>1, <1>2, <2>1
<1> QED BY <1>5, <1>6 DEF PhaseIsSaid, Phase

LEMMA PhaseStaysSaid ==
  ASSUME NEW more \in Seq(OverlayMessages), toView \in Seq(OverlayMessages),
         toView' = toView \o more, PhaseIsSaid, view' = view,
         \/ main'.phase = main.phase /\ \A i \in DOMAIN more : more[i].kind # "phase"
         \/ \E n \in DOMAIN more : /\ more[n] = Phase(main'.phase)
                                   /\ \A j \in DOMAIN more : j > n => more[j].kind # "phase"
  PROVE  PhaseIsSaid'
<1>1. /\ Len(toView') = Len(toView) + Len(more)
      /\ \A i \in DOMAIN toView : toView'[i] = toView[i]
      /\ \A i \in DOMAIN more : toView'[Len(toView) + i] = more[i]
  BY SayingMore
<1>2. /\ Len(toView) \in Nat /\ DOMAIN toView = 1 .. Len(toView)
      /\ Len(more) \in Nat /\ DOMAIN more = 1 .. Len(more)
  BY LenProperties
<1>3. \A j \in Len(toView) + 1 .. Len(toView') :
        j - Len(toView) \in DOMAIN more /\ toView'[j] = more[j - Len(toView)]
  BY <1>1, <1>2
<1>4. CASE main'.phase = main.phase /\ \A i \in DOMAIN more : more[i].kind # "phase"
  <2>1. PICK n \in 0 .. Len(toView) :
          /\ IF n = 0 THEN view.phase = main.phase ELSE toView[n] = Phase(main.phase)
          /\ \A j \in n + 1 .. Len(toView) : toView[j].kind # "phase"
    BY DEF PhaseIsSaid
  <2>2. n \in 0 .. Len(toView')
    BY <1>1, <1>2
  <2>3. IF n = 0 THEN view'.phase = main'.phase ELSE toView'[n] = Phase(main.phase)
    BY <1>1, <1>2, <1>4, <2>1
  <2>4. \A j \in n + 1 .. Len(toView') : toView'[j].kind # "phase"
    BY <1>1, <1>2, <1>3, <1>4, <2>1
  <2> QED BY <1>4, <2>2, <2>3, <2>4 DEF PhaseIsSaid, Phase
<1>5. ASSUME NEW n \in DOMAIN more, more[n] = Phase(main'.phase),
             \A j \in DOMAIN more : j > n => more[j].kind # "phase"
      PROVE  PhaseIsSaid'
  <2>1. Len(toView) + n \in 1 .. Len(toView') /\ toView'[Len(toView) + n] = Phase(main'.phase)
    BY <1>1, <1>2, <1>5
  <2>2. \A j \in Len(toView) + n + 1 .. Len(toView') : toView'[j].kind # "phase"
    <3> SUFFICES ASSUME NEW j \in Len(toView) + n + 1 .. Len(toView')
                 PROVE  toView'[j].kind # "phase"
      OBVIOUS
    <3>1. j - Len(toView) \in DOMAIN more /\ toView'[j] = more[j - Len(toView)]
          /\ j - Len(toView) > n
      BY <1>1, <1>2, <1>3
    <3> QED BY <1>5, <3>1
  <2>3. Len(toView) + n # 0 /\ Len(toView) + n \in 0 .. Len(toView')
    BY <1>1, <1>2
  <2> QED BY <2>1, <2>2, <2>3 DEF PhaseIsSaid, Phase
<1> QED BY <1>4, <1>5

-----------------------------------------------------------------------------
(* What the view shows.                                                    *)

LEMMA SightOfTheView ==
  ASSUME NEW v, view' = v
  PROVE  Visible(view)' = Visible(v)
BY DEF Visible, Layout, ShowsResponse, Awaits, Lifecycle, Replies

LEMMA LoopsShow ==
  ASSUME NEW v \in Views, v.phase \in LoopPhases, v.phase = "streaming" => v.closed = 0
  PROVE  Visible(v)
<1>1. Awaits(v) \/ (v.phase = "streaming" /\ Replies(v) # {})
  BY DEF Awaits, Lifecycle, LoopPhases, TerminalPhases
<1>2. CASE Awaits(v)
  BY <1>2 DEF Visible, Layout
<1>3. CASE v.phase = "streaming" /\ Replies(v) # {}
  <2>1. Len(v.entries) > 0 /\ Len(v.entries) \in Nat
    BY <1>3, LenProperties DEF Replies, Views
  <2>2. Lifecycle(v) = "active"
    BY <1>3 DEF Lifecycle, TerminalPhases
  <2> QED BY <1>3, <2>1, <2>2 DEF Visible, Layout, ShowsResponse
<1> QED BY <1>1, <1>2, <1>3

LEMMA RestingViews ==
  ASSUME NEW v \in Views, Closeable(v)
  PROVE  v.phase \notin LoopPhases /\ Layout(v) = "response"
BY DEF Closeable, Busy, Lifecycle, LoopPhases, TerminalPhases, Layout

(* What a changed view reports.                                            *)
LEMMA ReportsDoes ==
  ASSUME OverlayTypeOK, NEW v \in Views, Reports(v)
  PROVE  \/ /\ UNCHANGED <<frame, scheduled, toMain>> /\ Visible(v) = Visible(view)
         \/ /\ Visible(v) /\ scheduled' = TRUE /\ UNCHANGED <<frame, toMain>>
         \/ /\ ~Visible(v) /\ scheduled' = FALSE /\ frame' = "hidden"
            /\ toMain' = IF frame = "hidden" THEN toMain ELSE Append(toMain, FALSE)
BY DEF Reports, Visible

(* A closed answer is not shown, and nothing else is.                      *)
LEMMA ClosedViews ==
  ASSUME NEW v \in Views, NEW w \in Views, Closeable(v), w.phase = v.phase, w.entries = v.entries,
         w.sending = v.sending, w.closed = Len(v.entries)
  PROVE  ~Visible(w) /\ Layout(w) # Layout(v)
<1>1. Replies(w) = Replies(v)
  BY DEF Replies
<1>2. Lifecycle(w) = Lifecycle(v)
  BY <1>1 DEF Lifecycle
<1>3. ~Busy(v)
  BY DEF Closeable
<1>4. ~Awaits(w)
  BY <1>2, <1>3 DEF Awaits, Busy
<1>5. ~ShowsResponse(w)
  BY DEF ShowsResponse
<1>6. Layout(w) = "hidden"
  BY <1>4, <1>5 DEF Layout
<1>7. Layout(v) = "response"
  BY DEF Closeable, Layout
<1> QED BY <1>6, <1>7 DEF Visible

LEMMA ReportAdded ==
  ASSUME NEW b \in BOOLEAN, toMain \in Seq(BOOLEAN)
  PROVE  /\ Append(toMain, b) \in Seq(BOOLEAN) /\ Append(toMain, b) # << >>
         /\ Append(toMain, b)[Len(Append(toMain, b))] = b
         /\ Append(toMain, b) # toMain
<1>1. /\ Append(toMain, b) \in Seq(BOOLEAN) /\ Append(toMain, b) # << >>
      /\ Len(Append(toMain, b)) = Len(toMain) + 1 /\ Len(toMain) \in Nat
      /\ Append(toMain, b)[Len(toMain) + 1] = b
  BY AppendProperties, LenProperties
<1>2. Append(toMain, b) # toMain
  BY <1>1
<1> QED BY <1>1, <1>2

-----------------------------------------------------------------------------
(* The steps.                                                              *)

LEMMA OverlayIInvAtStart == OverlayInit => OverlayIInv
<1> SUFFICES ASSUME OverlayInit PROVE OverlayIInv
  OBVIOUS
<1>1. << >> \in Seq(Entries) /\ << >> \in Seq(BOOLEAN) /\ << >> \in Seq(OverlayMessages)
      /\ Len(<< >>) = 0
  BY EmptySeq
<1>2. view \in Views /\ view.phase = "idle" /\ view.closed = 0 /\ view.entries = << >>
      /\ ~view.sending
  BY <1>1 DEF OverlayInit, Views, OverlayPhases
<1>3. main \in MainStates /\ main.phase = "idle" /\ ~main.flag /\ ~main.response
  BY DEF OverlayInit, MainStates, OverlayPhases
<1>4. OverlayTypeOK
  BY <1>1, <1>2, <1>3 DEF OverlayInit, OverlayTypeOK, MainStates
<1>5. ~Visible(view)
  BY <1>1, <1>2 DEF Visible, Layout, ShowsResponse, Awaits, Lifecycle, TerminalPhases
<1>6. PhaseIsSaid
  BY <1>1, <1>2, <1>3 DEF OverlayInit, PhaseIsSaid
<1>7. ~Believes
  BY <1>3 DEF OverlayInit, Believes
<1> QED BY <1>2, <1>3, <1>4, <1>5, <1>6, <1>7
           DEF OverlayIInv, FramesAreReported, SightsAreDrawn, BeliefsAreFounded,
               ClosedIsOver, LoopsHaveTurns, OverlayInit

(* A message taken that changes the view.                                  *)
LEMMA RendersKeeps ==
  ASSUME OverlayIInv, toView # << >>, toView' = Tail(toView),
         NEW said, said = Head(toView), NEW v \in Views, view' = v, Reports(v),
         parted' = (parted \/ (scheduled /\ frame = "hidden" /\ ~Visible(v))),
         \A up : said # Visibility(up),
         v.phase = IF said.kind = "phase" THEN said.value ELSE view.phase,
         v.closed \in {0, view.closed}, said = Phase("awaiting") => v.closed = 0,
         UNCHANGED <<main, turn>>
  PROVE  OverlayIInv'
<1>0. OverlayTypeOK /\ toView \in Seq(OverlayMessages)
  BY DEF OverlayIInv, OverlayTypeOK
<1>1. /\ said \in OverlayMessages /\ toView' \in Seq(OverlayMessages)
      /\ \A message : Says(message) => message = said \/ Says(message)'
      /\ LoopIsAnnounced => LoopIsAnnounced'
  BY <1>0, WordsAreHeard
<1>2. Visible(view)' = Visible(v)
  BY SightOfTheView
<1>3. \/ /\ UNCHANGED <<frame, scheduled, toMain>> /\ Visible(v) = Visible(view)
      \/ /\ Visible(v) /\ scheduled' = TRUE /\ UNCHANGED <<frame, toMain>>
      \/ /\ ~Visible(v) /\ scheduled' = FALSE /\ frame' = "hidden"
         /\ toMain' = IF frame = "hidden" THEN toMain ELSE Append(toMain, FALSE)
  BY <1>0, ReportsDoes
<1>4. \/ toMain' = toMain
      \/ /\ ~Visible(v) /\ frame' = "hidden" /\ frame # "hidden"
         /\ toMain' # << >> /\ toMain' \in Seq(BOOLEAN) /\ ~toMain'[Len(toMain')]
  <2>1. FALSE \in BOOLEAN /\ toMain \in Seq(BOOLEAN)
    BY <1>0 DEF OverlayTypeOK
  <2>2. /\ Append(toMain, FALSE) \in Seq(BOOLEAN) /\ Append(toMain, FALSE) # << >>
        /\ Append(toMain, FALSE)[Len(Append(toMain, FALSE))] = FALSE
    BY <2>1, ReportAdded
  <2> QED BY <1>3, <2>2
<1>5. OverlayTypeOK'
  <2>1. Visible(v) \in BOOLEAN /\ parted' \in BOOLEAN
    BY <1>0 DEF Visible, OverlayTypeOK
  <2> QED BY <1>0, <1>1, <1>3, <1>4, <2>1 DEF OverlayTypeOK
<1>6. ~parted' => ~parted /\ ~(scheduled /\ frame = "hidden" /\ ~Visible(v))
  BY <1>0 DEF OverlayTypeOK
<1>7. PhaseIsSaid'
  BY <1>0, PhaseIsHeard DEF OverlayIInv
<1>8. FramesAreReported'
  <2>1. frame' # "hidden" => Visible(v) /\ frame' = frame /\ toMain' = toMain
    BY <1>3, <1>4 DEF OverlayIInv, FramesAreReported
  <2>2. Says(Visibility(FALSE)) => Says(Visibility(FALSE))'
    BY <1>1 DEF Visibility
  <2> QED BY <1>2, <1>6, <2>1, <2>2 DEF OverlayIInv, FramesAreReported, Visibility
<1>9. SightsAreDrawn'
  BY <1>1, <1>2, <1>3, <1>6 DEF OverlayIInv, SightsAreDrawn
<1>10. Believes' => Believes /\ toMain' = toMain
  BY <1>4 DEF Believes
<1>11. BeliefsAreFounded'
  <2> SUFFICES ASSUME Believes', ~parted', frame' = "hidden", ~Visible(v)
               PROVE  LoopIsSaid'
    BY <1>2, <1>3 DEF BeliefsAreFounded
  <2>1. Believes /\ ~parted /\ toMain' = toMain /\ frame = "hidden"
    <3>1. Append(toMain, FALSE) # toMain
      BY <1>0, ReportAdded DEF OverlayTypeOK
    <3> QED BY <1>3, <1>6, <1>10, <3>1
  <2>2. CASE Visible(view)
    <3>1. LoopIsAnnounced'
      BY <1>1, <1>6, <2>1, <2>2 DEF OverlayIInv, SightsAreDrawn
    <3> QED BY <3>1 DEF LoopIsAnnounced, LoopIsSaid, Says, Phase
  <2>3. CASE ~Visible(view)
    <3>1. PICK phase \in LoopPhases : Says(Phase(phase))
      BY <2>1, <2>3 DEF OverlayIInv, BeliefsAreFounded, LoopIsSaid
    <3>2. CASE Phase(phase) # said
      <4>1. PICK message : message = Phase(phase)
        OBVIOUS
      <4>2. Says(message)'
        BY <1>1, <3>1, <3>2, <4>1
      <4> QED BY <4>1, <4>2 DEF LoopIsSaid, Says, Phase
    <3>3. CASE Phase(phase) = said
      <4>1. v.phase = phase
        BY <3>3, MessagesAre
      <4>2. phase = "streaming" /\ view.closed # 0
        BY <3>1, <4>1, LoopsShow DEF LoopPhases
      <4>3. Says(Phase("awaiting"))
        BY <2>1, <4>2 DEF OverlayIInv, ClosedIsOver
      <4>4. PICK message : message = Phase("awaiting")
        OBVIOUS
      <4>5. message # said
        BY <3>3, <4>2, <4>4, MessagesAre
      <4>6. Says(message)'
        BY <1>1, <4>3, <4>4, <4>5
      <4> QED BY <4>4, <4>6 DEF LoopIsSaid, Says, Phase, LoopPhases
    <3> QED BY <3>2, <3>3
  <2> QED BY <2>2, <2>3
<1>12. ClosedIsOver'
  <2> SUFFICES ASSUME ~parted', v.closed # 0
               PROVE  \/ Says(Phase("awaiting"))'
                      \/ /\ ~turn /\ main.phase \notin LoopPhases
                         /\ frame' # "hidden" \/ ~Believes'
    BY DEF ClosedIsOver
  <2>1. view.closed # 0 /\ said # Phase("awaiting")
    OBVIOUS
  <2>2. CASE Says(Phase("awaiting"))
    <3>1. PICK message : message = Phase("awaiting")
      OBVIOUS
    <3>2. Says(message)'
      BY <1>1, <2>1, <2>2, <3>1
    <3> QED BY <3>1, <3>2 DEF Says, Phase
  <2>3. CASE ~Says(Phase("awaiting"))
    <3>1. ~turn /\ main.phase \notin LoopPhases /\ (frame # "hidden" \/ ~Believes)
      BY <1>6, <2>1, <2>3 DEF OverlayIInv, ClosedIsOver
    <3>2. frame' # "hidden" \/ ~Believes'
      <4>1. toMain' = toMain /\ frame # "hidden" => frame' # "hidden"
        <5>1. Append(toMain, FALSE) # toMain
          BY <1>0, ReportAdded DEF OverlayTypeOK
        <5> QED BY <1>3, <5>1
      <4> QED BY <1>10, <3>1, <4>1
    <3> QED BY <3>1, <3>2
  <2> QED BY <2>2, <2>3
<1> QED BY <1>5, <1>6, <1>7, <1>8, <1>9, <1>11, <1>12
           DEF OverlayIInv, LoopsHaveTurns

(* The handlers of the stream keep what they do not show.                  *)
LEMMA EventsAreShown ==
  ASSUME NEW v \in Views, NEW type, NEW w \in AfterEvent(v, type)
  PROVE  w \in Views /\ w.phase = v.phase /\ w.closed \in {0, v.closed}
<1>1. /\ v.entries \in Seq(Entries) /\ Len(v.entries) \in Nat
      /\ "text" \in Entries /\ "tool" \in Entries /\ "done" \in Entries /\ "error" \in Entries
  BY LenProperties DEF Views, Entries
<1>2. \A e \in Entries : Append(v.entries, e) \in Seq(Entries)
  BY <1>1, AppendProperties
<1>3. \A i \in DOMAIN v.entries, e \in Entries : [v.entries EXCEPT ![i] = e] \in Seq(Entries)
  BY <1>1, ExceptSeq
<1>4. Len(v.entries) > 0 => Len(v.entries) \in DOMAIN v.entries
  BY <1>1, LenProperties
<1>5. << >> \in Seq(Entries) /\ 0 \in Nat
  BY EmptySeq
<1>6. PICK lines \in Seq(Entries), busy \in BOOLEAN, closed \in {0, v.closed} :
        w = [v EXCEPT !.entries = lines, !.closed = closed, !.sending = busy]
  <2>1. CASE type = "user"
    BY <1>5, <2>1 DEF AfterEvent, Views
  <2>2. CASE type = "text"
    <3>1. PICK lines \in Seq(Entries) : w = [v EXCEPT !.entries = lines, !.sending = FALSE]
      BY <1>1, <1>2, <2>2 DEF AfterEvent
    <3> QED BY <3>1 DEF Views
  <2>3. CASE type = "tool"
    <3>1. PICK lines \in Seq(Entries) : w = [v EXCEPT !.entries = lines, !.sending = FALSE]
      BY <1>1, <1>2, <2>3 DEF AfterEvent
    <3> QED BY <3>1 DEF Views
  <2>4. CASE type = "complete"
    <3>1. PICK lines \in Seq(Entries) : w = [v EXCEPT !.entries = lines, !.sending = FALSE]
      BY <1>1, <1>3, <1>4, <2>4 DEF AfterEvent
    <3> QED BY <3>1 DEF Views
  <2>5. CASE type = "error"
    <3>1. PICK lines \in Seq(Entries) : w = [v EXCEPT !.entries = lines, !.sending = FALSE]
      BY <1>1, <1>2, <2>5 DEF AfterEvent
    <3> QED BY <3>1 DEF Views
  <2>6. CASE type \notin {"user", "text", "tool", "complete", "error"}
    <3>1. w = v
      BY <2>6 DEF AfterEvent
    <3> QED BY <1>1, <3>1 DEF Views
  <2> QED BY <2>1, <2>2, <2>3, <2>4, <2>5, <2>6
<1> QED BY <1>5, <1>6 DEF Views

LEMMA ReceiveKeeps == OverlayIInv /\ Receive => OverlayIInv'
<1> SUFFICES ASSUME OverlayIInv, Receive PROVE OverlayIInv'
  OBVIOUS
<1>0. OverlayTypeOK /\ toView # << >> /\ toView' = Tail(toView) /\ UNCHANGED <<main, turn>>
      /\ view \in Views /\ toView \in Seq(OverlayMessages)
  BY DEF OverlayIInv, OverlayTypeOK, Receive
<1>1. PICK said : said = Head(toView)
  OBVIOUS
<1>2. /\ said \in OverlayMessages /\ toView' \in Seq(OverlayMessages)
      /\ \A message : Says(message) => message = said \/ Says(message)'
      /\ LoopIsAnnounced => said = Visibility(TRUE) \/ LoopIsAnnounced'
  BY <1>0, <1>1, WordsAreHeard
<1>3. CASE said.kind = "phase"
  <2>1. Renders(AfterPhase(view, said.value)) /\ said.value \in OverlayPhases
    BY <1>0, <1>1, <1>2, <1>3 DEF Receive, OverlayMessages
  <2>2. PICK v : v = AfterPhase(view, said.value)
    OBVIOUS
  <2>3. /\ v \in Views /\ v.phase = said.value /\ v.closed \in {0, view.closed}
        /\ said.value = "awaiting" => v.closed = 0
    BY <1>0, <2>1, <2>2 DEF AfterPhase, Views
  <2>4. \A up : said # Visibility(up)
    BY <1>3, MessagesAre
  <2>5. said = Phase("awaiting") => v.closed = 0
    BY <2>3, MessagesAre
  <2>6. /\ view' = v /\ Reports(v)
        /\ parted' = (parted \/ (scheduled /\ frame = "hidden" /\ ~Visible(v)))
    BY <2>1, <2>2 DEF Renders
  <2> QED BY <1>0, <1>1, <1>3, <2>3, <2>4, <2>5, <2>6, RendersKeeps
<1>4. CASE said.kind = "event"
  <2>1. PICK v \in AfterEvent(view, said.value) : Renders(v)
    BY <1>0, <1>1, <1>4 DEF Receive
  <2>2. v \in Views /\ v.phase = view.phase /\ v.closed \in {0, view.closed}
    BY <1>0, EventsAreShown
  <2>3. (\A up : said # Visibility(up)) /\ said # Phase("awaiting") /\ said.kind # "phase"
    BY <1>4, MessagesAre
  <2>4. /\ view' = v /\ Reports(v)
        /\ parted' = (parted \/ (scheduled /\ frame = "hidden" /\ ~Visible(v)))
    BY <2>1 DEF Renders
  <2> QED BY <1>0, <1>1, <2>2, <2>3, <2>4, RendersKeeps
<1>5. CASE said.kind = "visibility"
  <2>1. /\ frame' = IF said.value THEN frame ELSE "hidden"
        /\ scheduled' = (scheduled \/ (said.value /\ Visible(view)))
        /\ parted' = (parted \/ (~said.value /\ frame # "hidden"))
        /\ UNCHANGED <<view, toMain>> /\ said.value \in BOOLEAN
    BY <1>0, <1>1, <1>2, <1>5 DEF Receive, OverlayMessages
  <2>2. said = Visibility(said.value) /\ \A p : said # Phase(p)
    <3>1. said.value \in BOOLEAN /\ said \in [kind : {"visibility"}, value : BOOLEAN]
      BY <1>2, <1>5 DEF OverlayMessages
    <3>2. said = Visibility(said.value)
      BY <3>1 DEF Visibility
    <3> QED BY <3>2, MessagesAre
  <2>3. Visible(view)' = Visible(view)
    BY <2>1, SightOfTheView
  <2>4. OverlayTypeOK'
    <3>1. Visible(view) \in BOOLEAN
      BY DEF Visible
    <3>2. scheduled' \in BOOLEAN /\ parted' \in BOOLEAN
      BY <1>0, <2>1, <3>1 DEF OverlayTypeOK
    <3> QED BY <1>0, <1>2, <2>1, <3>2 DEF OverlayTypeOK
  <2>5. PhaseIsSaid'
    <3>1. view'.phase = IF said.kind = "phase" THEN said.value ELSE view.phase
      BY <1>5, <2>1
    <3> QED BY <1>0, <1>1, <3>1, PhaseIsHeard DEF OverlayIInv
  <2>6. \A p : Says(Phase(p)) => Says(Phase(p))'
    <3> SUFFICES ASSUME NEW p, Says(Phase(p)) PROVE Says(Phase(p))'
      OBVIOUS
    <3>1. PICK message : message = Phase(p)
      OBVIOUS
    <3>2. Says(message)'
      BY <1>2, <2>2, <3>1
    <3> QED BY <3>1, <3>2 DEF Says, Phase
  <2>7. LoopIsSaid => LoopIsSaid'
    BY <2>6 DEF LoopIsSaid
  <2>8. Believes' = Believes
    BY <1>0, <2>1 DEF Believes
  <2>9. ClosedIsOver'
    <3>1. Says(Phase("awaiting")) => Says(Phase("awaiting"))'
      BY <2>6
    <3>2. ~parted' => ~parted /\ (frame # "hidden" => frame' # "hidden")
      BY <1>0, <2>1 DEF OverlayTypeOK
    <3> QED BY <1>0, <2>1, <2>8, <3>1, <3>2 DEF OverlayIInv, ClosedIsOver, Phase
  <2>10. CASE said.value = TRUE
    <3>1. Says(Visibility(FALSE)) => Says(Visibility(FALSE))'
      <4>1. PICK message : message = Visibility(FALSE)
        OBVIOUS
      <4>2. message # said
        BY <2>2, <2>10, <4>1, MessagesAre
      <4>3. Says(message) => Says(message)'
        BY <1>2, <4>2
      <4> QED BY <4>1, <4>3 DEF Says, Visibility
    <3>2. /\ frame' = frame /\ parted' = parted /\ scheduled' = (scheduled \/ Visible(view))
      BY <1>0, <2>1, <2>10 DEF OverlayTypeOK
    <3>3. FramesAreReported'
      BY <1>0, <2>1, <2>3, <3>1, <3>2 DEF OverlayIInv, FramesAreReported, Visibility
    <3>4. SightsAreDrawn'
      BY <2>3, <3>2 DEF SightsAreDrawn
    <3>5. BeliefsAreFounded'
      BY <2>3, <2>7, <2>8, <3>2 DEF OverlayIInv, BeliefsAreFounded
    <3> QED BY <1>0, <2>4, <2>5, <2>9, <3>2, <3>3, <3>4, <3>5 DEF OverlayIInv, LoopsHaveTurns
  <2>11. CASE said.value = FALSE
    <3>1. /\ frame' = "hidden" /\ scheduled' = scheduled
          /\ ~parted' => ~parted /\ frame = "hidden"
      BY <1>0, <2>1, <2>11 DEF OverlayTypeOK
    <3>2. FramesAreReported'
      BY <3>1 DEF FramesAreReported
    <3>3. LoopIsAnnounced => LoopIsAnnounced'
      BY <1>2, <2>2, <2>11, MessagesAre
    <3>4. SightsAreDrawn'
      BY <2>3, <3>1, <3>3 DEF OverlayIInv, SightsAreDrawn
    <3>5. BeliefsAreFounded'
      BY <2>3, <2>7, <2>8, <3>1 DEF OverlayIInv, BeliefsAreFounded
    <3>6. ~main'.chat => parted'
      BY <1>0, <2>1 DEF OverlayIInv
    <3> QED BY <1>0, <2>4, <2>5, <2>9, <3>2, <3>4, <3>5, <3>6 DEF OverlayIInv, LoopsHaveTurns
  <2> QED BY <2>1, <2>10, <2>11
<1> QED BY <1>2, <1>3, <1>4, <1>5 DEF OverlayMessages

LEMMA ReportSizeKeeps == OverlayIInv /\ ReportSize => OverlayIInv'
<1> SUFFICES ASSUME OverlayIInv, ReportSize PROVE OverlayIInv'
  OBVIOUS
<1>0. OverlayTypeOK /\ UNCHANGED <<main, turn, toView, view>> /\ scheduled' = FALSE
      /\ toMain \in Seq(BOOLEAN)
  BY DEF OverlayIInv, OverlayTypeOK, ReportSize
<1>1. Visible(view)' = Visible(view)
  BY <1>0, SightOfTheView
<1>2. PhaseIsSaid' /\ LoopsHaveTurns' /\ main'.chat = main.chat
  BY <1>0 DEF OverlayIInv, PhaseIsSaid, LoopsHaveTurns, Phase
<1>3. /\ Says(Phase("awaiting")) => Says(Phase("awaiting"))'
      /\ Says(Visibility(FALSE)) => Says(Visibility(FALSE))'
      /\ LoopIsSaid => LoopIsSaid'
  BY <1>0 DEF Says, LoopIsSaid, Phase, Visibility
<1>4. CASE Visible(view) /\ frame # Layout(view)
  <2>1. /\ frame' = Layout(view) /\ toMain' = Append(toMain, TRUE)
        /\ parted' = (parted /\ ~(main.chat /\ view.closed = 0))
    BY <1>4 DEF ReportSize
  <2>2. toMain' \in Seq(BOOLEAN) /\ toMain' # << >> /\ toMain'[Len(toMain')]
    BY <1>0, <2>1, ReportAdded
  <2>3. frame' # "hidden" /\ frame' \in {"typing", "response"}
    BY <1>4, <2>1 DEF Visible, Layout
  <2>4. OverlayTypeOK'
    BY <1>0, <2>1, <2>2, <2>3 DEF OverlayTypeOK
  <2>5. ~main'.chat => parted'
    BY <1>0, <2>1 DEF OverlayIInv
  <2>6. FramesAreReported' /\ SightsAreDrawn' /\ BeliefsAreFounded'
    BY <1>1, <1>4, <2>2, <2>3 DEF FramesAreReported, SightsAreDrawn, BeliefsAreFounded
  <2>7. ClosedIsOver'
    <3> SUFFICES ASSUME ~parted', view.closed # 0
                 PROVE  \/ Says(Phase("awaiting"))'
                        \/ ~turn /\ main.phase \notin LoopPhases
      BY <1>0, <2>3 DEF ClosedIsOver
    <3>1. ~parted
      BY <2>1
    <3> QED BY <1>3, <3>1 DEF OverlayIInv, ClosedIsOver
  <2> QED BY <1>2, <2>4, <2>5, <2>6, <2>7 DEF OverlayIInv
<1>5. CASE ~(Visible(view) /\ frame # Layout(view))
  <2>1. UNCHANGED <<frame, toMain, parted>>
    BY <1>5 DEF ReportSize
  <2>2. OverlayTypeOK'
    BY <1>0, <2>1 DEF OverlayTypeOK
  <2>3. Believes' = Believes
    BY <1>0, <2>1 DEF Believes
  <2>4. FramesAreReported' /\ BeliefsAreFounded'
    BY <1>0, <1>1, <1>3, <2>1, <2>3
       DEF OverlayIInv, FramesAreReported, BeliefsAreFounded, Visibility
  <2>6. ClosedIsOver'
    BY <1>0, <1>3, <2>1, <2>3 DEF OverlayIInv, ClosedIsOver
  <2>5. SightsAreDrawn'
    BY <1>1, <1>5, <2>1 DEF SightsAreDrawn, Visible
  <2> QED BY <1>0, <1>2, <2>1, <2>2, <2>4, <2>5, <2>6 DEF OverlayIInv
<1> QED BY <1>4, <1>5

LEMMA CloseAnswerKeeps == OverlayIInv /\ CloseAnswer => OverlayIInv'
<1> SUFFICES ASSUME OverlayIInv, CloseAnswer PROVE OverlayIInv'
  OBVIOUS
<1>0. /\ OverlayTypeOK /\ UNCHANGED <<main, turn, toView>> /\ view \in Views
      /\ toMain \in Seq(BOOLEAN) /\ frame = "response" /\ Closeable(view)
      /\ parted' = (parted \/ turn)
  BY DEF OverlayIInv, OverlayTypeOK, CloseAnswer
<1>1. PICK v : v = [view EXCEPT !.closed = Len(view.entries)]
  OBVIOUS
<1>2. /\ v \in Views /\ v.phase = view.phase /\ v.entries = view.entries
      /\ v.sending = view.sending /\ v.closed = Len(view.entries)
  <2>1. Len(view.entries) \in Nat
    BY <1>0, LenProperties DEF Views
  <2> QED BY <1>0, <1>1, <2>1 DEF Views
<1>3. ~Visible(v) /\ Layout(v) # Layout(view)
  BY <1>0, <1>2, ClosedViews
<1>4. view' = v /\ Reports(v)
  BY <1>1 DEF CloseAnswer
<1>5. scheduled' = FALSE /\ frame' = "hidden" /\ toMain' = Append(toMain, FALSE)
  BY <1>0, <1>3, <1>4 DEF Reports
<1>6. toMain' \in Seq(BOOLEAN) /\ toMain' # << >> /\ ~toMain'[Len(toMain')]
  <2>1. PICK b \in BOOLEAN : b = FALSE
    OBVIOUS
  <2> QED BY <1>0, <1>5, <2>1, ReportAdded
<1>7. OverlayTypeOK'
  BY <1>0, <1>2, <1>4, <1>5, <1>6 DEF OverlayTypeOK
<1>8. ~Visible(view)' /\ ~Believes'
  BY <1>3, <1>4, <1>6, SightOfTheView DEF Believes
<1>9. PhaseIsSaid'
  BY <1>0, <1>2, <1>4 DEF OverlayIInv, PhaseIsSaid, Phase
<1>10. FramesAreReported' /\ SightsAreDrawn' /\ BeliefsAreFounded'
  BY <1>5, <1>8 DEF FramesAreReported, SightsAreDrawn, BeliefsAreFounded
<1>11. ClosedIsOver'
  <2> SUFFICES ASSUME ~parted'
               PROVE  \/ Says(Phase("awaiting"))
                      \/ ~turn /\ main.phase \notin LoopPhases
    BY <1>0, <1>8 DEF ClosedIsOver, Says, Phase
  <2>1. ~turn /\ main.phase \notin {"streaming", "tool"}
    BY <1>0 DEF OverlayIInv, LoopsHaveTurns
  <2>2. main.phase = "awaiting" => Says(Phase("awaiting"))
    <3>1. view.phase \notin LoopPhases
      BY <1>0, RestingViews
    <3>2. Len(toView) \in Nat /\ DOMAIN toView = 1 .. Len(toView)
      BY <1>0, LenProperties DEF OverlayTypeOK
    <3>3. PICK n \in 0 .. Len(toView) :
            IF n = 0 THEN view.phase = main.phase ELSE toView[n] = Phase(main.phase)
      BY DEF OverlayIInv, PhaseIsSaid
    <3> QED BY <3>1, <3>2, <3>3 DEF Says, LoopPhases
  <2> QED BY <2>1, <2>2 DEF LoopPhases
<1> QED BY <1>0, <1>7, <1>9, <1>10, <1>11 DEF OverlayIInv, LoopsHaveTurns

(* A word of main about the window.                                        *)
LEMMA SaysVisibility ==
  ASSUME OverlayIInv, NEW up \in BOOLEAN, toView' = Append(toView, Visibility(up)),
         view' = view, main'.phase = main.phase
  PROVE  /\ toView' \in Seq(OverlayMessages) /\ PhaseIsSaid'
         /\ \A message : Says(message) => Says(message)'
         /\ LoopIsSaid => LoopIsSaid'
         /\ LoopIsAnnounced => LoopIsAnnounced'
<1>1. PICK more : more = <<Visibility(up)>>
  OBVIOUS
<1>2. /\ Visibility(up) \in OverlayMessages /\ Visibility(up).kind # "phase"
  BY MessagesAre
<1>3. /\ more \in Seq(OverlayMessages) /\ \A i \in DOMAIN more : more[i].kind # "phase"
  BY <1>1, <1>2
<1>4. toView \in Seq(OverlayMessages) /\ PhaseIsSaid
  BY DEF OverlayIInv, OverlayTypeOK
<1>5. toView' = toView \o more
  BY <1>1, <1>2, <1>4, AppendIsConcat
<1> QED BY <1>3, <1>4, <1>5, SayingMore, PhaseStaysSaid

LEMMA HandleSizeKeeps == OverlayIInv /\ HandleSize => OverlayIInv'
<1> SUFFICES ASSUME OverlayIInv, HandleSize PROVE OverlayIInv'
  OBVIOUS
<1>0. /\ OverlayTypeOK /\ toMain # << >> /\ toMain' = Tail(toMain)
      /\ UNCHANGED <<turn, view, frame, scheduled, parted>> /\ toMain \in Seq(BOOLEAN)
  BY DEF OverlayIInv, OverlayTypeOK, HandleSize
<1>1. PICK sees \in BOOLEAN : sees = Head(toMain)
  BY <1>0, HeadTailProperties
<1>2. /\ main' = [main EXCEPT !.flag = sees, !.response = sees /\ (@ \/ main.chat)]
      /\ toView' = Append(toView, Visibility(sees))
  BY <1>1 DEF HandleSize
<1>3. /\ main' \in MainStates /\ main'.phase = main.phase /\ main'.chat = main.chat
      /\ main'.flag = sees /\ main'.response = (sees /\ (main.response \/ main.chat))
  BY <1>0, <1>2 DEF OverlayTypeOK, MainStates
<1>4. /\ toView' \in Seq(OverlayMessages) /\ PhaseIsSaid'
      /\ \A message : Says(message) => Says(message)'
      /\ LoopIsSaid => LoopIsSaid'
      /\ LoopIsAnnounced => LoopIsAnnounced'
  BY <1>0, <1>2, <1>3, SaysVisibility
<1>5. OverlayTypeOK'
  BY <1>0, <1>3, <1>4, HeadTailProperties DEF OverlayTypeOK
<1>6. Visible(view)' = Visible(view)
  BY <1>0, SightOfTheView
<1>7. IF toMain' = << >> THEN toMain[Len(toMain)] = sees
      ELSE toMain'[Len(toMain')] = toMain[Len(toMain)]
  <2>1. /\ Len(toMain) \in Nat \ {0} /\ toMain' \in Seq(BOOLEAN)
        /\ Len(toMain') = Len(toMain) - 1
        /\ \A i \in 1 .. Len(toMain') : toMain'[i] = toMain[i + 1]
        /\ toMain[1] = sees
    BY <1>0, <1>1, HeadTailProperties, EmptySeq, LenProperties
  <2>2. toMain' = << >> <=> Len(toMain') = 0
    BY <2>1, EmptySeq
  <2> QED BY <2>1, <2>2
<1>8. Believes' = Believes
  BY <1>0, <1>3, <1>7 DEF Believes
<1>9. FramesAreReported'
  <2>1. frame # "hidden" => toMain[Len(toMain)]
    BY <1>0 DEF OverlayIInv, FramesAreReported
  <2>2. frame # "hidden" /\ ~parted /\ toMain' = << >> => main'.response
    BY <1>3, <1>7, <2>1 DEF OverlayIInv
  <2> QED BY <1>0, <1>6, <1>7, <2>1, <2>2 DEF OverlayIInv, FramesAreReported
<1>10. SightsAreDrawn' /\ BeliefsAreFounded'
  BY <1>0, <1>4, <1>6, <1>8 DEF OverlayIInv, SightsAreDrawn, BeliefsAreFounded
<1>11. ClosedIsOver'
  <2>1. Says(Phase("awaiting")) => Says(Phase("awaiting"))'
    <3>1. PICK message : message = Phase("awaiting")
      OBVIOUS
    <3>2. Says(message) => Says(message)'
      BY <1>4
    <3> QED BY <3>1, <3>2 DEF Says, Phase
  <2> QED BY <1>0, <1>3, <1>8, <2>1 DEF OverlayIInv, ClosedIsOver
<1> QED BY <1>0, <1>3, <1>4, <1>5, <1>9, <1>10, <1>11 DEF OverlayIInv, LoopsHaveTurns

LEMMA LoopIsWindow ==
  ASSUME NEW phase \in OverlayPhases
  PROVE  /\ WindowMode(phase) = "active-loop" <=> phase \in LoopPhases
         /\ WindowMode(phase) = "terminal" <=> phase \in TerminalPhases
         /\ WindowMode(phase) = "hidden" <=> phase = "idle"
BY DEF WindowMode, OverlayPhases, LoopPhases, TerminalPhases

LEMMA ShowPillKeeps ==
  ASSUME OverlayIInv, NEW focus \in BOOLEAN, ShowPill(focus)
  PROVE  OverlayIInv'
<1>0. /\ OverlayTypeOK /\ UNCHANGED <<turn, view, frame, scheduled, toMain, parted>>
      /\ main \in MainStates /\ main.phase \in OverlayPhases
  BY DEF OverlayIInv, OverlayTypeOK, ShowPill, MainStates
<1>1. PICK looping \in BOOLEAN : looping = (WindowMode(main.phase) = "active-loop")
  OBVIOUS
<1>2. PICK restores \in BOOLEAN : restores = (focus /\ (main.flag \/ looping))
  OBVIOUS
<1>3. /\ main' = [main EXCEPT !.chat = TRUE, !.flag = @ \/ (restores /\ looping),
                              !.response = @ \/ restores]
      /\ toView' = Append(toView, Visibility(main.response \/ restores))
  BY <1>1, <1>2 DEF ShowPill
<1>4. /\ main' \in MainStates /\ main'.phase = main.phase /\ main'.chat
      /\ main'.flag = (main.flag \/ (restores /\ looping))
      /\ main'.response = (main.response \/ restores)
  BY <1>0, <1>3 DEF MainStates
<1>5. PICK up \in BOOLEAN : up = (main.response \/ restores)
  OBVIOUS
<1>6. /\ toView' \in Seq(OverlayMessages) /\ PhaseIsSaid'
      /\ \A message : Says(message) => Says(message)'
      /\ LoopIsSaid => LoopIsSaid'
      /\ LoopIsAnnounced => LoopIsAnnounced'
  BY <1>0, <1>3, <1>4, <1>5, SaysVisibility
<1>7. OverlayTypeOK'
  BY <1>0, <1>4, <1>6 DEF OverlayTypeOK
<1>8. Visible(view)' = Visible(view)
  BY <1>0, SightOfTheView
<1>9. Believes' => Believes \/ main.phase \in LoopPhases
  BY <1>0, <1>1, <1>2, <1>4, LoopIsWindow DEF Believes
<1>10. FramesAreReported'
  <2>1. Says(Visibility(FALSE)) => Says(Visibility(FALSE))'
    BY <1>6 DEF Says, Visibility
  <2> QED BY <1>0, <1>4, <1>8, <2>1 DEF OverlayIInv, FramesAreReported, Visibility
<1>11. SightsAreDrawn'
  BY <1>0, <1>6, <1>8 DEF OverlayIInv, SightsAreDrawn
<1>12. Says(Phase("awaiting")) => Says(Phase("awaiting"))'
  <2>1. PICK message : message = Phase("awaiting")
    OBVIOUS
  <2>2. Says(message) => Says(message)'
    BY <1>6
  <2> QED BY <2>1, <2>2 DEF Says, Phase
<1>13. ClosedIsOver'
  BY <1>0, <1>4, <1>9, <1>12 DEF OverlayIInv, ClosedIsOver
<1>14. BeliefsAreFounded'
  <2> SUFFICES ASSUME Believes', ~parted, frame = "hidden", ~Visible(view) PROVE LoopIsSaid'
    BY <1>0, <1>8 DEF BeliefsAreFounded
  <2>1. CASE Believes
    BY <1>6, <2>1 DEF OverlayIInv, BeliefsAreFounded
  <2>2. CASE main.phase \in LoopPhases
    <3>1. PICK n \in 0 .. Len(toView) :
            IF n = 0 THEN view.phase = main.phase ELSE toView[n] = Phase(main.phase)
      BY DEF OverlayIInv, PhaseIsSaid
    <3>2. Len(toView) \in Nat /\ DOMAIN toView = 1 .. Len(toView)
      BY <1>0, LenProperties DEF OverlayTypeOK
    <3>3. CASE n # 0
      <4>1. LoopIsSaid
        BY <2>2, <3>1, <3>2, <3>3 DEF LoopIsSaid, Says
      <4> QED BY <1>6, <4>1
    <3>4. CASE n = 0
      <4>1. view.phase = "streaming" /\ view.closed # 0
        BY <1>0, <2>2, <3>1, <3>4, LoopsShow DEF OverlayTypeOK, LoopPhases
      <4>2. Says(Phase("awaiting"))
        BY <2>2, <4>1 DEF OverlayIInv, ClosedIsOver
      <4>3. LoopIsSaid
        BY <4>2 DEF LoopIsSaid, LoopPhases
      <4> QED BY <1>6, <4>3
    <3> QED BY <3>3, <3>4
  <2> QED BY <1>9, <2>1, <2>2
<1> QED BY <1>0, <1>4, <1>6, <1>7, <1>10, <1>11, <1>13, <1>14 DEF OverlayIInv, LoopsHaveTurns

LEMMA HidePillKeeps == OverlayIInv /\ HidePill => OverlayIInv'
<1> SUFFICES ASSUME OverlayIInv, HidePill PROVE OverlayIInv'
  OBVIOUS
<1>0. /\ OverlayTypeOK /\ UNCHANGED <<turn, view, frame, scheduled, toMain>> /\ parted' = TRUE
      /\ main' = [main EXCEPT !.chat = FALSE, !.response = FALSE]
      /\ toView' = Append(toView, Visibility(FALSE))
  BY DEF OverlayIInv, HidePill
<1>1. main' \in MainStates /\ main'.phase = main.phase
  BY <1>0 DEF OverlayTypeOK, MainStates
<1>2. PICK up \in BOOLEAN : up = FALSE
  OBVIOUS
<1>3. toView' \in Seq(OverlayMessages) /\ PhaseIsSaid'
  BY <1>0, <1>1, <1>2, SaysVisibility
<1>4. OverlayTypeOK'
  BY <1>0, <1>1, <1>3 DEF OverlayTypeOK
<1>5. Visible(view)' = Visible(view)
  BY <1>0, SightOfTheView
<1>6. FramesAreReported'
  BY <1>0, <1>5 DEF OverlayIInv, FramesAreReported
<1> QED BY <1>0, <1>1, <1>3, <1>4, <1>6
           DEF OverlayIInv, SightsAreDrawn, BeliefsAreFounded, ClosedIsOver, LoopsHaveTurns

LEMMA AnnouncedDoes ==
  ASSUME NEW phase \in OverlayPhases, NEW words, words = Announced(phase)
  PROVE  /\ words \in Seq(OverlayMessages) /\ Len(words) \in {1, 2}
         /\ words[Len(words)] = Phase(phase)
         /\ phase \in LoopPhases => Len(words) = 2 /\ words[1] = Visibility(TRUE)
         /\ phase = "idle" => Len(words) = 2 /\ words[1] = Visibility(FALSE)
<1>1. Phase(phase) \in OverlayMessages
  BY MessagesAre
<1>2. PICK last : last = <<Phase(phase)>>
  OBVIOUS
<1>3. last \in Seq(OverlayMessages) /\ Len(last) = 1 /\ last[1] = Phase(phase)
  BY <1>1, <1>2
<1>4. CASE phase \in TerminalPhases
  <2>1. words = << >> \o last
    BY <1>2, <1>4, LoopIsWindow DEF Announced
  <2>2. words = last
    BY <1>3, <2>1, ConcatEmptySeq
  <2> QED BY <1>3, <1>4, <2>2 DEF TerminalPhases, LoopPhases
<1>5. CASE phase \notin TerminalPhases
  <2>1. PICK up \in BOOLEAN : up = (WindowMode(phase) = "active-loop")
    OBVIOUS
  <2>2. PICK first : first = <<Visibility(up)>>
    OBVIOUS
  <2>3. Visibility(up) \in OverlayMessages
    BY MessagesAre
  <2>4. first \in Seq(OverlayMessages) /\ Len(first) = 1 /\ first[1] = Visibility(up)
    BY <2>2, <2>3
  <2>5. words = first \o last
    BY <1>2, <1>5, <2>1, <2>2, LoopIsWindow DEF Announced
  <2>6. /\ words \in Seq(OverlayMessages) /\ Len(words) = 2
        /\ words[1] = Visibility(up) /\ words[2] = Phase(phase)
    BY <1>3, <2>4, <2>5, ConcatProperties
  <2>7. (phase \in LoopPhases => up = TRUE) /\ (phase = "idle" => up = FALSE)
    BY <2>1, LoopIsWindow DEF LoopPhases
  <2> QED BY <2>6, <2>7
<1> QED BY <1>4, <1>5

LEMMA SetPhaseDoes ==
  ASSUME OverlayIInv, NEW phase \in OverlayPhases, NEW after \in Seq(OverlayMessages),
         \A i \in DOMAIN after : after[i].kind # "phase", SetPhase(phase, after)
  PROVE  /\ main' \in MainStates /\ main'.chat = main.chat /\ main'.phase = phase
         /\ toView' \in Seq(OverlayMessages) /\ PhaseIsSaid'
         /\ Says(Phase("awaiting")) => Says(Phase("awaiting"))'
         /\ Says(Visibility(FALSE)) => Says(Visibility(FALSE))'
         /\ LoopIsSaid => LoopIsSaid'
         /\ LoopIsAnnounced => LoopIsAnnounced'
         /\ UNCHANGED <<view, frame, scheduled, toMain>>
         /\ \/ main' = main /\ parted' = parted
            \/ /\ phase \in LoopPhases /\ main'.flag
               /\ main'.response = (main.response \/ main.chat)
               /\ Says(Phase(phase))' /\ LoopIsAnnounced'
               /\ parted' = (parted /\ ~(phase = "awaiting" /\ main.chat))
            \/ /\ phase \in TerminalPhases /\ main'.flag = main.flag
               /\ main'.response = (main.response \/ (main.flag /\ main.chat))
               /\ parted' = parted
            \/ /\ phase = "idle" /\ ~main'.flag /\ ~main'.response
               /\ Says(Visibility(FALSE))' /\ parted' = parted
<1>0. /\ main \in MainStates /\ toView \in Seq(OverlayMessages) /\ PhaseIsSaid
      /\ parted \in BOOLEAN
  BY DEF OverlayIInv, OverlayTypeOK
<1>1. PICK changes \in BOOLEAN : changes = (phase # main.phase \/ phase = "tool")
  OBVIOUS
<1>2. PICK words : words = Announced(phase)
  OBVIOUS
<1>3. /\ words \in Seq(OverlayMessages) /\ Len(words) \in {1, 2}
      /\ words[Len(words)] = Phase(phase)
      /\ phase \in LoopPhases => Len(words) = 2 /\ words[1] = Visibility(TRUE)
      /\ phase = "idle" => Len(words) = 2 /\ words[1] = Visibility(FALSE)
  BY <1>2, AnnouncedDoes
<1>4. /\ main' = IF changes THEN Applied([main EXCEPT !.phase = phase], WindowMode(phase))
                 ELSE main
      /\ toView' = toView \o (IF changes THEN words ELSE << >>) \o after
      /\ parted' = (parted /\ ~(changes /\ phase = "awaiting" /\ main.chat))
      /\ UNCHANGED <<view, frame, scheduled, toMain>>
  BY <1>1, <1>2 DEF SetPhase
<1>5. CASE ~changes
  <2>1. main' = main /\ main.phase = phase /\ parted' = parted
    BY <1>0, <1>1, <1>4, <1>5
  <2>2. toView' = toView \o after
    BY <1>0, <1>4, <1>5, ConcatEmptySeq
  <2>3. /\ toView' \in Seq(OverlayMessages)
        /\ \A message : Says(message) => Says(message)'
        /\ LoopIsSaid => LoopIsSaid'
        /\ LoopIsAnnounced => LoopIsAnnounced'
    BY <1>0, <2>2, SayingMore
  <2>4. PhaseIsSaid'
    BY <1>0, <1>4, <2>1, <2>2, PhaseStaysSaid
  <2>5. /\ Says(Phase("awaiting")) => Says(Phase("awaiting"))'
        /\ Says(Visibility(FALSE)) => Says(Visibility(FALSE))'
    BY <1>0, <2>2, <2>3 DEF Says, Phase, Visibility
  <2> QED BY <1>0, <1>4, <2>1, <2>3, <2>4, <2>5
<1>6. CASE changes
  <2>1. PICK more : more = words \o after
    OBVIOUS
  <2>2. toView' = toView \o more
    BY <1>0, <1>3, <1>4, <1>6, <2>1, ConcatAssociative
  <2>3. Len(after) \in Nat /\ DOMAIN after = 1 .. Len(after)
    BY LenProperties
  <2>4. /\ more \in Seq(OverlayMessages) /\ Len(more) = Len(words) + Len(after)
        /\ \A i \in 1 .. Len(words) + Len(after) :
             more[i] = IF i <= Len(words) THEN words[i] ELSE after[i - Len(words)]
    BY <1>3, <2>1, ConcatProperties
  <2>5. DOMAIN more = 1 .. Len(words) + Len(after)
    BY <2>4, LenProperties
  <2>6. /\ Len(words) \in DOMAIN more /\ more[Len(words)] = Phase(phase)
        /\ 1 \in DOMAIN more /\ more[1] = words[1]
    BY <1>3, <2>3, <2>4, <2>5
  <2>7. \A j \in DOMAIN more : j > Len(words) => more[j].kind # "phase"
    <3> SUFFICES ASSUME NEW j \in DOMAIN more, j > Len(words) PROVE more[j].kind # "phase"
      OBVIOUS
    <3>1. j - Len(words) \in DOMAIN after /\ more[j] = after[j - Len(words)]
      BY <1>3, <2>3, <2>4, <2>5
    <3> QED BY <3>1
  <2>8. main' = Applied([main EXCEPT !.phase = phase], WindowMode(phase))
    BY <1>4, <1>6
  <2>9. PICK m \in MainStates : m = [main EXCEPT !.phase = phase]
    BY <1>0 DEF MainStates
  <2>10. m.phase = phase /\ m.chat = main.chat /\ m.flag = main.flag /\ m.response = main.response
    BY <1>0, <2>9 DEF MainStates
  <2>11. main' = Applied(m, WindowMode(phase))
    BY <2>8, <2>9
  <2>12. /\ main' \in MainStates /\ main'.chat = main.chat /\ main'.phase = phase
         /\ phase \in LoopPhases => main'.flag /\ main'.response = (main.response \/ main.chat)
         /\ phase \in TerminalPhases =>
              /\ main'.flag = main.flag
              /\ main'.response = (main.response \/ (main.flag /\ main.chat))
         /\ phase = "idle" => ~main'.flag /\ ~main'.response
    <3>1. CASE phase \in LoopPhases
      <4>1. main' = [m EXCEPT !.flag = TRUE, !.response = @ \/ m.chat]
        BY <2>11, <3>1, LoopIsWindow DEF Applied
      <4>2. phase \notin TerminalPhases /\ phase # "idle"
        BY <3>1 DEF LoopPhases, TerminalPhases
      <4> QED BY <2>10, <3>1, <4>1, <4>2 DEF MainStates
    <3>2. CASE phase \in TerminalPhases
      <4>1. phase \notin LoopPhases /\ phase # "idle"
        BY <3>2 DEF LoopPhases, TerminalPhases
      <4>2. main' = [m EXCEPT !.response = @ \/ (m.flag /\ m.chat)]
        BY <2>11, <3>2, <4>1, LoopIsWindow DEF Applied
      <4> QED BY <2>10, <3>2, <4>1, <4>2 DEF MainStates
    <3>3. CASE phase = "idle"
      <4>1. main' = [m EXCEPT !.flag = FALSE, !.response = FALSE]
        BY <2>11, <3>3, LoopIsWindow DEF Applied
      <4>2. phase \notin LoopPhases /\ phase \notin TerminalPhases
        BY <3>3 DEF LoopPhases, TerminalPhases
      <4> QED BY <2>10, <3>3, <4>1, <4>2 DEF MainStates
    <3> QED BY <3>1, <3>2, <3>3 DEF OverlayPhases, LoopPhases
  <2>13. /\ toView' \in Seq(OverlayMessages) /\ Len(toView') = Len(toView) + Len(more)
         /\ \A i \in DOMAIN toView : toView'[i] = toView[i]
         /\ \A i \in DOMAIN more : toView'[Len(toView) + i] = more[i]
         /\ LoopIsSaid => LoopIsSaid'
         /\ LoopIsAnnounced => LoopIsAnnounced'
    BY <1>0, <2>2, <2>4, SayingMore
  <2>14. PhaseIsSaid'
    <3>1. more[Len(words)] = Phase(main'.phase)
      BY <2>6, <2>12
    <3>2. \E n \in DOMAIN more : /\ more[n] = Phase(main'.phase)
                                 /\ \A j \in DOMAIN more : j > n => more[j].kind # "phase"
      BY <2>6, <2>7, <3>1
    <3> QED BY <1>0, <1>4, <2>2, <2>4, <3>2, PhaseStaysSaid
  <2>15. /\ DOMAIN toView' = 1 .. Len(toView) + Len(more) /\ DOMAIN toView = 1 .. Len(toView)
         /\ Len(toView) \in Nat
    BY <1>0, <2>13, LenProperties
  <2>16. \A i \in DOMAIN more : Len(toView) + i \in DOMAIN toView'
    BY <2>4, <2>5, <2>15, <1>3, <2>3
  <2>17. /\ Says(Phase("awaiting")) => Says(Phase("awaiting"))'
         /\ Says(Visibility(FALSE)) => Says(Visibility(FALSE))'
    <3>1. \A i \in DOMAIN toView : i \in DOMAIN toView'
      BY <1>3, <2>3, <2>4, <2>15
    <3> QED BY <2>13, <3>1 DEF Says, Phase, Visibility
  <2>18. Says(Phase(phase))'
    BY <2>6, <2>13, <2>16 DEF Says, Phase
  <2>19. phase = "idle" => Says(Visibility(FALSE))'
    BY <1>3, <2>6, <2>13, <2>16 DEF Says, Visibility
  <2>20. phase \in LoopPhases => LoopIsAnnounced'
    <3> SUFFICES ASSUME phase \in LoopPhases PROVE LoopIsAnnounced'
      OBVIOUS
    <3>1. Len(words) = 2 /\ more[1] = Visibility(TRUE) /\ more[2] = Phase(phase)
          /\ 1 \in DOMAIN more /\ 2 \in DOMAIN more
      BY <1>3, <2>6
    <3>2. Len(toView) + 1 \in DOMAIN toView' /\ toView'[Len(toView) + 1] = Visibility(TRUE)
      BY <2>13, <2>16, <3>1
    <3>3. Len(toView) + 2 \in DOMAIN toView' /\ toView'[Len(toView) + 2] = Phase(phase)
      BY <2>13, <2>16, <3>1
    <3>4. Len(toView) + 2 = (Len(toView) + 1) + 1
      BY <2>15
    <3> QED BY <3>2, <3>3, <3>4 DEF LoopIsAnnounced, Visibility, Phase
  <2>21. parted' = (parted /\ ~(phase = "awaiting" /\ main.chat))
    BY <1>4, <1>6
  <2>22. phase \in LoopPhases \/ phase \in TerminalPhases \/ phase = "idle"
    BY DEF OverlayPhases, LoopPhases
  <2>23. phase \notin LoopPhases => parted' = parted
    BY <1>0, <2>21 DEF LoopPhases
  <2>24. phase \in TerminalPhases \/ phase = "idle" => phase \notin LoopPhases
    BY DEF TerminalPhases, LoopPhases
  <2> QED BY <1>4, <2>12, <2>13, <2>14, <2>17, <2>18, <2>19, <2>20, <2>21, <2>22, <2>23, <2>24
<1> QED BY <1>5, <1>6

(* A new phase, with or without a query.                                   *)
LEMMA SetPhaseKeeps ==
  ASSUME OverlayIInv, NEW phase \in OverlayPhases, NEW after \in Seq(OverlayMessages),
         \A i \in DOMAIN after : after[i].kind # "phase", SetPhase(phase, after),
         turn' \in BOOLEAN,
         IF phase \in {"streaming", "tool"} THEN turn /\ turn'
         ELSE turn' => turn \/ phase = "awaiting"
  PROVE  OverlayIInv'
<1>0. OverlayTypeOK
  BY DEF OverlayIInv
<1>1. /\ main' \in MainStates /\ main'.chat = main.chat /\ main'.phase = phase
      /\ toView' \in Seq(OverlayMessages) /\ PhaseIsSaid'
      /\ Says(Phase("awaiting")) => Says(Phase("awaiting"))'
      /\ Says(Visibility(FALSE)) => Says(Visibility(FALSE))'
      /\ LoopIsSaid => LoopIsSaid'
      /\ LoopIsAnnounced => LoopIsAnnounced'
      /\ UNCHANGED <<view, frame, scheduled, toMain>>
  BY SetPhaseDoes
<1>2. \/ main' = main /\ parted' = parted
      \/ /\ phase \in LoopPhases /\ main'.flag
         /\ main'.response = (main.response \/ main.chat)
         /\ Says(Phase(phase))' /\ LoopIsAnnounced'
         /\ parted' = (parted /\ ~(phase = "awaiting" /\ main.chat))
      \/ /\ phase \in TerminalPhases /\ main'.flag = main.flag
         /\ main'.response = (main.response \/ (main.flag /\ main.chat))
         /\ parted' = parted
      \/ /\ phase = "idle" /\ ~main'.flag /\ ~main'.response
         /\ Says(Visibility(FALSE))' /\ parted' = parted
  BY SetPhaseDoes
<1>3. OverlayTypeOK'
  BY <1>0, <1>1, <1>2 DEF OverlayTypeOK
<1>4. ~main'.chat => parted'
  BY <1>1, <1>2 DEF OverlayIInv
<1>5. Visible(view)' = Visible(view)
  BY <1>1, SightOfTheView
<1>6. LoopsHaveTurns'
  BY <1>1 DEF LoopsHaveTurns
<1>7. FramesAreReported'
  <2> SUFFICES ASSUME frame # "hidden", ~parted', toMain = << >>
               PROVE  main'.response \/ Says(Visibility(FALSE))'
    BY <1>1, <1>5 DEF OverlayIInv, FramesAreReported
  <2>1. ~parted => main.response \/ Says(Visibility(FALSE))
    BY DEF OverlayIInv, FramesAreReported
  <2>2. main.chat
    BY <1>1, <1>4
  <2>3. CASE phase \in LoopPhases /\ main'.response = (main.response \/ main.chat)
    BY <2>2, <2>3
  <2>4. CASE phase = "idle" /\ Says(Visibility(FALSE))'
    BY <2>4
  <2>5. CASE parted' = parted /\ (main.response => main'.response)
    BY <1>1, <2>1, <2>5
  <2> QED BY <1>2, <2>3, <2>4, <2>5
<1>8. SightsAreDrawn'
  BY <1>1, <1>2, <1>5 DEF OverlayIInv, SightsAreDrawn
<1>9. BeliefsAreFounded'
  <2>1. CASE phase \in LoopPhases /\ Says(Phase(phase))'
    BY <2>1 DEF BeliefsAreFounded, LoopIsSaid, Says, Phase
  <2>2. CASE ~(phase \in LoopPhases /\ Says(Phase(phase))')
    <3>1. parted' = parted /\ (Believes' => Believes)
      BY <1>1, <1>2, <2>2 DEF Believes
    <3> QED BY <1>1, <1>5, <3>1 DEF OverlayIInv, BeliefsAreFounded
  <2> QED BY <2>1, <2>2
<1>10. ClosedIsOver'
  <2> SUFFICES ASSUME ~parted', view.closed # 0, ~Says(Phase("awaiting"))'
               PROVE  /\ ~turn' /\ phase \notin LoopPhases
                      /\ frame # "hidden" \/ ~Believes'
    BY <1>1 DEF ClosedIsOver
  <2>1. ~parted
    <3>1. phase = "awaiting" => main' = main /\ parted' = parted
      BY <1>2 DEF TerminalPhases
    <3> QED BY <1>2, <3>1
  <2>2. ~turn /\ main.phase \notin LoopPhases /\ (frame # "hidden" \/ ~Believes)
    BY <1>1, <2>1 DEF OverlayIInv, ClosedIsOver
  <2>3. phase # "awaiting"
    BY <1>1, <1>2, <2>2 DEF LoopPhases, TerminalPhases
  <2>4. phase \notin LoopPhases /\ ~turn'
    BY <2>2, <2>3 DEF LoopPhases
  <2>5. Believes' => Believes
    BY <1>1, <1>2, <2>4 DEF Believes
  <2> QED BY <2>2, <2>4, <2>5
<1> QED BY <1>1, <1>3, <1>4, <1>6, <1>7, <1>8, <1>9, <1>10 DEF OverlayIInv

LEMMA PhasesKeep ==
  ASSUME OverlayIInv,
         \/ PrimeAwaiting \/ Query \/ StopQuery \/ QueryFails \/ LinkChanges
         \/ \E type \in {"text", "tool", "complete", "error", "usage"} : BackendEvent(type)
  PROVE  OverlayIInv'
<1>0. /\ turn \in BOOLEAN /\ main.phase \in OverlayPhases
      /\ "idle" \in OverlayPhases /\ "awaiting" \in OverlayPhases
      /\ "complete" \in OverlayPhases /\ "error" \in OverlayPhases
      /\ "streaming" \in OverlayPhases /\ "tool" \in OverlayPhases
  BY DEF OverlayIInv, OverlayTypeOK, MainStates, OverlayPhases, TerminalPhases
<1>1. PICK none : none = << >>
  OBVIOUS
<1>2. none \in Seq(OverlayMessages) /\ \A i \in DOMAIN none : none[i].kind # "phase"
  BY <1>1
<1>3. ASSUME NEW type \in Entries \union {"user", "complete", "usage"},
             NEW after, after = <<Event(type)>>
      PROVE  after \in Seq(OverlayMessages) /\ \A i \in DOMAIN after : after[i].kind # "phase"
  <2>1. Event(type) \in OverlayMessages /\ Event(type).kind = "event"
    BY MessagesAre
  <2> QED BY <1>3, <2>1
<1>4. ASSUME NEW type \in Entries \union {"user", "complete", "usage"},
             NEW phase \in OverlayPhases, SetPhase(phase, <<Event(type)>>),
             turn' \in BOOLEAN,
             IF phase \in {"streaming", "tool"} THEN turn /\ turn'
             ELSE turn' => turn \/ phase = "awaiting"
      PROVE  OverlayIInv'
  <2>1. PICK after : after = <<Event(type)>>
    OBVIOUS
  <2>2. SetPhase(phase, after)
    BY <1>4, <2>1
  <2>3. after \in Seq(OverlayMessages) /\ \A i \in DOMAIN after : after[i].kind # "phase"
    BY <1>3, <2>1
  <2> QED BY <1>4, <2>2, <2>3, SetPhaseKeeps
<1>5. ASSUME NEW phase \in OverlayPhases, SetPhase(phase, << >>), turn' \in BOOLEAN,
             phase \notin {"streaming", "tool"}, turn' => turn
      PROVE  OverlayIInv'
  <2>1. SetPhase(phase, none)
    BY <1>1, <1>5
  <2> QED BY <1>2, <1>5, <2>1, SetPhaseKeeps
<1>6. CASE PrimeAwaiting \/ StopQuery \/ LinkChanges
  <2>1. PICK phase \in {"awaiting", "complete", "idle"} :
          SetPhase(phase, << >>) /\ (turn' = turn \/ turn' = FALSE)
    BY <1>6 DEF PrimeAwaiting, StopQuery, LinkChanges
  <2>2. turn' \in BOOLEAN /\ (turn' => turn)
    <3>1. CASE turn' = turn
      BY <1>0, <3>1
    <3>2. CASE turn' = FALSE
      BY <3>2
    <3> QED BY <2>1, <3>1, <3>2
  <2>3. phase \in OverlayPhases /\ phase \notin {"streaming", "tool"}
    BY <1>0, <2>1
  <2> QED BY <1>5, <2>1, <2>2, <2>3
<1>7. CASE Query \/ QueryFails
  <2>1. PICK phase \in {"awaiting", "idle"}, type \in {"user", "error"} :
          /\ SetPhase(phase, <<Event(type)>>)
          /\ turn' = (phase = "awaiting")
    BY <1>7 DEF Query, QueryFails
  <2>2. type \in Entries \union {"user", "complete", "usage"}
    BY DEF Entries
  <2> QED BY <1>0, <1>4, <2>1, <2>2
<1>8. ASSUME NEW type \in {"text", "tool", "complete", "error", "usage"}, BackendEvent(type)
      PROVE  OverlayIInv'
  <2>1. PICK phase : phase = PhaseAfterEvent(type)
    OBVIOUS
  <2>2. /\ turn \/ type = "usage"
        /\ turn' = (turn /\ type \notin {"complete", "error"})
    BY <1>8, <2>1 DEF BackendEvent
  <2>3. type \in Entries \union {"user", "complete", "usage"}
    BY DEF Entries
  <2>4. /\ phase \in OverlayPhases
        /\ phase \in {"streaming", "tool"} =>
             type \in {"text", "tool"} /\ phase \notin {"awaiting", "complete", "error"}
    BY <1>0, <2>1 DEF PhaseAfterEvent
  <2>5. turn' \in BOOLEAN /\ (turn' => turn)
    BY <1>0, <2>2
  <2>6. phase \in {"streaming", "tool"} => turn /\ turn'
    BY <2>2, <2>4
  <2>7. SetPhase(phase, <<Event(type)>>)
    BY <1>8, <2>1 DEF BackendEvent
  <2> QED BY <1>4, <2>3, <2>4, <2>5, <2>6, <2>7
<1> QED BY <1>6, <1>7, <1>8

LEMMA OverlayIInvIsKept ==
  ASSUME OverlayIInv, [OverlayNext]_overlayVars
  PROVE  OverlayIInv'
<1>1. CASE OverlayNext
  <2>1. \/ Receive \/ ReportSize \/ HandleSize \/ CloseAnswer \/ HidePill
        \/ \E focus \in BOOLEAN : ShowPill(focus)
        \/ \/ PrimeAwaiting \/ Query \/ StopQuery \/ QueryFails \/ LinkChanges
           \/ \E type \in {"text", "tool", "complete", "error", "usage"} : BackendEvent(type)
    BY <1>1 DEF OverlayNext, UsersAct, BackendActs
  <2> QED BY <2>1, ReceiveKeeps, ReportSizeKeeps, HandleSizeKeeps, CloseAnswerKeeps,
             HidePillKeeps, ShowPillKeeps, PhasesKeep
<1>2. CASE UNCHANGED overlayVars
  <2>1. UNCHANGED <<main, turn, toView, view, frame, scheduled, toMain, parted>>
    BY <1>2 DEF overlayVars
  <2>2. Visible(view)' = Visible(view)
    BY <2>1, SightOfTheView
  <2>3. OverlayTypeOK' /\ PhaseIsSaid' /\ LoopsHaveTurns' /\ (~main'.chat => parted')
    BY <2>1 DEF OverlayIInv, OverlayTypeOK, PhaseIsSaid, LoopsHaveTurns, Phase
  <2>4. FramesAreReported' /\ SightsAreDrawn' /\ BeliefsAreFounded' /\ ClosedIsOver'
    BY <2>1, <2>2 DEF OverlayIInv, FramesAreReported, SightsAreDrawn, BeliefsAreFounded,
                      ClosedIsOver, Believes, Says, LoopIsSaid, LoopIsAnnounced, Phase, Visibility
  <2> QED BY <2>3, <2>4 DEF OverlayIInv
<1> QED BY <1>1, <1>2

(* When nothing is on its way between main and the view of the answer, the *)
(* window stands on the screen exactly when the view has something to      *)
(* show, after any number of queries, stops, closes, events and reports    *)
(* that crossed (response_overlay_phase_handler.cjs, surface_runtime.cjs,  *)
(* useResponseOverlayWindowSync.js).                                       *)
THEOREM WindowFollowsTheViewHolds == OverlaySpec => []WindowFollowsTheView
<1>1. OverlayIInv => WindowFollowsTheView
  <2> SUFFICES ASSUME OverlayIInv, ~InTransit, ~parted PROVE main.response = Visible(view)
    BY DEF WindowFollowsTheView
  <2>1. toView = << >> /\ toMain = << >> /\ ~scheduled /\ main.response \in BOOLEAN
    BY DEF InTransit, OverlayIInv, OverlayTypeOK, MainStates
  <2>2. DOMAIN toView = {}
    BY <2>1
  <2>3. ~LoopIsSaid /\ ~LoopIsAnnounced /\ ~Says(Visibility(FALSE))
    BY <2>2 DEF LoopIsSaid, LoopIsAnnounced, Says
  <2>4. CASE Visible(view)
    <3>1. frame # "hidden"
      BY <2>1, <2>3, <2>4 DEF OverlayIInv, SightsAreDrawn
    <3>2. main.response
      BY <2>1, <2>3, <3>1 DEF OverlayIInv, FramesAreReported
    <3> QED BY <2>1, <2>4, <3>2 DEF Visible
  <2>5. CASE ~Visible(view)
    <3>1. frame = "hidden"
      BY <2>5 DEF OverlayIInv, FramesAreReported
    <3>2. ~Believes
      BY <2>3, <2>5, <3>1 DEF OverlayIInv, BeliefsAreFounded
    <3> QED BY <2>1, <2>5, <3>2 DEF Believes, Visible
  <2> QED BY <2>4, <2>5
<1> QED BY <1>1, OverlayIInvAtStart, OverlayIInvIsKept, PTL DEF OverlaySpec
=============================================================================

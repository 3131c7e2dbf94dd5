--------------------------- MODULE TranscriptSession ---------------------------
(***************************************************************************)
(* Which conversation is current.  Every renderer window keeps its own     *)
(* session (createTranscriptSessionState): the conversation and the user   *)
(* its transcript entries belong to.  A window that changes it tells main, *)
(* which keeps a copy for its own fallbacks and repeats the message to the *)
(* other windows.  Nothing orders the changes of two windows.              *)
(***************************************************************************)
EXTENDS Naturals, Sequences

CONSTANTS
  Windows,     \* the dashboard and the chat pill
  Chats,       \* conversations
  NoChat,      \* null
  MaxUpdates   \* bound: changes made by the windows themselves

ASSUME SessionAssumption ==
  /\ NoChat \notin Chats
  /\ MaxUpdates \in Nat

VARIABLES
  session,     \* the session of each window
  mainSession, \* currentConversationRef and currentUserId of main
  toMain,      \* transcript-session-sync messages each window has sent
  toWindow,    \* ... and those main has sent to it
  updates,     \* how many changes there were
  crossed      \* history: a window made a change before it had heard of
               \* another's

sessionVars == <<session, mainSession, toMain, toWindow, updates, crossed>>

\* userId is only ever null or the id of this installation.
Sessions == [chat : Chats \union {NoChat}, user : BOOLEAN]

SessionTypeOK ==
  /\ session \in [Windows -> Sessions]
  /\ mainSession \in Sessions
  /\ toMain \in [Windows -> Seq(Sessions)]
  /\ toWindow \in [Windows -> Seq(Sessions)]
  /\ updates \in 0..MaxUpdates
  /\ crossed \in BOOLEAN

SessionInit ==
  /\ session = [w \in Windows |-> [chat |-> NoChat, user |-> FALSE]]
  /\ mainSession = [chat |-> NoChat, user |-> FALSE]
  /\ toMain = [w \in Windows |-> <<>>]
  /\ toWindow = [w \in Windows |-> <<>>]
  /\ updates = 0
  /\ crossed = FALSE

Complete(info) == info.chat # NoChat /\ info.user

\* An update replaces the conversation, null included; a user that is not
\* given does not clear the one there is.
Updated(info, chat, user) == [chat |-> chat, user |-> info.user \/ user]

-----------------------------------------------------------------------------
\* applyTranscriptSessionUpdate for a change of the window's own: the user
\* selects, creates or resets a chat, a backend event names the user, the
\* settings do.
UpdateSession(w) ==
  /\ updates < MaxUpdates
  /\ updates' = updates + 1
  /\ \E chat \in Chats \union {NoChat}, user \in BOOLEAN :
       LET next == Updated(session[w], chat, user)
       IN  /\ session' = [session EXCEPT ![w] = next]
           /\ toMain' = [toMain EXCEPT ![w] = Append(@, next)]
  /\ crossed' = (crossed \/ toWindow[w] # <<>> \/ \E v \in Windows \ {w} : toMain[v] # <<>>)
  /\ UNCHANGED <<mainSession, toWindow>>

\* Mutant: a reset is not repeated.
MainSyncs_DropsResets(w) ==
  /\ toMain[w] # <<>>
  /\ LET sent == Head(toMain[w])
     IN  /\ mainSession' = Updated(mainSession, sent.chat, sent.user)
         /\ toWindow' = [v \in Windows |-> IF v = w \/ sent.chat = NoChat
                                            THEN toWindow[v] ELSE Append(toWindow[v], sent)]
  /\ toMain' = [toMain EXCEPT ![w] = Tail(@)]
  /\ UNCHANGED <<session, updates, crossed>>

\* applyTranscriptSessionSync: main takes the change over and repeats it to
\* every window but its sender.
MainSyncs(w) ==
  /\ toMain[w] # <<>>
  /\ LET sent == Head(toMain[w])
     IN  /\ mainSession' = Updated(mainSession, sent.chat, sent.user)
         /\ toWindow' = [v \in Windows |-> IF v = w THEN toWindow[v]
                                                    ELSE Append(toWindow[v], sent)]
  /\ toMain' = [toMain EXCEPT ![w] = Tail(@)]
  /\ UNCHANGED <<session, updates, crossed>>

\* The repeated message arrives; it is applied without being sent on.
WindowSyncs(w) ==
  /\ toWindow[w] # <<>>
  /\ LET sent == Head(toWindow[w])
     IN  session' = [session EXCEPT ![w] = Updated(@, sent.chat, sent.user)]
  /\ toWindow' = [toWindow EXCEPT ![w] = Tail(@)]
  /\ UNCHANGED <<mainSession, toMain, updates, crossed>>

SessionNext == \E w \in Windows : UpdateSession(w) \/ MainSyncs(w) \/ WindowSyncs(w)

SessionSpec == SessionInit /\ [][SessionNext]_sessionVars

-----------------------------------------------------------------------------
SessionsDelivered == \A w \in Windows : toMain[w] = <<>> /\ toWindow[w] = <<>>

\* What main repeats brings the windows to one session, as long as no change
\* of one crosses a change of another on its way: a chat that is selected or
\* reset, and the user whichever window learned of it.
UncrossedSessionsAgree ==
  SessionsDelivered /\ ~crossed => \A v, w \in Windows : session[v] = session[w]
=============================================================================

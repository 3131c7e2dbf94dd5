---------------------------- MODULE WorkspaceBinding ----------------------------
(***************************************************************************)
(* Which folder a chat works in.  The main process stores one active       *)
(* folder (permission_state_store.cjs) and announces its changes           *)
(* (permission_ipc_runtime.cjs, app_menu_runtime.cjs, index.cjs).  Each    *)
(* window keeps its own map of the folders of chats                        *)
(* (conversationWorkspaceBinding.js); rows of the transcript record one,   *)
(* and a query carries one (useChatMessageSender.ts).  Choosing a folder   *)
(* starts a chat (ChatInterface.jsx), opening a chat makes its folder the  *)
(* active one (useDashboardConversations.js).                              *)
(***************************************************************************)
EXTENDS Naturals, Sequences

CONSTANTS
  Dashboard, Pill,  \* the two windows that send queries
  Chats, NoChat,
  Folders, NoFolder,
  Dialogs,          \* choices of a folder or of a chat that may overlap
  MaxFolderActs,    \* bound: acts of the user, each begun when all was at rest
  MaxHurriedActs    \* bound: acts when one of them was not

Surfaces == {Dashboard, Pill}
NotHeard == "nothing"

ASSUME FolderBounds ==
  /\ Dashboard # Pill /\ {NoChat, NotHeard} \cap Chats = {} /\ NoFolder \notin Folders
  /\ {MaxFolderActs, MaxHurriedActs} \subseteq Nat

VARIABLES
  stored,      \* selected_paths[0] of permission-state.json
  choices,     \* picks and openings under way
  news,        \* workspace-access-updated messages to the dashboard
  display,     \* activeWorkspaceRef of the dashboard, its refresh under way
  current,     \* the conversation of each window ...
  heard,       \* ... and the change of the other one it has not heard of
  bound,       \* bindingCache of each window
  known,       \* chats the backend has the history of, by each window
  sends,       \* the send of each window
  rows, queries, \* folders: recorded with rows of a chat, sent with queries
  hurried,     \* history: an act began before the one before had ended
  folderActs

bindingVars == <<stored, choices, news, display, current, heard, bound, known, sends,
                 rows, queries, hurried, folderActs>>

MaybeFolder == Folders \union {NoFolder}

-----------------------------------------------------------------------------
NoChoice == [at |-> "none", chat |-> NoChat, folder |-> NoFolder]
NoSend == [at |-> "none", chat |-> NoChat, folder |-> NoFolder]

Resting ==
  /\ \A o \in Dialogs : choices[o].at = "none"
  /\ \A w \in Surfaces : sends[w].at = "none" /\ heard[w] = NotHeard
  /\ news = <<>> /\ ~display.asked

Acts ==
  /\ hurried' = (hurried \/ ~Resting)
  /\ folderActs < IF hurried' THEN MaxHurriedActs ELSE MaxFolderActs
  /\ folderActs' = folderActs + 1
Follows == UNCHANGED <<hurried, folderActs>>

Unused == {c \in Chats : rows[c] = {} /\ c \notin {current[w] : w \in Surfaces}
                           /\ c \notin {sends[w].chat : w \in Surfaces}
                           /\ c \notin known[Dashboard] \union known[Pill]}

(* resolveConversationWorkspaceBinding: the first row that has a folder.   *)
Recorded(c) == IF rows[c] \subseteq {NoFolder} THEN NoFolder
               ELSE CHOOSE f \in Folders : f \in rows[c]

Other(w) == IF w = Dashboard THEN Pill ELSE Dashboard

(* A window changes its conversation and tells the other.                  *)
Selects(w, c) ==
  /\ current' = [current EXCEPT ![w] = c]
  /\ heard' = [heard EXCEPT ![Other(w)] = c]
Hears(w) ==
  /\ heard[w] # NotHeard
  /\ current' = [current EXCEPT ![w] = heard[w]]
  /\ heard' = [heard EXCEPT ![w] = NotHeard]
  /\ Follows
  /\ UNCHANGED <<stored, choices, news, display, bound, known, sends, rows, queries>>

-----------------------------------------------------------------------------
(* Main.                                                                   *)

(* The picker, of a menu or of a page: the folder the user chooses.        *)
Picks(o, f) ==
  /\ choices[o].at = "none" /\ Acts
  /\ choices' = [choices EXCEPT ![o] = [at |-> "store", chat |-> NoChat, folder |-> f]]
  /\ UNCHANGED <<stored, news, display, current, heard, bound, known, sends, rows, queries>>

(* A picker of the menu that is cancelled announces that there is none.    *)
CancelsMenu ==
  /\ Acts
  /\ news' = Append(news, [folder |-> NoFolder, picked |-> FALSE])
  /\ UNCHANGED <<stored, choices, display, current, heard, bound, known, sends, rows, queries>>

(* set and delete of the store; a write beside another one may fail.       *)
Stores(o) ==
  /\ choices[o].at = "store"
  /\ \/ stored' = choices[o].folder
     \/ (\E p \in Dialogs \ {o} : choices[p].at \in {"store", "announce"}) /\ UNCHANGED stored
  /\ choices' = [choices EXCEPT ![o].at = "announce"]
  /\ Follows
  /\ UNCHANGED <<news, display, current, heard, bound, known, sends, rows, queries>>

(* The status is probed again: what is stored by now.                      *)
Announces(o) ==
  /\ choices[o].at = "announce"
  /\ news' = Append(news, [folder |-> stored, picked |-> choices[o].chat = NoChat])
  /\ choices' = [choices EXCEPT ![o] = IF @.chat = NoChat THEN NoChoice
                                       ELSE [@ EXCEPT !.at = "select"]]
  /\ Follows
  /\ UNCHANGED <<stored, display, current, heard, bound, known, sends, rows, queries>>

-----------------------------------------------------------------------------
(* The dashboard.                                                          *)

(* startNewChatSession.                                                    *)
NewChat(f) ==
  \E c \in Unused :
    /\ Selects(Dashboard, c)
    /\ bound' = [bound EXCEPT ![Dashboard][c] = f]
    /\ known' = [known EXCEPT ![Dashboard] = @ \union {c}]

FolderChosen(f) ==
  IF current[Dashboard] # NoChat /\ bound[Dashboard][current[Dashboard]] = f
  THEN UNCHANGED <<current, heard, bound, known>>
  ELSE NewChat(f)

(* The listener of workspace-access-updated.                               *)
TakesNews ==
  /\ news # <<>>
  /\ news' = Tail(news)
  /\ display' = [display EXCEPT !.folder = Head(news).folder, !.valid = FALSE]
  /\ IF Head(news).picked THEN FolderChosen(Head(news).folder)
     ELSE UNCHANGED <<current, heard, bound, known>>
  /\ Follows
  /\ UNCHANGED <<stored, choices, sends, rows, queries>>

(* refreshActiveWorkspace: an answer that was overtaken is dropped.        *)
Refreshes ==
  /\ ~display.asked /\ folderActs < MaxFolderActs
  /\ display' = [display EXCEPT !.asked = TRUE, !.valid = TRUE]
  /\ UNCHANGED <<stored, choices, news, current, heard, bound, known, sends, rows, queries,
                 hurried, folderActs>>
Refreshed ==
  /\ display.asked /\ news = <<>>
  /\ display' = [folder |-> IF display.valid THEN stored ELSE display.folder,
                 asked |-> FALSE, valid |-> FALSE]
  /\ UNCHANGED <<stored, choices, news, current, heard, bound, known, sends, rows, queries,
                 hurried, folderActs>>

PressesNewChat ==
  /\ Acts
  /\ NewChat(display.folder)
  /\ UNCHANGED <<stored, choices, news, display, sends, rows, queries>>

(* handleOpenConversation: its snapshot, the active folder, the selection. *)
Opens(o, c) ==
  /\ choices[o].at = "none" /\ rows[c] # {} /\ Acts
  /\ choices' = [choices EXCEPT ![o] = [at |-> "load", chat |-> c, folder |-> NoFolder]]
  /\ UNCHANGED <<stored, news, display, current, heard, bound, known, sends, rows, queries>>
LoadsSnapshot(o) ==
  LET c == choices[o].chat IN
  /\ choices[o].at = "load"
  /\ bound' = [bound EXCEPT ![Dashboard][c] = Recorded(c)]
  /\ choices' = [choices EXCEPT ![o].at = "store", ![o].folder = Recorded(c)]
  /\ Follows
  /\ UNCHANGED <<stored, news, display, current, heard, known, sends, rows, queries>>
SelectsOpened(o) ==
  /\ choices[o].at = "select" /\ news = <<>>
  /\ Selects(Dashboard, choices[o].chat)
  /\ known' = [known EXCEPT ![Dashboard] =
                 IF current[Dashboard] = choices[o].chat THEN @ ELSE @ \ {choices[o].chat}]
  /\ choices' = [choices EXCEPT ![o] = NoChoice]
  /\ Follows
  /\ UNCHANGED <<stored, news, display, bound, sends, rows, queries>>

-----------------------------------------------------------------------------
(* Sending, in either window.                                              *)

Sends(w) ==
  /\ sends[w].at = "none" /\ Acts
  /\ \E c \in IF current[w] = NoChat THEN Unused ELSE {current[w]} :
       /\ sends' = [sends EXCEPT ![w] =
            [at |-> IF bound[w][c] = NoFolder THEN "fetch" ELSE "ensure",
             chat |-> c, folder |-> bound[w][c]]]
       /\ IF current[w] = NoChat
          THEN Selects(w, c) /\ known' = [known EXCEPT ![w] = @ \union {c}]
          ELSE UNCHANGED <<current, heard, known>>
  /\ UNCHANGED <<stored, choices, news, display, bound, rows, queries>>

(* fetchActiveWorkspaceSelection answers.                                  *)
Binds(w) ==
  /\ sends[w].at = "fetch"
  /\ w = Dashboard => news = <<>>
  /\ bound' = [bound EXCEPT ![w][sends[w].chat] = stored]
  /\ sends' = [sends EXCEPT ![w].at = "ensure", ![w].folder = stored]
  /\ Follows
  /\ UNCHANGED <<stored, choices, news, display, current, heard, known, rows, queries>>

(* The snapshot of a chat the backend has to hear of first binds it, too.  *)
Ensures(w) ==
  LET c == sends[w].chat IN
  /\ sends[w].at = "ensure"
  /\ bound' = IF c \in known[w] THEN bound ELSE [bound EXCEPT ![w][c] = Recorded(c)]
  /\ known' = [known EXCEPT ![w] = @ \union {c}]
  /\ sends' = [sends EXCEPT ![w].at = "query"]
  /\ Follows
  /\ UNCHANGED <<stored, choices, news, display, current, heard, rows, queries>>

(* A mutant: the query carries the folder that is shown, not the chat's.   *)
Queries_Shown(w) ==
  LET c == sends[w].chat IN
  /\ sends[w].at = "query"
  /\ rows' = [rows EXCEPT ![c] = @ \union {bound[w][c]}]
  /\ queries' = [queries EXCEPT ![c] = @ \union {display.folder}]
  /\ sends' = [sends EXCEPT ![w] = NoSend]
  /\ Follows
  /\ UNCHANGED <<stored, choices, news, display, current, heard, bound, known>>

(* The row of the message, and the query with the folder from before.      *)
Queries(w) ==
  LET c == sends[w].chat IN
  /\ sends[w].at = "query"
  /\ rows' = [rows EXCEPT ![c] = @ \union {bound[w][c]}]
  /\ queries' = [queries EXCEPT ![c] = @ \union {sends[w].folder}]
  /\ sends' = [sends EXCEPT ![w] = NoSend]
  /\ Follows
  /\ UNCHANGED <<stored, choices, news, display, current, heard, bound, known>>

(* The program is started again: only what is stored remains.              *)
Restarts ==
  /\ Resting /\ Acts
  /\ current' = [w \in Surfaces |-> NoChat]
  /\ bound' = [w \in Surfaces |-> [c \in Chats |-> NoFolder]]
  /\ known' = [w \in Surfaces |-> {}]
  /\ display' = [display EXCEPT !.folder = stored]
  /\ UNCHANGED <<stored, choices, news, heard, sends, rows, queries>>

-----------------------------------------------------------------------------
BindingInit ==
  /\ stored = NoFolder
  /\ choices = [o \in Dialogs |-> NoChoice] /\ news = <<>>
  /\ display = [folder |-> NoFolder, asked |-> FALSE, valid |-> FALSE]
  /\ current = [w \in Surfaces |-> NoChat] /\ heard = [w \in Surfaces |-> NotHeard]
  /\ bound = [w \in Surfaces |-> [c \in Chats |-> NoFolder]]
  /\ known = [w \in Surfaces |-> {}]
  /\ sends = [w \in Surfaces |-> NoSend]
  /\ rows = [c \in Chats |-> {}] /\ queries = [c \in Chats |-> {}]
  /\ hurried = FALSE /\ folderActs = 0

BindingNext ==
  \/ \E w \in Surfaces : Hears(w) \/ Sends(w) \/ Binds(w) \/ Ensures(w) \/ Queries(w)
  \/ \E o \in Dialogs : Stores(o) \/ Announces(o) \/ LoadsSnapshot(o) \/ SelectsOpened(o)
                        \/ (\E f \in Folders : Picks(o, f)) \/ (\E c \in Chats : Opens(o, c))
  \/ CancelsMenu \/ TakesNews \/ Refreshes \/ Refreshed \/ PressesNewChat \/ Restarts

BindingSpec == BindingInit /\ [][BindingNext]_bindingVars

-----------------------------------------------------------------------------
(* A chat whose rows record folders keeps one: all its rows record the same *)
(* and all its queries carry it, as long as the user lets each act come to *)
(* its end before the next: choosing, opening, sending from either window, *)
(* a new chat, a cancelled menu and a restart in any order.                *)
RecordedFoldersStay ==
  ~hurried => \A c \in Chats :
    (rows[c] # {} /\ NoFolder \notin rows[c]) => (rows[c] \union queries[c] = {Recorded(c)})

(* One chat belongs to one folder.                                         *)
OneFolderPerChat ==
  \A c \in Chats : \E f \in MaybeFolder : queries[c] \union rows[c] \subseteq {f}
=============================================================================

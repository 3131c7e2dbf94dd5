---------------------------- MODULE TranscriptQueue ----------------------------
(***************************************************************************)
(* TranscriptWriter of one window: an entry is stored at once if its       *)
(* session is complete and queued if it is not.  Each change of the        *)
(* session starts a flush that drains the three queues in turn and stores  *)
(* what it took entry by entry.  Flushes and stores run concurrently: they *)
(* give up control at every request to the sidecar.                        *)
(*                                                                         *)
(* The sidecar carries a store out when it is sent, or not at all; main    *)
(* answers {success: false} for one it did not, which is an answer like    *)
(* any other.  The call of a store is rejected only by the replay rows     *)
(* that are updated after it (ConversationReplay).                         *)
(***************************************************************************)
EXTENDS TranscriptSession, SequencesExt

CONSTANTS
  Writer,           \* the window
  UserEntries,      \* what is recorded, by category
  AssistantEntries,
  ToolEntries,
  Flushes           \* bound: flushes that run at the same time

Entries    == UserEntries \union AssistantEntries \union ToolEntries
Categories == <<"user", "assistant", "tool">>

ASSUME QueueAssumption ==
  /\ Writer \in Windows
  /\ UserEntries \intersect AssistantEntries = {}
  /\ ToolEntries \intersect (UserEntries \union AssistantEntries) = {}

VARIABLES
  pending,   \* the queue of each category
  flush,     \* each running flush: its category, its batch and how far it is
  direct,    \* entries whose immediate store is under way
  recorded,  \* history: entries that were recorded
  rows,      \* how often the sidecar has stored each entry
  dropped,   \* history: entries stored without a conversation, or whose store
             \* was not carried out
  retried    \* history: entries queued again after the sidecar had stored them

queueVars == <<pending, flush, direct, recorded, rows, dropped, retried>>

CategoryOf(e) == CASE e \in UserEntries -> 1 [] e \in AssistantEntries -> 2 [] OTHER -> 3

NoFlush    == [category |-> 0, batch |-> <<>>, index |-> 0]
Running(f) == flush[f].category # 0
Current(f) == flush[f].batch[flush[f].index]
Batched(f) == {flush[f].batch[i] : i \in flush[f].index..Len(flush[f].batch)}

QueueTypeOK ==
  /\ SessionTypeOK
  /\ \A c \in 1..3 : \A i \in 1..Len(pending[c]) : CategoryOf(pending[c][i]) = c
  /\ \A f \in Flushes : Running(f) =>
       /\ flush[f].index \in 1..Len(flush[f].batch)
       /\ CategoryOf(Current(f)) = flush[f].category
  /\ direct \subseteq recorded /\ recorded \subseteq Entries
  /\ rows \in [Entries -> Nat]
  /\ dropped \subseteq recorded /\ retried \subseteq recorded

QueueInit ==
  /\ SessionInit
  /\ pending = [c \in 1..3 |-> <<>>]
  /\ flush = [f \in Flushes |-> NoFlush]
  /\ direct = {} /\ recorded = {} /\ dropped = {} /\ retried = {}
  /\ rows = [e \in Entries |-> 0]

-----------------------------------------------------------------------------
\* The sidecar gets the store of e and carries it out, or not.
SendsStore(e, served) ==
  /\ rows' = [rows EXCEPT ![e] = IF served THEN @ + 1 ELSE @]
  /\ dropped' = IF served THEN dropped \ {e} ELSE dropped \union {e}

Enqueue(queues, e) == [queues EXCEPT ![CategoryOf(e)] = Append(@, e)]

\* requeuePending, for a call that failed: e has its row already, or not.
Again(batch) ==
  /\ dropped' = dropped \ ToSet(batch)
  /\ retried' = retried \union {e \in ToSet(batch) : rows[e] > 0}

-----------------------------------------------------------------------------
\* recordUserMessage, recordAssistantMessage, recordToolMessage: the caller
\* may name the conversation and the user, what it leaves out is taken from
\* the session.  A queued entry does not remember what was named.
Record(e) ==
  /\ e \notin recorded
  /\ recorded' = recorded \union {e}
  /\ \E chat \in Chats \union {NoChat}, user \in BOOLEAN :
       LET info == [chat |-> IF chat # NoChat THEN chat ELSE session[Writer].chat,
                    user |-> user \/ session[Writer].user]
       IN  IF Complete(info)
             THEN /\ direct' = direct \union {e}
                  /\ \E served \in BOOLEAN : SendsStore(e, served)
                  /\ UNCHANGED pending
             ELSE /\ pending' = Enqueue(pending, e)
                  /\ UNCHANGED <<direct, rows, dropped>>
  /\ UNCHANGED <<sessionVars, flush, retried>>

\* storeImmediateTranscriptEntryWithRetry: the call returns, or it is rejected
\* and the entry is queued.
DirectSettles(e) ==
  /\ e \in direct
  /\ direct' = direct \ {e}
  /\ \/ UNCHANGED <<pending, dropped, retried>>
     \/ pending' = Enqueue(pending, e) /\ Again(<<e>>)
  /\ UNCHANGED <<sessionVars, flush, recorded, rows>>

-----------------------------------------------------------------------------
\* The first category from c on that has something to flush, or 0.
NextCategory(c) ==
  LET waiting == {d \in c..3 : pending[d] # <<>>}
  IN  IF waiting = {} THEN 0 ELSE CHOOSE d \in waiting : \A x \in waiting : d <= x

\* flushPendingMessages goes on with category c: its queue is drained and the
\* first entry of the batch is stored.
DrainsCategory(f, c) ==
  /\ flush' = [flush EXCEPT ![f] = [category |-> c, batch |-> pending[c], index |-> 1]]
  /\ pending' = [pending EXCEPT ![c] = <<>>]
  /\ \E served \in BOOLEAN : SendsStore(Head(pending[c]), served)

\* The session was reset while the flush ran: storeTranscriptEntry returns
\* without storing anything, for each entry that is left.
DrainsIntoNothing(f, left) ==
  LET later == UNION {ToSet(pending[d]) : d \in (flush[f].category + 1)..3}
  IN  /\ flush' = [flush EXCEPT ![f] = NoFlush]
      /\ pending' = [d \in 1..3 |-> IF d > flush[f].category THEN <<>> ELSE pending[d]]
      /\ dropped' = dropped \union left \union later
      /\ UNCHANGED rows

\* The entry in flight is done; the next one of the batch, or of the next
\* category, is stored in the session of this moment.
FlushGoesOn(f) ==
  LET now  == flush[f]
      left == Batched(f) \ {Current(f)}
  IN  /\ Running(f)
      /\ IF ~Complete(session[Writer]) THEN DrainsIntoNothing(f, left)
         ELSE IF left # {}
           THEN /\ flush' = [flush EXCEPT ![f].index = @ + 1]
                /\ \E served \in BOOLEAN : SendsStore(now.batch[now.index + 1], served)
                /\ UNCHANGED pending
         ELSE IF NextCategory(now.category + 1) # 0
           THEN DrainsCategory(f, NextCategory(now.category + 1))
         ELSE flush' = [flush EXCEPT ![f] = NoFlush] /\ UNCHANGED <<pending, rows, dropped>>
      /\ UNCHANGED <<sessionVars, direct, recorded, retried>>

\* A mutant: only what follows the failed entry is queued again.
FlushFails_SkipsOne(f) ==
  LET left == SubSeq(flush[f].batch, flush[f].index + 1, Len(flush[f].batch))
  IN  /\ Running(f)
      /\ flush' = [flush EXCEPT ![f] = NoFlush]
      /\ pending' = [pending EXCEPT ![flush[f].category] = @ \o left]
      /\ Again(flush[f].batch)
      /\ UNCHANGED <<sessionVars, direct, recorded, rows>>

\* The entry in flight is rejected: it and the rest of its batch are queued
\* again, behind what was queued meanwhile, and the flush ends.
FlushFails(f) ==
  LET left == SubSeq(flush[f].batch, flush[f].index, Len(flush[f].batch))
  IN  /\ Running(f)
      /\ flush' = [flush EXCEPT ![f] = NoFlush]
      /\ pending' = [pending EXCEPT ![flush[f].category] = @ \o left]
      /\ Again(left)
      /\ UNCHANGED <<sessionVars, direct, recorded, rows>>

\* onSessionUpdated: every change of the writer's session starts a flush.
StartsFlush ==
  IF Complete(session'[Writer]) /\ NextCategory(1) # 0
    THEN /\ \E f \in Flushes : ~Running(f) /\ DrainsCategory(f, NextCategory(1))
         /\ UNCHANGED <<direct, recorded, retried>>
    ELSE UNCHANGED queueVars

SessionChanges ==
  \/ /\ UpdateSession(Writer) \/ WindowSyncs(Writer)
     /\ StartsFlush
  \/ /\ \/ \E w \in Windows : MainSyncs(w)
        \/ \E w \in Windows \ {Writer} : UpdateSession(w) \/ WindowSyncs(w)
     /\ UNCHANGED queueVars

QueueNext ==
  \/ SessionChanges
  \/ \E e \in Entries : Record(e) \/ DirectSettles(e)
  \/ \E f \in Flushes : FlushGoesOn(f) \/ FlushFails(f)

QueueSpec == QueueInit /\ [][QueueNext]_<<sessionVars, queueVars>>

-----------------------------------------------------------------------------
Held(e) ==
  \/ e \in direct
  \/ \E f \in Flushes : Running(f) /\ e \in Batched(f)
  \/ \E c \in 1..3 : e \in ToSet(pending[c])

\* What was recorded is stored in the end or still on its way, whatever fails
\* and however flushes, stores and session changes overlap -- unless the
\* sidecar did not carry out its last store, which main answers like any
\* other, or the session was reset while it was being flushed.
NothingIsForgotten == \A e \in recorded : Held(e) \/ rows[e] > 0 \/ e \in dropped

\* "no duplicate writes for already persisted prefix entries"
\* (pending_transcript_messages_orchestrator_...md): an entry is stored a second
\* time only if its own call was rejected after the sidecar had stored it.
NoRowTwice == \A e \in Entries : rows[e] > 1 => e \in retried

\* Every entry is stored, and stored once, as far as the answers of the sidecar
\* and the resets of the session let the queue know.
EntriesAreStoredOnce == NothingIsForgotten /\ NoRowTwice
=============================================================================

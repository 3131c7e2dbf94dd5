------------------------- MODULE ConversationReplay -------------------------
(***************************************************************************)
(* The replay state of one conversation.  The renderer stores every       *)
(* transcript entry in the sidecar and mirrors it in a second, hidden      *)
(* stream of "transcript_replay" rows from which the backend's history is  *)
(* rebuilt.  The first entry stored for a conversation bootstraps that     *)
(* stream from the transcript; compaction, rewind, deletion and "nuke      *)
(* chats" reset it.  All of it is single-threaded code that gives up       *)
(* control at every request to the sidecar, so the operations interleave   *)
(* at their answers.                                                       *)
(*                                                                         *)
(* A job is one call of such an operation.  The sidecar works through its  *)
(* requests one at a time and in the order they were sent, so a request    *)
(* takes effect when it is sent; its answer comes later, after the answers *)
(* to all earlier requests unless it is a failure (a timeout or a dead     *)
(* sidecar answer {success: false} at any time, whether or not the sidecar *)
(* carries the request out).                                               *)
(*                                                                         *)
(* Abstracted: rows are members of sets (their order is their              *)
(* message_index, which no property is about), and the pages of a load are *)
(* one request.                                                            *)
(***************************************************************************)
EXTENDS Integers, FiniteSets

CONSTANTS
  Writes,       \* transcript entries recorded; each is the row it stores
  Legacy,       \* transcript rows stored before the replay stream existed
  Summary,      \* rows of a compacted history
  Compactions,  \* calls of replaceConversationReplayState by compaction
  Rewinds,      \* deletions, and rewinds that store a kept prefix again
  Wipes,        \* "nuke chats"
  MaxResets,    \* bound: compactions, rewinds and wipes in one behaviour
  NoJob

Jobs == Writes \union Compactions \union Rewinds \union Wipes
Rows == Writes \union Legacy \union Summary

ASSUME JobsAreDistinct ==
  /\ NoJob \notin Jobs
  /\ Writes \intersect (Compactions \union Rewinds \union Wipes) = {}
  /\ Compactions \intersect (Rewinds \union Wipes) = {}
  /\ Rewinds \intersect Wipes = {}
ASSUME SummaryIsNotEmpty == Summary # {}
ASSUME MaxResetsIsNat == MaxResets \in Nat

VARIABLES
  transcript,    \* the sidecar's transcript rows of this conversation
  replay,        \* ... and its transcript_replay rows
  initialized,   \* this conversation is in initializedReplayConversations
  inFlight,      \* the job whose promise is in inFlightReplayInitializations
  epoch,         \* its entry in replayMutationEpochs
  job,           \* where each call stands
  ahead,         \* the requests the sidecar answers before a job's own
  faulty         \* some request has failed

database == <<transcript, replay>>
cache    == <<initialized, inFlight, epoch>>
calls    == <<job, ahead, faulty>>
replayVars == <<database, cache, calls>>

(* The stages of a call that wait for an answer of the sidecar.            *)
Loading == {"loadingReplay", "loadingTranscript"}
Asking  == Loading \union
           {"storing", "appending", "clearing", "rewriting", "restoring", "wiping"}
Stages  == Asking \union {"new", "joined", "done", "failed"}

(* A call: the epoch it compares with, the rows it has read and not yet    *)
(* written, whether the load of replay rows found any, whether the sidecar *)
(* carries out its present request, and whose promise it has joined.       *)
Calls == [stage : Stages, epoch : Nat, rows : SUBSET Rows,
          found : BOOLEAN, served : BOOLEAN, owner : Jobs \union {NoJob}]

Call(stage) == [stage |-> stage, epoch |-> 0, rows |-> {},
                found |-> FALSE, served |-> TRUE, owner |-> NoJob]

At(j, stage)   == job[j].stage = stage
Outstanding    == {j \in Jobs : job[j].stage \in Asking}
Initializing(j) == j \in Writes /\ job[j].stage \in Loading \union {"clearing", "rewriting"}
JoinedTo(j)    == {w \in Writes : At(w, "joined") /\ job[w].owner = j}

-----------------------------------------------------------------------------
(* Requests and answers.                                                   *)

(* The sidecar answers j: with success after all earlier requests and only *)
(* if it did the work, with a failure at any time.                         *)
Answers(j, ok) == IF ok THEN job[j].served /\ ahead[j] = {} ELSE TRUE

(* j's request is answered and every call of senders sends its next one;   *)
(* those the sidecar will carry out are served.                            *)
Step(j, ok, next, senders, served) ==
  /\ job'   = [k \in Jobs |-> IF k \in senders THEN [next[k] EXCEPT !.served = k \in served]
                                               ELSE next[k]]
  /\ ahead' = [k \in Jobs |-> IF k \in senders THEN Outstanding \ {j}
                       ELSE IF k = j THEN {} ELSE ahead[k] \ {j}]
  /\ faulty' = (faulty \/ ~ok \/ senders # served)

(* A request of j alone.                                                   *)
Sends(j, ok, call, served) ==
  Step(j, ok, [job EXCEPT ![j] = call], {j}, IF served THEN {j} ELSE {})

(* j's call returns or throws.                                             *)
Ends(j, ok, stage) == Step(j, ok, [job EXCEPT ![j] = Call(stage)], {}, {})

(* A row is written to a table when the request is carried out.            *)
With(table, row, served) == IF served THEN table \union {row} ELSE table

ClearReplayInitialization ==
  /\ initialized' = FALSE
  /\ inFlight' = NoJob
  /\ epoch' = epoch + 1

-----------------------------------------------------------------------------
(* storeTranscriptEntry and ensureConversationReplayStateInitialized.      *)

(* Mutants of Settles: the joiners are forgotten; rows found in the table  *)
(* are taken for a finished bootstrap.                                     *)
Settles_Alone(w, ok, outcome, rewritten) ==
  LET end == IF outcome = "bootstrapped" THEN "done"
             ELSE IF outcome = "rejected" THEN "failed" ELSE "appending"
      senders == IF end = "appending" THEN {w} ELSE {}
  IN  \E served \in SUBSET senders :
        /\ Step(w, ok, [job EXCEPT ![w] = Call(end)], senders, served)
        /\ replay' = rewritten \union served
        /\ inFlight' = IF inFlight = w THEN NoJob ELSE inFlight

Settles_ExistingIsBootstrapped(w, ok, outcome, rewritten) ==
  LET callers == {w} \union JoinedTo(w)
      end     == IF outcome = "rejected" THEN "failed"
                 ELSE IF outcome = "empty" THEN "appending" ELSE "done"
      senders == IF end = "appending" THEN callers ELSE {}
  IN  \E served \in SUBSET senders :
        /\ Step(w, ok, [k \in Jobs |-> IF k \in callers THEN Call(end) ELSE job[k]],
                senders, served)
        /\ replay' = rewritten \union served
        /\ inFlight' = IF inFlight = w THEN NoJob ELSE inFlight

(* The promise of w's initialization settles: w and the writes that joined *)
(* it go on.  A rejected one fails them all, a bootstrapped one leaves     *)
(* nothing to do, any other outcome lets each append its own row.  The     *)
(* finally block removes the promise from the map if it is still there.    *)
Settles(w, ok, outcome, rewritten) ==
  LET callers == {w} \union JoinedTo(w)
      end     == CASE outcome = "bootstrapped" -> "done"
                   [] outcome = "rejected"     -> "failed"
                   [] OTHER                    -> "appending"
      senders == IF end = "appending" THEN callers ELSE {}
  IN  \E served \in SUBSET senders :
        /\ Step(w, ok, [k \in Jobs |-> IF k \in callers THEN Call(end) ELSE job[k]],
                senders, served)
        /\ replay' = rewritten \union served
        /\ inFlight' = IF inFlight = w THEN NoJob ELSE inFlight

Write(w) ==
  /\ At(w, "new")
  /\ \E served \in BOOLEAN :
       /\ Sends(w, TRUE, Call("storing"), served)
       /\ transcript' = With(transcript, w, served)
  /\ UNCHANGED <<replay, cache>>

(* The answer to the store is not looked at: a failed store goes on too.   *)
AppendsAtOnce(w, ok) ==
  /\ initialized
  /\ \E served \in BOOLEAN :
       /\ Sends(w, ok, Call("appending"), served)
       /\ replay' = With(replay, w, served)
  /\ UNCHANGED inFlight

Joins(w, ok) ==
  /\ ~initialized /\ inFlight # NoJob
  /\ Step(w, ok, [job EXCEPT ![w] = [Call("joined") EXCEPT !.owner = inFlight]], {}, {})
  /\ UNCHANGED <<replay, inFlight>>

(* Mutant: nobody looks for a promise that is already there.               *)
StartsInitialization_Unshared(w, ok) ==
  /\ ~initialized
  /\ inFlight' = w
  /\ \E served \in BOOLEAN :
       Sends(w, ok, [Call("loadingReplay") EXCEPT !.epoch = epoch, !.found = (replay # {})],
             served)
  /\ UNCHANGED replay

StartsInitialization(w, ok) ==
  /\ ~initialized /\ inFlight = NoJob
  /\ inFlight' = w
  /\ \E served \in BOOLEAN :
       Sends(w, ok, [Call("loadingReplay") EXCEPT !.epoch = epoch, !.found = (replay # {})],
             served)
  /\ UNCHANGED replay

StoreAnswered(w) ==
  /\ At(w, "storing")
  /\ \E ok \in BOOLEAN :
       /\ Answers(w, ok)
       /\ AppendsAtOnce(w, ok) \/ Joins(w, ok) \/ StartsInitialization(w, ok)
  /\ UNCHANGED <<transcript, initialized, epoch>>

(* The load of the replay rows is answered.                                *)
ReplayLoadFails(w) ==
  /\ Answers(w, FALSE)
  /\ Settles(w, FALSE, "rejected", replay)
  /\ UNCHANGED initialized

ReplayLoadIsStale(w) ==
  /\ Answers(w, TRUE)
  /\ epoch # job[w].epoch
  /\ Settles(w, TRUE, "empty", replay)
  /\ UNCHANGED initialized

ReplayRowsExist(w) ==
  /\ Answers(w, TRUE)
  /\ epoch = job[w].epoch /\ job[w].found
  /\ initialized' = TRUE
  /\ Settles(w, TRUE, "already-initialized", replay)

NoReplayRows(w) ==
  /\ Answers(w, TRUE)
  /\ epoch = job[w].epoch /\ ~job[w].found
  /\ \E served \in BOOLEAN :
       Sends(w, TRUE, [job[w] EXCEPT !.stage = "loadingTranscript", !.rows = transcript], served)
  /\ UNCHANGED <<replay, initialized, inFlight>>

ReplayLoaded(w) ==
  /\ At(w, "loadingReplay")
  /\ ReplayLoadFails(w) \/ ReplayLoadIsStale(w) \/ ReplayRowsExist(w) \/ NoReplayRows(w)
  /\ UNCHANGED <<transcript, epoch>>

(* The load of the transcript is answered.                                 *)
TranscriptLoadFails(w) ==
  /\ Answers(w, FALSE)
  /\ Settles(w, FALSE, "rejected", replay)
  /\ UNCHANGED <<initialized, epoch>>

NothingToBootstrap(w) ==
  /\ Answers(w, TRUE)
  /\ epoch # job[w].epoch \/ job[w].rows = {}
  /\ Settles(w, TRUE, "empty", replay)
  /\ UNCHANGED <<initialized, epoch>>

(* Mutant: the epoch is not compared after the second load.                *)
BeginsRewrite_Unguarded(w) ==
  /\ Answers(w, TRUE)
  /\ job[w].rows # {}
  /\ ClearReplayInitialization
  /\ \E served \in BOOLEAN :
       /\ Sends(w, TRUE, [job[w] EXCEPT !.stage = "clearing", !.epoch = epoch + 1], served)
       /\ replay' = IF served THEN {} ELSE replay

(* The rewrite begins with the deletion of the replay rows; the epoch this *)
(* leaves behind is the one it is checked against at its end.              *)
BeginsRewrite(w) ==
  /\ Answers(w, TRUE)
  /\ epoch = job[w].epoch /\ job[w].rows # {}
  /\ ClearReplayInitialization
  /\ \E served \in BOOLEAN :
       /\ Sends(w, TRUE, [job[w] EXCEPT !.stage = "clearing", !.epoch = epoch + 1], served)
       /\ replay' = IF served THEN {} ELSE replay

TranscriptLoaded(w) ==
  /\ At(w, "loadingTranscript")
  /\ TranscriptLoadFails(w) \/ NothingToBootstrap(w) \/ BeginsRewrite(w)
  /\ UNCHANGED transcript

(* The replay row of w is stored, or not: the conversation counts as       *)
(* initialized either way.                                                 *)
AppendAnswered(w) ==
  /\ At(w, "appending")
  /\ \E ok \in BOOLEAN : Answers(w, ok) /\ Ends(w, ok, "done")
  /\ initialized' = TRUE
  /\ UNCHANGED <<database, inFlight, epoch>>

-----------------------------------------------------------------------------
(* replaceConversationReplayState, by a bootstrap or by a compaction.      *)

Compact(c) ==
  /\ At(c, "new")
  /\ ClearReplayInitialization
  /\ \E served \in BOOLEAN :
       /\ Sends(c, TRUE, [Call("clearing") EXCEPT !.rows = Summary], served)
       /\ replay' = IF served THEN {} ELSE replay
  /\ UNCHANGED transcript

StoresNextRow(j, ok) ==
  \E row \in job[j].rows, served \in BOOLEAN :
    /\ Sends(j, ok, [job[j] EXCEPT !.stage = "rewriting", !.rows = @ \ {row}], served)
    /\ replay' = With(replay, row, served)

ReplayCleared(j) ==
  /\ At(j, "clearing") /\ j \in Writes \union Compactions
  /\ Answers(j, TRUE)
  /\ StoresNextRow(j, TRUE)
  /\ UNCHANGED <<transcript, cache>>

ReplayClearFails(j) ==
  /\ At(j, "clearing") /\ j \in Writes \union Compactions
  /\ Answers(j, FALSE)
  /\ IF j \in Writes
       THEN Settles(j, FALSE, "rejected", replay)
       ELSE Ends(j, FALSE, "failed") /\ UNCHANGED <<replay, inFlight>>
  /\ UNCHANGED <<transcript, initialized, epoch>>

RewriteGoesOn(j) ==
  /\ At(j, "rewriting") /\ job[j].rows # {}
  /\ \E ok \in BOOLEAN : Answers(j, ok) /\ StoresNextRow(j, ok)
  /\ UNCHANGED <<transcript, cache>>

(* The last row is answered; a bootstrap then looks at the epoch.          *)
RewriteEnds(j) ==
  /\ At(j, "rewriting") /\ job[j].rows = {}
  /\ initialized' = TRUE
  /\ \E ok \in BOOLEAN :
       /\ Answers(j, ok)
       /\ IF j \in Writes
            THEN Settles(j, ok, IF epoch = job[j].epoch THEN "bootstrapped" ELSE "empty", replay)
            ELSE Ends(j, ok, "done") /\ UNCHANGED <<replay, inFlight>>
  /\ UNCHANGED <<transcript, epoch>>

-----------------------------------------------------------------------------
(* Deletion, rewind and wipe.                                              *)

(* deleteConversationStoredState for both kinds of rows; replaying from an *)
(* edited message keeps the rows before it.                                *)
Rewind(r) ==
  /\ At(r, "new")
  /\ ClearReplayInitialization
  /\ \E kept \in SUBSET transcript, deleted \in SUBSET {"transcript", "replay"} :
       /\ Sends(r, TRUE, [Call("clearing") EXCEPT !.rows = kept],
                deleted = {"transcript", "replay"})
       /\ transcript' = IF "transcript" \in deleted THEN {} ELSE transcript
       /\ replay'     = IF "replay" \in deleted THEN {} ELSE replay

RestoresNextRow(r, ok) ==
  IF job[r].rows = {}
    THEN Ends(r, ok, "done") /\ UNCHANGED transcript
    ELSE \E row \in job[r].rows, served \in BOOLEAN :
           /\ Sends(r, ok, [job[r] EXCEPT !.stage = "restoring", !.rows = @ \ {row}], served)
           /\ transcript' = With(transcript, row, served)

Restore(r) ==
  /\ \/ At(r, "clearing") /\ Answers(r, TRUE) /\ RestoresNextRow(r, TRUE)
     \/ At(r, "restoring") /\ \E ok \in BOOLEAN : Answers(r, ok) /\ RestoresNextRow(r, ok)
  /\ UNCHANGED <<replay, cache>>

DeletionFails(r) ==
  /\ At(r, "clearing") /\ r \in Rewinds
  /\ Answers(r, FALSE)
  /\ Ends(r, FALSE, "failed")
  /\ UNCHANGED <<database, cache>>

(* "Nuke chats" has the sidecar delete every row, and on success forgets   *)
(* the caches, the epochs with them.                                       *)
Wipe(x) ==
  /\ At(x, "new")
  /\ \E served \in BOOLEAN :
       /\ Sends(x, TRUE, Call("wiping"), served)
       /\ transcript' = IF served THEN {} ELSE transcript
       /\ replay'     = IF served THEN {} ELSE replay
  /\ UNCHANGED cache

ClearConversationReplayStateCache(x) ==
  /\ At(x, "wiping")
  /\ Answers(x, TRUE)
  /\ Ends(x, TRUE, "done")
  /\ initialized' = FALSE
  /\ inFlight' = NoJob
  /\ epoch' = 0
  /\ UNCHANGED database

WipeFails(x) ==
  /\ At(x, "wiping")
  /\ Answers(x, FALSE)
  /\ Ends(x, FALSE, "failed")
  /\ UNCHANGED <<database, cache>>

-----------------------------------------------------------------------------
ReplayInit ==
  /\ transcript = Legacy
  /\ replay = {}
  /\ initialized = FALSE
  /\ inFlight = NoJob
  /\ epoch = 0
  /\ job = [j \in Jobs |-> Call("new")]
  /\ ahead = [j \in Jobs |-> {}]
  /\ faulty = FALSE

ResetsLeft == Cardinality({j \in Jobs \ Writes : ~At(j, "new")}) < MaxResets

Starts == \/ \E w \in Writes : Write(w)
          \/ /\ ResetsLeft
             /\ \/ \E c \in Compactions : Compact(c)
                \/ \E r \in Rewinds : Rewind(r)
                \/ \E x \in Wipes : Wipe(x)

Continues(j) ==
  \/ j \in Writes /\ (StoreAnswered(j) \/ ReplayLoaded(j) \/ TranscriptLoaded(j)
                      \/ AppendAnswered(j))
  \/ j \in Writes \union Compactions
     /\ (ReplayCleared(j) \/ ReplayClearFails(j) \/ RewriteGoesOn(j) \/ RewriteEnds(j))
  \/ j \in Rewinds /\ (Restore(j) \/ DeletionFails(j))
  \/ j \in Wipes /\ (ClearConversationReplayStateCache(j) \/ WipeFails(j))

ReplayNext == Starts \/ \E j \in Jobs : Continues(j)

ReplaySpec == ReplayInit /\ [][ReplayNext]_replayVars

(* While requests are out, some are answered: the transport's timeout      *)
(* answers for a sidecar that does not.                                    *)
FairReplaySpec == ReplaySpec /\ WF_replayVars(\E j \in Jobs : Continues(j))

-----------------------------------------------------------------------------
(* Every variable holds a value of its kind.                               *)
ReplayTypeOK ==
  /\ transcript \in SUBSET Rows
  /\ replay \in SUBSET Rows
  /\ initialized \in BOOLEAN
  /\ inFlight \in Writes \union {NoJob}
  /\ epoch \in Nat
  /\ job \in [Jobs -> Calls]
  /\ ahead \in [Jobs -> SUBSET Jobs]
  /\ faulty \in BOOLEAN

(* A write that shares another one's promise is never left hanging: the    *)
(* call it waits for is still initializing, even after a reset has taken   *)
(* the promise out of the map.                                             *)
JoinersHaveAnOwner ==
  \A w \in Writes : At(w, "joined") => Initializing(job[w].owner)

Wiped  == \E x \in Wipes : At(x, "done")
NoWipe == \A x \in Wipes : At(x, "new")

(* However resets and failures fall, at most one bootstrap that a reset    *)
(* has not outdated is reading the rows.  ("Nuke chats" forgets the epochs *)
(* and is left out: after it an outdated bootstrap passes for current.)    *)
OneCurrentBootstrap ==
  ~Wiped => \A v, w \in Writes :
              /\ job[v].stage \in Loading /\ job[v].epoch = epoch
              /\ job[w].stage \in Loading /\ job[w].epoch = epoch
              => v = w

(* A bootstrap never begins to rewrite the replay rows from a reading of   *)
(* the transcript that a deletion or rewind has overtaken.  (A wipe takes  *)
(* no notice of the epochs until it is answered, and then forgets them.)   *)
RewritesBeginFromTheTranscript ==
  [][\A w \in Writes :
       At(w, "loadingTranscript") /\ job'[w].stage = "clearing" /\ NoWipe
         => job[w].rows \subseteq transcript]_replayVars

(* Once a write of this run has finished and nothing is under way, the     *)
(* replay rows hold every entry of the transcript, the old ones too, in    *)
(* whatever order concurrent writes bootstrapped, joined, rewrote and      *)
(* appended -- if no request has failed and nothing has reset the rows.    *)
Undisturbed == ~faulty /\ \A j \in Jobs \ Writes : At(j, "new")
EntriesReachReplay ==
  Undisturbed /\ Outstanding = {} /\ (\E w \in Writes : At(w, "done"))
    => transcript \subseteq replay

(* Every recorded entry's call returns or throws.                          *)
WritesSettle ==
  \A w \in Writes : At(w, "storing") ~> (At(w, "done") \/ At(w, "failed"))

(* "Guards replay bootstrap with per-conversation mutation epochs so async *)
(* bootstrap work cannot re-seed stale replay rows after delete, rewind,   *)
(* or compaction resets": with nothing under way, no failure and no wipe,  *)
(* the old entries among the replay rows, which only a bootstrap writes,   *)
(* are still entries of the transcript.                                    *)
NoStaleReplayRows ==
  ~faulty /\ NoWipe /\ Outstanding = {} => replay \intersect Legacy \subseteq transcript
=============================================================================

---------------------- MODULE ConversationReplay_proofs ----------------------
(***************************************************************************)
(* Safety of the replay bootstrap for any number of concurrent writes,     *)
(* compactions, rewinds and wipes.  Every step is first brought into one   *)
(* of six forms (StepForms); the invariants are then proved form by form.  *)
(***************************************************************************)
EXTENDS ConversationReplay, TLAPS

-----------------------------------------------------------------------------
(* Calls and requests.                                                     *)

(* A call in its stage is a call.                                          *)
LEMMA CallType ==
  ASSUME NEW stage \in Stages
  PROVE  /\ Call(stage) \in Calls
         /\ Call(stage).stage = stage /\ Call(stage).rows = {} /\ Call(stage).epoch = 0
BY DEF Call, Calls

(* Setting the field served leaves the other fields of a call alone.       *)
LEMMA ServedType ==
  ASSUME NEW call \in Calls, NEW b \in BOOLEAN
  PROVE  LET s == [call EXCEPT !.served = b]
         IN  /\ s \in Calls /\ s.stage = call.stage /\ s.epoch = call.epoch
             /\ s.rows = call.rows /\ s.owner = call.owner
BY DEF Calls

(* What Step does to the requests keeps their types.                       *)
LEMMA StepType ==
  ASSUME ReplayTypeOK, NEW j \in Jobs, NEW ok \in BOOLEAN,
         NEW next \in [Jobs -> Calls], NEW senders, NEW served,
         Step(j, ok, next, senders, served)
  PROVE  /\ job' \in [Jobs -> Calls]
         /\ ahead' \in [Jobs -> SUBSET Jobs]
         /\ faulty' \in BOOLEAN
         /\ \A k \in Jobs : /\ job'[k].stage = next[k].stage
                            /\ job'[k].epoch = next[k].epoch
                            /\ job'[k].rows = next[k].rows
                            /\ job'[k].owner = next[k].owner
         /\ \A k \in Jobs : k \notin senders => job'[k] = next[k]
<1>1. \A k \in Jobs : job'[k] = IF k \in senders THEN [next[k] EXCEPT !.served = k \in served]
                                                 ELSE next[k]
  BY DEF Step
<1>2. \A k \in Jobs : /\ job'[k] \in Calls
                      /\ job'[k].stage = next[k].stage
                      /\ job'[k].epoch = next[k].epoch
                      /\ job'[k].rows = next[k].rows
                      /\ job'[k].owner = next[k].owner
  <2> TAKE k \in Jobs
  <2>1. next[k] \in Calls /\ (k \in served) \in BOOLEAN
    OBVIOUS
  <2>2. CASE k \in senders
    <3> DEFINE b == k \in served
    <3>1. b \in BOOLEAN
      OBVIOUS
    <3>2. job'[k] = [next[k] EXCEPT !.served = b]
      BY <1>1, <2>2
    <3> HIDE DEF b
    <3> QED BY <2>1, <3>1, <3>2, ServedType
  <2>3. CASE k \notin senders
    BY <1>1, <2>1, <2>3
  <2> QED BY <2>2, <2>3
<1>3. job' \in [Jobs -> Calls]
  BY <1>2 DEF Step
<1>4. ahead' \in [Jobs -> SUBSET Jobs]
  BY DEF Step, ReplayTypeOK, Outstanding
<1>5. faulty' \in BOOLEAN
  BY DEF Step, ReplayTypeOK
<1> QED BY <1>1, <1>2, <1>3, <1>4, <1>5

(* A request of one call changes that call only.                           *)
LEMMA SendsType ==
  ASSUME ReplayTypeOK, NEW j \in Jobs, NEW ok \in BOOLEAN,
         NEW call \in Calls, NEW served \in BOOLEAN,
         Sends(j, ok, call, served)
  PROVE  /\ job' \in [Jobs -> Calls]
         /\ ahead' \in [Jobs -> SUBSET Jobs]
         /\ faulty' \in BOOLEAN
         /\ \A k \in Jobs \ {j} : job'[k] = job[k]
         /\ job'[j].stage = call.stage /\ job'[j].epoch = call.epoch
         /\ job'[j].rows = call.rows /\ job'[j].owner = call.owner
<1> DEFINE next == [job EXCEPT ![j] = call]
<1>1. next \in [Jobs -> Calls] /\ next[j] = call /\ \A k \in Jobs \ {j} : next[k] = job[k]
  BY DEF ReplayTypeOK
<1>2. Step(j, ok, next, {j}, IF served THEN {j} ELSE {})
  BY DEF Sends
<1> HIDE DEF next
<1> QED BY <1>1, <1>2, StepType

(* A call that ends changes that call only.                                *)
LEMMA EndsType ==
  ASSUME ReplayTypeOK, NEW j \in Jobs, NEW ok \in BOOLEAN,
         NEW stage \in Stages, Ends(j, ok, stage)
  PROVE  /\ job' \in [Jobs -> Calls]
         /\ ahead' \in [Jobs -> SUBSET Jobs]
         /\ faulty' \in BOOLEAN
         /\ \A k \in Jobs \ {j} : job'[k] = job[k]
         /\ job'[j].stage = stage
<1> DEFINE next == [job EXCEPT ![j] = Call(stage)]
<1>1. next \in [Jobs -> Calls] /\ next[j] = Call(stage)
      /\ \A k \in Jobs \ {j} : next[k] = job[k]
  BY CallType DEF ReplayTypeOK
<1>2. Step(j, ok, next, {}, {})
  BY DEF Ends
<1> HIDE DEF next
<1> QED BY <1>1, <1>2, StepType, CallType

(* When an initialization settles, its callers leave it and nobody else    *)
(* moves.                                                                  *)
Settled(w) ==
  /\ \A k \in Jobs \ ({w} \union JoinedTo(w)) : job'[k] = job[k]
  /\ \A k \in {w} \union JoinedTo(w) : job'[k].stage \in {"done", "failed", "appending"}
  /\ inFlight' = IF inFlight = w THEN NoJob ELSE inFlight

LEMMA SettlesType ==
  ASSUME ReplayTypeOK, NEW w \in Writes, NEW ok \in BOOLEAN, NEW outcome,
         NEW rewritten \in SUBSET Rows, Settles(w, ok, outcome, rewritten)
  PROVE  /\ job' \in [Jobs -> Calls]
         /\ ahead' \in [Jobs -> SUBSET Jobs]
         /\ faulty' \in BOOLEAN
         /\ replay' \in SUBSET Rows
         /\ inFlight' \in Writes \union {NoJob}
         /\ Settled(w)
<1> DEFINE callers == {w} \union JoinedTo(w)
           end     == CASE outcome = "bootstrapped" -> "done"
                        [] outcome = "rejected"     -> "failed"
                        [] OTHER                    -> "appending"
           senders == IF end = "appending" THEN callers ELSE {}
           next    == [k \in Jobs |-> IF k \in callers THEN Call(end) ELSE job[k]]
<1>1. end \in {"done", "failed", "appending"}
  OBVIOUS
<1>2. callers \subseteq Writes /\ callers \subseteq Jobs /\ w \in Jobs
  BY DEF JoinedTo, Jobs
<1>3. senders \subseteq Writes
  BY <1>2
<1>4. Call(end) \in Calls /\ Call(end).stage = end
  BY <1>1, CallType DEF Stages, Asking, Loading
<1> HIDE DEF end
<1>5. next \in [Jobs -> Calls] /\ (\A k \in callers : next[k] = Call(end))
      /\ (\A k \in Jobs \ callers : next[k] = job[k])
  BY <1>2, <1>4 DEF ReplayTypeOK
<1>6. PICK served \in SUBSET senders :
        /\ Step(w, ok, next, senders, served)
        /\ replay' = rewritten \union served
        /\ inFlight' = IF inFlight = w THEN NoJob ELSE inFlight
  BY DEF Settles, end
<1>7. senders \subseteq callers
  OBVIOUS
<1>8. replay' \in SUBSET Rows
  BY <1>3, <1>6 DEF Rows
<1>9. inFlight' \in Writes \union {NoJob}
  BY <1>6 DEF ReplayTypeOK
<1> HIDE DEF next, senders
<1>10. /\ job' \in [Jobs -> Calls] /\ ahead' \in [Jobs -> SUBSET Jobs] /\ faulty' \in BOOLEAN
       /\ \A k \in Jobs : job'[k].stage = next[k].stage
       /\ \A k \in Jobs : k \notin senders => job'[k] = next[k]
  BY <1>2, <1>5, <1>6, StepType
<1>11. \A k \in Jobs \ callers : job'[k] = job[k]
  BY <1>5, <1>7, <1>10
<1>12. \A k \in callers : job'[k].stage = end
  BY <1>2, <1>4, <1>5, <1>10
<1> QED BY <1>1, <1>6, <1>8, <1>9, <1>10, <1>11, <1>12 DEF Settled
-----------------------------------------------------------------------------
(* The forms of a step.                                                    *)

(* Only j's call moves.                                                    *)
Moves(j) ==
  /\ \A k \in Jobs \ {j} : job'[k] = job[k]
  /\ job[j].stage # "done" /\ job'[j].stage \notin {"new", "joined"}

Quiet(j) ==
  /\ Moves(j)
  /\ epoch' = epoch /\ inFlight' = inFlight
  /\ Initializing(j) => Initializing(j)'
  /\ job'[j].stage \in Loading =>
       job[j].stage \in Loading /\ job'[j].epoch = job[j].epoch /\ job'[j].rows = transcript
  /\ job[j].stage = "loadingTranscript" => job'[j].stage # "clearing"
  /\ transcript \subseteq transcript' \/ (j \in Wipes /\ job'[j].stage = "wiping")

Resets(j) ==
  /\ Moves(j)
  /\ epoch' = epoch + 1 /\ inFlight' = NoJob
  /\ job'[j].stage = "clearing"
  /\ job[j].stage = "loadingTranscript" => job[j].epoch = epoch

Joining(w) ==
  /\ \A k \in Jobs \ {w} : job'[k] = job[k]
  /\ job[w].stage = "storing" /\ job'[w].stage = "joined"
  /\ inFlight # NoJob /\ job'[w].owner = inFlight
  /\ UNCHANGED <<epoch, inFlight, transcript>>

Starting(w) ==
  /\ Moves(w)
  /\ job[w].stage = "storing" /\ job'[w].stage = "loadingReplay" /\ job'[w].epoch = epoch
  /\ inFlight = NoJob /\ inFlight' = w
  /\ UNCHANGED <<epoch, transcript>>

Settling(w) ==
  /\ Initializing(w) /\ Settled(w)
  /\ UNCHANGED <<epoch, transcript>>

Forgets(x) ==
  /\ Moves(x)
  /\ job'[x].stage = "done"
  /\ inFlight' = NoJob /\ epoch' = 0
  /\ UNCHANGED transcript

Form == \/ \E j \in Jobs : Quiet(j) \/ Resets(j)
        \/ \E w \in Writes : Joining(w) \/ Starting(w) \/ Settling(w)
        \/ \E x \in Wipes : Forgets(x)

(* The first answer of a write: append, join or start.                     *)
LEMMA StoreAnsweredForm ==
  ASSUME ReplayTypeOK, NEW w \in Writes, StoreAnswered(w)
  PROVE  ReplayTypeOK' /\ Form
<1>1. w \in Jobs /\ w \in Rows
  BY DEF Jobs, Rows
<1>2. PICK ok \in BOOLEAN : AppendsAtOnce(w, ok) \/ Joins(w, ok) \/ StartsInitialization(w, ok)
  BY DEF StoreAnswered
<1>3. At(w, "storing") /\ UNCHANGED <<transcript, initialized, epoch>>
  BY DEF StoreAnswered
<1>4. CASE AppendsAtOnce(w, ok)
  <2>1. PICK served \in BOOLEAN : Sends(w, ok, Call("appending"), served)
                                  /\ replay' = With(replay, w, served)
    BY <1>4 DEF AppendsAtOnce
  <2>2. Call("appending") \in Calls /\ Call("appending").stage = "appending"
    BY CallType DEF Stages, Asking, Loading
  <2>3. replay' \in SUBSET Rows
    BY <1>1, <2>1 DEF With, ReplayTypeOK
  <2> HIDE DEF Call
  <2>4. /\ job' \in [Jobs -> Calls] /\ ahead' \in [Jobs -> SUBSET Jobs] /\ faulty' \in BOOLEAN
        /\ \A k \in Jobs \ {w} : job'[k] = job[k]
        /\ job'[w].stage = "appending"
    BY <1>1, <2>1, <2>2, SendsType
  <2>5. inFlight' = inFlight
    BY <1>4 DEF AppendsAtOnce
  <2>6. Quiet(w)
    BY <1>3, <2>4, <2>5 DEF Quiet, Moves, At, Initializing, Loading
  <2> QED BY <1>1, <1>3, <2>3, <2>4, <2>5, <2>6 DEF Form, ReplayTypeOK
<1>5. CASE Joins(w, ok)
  <2> DEFINE call == [Call("joined") EXCEPT !.owner = inFlight]
             next == [job EXCEPT ![w] = call]
  <2>1. call \in Calls /\ call.stage = "joined" /\ call.owner = inFlight
    BY DEF Call, Calls, Stages, ReplayTypeOK, Jobs
  <2> HIDE DEF call
  <2>2. next \in [Jobs -> Calls] /\ next[w] = call /\ \A k \in Jobs \ {w} : next[k] = job[k]
    BY <1>1, <2>1 DEF ReplayTypeOK
  <2>3. Step(w, ok, next, {}, {}) /\ inFlight # NoJob /\ UNCHANGED <<replay, inFlight>>
    BY <1>5 DEF Joins, call
  <2> HIDE DEF next
  <2>4. /\ job' \in [Jobs -> Calls] /\ ahead' \in [Jobs -> SUBSET Jobs] /\ faulty' \in BOOLEAN
        /\ \A k \in Jobs \ {w} : job'[k] = job[k]
        /\ job'[w].stage = "joined" /\ job'[w].owner = inFlight
    BY <1>1, <2>1, <2>2, <2>3, StepType
  <2>5. Joining(w)
    BY <1>3, <2>3, <2>4 DEF Joining, At
  <2> QED BY <1>3, <2>3, <2>4, <2>5 DEF Form, ReplayTypeOK
<1>6. CASE StartsInitialization(w, ok)
  <2> DEFINE call == [Call("loadingReplay") EXCEPT !.epoch = epoch, !.found = (replay # {})]
  <2>1. call \in Calls /\ call.stage = "loadingReplay" /\ call.epoch = epoch
    BY DEF Call, Calls, Stages, Asking, Loading, ReplayTypeOK
  <2>2. PICK served \in BOOLEAN : Sends(w, ok, call, served)
    BY <1>6 DEF StartsInitialization
  <2>3. inFlight = NoJob /\ inFlight' = w /\ replay' = replay
    BY <1>6 DEF StartsInitialization
  <2> HIDE DEF call
  <2>4. /\ job' \in [Jobs -> Calls] /\ ahead' \in [Jobs -> SUBSET Jobs] /\ faulty' \in BOOLEAN
        /\ \A k \in Jobs \ {w} : job'[k] = job[k]
        /\ job'[w].stage = "loadingReplay" /\ job'[w].epoch = epoch
    BY <1>1, <2>1, <2>2, SendsType
  <2>5. Starting(w)
    BY <1>3, <2>3, <2>4 DEF Starting, Moves, At
  <2> QED BY <1>3, <2>3, <2>4, <2>5 DEF Form, ReplayTypeOK
<1> QED BY <1>2, <1>4, <1>5, <1>6

(* A settled initialization, as an action of its owner.                    *)
LEMMA SettlingForm ==
  ASSUME ReplayTypeOK, NEW w \in Writes, NEW ok \in BOOLEAN, NEW outcome,
         Initializing(w), Settles(w, ok, outcome, replay),
         UNCHANGED <<transcript, epoch>>, initialized' \in BOOLEAN
  PROVE  ReplayTypeOK' /\ Form
<1>1. replay \in SUBSET Rows
  BY DEF ReplayTypeOK
<1>2. /\ job' \in [Jobs -> Calls] /\ ahead' \in [Jobs -> SUBSET Jobs] /\ faulty' \in BOOLEAN
      /\ replay' \in SUBSET Rows /\ inFlight' \in Writes \union {NoJob}
      /\ Settled(w)
  BY <1>1, SettlesType
<1> QED BY <1>2 DEF Form, Settling, ReplayTypeOK

(* The loads of a bootstrap.                                               *)
LEMMA LoadedForm ==
  ASSUME ReplayTypeOK, NEW w \in Writes, ReplayLoaded(w) \/ TranscriptLoaded(w)
  PROVE  ReplayTypeOK' /\ Form
<1>1. w \in Jobs /\ Initializing(w)
  BY DEF Jobs, Initializing, ReplayLoaded, TranscriptLoaded, At, Loading
<1>2. CASE ReplayLoadFails(w) /\ ReplayLoaded(w)
  BY <1>1, <1>2, SettlingForm DEF ReplayLoadFails, ReplayLoaded, ReplayTypeOK
<1>3. CASE ReplayLoadIsStale(w) /\ ReplayLoaded(w)
  BY <1>1, <1>3, SettlingForm DEF ReplayLoadIsStale, ReplayLoaded, ReplayTypeOK
<1>4. CASE ReplayRowsExist(w) /\ ReplayLoaded(w)
  BY <1>1, <1>4, SettlingForm DEF ReplayRowsExist, ReplayLoaded, ReplayTypeOK
<1>5. CASE NoReplayRows(w) /\ ReplayLoaded(w)
  <2> DEFINE call == [job[w] EXCEPT !.stage = "loadingTranscript", !.rows = transcript]
  <2>1. call \in Calls /\ call.stage = "loadingTranscript" /\ call.epoch = job[w].epoch
        /\ call.rows = transcript
    BY <1>1 DEF Calls, Stages, Asking, Loading, ReplayTypeOK
  <2>2. PICK served \in BOOLEAN : Sends(w, TRUE, call, served)
    BY <1>5 DEF NoReplayRows
  <2>3. At(w, "loadingReplay") /\ UNCHANGED <<replay, initialized, inFlight, transcript, epoch>>
    BY <1>5 DEF NoReplayRows, ReplayLoaded
  <2> HIDE DEF call
  <2>4. /\ job' \in [Jobs -> Calls] /\ ahead' \in [Jobs -> SUBSET Jobs] /\ faulty' \in BOOLEAN
        /\ \A k \in Jobs \ {w} : job'[k] = job[k]
        /\ job'[w].stage = "loadingTranscript" /\ job'[w].epoch = job[w].epoch
        /\ job'[w].rows = transcript
    BY <1>1, <2>1, <2>2, SendsType
  <2>5. Quiet(w)
    BY <1>1, <2>3, <2>4 DEF Quiet, Moves, At, Initializing, Loading
  <2> QED BY <1>1, <2>3, <2>4, <2>5 DEF Form, ReplayTypeOK
<1>6. CASE TranscriptLoadFails(w) /\ TranscriptLoaded(w)
  BY <1>1, <1>6, SettlingForm DEF TranscriptLoadFails, TranscriptLoaded, ReplayTypeOK
<1>7. CASE NothingToBootstrap(w) /\ TranscriptLoaded(w)
  BY <1>1, <1>7, SettlingForm DEF NothingToBootstrap, TranscriptLoaded, ReplayTypeOK
<1>8. CASE BeginsRewrite(w) /\ TranscriptLoaded(w)
  <2> DEFINE call == [job[w] EXCEPT !.stage = "clearing", !.epoch = epoch + 1]
  <2>0. epoch + 1 \in Nat /\ job[w] \in Calls
    BY <1>1 DEF ReplayTypeOK
  <2>1. call \in Calls /\ call.stage = "clearing"
    BY <2>0 DEF Calls, Stages, Asking, Loading
  <2>2. PICK served \in BOOLEAN : Sends(w, TRUE, call, served)
                                  /\ replay' = IF served THEN {} ELSE replay
    BY <1>8 DEF BeginsRewrite
  <2>3. At(w, "loadingTranscript") /\ UNCHANGED transcript /\ epoch = job[w].epoch
        /\ initialized' = FALSE /\ inFlight' = NoJob /\ epoch' = epoch + 1
    BY <1>8 DEF BeginsRewrite, TranscriptLoaded, ClearReplayInitialization
  <2> HIDE DEF call
  <2>4. /\ job' \in [Jobs -> Calls] /\ ahead' \in [Jobs -> SUBSET Jobs] /\ faulty' \in BOOLEAN
        /\ \A k \in Jobs \ {w} : job'[k] = job[k]
        /\ job'[w].stage = "clearing"
    BY <1>1, <2>1, <2>2, SendsType
  <2>5. Resets(w)
    BY <2>3, <2>4 DEF Resets, Moves, At
  <2>6. replay' \in SUBSET Rows
    BY <2>2 DEF ReplayTypeOK
  <2>7. ReplayTypeOK'
    BY <2>0, <2>3, <2>4, <2>6 DEF ReplayTypeOK
  <2> QED BY <1>1, <2>5, <2>7 DEF Form
<1> QED BY <1>2, <1>3, <1>4, <1>5, <1>6, <1>7, <1>8 DEF ReplayLoaded, TranscriptLoaded

(* A rewrite, by a bootstrap or by a compaction.                           *)
LEMMA RewriteForm ==
  ASSUME ReplayTypeOK, NEW j \in Writes \union Compactions,
         ReplayCleared(j) \/ ReplayClearFails(j) \/ RewriteGoesOn(j) \/ RewriteEnds(j)
  PROVE  ReplayTypeOK' /\ Form
<1>1. /\ j \in Jobs /\ (j \in Writes => Initializing(j)) /\ job[j] \in Calls
      /\ job[j].stage \in {"clearing", "rewriting"}
  BY DEF Jobs, Initializing, ReplayCleared, ReplayClearFails, RewriteGoesOn, RewriteEnds, At,
         ReplayTypeOK
<1>2. ASSUME NEW ok \in BOOLEAN, StoresNextRow(j, ok), UNCHANGED <<transcript, cache>>
      PROVE  ReplayTypeOK' /\ Form
  <2>1. PICK row \in job[j].rows, served \in BOOLEAN :
          /\ Sends(j, ok, [job[j] EXCEPT !.stage = "rewriting", !.rows = @ \ {row}], served)
          /\ replay' = With(replay, row, served)
    BY <1>2 DEF StoresNextRow
  <2> DEFINE call == [job[j] EXCEPT !.stage = "rewriting", !.rows = @ \ {row}]
  <2>2. call \in Calls /\ call.stage = "rewriting"
    BY <1>1 DEF Calls, Stages, Asking, Loading
  <2>3. row \in Rows
    BY <1>1 DEF Calls
  <2>4. replay' \in SUBSET Rows
    BY <2>1, <2>3 DEF With, ReplayTypeOK
  <2>5. Sends(j, ok, call, served)
    BY <2>1
  <2> HIDE DEF call
  <2>6. /\ job' \in [Jobs -> Calls] /\ ahead' \in [Jobs -> SUBSET Jobs] /\ faulty' \in BOOLEAN
        /\ \A k \in Jobs \ {j} : job'[k] = job[k]
        /\ job'[j].stage = "rewriting"
    BY <1>1, <2>2, <2>5, SendsType
  <2>7. Quiet(j)
    BY <1>1, <1>2, <2>6 DEF Quiet, Moves, Initializing, Loading, cache
  <2> QED BY <1>1, <1>2, <2>4, <2>6, <2>7 DEF Form, ReplayTypeOK, cache
<1>3. ASSUME NEW ok \in BOOLEAN, NEW stage \in {"done", "failed"}, Ends(j, ok, stage),
             j \notin Writes, UNCHANGED <<replay, inFlight, transcript, epoch>>,
             initialized' \in BOOLEAN
      PROVE  ReplayTypeOK' /\ Form
  <2>1. stage \in Stages
    BY DEF Stages
  <2>2. /\ job' \in [Jobs -> Calls] /\ ahead' \in [Jobs -> SUBSET Jobs] /\ faulty' \in BOOLEAN
        /\ \A k \in Jobs \ {j} : job'[k] = job[k]
        /\ job'[j].stage = stage
    BY <1>1, <1>3, <2>1, EndsType
  <2>3. Quiet(j)
    BY <1>1, <1>3, <2>2 DEF Quiet, Moves, Initializing, Loading
  <2> QED BY <1>1, <1>3, <2>2, <2>3 DEF Form, ReplayTypeOK
<1>4. CASE ReplayCleared(j)
  BY <1>2, <1>4 DEF ReplayCleared
<1>5. CASE ReplayClearFails(j)
  <2>1. UNCHANGED <<transcript, initialized, epoch>> /\ initialized' \in BOOLEAN
    BY <1>5 DEF ReplayClearFails, ReplayTypeOK
  <2>2. CASE j \in Writes
    BY <1>1, <1>5, <2>1, <2>2, SettlingForm DEF ReplayClearFails
  <2>3. CASE j \notin Writes
    BY <1>3, <1>5, <2>1, <2>3 DEF ReplayClearFails
  <2> QED BY <2>2, <2>3
<1>6. CASE RewriteGoesOn(j)
  BY <1>2, <1>6 DEF RewriteGoesOn
<1>7. CASE RewriteEnds(j)
  <2>1. UNCHANGED <<transcript, epoch>> /\ initialized' \in BOOLEAN
    BY <1>7 DEF RewriteEnds
  <2>2. CASE j \in Writes
    BY <1>1, <1>7, <2>1, <2>2, SettlingForm DEF RewriteEnds
  <2>3. CASE j \notin Writes
    BY <1>3, <1>7, <2>1, <2>3 DEF RewriteEnds
  <2> QED BY <2>2, <2>3
<1> QED BY <1>4, <1>5, <1>6, <1>7

(* The start of a write or a wipe, and every call that just ends.          *)
LEMMA PlainForm ==
  ASSUME ReplayTypeOK, NEW j \in Jobs,
         \/ j \in Writes /\ (Write(j) \/ AppendAnswered(j))
         \/ j \in Rewinds /\ DeletionFails(j)
         \/ j \in Wipes /\ (Wipe(j) \/ WipeFails(j) \/ ClearConversationReplayStateCache(j))
  PROVE  ReplayTypeOK' /\ Form
<1>1. ASSUME NEW ok \in BOOLEAN, NEW stage \in {"done", "failed"}, Ends(j, ok, stage),
             ~Initializing(j), job[j].stage # "done", UNCHANGED <<database, inFlight, epoch>>,
             initialized' \in BOOLEAN
      PROVE  ReplayTypeOK' /\ Form
  <2>1. stage \in Stages
    BY DEF Stages
  <2>2. /\ job' \in [Jobs -> Calls] /\ ahead' \in [Jobs -> SUBSET Jobs] /\ faulty' \in BOOLEAN
        /\ \A k \in Jobs \ {j} : job'[k] = job[k]
        /\ job'[j].stage = stage
    BY <1>1, <2>1, EndsType
  <2>3. Quiet(j)
    BY <1>1, <2>2 DEF Quiet, Moves, Initializing, Loading, database
  <2> QED BY <1>1, <2>2, <2>3 DEF Form, ReplayTypeOK, database
<1>2. CASE j \in Writes /\ Write(j)
  <2>1. PICK served \in BOOLEAN : Sends(j, TRUE, Call("storing"), served)
                                  /\ transcript' = With(transcript, j, served)
    BY <1>2 DEF Write
  <2>2. Call("storing") \in Calls /\ Call("storing").stage = "storing"
    BY CallType DEF Stages, Asking, Loading
  <2>3. transcript' \in SUBSET Rows /\ transcript \subseteq transcript'
    BY <1>2, <2>1 DEF With, ReplayTypeOK, Rows
  <2>4. job[j].stage = "new" /\ UNCHANGED <<replay, cache>>
    BY <1>2 DEF Write, At
  <2>5. /\ job' \in [Jobs -> Calls] /\ ahead' \in [Jobs -> SUBSET Jobs] /\ faulty' \in BOOLEAN
        /\ \A k \in Jobs \ {j} : job'[k] = job[k]
        /\ job'[j].stage = "storing"
    BY <2>1, <2>2, SendsType
  <2>6. Quiet(j)
    BY <2>3, <2>4, <2>5 DEF Quiet, Moves, Initializing, Loading, cache
  <2> QED BY <2>3, <2>4, <2>5, <2>6 DEF Form, ReplayTypeOK, cache
<1>3. CASE j \in Writes /\ AppendAnswered(j)
  <2>1. PICK ok \in BOOLEAN : Ends(j, ok, "done")
    BY <1>3 DEF AppendAnswered
  <2>2. ~Initializing(j) /\ job[j].stage # "done" /\ UNCHANGED <<database, inFlight, epoch>>
        /\ initialized' \in BOOLEAN
    BY <1>3 DEF AppendAnswered, At, Initializing, Loading
  <2> QED BY <1>1, <2>1, <2>2
<1>4. CASE j \in Rewinds /\ DeletionFails(j)
  <2>1. ~Initializing(j) /\ job[j].stage # "done" /\ UNCHANGED <<database, inFlight, epoch>>
        /\ initialized' \in BOOLEAN /\ Ends(j, FALSE, "failed")
    BY <1>4, JobsAreDistinct DEF DeletionFails, At, Initializing, Loading, cache, ReplayTypeOK
  <2> QED BY <1>1, <2>1
<1>5. CASE j \in Wipes /\ WipeFails(j)
  <2>1. ~Initializing(j) /\ job[j].stage # "done" /\ UNCHANGED <<database, inFlight, epoch>>
        /\ initialized' \in BOOLEAN /\ Ends(j, FALSE, "failed")
    BY <1>5 DEF WipeFails, At, Initializing, Loading, cache, ReplayTypeOK
  <2> QED BY <1>1, <2>1
<1>6. CASE j \in Wipes /\ Wipe(j)
  <2>1. PICK served \in BOOLEAN : Sends(j, TRUE, Call("wiping"), served)
    BY <1>6 DEF Wipe
  <2>2. Call("wiping") \in Calls /\ Call("wiping").stage = "wiping"
    BY CallType DEF Stages, Asking, Loading
  <2>3. job[j].stage = "new" /\ UNCHANGED cache
        /\ transcript' \in SUBSET Rows /\ replay' \in SUBSET Rows
    BY <1>6 DEF Wipe, At, ReplayTypeOK
  <2>4. /\ job' \in [Jobs -> Calls] /\ ahead' \in [Jobs -> SUBSET Jobs] /\ faulty' \in BOOLEAN
        /\ \A k \in Jobs \ {j} : job'[k] = job[k]
        /\ job'[j].stage = "wiping"
    BY <2>1, <2>2, SendsType
  <2>5. Quiet(j)
    BY <1>6, <2>3, <2>4 DEF Quiet, Moves, Initializing, Loading, cache
  <2> QED BY <2>3, <2>4, <2>5 DEF Form, ReplayTypeOK, cache
<1>7. CASE j \in Wipes /\ ClearConversationReplayStateCache(j)
  <2>1. "done" \in Stages
    BY DEF Stages
  <2>2. /\ Ends(j, TRUE, "done") /\ job[j].stage = "wiping"
        /\ initialized' = FALSE /\ inFlight' = NoJob /\ epoch' = 0 /\ UNCHANGED database
    BY <1>7 DEF ClearConversationReplayStateCache, At
  <2>3. /\ job' \in [Jobs -> Calls] /\ ahead' \in [Jobs -> SUBSET Jobs] /\ faulty' \in BOOLEAN
        /\ \A k \in Jobs \ {j} : job'[k] = job[k]
        /\ job'[j].stage = "done"
    BY <2>1, <2>2, EndsType
  <2>4. Forgets(j)
    BY <2>2, <2>3 DEF Forgets, Moves, database
  <2> QED BY <1>7, <2>2, <2>3, <2>4 DEF Form, ReplayTypeOK, database
<1> QED BY <1>2, <1>3, <1>4, <1>5, <1>6, <1>7

(* Compactions and rewinds.                                                *)
LEMMA ResetForm ==
  ASSUME ReplayTypeOK, NEW j \in Jobs,
         (j \in Compactions /\ Compact(j)) \/ (j \in Rewinds /\ (Rewind(j) \/ Restore(j)))
  PROVE  ReplayTypeOK' /\ Form
<1>1. ASSUME NEW call \in Calls, call.stage = "clearing", NEW served \in BOOLEAN,
             Sends(j, TRUE, call, served), job[j].stage = "new", ClearReplayInitialization,
             transcript' \in SUBSET Rows, replay' \in SUBSET Rows
      PROVE  ReplayTypeOK' /\ Form
  <2>1. /\ job' \in [Jobs -> Calls] /\ ahead' \in [Jobs -> SUBSET Jobs] /\ faulty' \in BOOLEAN
        /\ \A k \in Jobs \ {j} : job'[k] = job[k]
        /\ job'[j].stage = "clearing"
    BY <1>1, SendsType
  <2>2. Resets(j)
    BY <1>1, <2>1 DEF Resets, Moves, ClearReplayInitialization
  <2>3. epoch' \in Nat
    <3>1. epoch \in Nat
      BY DEF ReplayTypeOK
    <3>2. epoch' = epoch + 1
      BY <1>1 DEF ClearReplayInitialization
    <3> QED BY <3>1, <3>2
  <2>4. initialized' \in BOOLEAN
    BY <1>1 DEF ClearReplayInitialization
  <2>5. inFlight' \in Writes \union {NoJob}
    BY <1>1 DEF ClearReplayInitialization
  <2> QED BY <1>1, <2>1, <2>2, <2>3, <2>4, <2>5 DEF Form, ReplayTypeOK
<1>2. ASSUME NEW rows \in SUBSET Rows
      PROVE  [Call("clearing") EXCEPT !.rows = rows] \in Calls
             /\ [Call("clearing") EXCEPT !.rows = rows].stage = "clearing"
  BY DEF Call, Calls, Stages, Asking, Loading
<1>3. CASE j \in Compactions /\ Compact(j)
  <2>1. PICK served \in BOOLEAN :
          /\ Sends(j, TRUE, [Call("clearing") EXCEPT !.rows = Summary], served)
          /\ replay' = IF served THEN {} ELSE replay
    BY <1>3 DEF Compact
  <2>2. job[j].stage = "new" /\ ClearReplayInitialization /\ UNCHANGED transcript
    BY <1>3 DEF Compact, At
  <2>3. transcript' \in SUBSET Rows /\ replay' \in SUBSET Rows /\ Summary \in SUBSET Rows
    BY <2>1, <2>2 DEF ReplayTypeOK, Rows
  <2> QED BY <1>1, <1>2, <2>1, <2>2, <2>3
<1>4. CASE j \in Rewinds /\ Rewind(j)
  <2>1. PICK kept \in SUBSET transcript, deleted \in SUBSET {"transcript", "replay"} :
          /\ Sends(j, TRUE, [Call("clearing") EXCEPT !.rows = kept],
                   deleted = {"transcript", "replay"})
          /\ transcript' = IF "transcript" \in deleted THEN {} ELSE transcript
          /\ replay'     = IF "replay" \in deleted THEN {} ELSE replay
    BY <1>4 DEF Rewind
  <2> DEFINE served == deleted = {"transcript", "replay"}
  <2>2. served \in BOOLEAN /\ Sends(j, TRUE, [Call("clearing") EXCEPT !.rows = kept], served)
    BY <2>1
  <2> HIDE DEF served
  <2>3. job[j].stage = "new" /\ ClearReplayInitialization
    BY <1>4 DEF Rewind, At
  <2>4. transcript' \in SUBSET Rows /\ replay' \in SUBSET Rows /\ kept \in SUBSET Rows
    BY <2>1 DEF ReplayTypeOK
  <2> QED BY <1>1, <1>2, <2>2, <2>3, <2>4
<1>5. CASE j \in Rewinds /\ Restore(j)
  <2>1. PICK ok \in BOOLEAN : RestoresNextRow(j, ok)
    BY <1>5 DEF Restore
  <2>2. /\ UNCHANGED <<replay, cache>> /\ job[j].stage \in {"clearing", "restoring"}
        /\ job[j] \in Calls /\ ~Initializing(j)
    BY <1>5, JobsAreDistinct DEF Restore, At, ReplayTypeOK, Initializing
  <2>3. CASE job[j].rows = {}
    <3>1. Ends(j, ok, "done") /\ UNCHANGED transcript /\ "done" \in Stages
      BY <2>1, <2>3 DEF RestoresNextRow, Stages
    <3>2. /\ job' \in [Jobs -> Calls] /\ ahead' \in [Jobs -> SUBSET Jobs] /\ faulty' \in BOOLEAN
          /\ \A k \in Jobs \ {j} : job'[k] = job[k]
          /\ job'[j].stage = "done"
      BY <3>1, EndsType
    <3>3. Quiet(j)
      BY <2>2, <3>1, <3>2 DEF Quiet, Moves, Loading, cache
    <3> QED BY <2>2, <3>1, <3>2, <3>3 DEF Form, ReplayTypeOK, cache
  <2>4. CASE job[j].rows # {}
    <3>1. PICK row \in job[j].rows, served \in BOOLEAN :
            /\ Sends(j, ok, [job[j] EXCEPT !.stage = "restoring", !.rows = @ \ {row}], served)
            /\ transcript' = With(transcript, row, served)
      BY <2>1, <2>4 DEF RestoresNextRow
    <3> DEFINE call == [job[j] EXCEPT !.stage = "restoring", !.rows = @ \ {row}]
    <3>2. call \in Calls /\ call.stage = "restoring" /\ row \in Rows
      BY <2>2 DEF Calls, Stages, Asking, Loading
    <3>3. Sends(j, ok, call, served)
      BY <3>1
    <3> HIDE DEF call
    <3>4. transcript' \in SUBSET Rows /\ transcript \subseteq transcript'
      BY <3>1, <3>2 DEF With, ReplayTypeOK
    <3>5. /\ job' \in [Jobs -> Calls] /\ ahead' \in [Jobs -> SUBSET Jobs] /\ faulty' \in BOOLEAN
          /\ \A k \in Jobs \ {j} : job'[k] = job[k]
          /\ job'[j].stage = "restoring"
      BY <3>2, <3>3, SendsType
    <3>6. Quiet(j)
      BY <2>2, <3>4, <3>5 DEF Quiet, Moves, Loading, cache
    <3> QED BY <2>2, <3>4, <3>5, <3>6 DEF Form, ReplayTypeOK, cache
  <2> QED BY <2>3, <2>4
<1> QED BY <1>3, <1>4, <1>5

LEMMA StepForms ==
  ASSUME ReplayTypeOK, ReplayNext
  PROVE  ReplayTypeOK' /\ Form
<1>1. CASE Starts
  BY <1>1, PlainForm, ResetForm DEF Starts, Jobs
<1>2. ASSUME NEW j \in Jobs, Continues(j)
      PROVE  ReplayTypeOK' /\ Form
  BY <1>2, StoreAnsweredForm, LoadedForm, RewriteForm, PlainForm, ResetForm DEF Continues
<1> QED BY <1>1, <1>2 DEF ReplayNext
-----------------------------------------------------------------------------
(* The invariants.                                                         *)

(* The promise in the map belongs to a call that is still initializing.    *)
PromiseIsAlive == inFlight # NoJob => Initializing(inFlight)

(* While no wipe was answered, no bootstrap has read with an epoch from    *)
(* the future, and the one that reads with the present epoch owns the map. *)
EpochsAreOrdered ==
  ~Wiped => \A w \in Writes : job[w].stage \in Loading =>
              job[w].epoch <= epoch /\ (job[w].epoch = epoch => inFlight = w)

(* While no wipe has begun, what a current bootstrap has read is still in  *)
(* the transcript.                                                         *)
ReadingsAreCurrent ==
  NoWipe => \A w \in Writes :
              At(w, "loadingTranscript") /\ job[w].epoch = epoch => job[w].rows \subseteq transcript

IInv == ReplayTypeOK /\ PromiseIsAlive /\ JoinersHaveAnOwner /\ EpochsAreOrdered /\ ReadingsAreCurrent

LEMMA InitIInv == ReplayInit => IInv
<1> SUFFICES ASSUME ReplayInit PROVE IInv
  OBVIOUS
<1>1. Call("new") \in Calls /\ Call("new").stage = "new"
  BY CallType DEF Stages
<1>2. \A j \in Jobs : job[j] = Call("new")
  BY DEF ReplayInit
<1> HIDE DEF Call
<1>3. ReplayTypeOK
  BY <1>1 DEF ReplayInit, ReplayTypeOK, Rows
<1>4. \A w \in Writes : w \in Jobs /\ job[w].stage = "new"
  BY <1>1, <1>2 DEF Jobs
<1> QED BY <1>3, <1>4 DEF ReplayInit, IInv, PromiseIsAlive, JoinersHaveAnOwner, EpochsAreOrdered,
          ReadingsAreCurrent, At, Loading

(* A joined write keeps its owner, or goes on together with it.            *)
LEMMA OwnersStay ==
  ASSUME IInv, ReplayTypeOK', Form
  PROVE  PromiseIsAlive' /\ JoinersHaveAnOwner'
<1> USE DEF Initializing, At
<1>1. Writes \subseteq Jobs /\ NoJob \notin Writes /\ inFlight \in Writes \union {NoJob}
  BY JobsAreDistinct DEF Jobs, IInv, ReplayTypeOK
<1>2. PromiseIsAlive /\ JoinersHaveAnOwner
  BY DEF IInv
<1>3. ASSUME NEW j \in Jobs, Moves(j), Initializing(j) => Initializing(j)',
             inFlight' \in {inFlight, NoJob} \/ (inFlight' = j /\ Initializing(j)')
      PROVE  PromiseIsAlive' /\ JoinersHaveAnOwner'
  <2>1. \A k : Initializing(k) => Initializing(k)'
    BY <1>1, <1>3 DEF Moves
  <2>2. \A w \in Writes : job'[w].stage = "joined" => w # j /\ job'[w] = job[w]
    BY <1>1, <1>3 DEF Moves
  <2>3. JoinersHaveAnOwner'
    BY <1>2, <2>1, <2>2 DEF JoinersHaveAnOwner
  <2>4. PromiseIsAlive'
    BY <1>2, <1>3, <2>1 DEF PromiseIsAlive
  <2> QED BY <2>3, <2>4
<1>4. ASSUME NEW j \in Jobs, Quiet(j) PROVE PromiseIsAlive' /\ JoinersHaveAnOwner'
  BY <1>3, <1>4 DEF Quiet
<1>5. ASSUME NEW j \in Jobs, Resets(j) PROVE PromiseIsAlive' /\ JoinersHaveAnOwner'
  BY <1>3, <1>5 DEF Resets
<1>6. ASSUME NEW w \in Writes, Joining(w) PROVE PromiseIsAlive' /\ JoinersHaveAnOwner'
  <2>1. \A k : Initializing(k) => Initializing(k)'
    BY <1>1, <1>6 DEF Joining, Loading
  <2>2. \A v \in Writes : job'[v].stage = "joined" =>
          (v = w /\ job'[v].owner = inFlight) \/ (job[v].stage = "joined" /\ job'[v] = job[v])
    BY <1>1, <1>6 DEF Joining
  <2>3. Initializing(inFlight) /\ inFlight' = inFlight
    BY <1>2, <1>6 DEF Joining, PromiseIsAlive
  <2> QED BY <1>2, <2>1, <2>2, <2>3 DEF PromiseIsAlive, JoinersHaveAnOwner
<1>7. ASSUME NEW w \in Writes, Starting(w) PROVE PromiseIsAlive' /\ JoinersHaveAnOwner'
  BY <1>1, <1>3, <1>7 DEF Starting, Loading
<1>8. ASSUME NEW w \in Writes, Settling(w) PROVE PromiseIsAlive' /\ JoinersHaveAnOwner'
  <2>1. \A k \in Jobs : Initializing(k) /\ k # w => k \notin JoinedTo(w) /\ Initializing(k)'
    BY <1>1, <1>8 DEF Settling, Settled, JoinedTo, Loading
  <2>2. \A v \in Writes : job'[v].stage = "joined" =>
          job'[v] = job[v] /\ job[v].stage = "joined" /\ job[v].owner # w
    BY <1>1, <1>8 DEF Settling, Settled, JoinedTo
  <2>3. \A v \in Writes : job[v].stage = "joined" => Initializing(job[v].owner)
    BY <1>2 DEF JoinersHaveAnOwner
  <2>4. JoinersHaveAnOwner'
    BY <1>1, <2>1, <2>2, <2>3 DEF JoinersHaveAnOwner
  <2>5. PromiseIsAlive'
    BY <1>1, <1>2, <1>8, <2>1 DEF PromiseIsAlive, Settling, Settled
  <2> QED BY <2>4, <2>5
<1>9. ASSUME NEW x \in Wipes, Forgets(x) PROVE PromiseIsAlive' /\ JoinersHaveAnOwner'
  <2>1. x \in Jobs /\ x \notin Writes
    BY JobsAreDistinct DEF Jobs
  <2> QED BY <1>3, <1>9, <2>1 DEF Forgets
<1> QED BY <1>4, <1>5, <1>6, <1>7, <1>8, <1>9 DEF Form

(* Epochs only grow until a wipe is answered, and a new current bootstrap  *)
(* starts only when the map is empty.                                      *)
LEMMA EpochsStayOrdered ==
  ASSUME IInv, ReplayTypeOK', Form
  PROVE  EpochsAreOrdered'
<1>1. Writes \subseteq Jobs /\ Wipes \subseteq Jobs /\ NoJob \notin Writes
      /\ \A w \in Writes : w \notin Wipes
  BY JobsAreDistinct DEF Jobs
<1>2. /\ \A w \in Writes : job[w].epoch \in Nat /\ job'[w].epoch \in Nat
      /\ epoch \in Nat /\ epoch' \in Nat
  BY <1>1 DEF IInv, ReplayTypeOK, Calls
<1>3. ~Wiped => \A w \in Writes : job[w].stage \in Loading =>
                  job[w].epoch <= epoch /\ (job[w].epoch = epoch => inFlight = w)
  BY DEF IInv, EpochsAreOrdered
<1>4. ASSUME NEW j \in Jobs, Moves(j), ~Wiped' PROVE ~Wiped
  BY <1>1, <1>4 DEF Moves, Wiped, At
<1>5. ASSUME NEW j \in Jobs, Quiet(j), ~Wiped' PROVE EpochsAreOrdered'
  <2>1. ~Wiped
    BY <1>4, <1>5 DEF Quiet
  <2>2. \A w \in Writes : job'[w].stage \in Loading =>
                            job[w].stage \in Loading /\ job'[w].epoch = job[w].epoch
    BY <1>1, <1>5 DEF Quiet, Moves
  <2> QED BY <1>3, <1>5, <2>1, <2>2 DEF Quiet, EpochsAreOrdered
<1>6. ASSUME NEW j \in Jobs, Resets(j), ~Wiped' PROVE EpochsAreOrdered'
  <2>1. ~Wiped
    BY <1>4, <1>6 DEF Resets
  <2>2. \A w \in Writes : job'[w].stage \in Loading => job'[w] = job[w]
    BY <1>1, <1>6 DEF Resets, Moves, Loading
  <2>3. epoch' = epoch + 1
    BY <1>6 DEF Resets
  <2>4. \A w \in Writes : job'[w].stage \in Loading => job'[w].epoch < epoch'
    BY <1>2, <1>3, <2>1, <2>2, <2>3
  <2> QED BY <1>2, <2>4 DEF EpochsAreOrdered
<1>7. ASSUME NEW w \in Writes, Joining(w), ~Wiped' PROVE EpochsAreOrdered'
  <2>1. ~Wiped
    BY <1>1, <1>7 DEF Joining, Wiped, At
  <2>2. \A v \in Writes : job'[v].stage \in Loading => job'[v] = job[v]
    BY <1>1, <1>7 DEF Joining, Loading
  <2> QED BY <1>3, <1>7, <2>1, <2>2 DEF Joining, EpochsAreOrdered
<1>8. ASSUME NEW w \in Writes, Starting(w), ~Wiped' PROVE EpochsAreOrdered'
  <2>1. ~Wiped
    BY <1>1, <1>4, <1>8 DEF Starting
  <2>2. \A v \in Writes \ {w} : job'[v] = job[v] /\ (job[v].stage \in Loading =>
                                  job[v].epoch <= epoch /\ job[v].epoch # epoch)
    BY <1>1, <1>3, <1>8, <2>1 DEF Starting, Moves
  <2>3. job'[w].epoch = epoch /\ epoch' = epoch /\ inFlight' = w
    BY <1>8 DEF Starting
  <2>4. \A v \in Writes : job'[v].stage \in Loading =>
          job'[v].epoch <= epoch' /\ (job'[v].epoch = epoch' => inFlight' = v)
    BY <1>2, <2>2, <2>3
  <2> QED BY <2>4 DEF EpochsAreOrdered
<1>9. ASSUME NEW w \in Writes, Settling(w), ~Wiped' PROVE EpochsAreOrdered'
  <2>1. \A x \in Wipes : job'[x] = job[x]
    BY <1>1, <1>9 DEF Settling, Settled, JoinedTo
  <2>2. ~Wiped
    BY <1>9, <2>1 DEF Wiped, At
  <2>3. \A v \in Writes : job'[v].stage \in Loading => job'[v] = job[v] /\ v # w
    BY <1>1, <1>9 DEF Settling, Settled, Loading
  <2> QED BY <1>3, <1>9, <2>2, <2>3 DEF Settling, Settled, EpochsAreOrdered
<1>10. ASSUME NEW x \in Wipes, Forgets(x) PROVE Wiped'
  BY <1>10 DEF Forgets, Wiped, At
<1> QED BY <1>5, <1>6, <1>7, <1>8, <1>9, <1>10 DEF Form, EpochsAreOrdered

(* The transcript only grows under a bootstrap that stays current.         *)
LEMMA ReadingsStayCurrent ==
  ASSUME IInv, ReplayTypeOK', Form
  PROVE  ReadingsAreCurrent'
<1>1. Writes \subseteq Jobs /\ Wipes \subseteq Jobs /\ \A w \in Writes : w \notin Wipes
  BY JobsAreDistinct DEF Jobs
<1>2. NoWipe => ~Wiped
  BY DEF NoWipe, Wiped, At
<1>3. NoWipe => \A w \in Writes :
         job[w].stage = "loadingTranscript" /\ job[w].epoch = epoch => job[w].rows \subseteq transcript
  BY DEF IInv, ReadingsAreCurrent, At
<1>4. ASSUME NEW j \in Jobs, Moves(j), NoWipe' PROVE NoWipe /\ j \notin Wipes
  BY <1>1, <1>4 DEF Moves, NoWipe, At
<1>5. ASSUME NEW j \in Jobs, Quiet(j), NoWipe' PROVE ReadingsAreCurrent'
  <2>1. NoWipe /\ j \notin Wipes /\ transcript \subseteq transcript' /\ epoch' = epoch
    BY <1>4, <1>5 DEF Quiet
  <2>2. \A w \in Writes : job'[w].stage = "loadingTranscript" =>
          \/ job'[w] = job[w]
          \/ job'[w].rows = transcript
    BY <1>1, <1>5 DEF Quiet, Moves, Loading
  <2>3. \A w \in Writes : job'[w].stage = "loadingTranscript" /\ job'[w].epoch = epoch'
                            => job'[w].rows \subseteq transcript'
    BY <1>3, <2>1, <2>2
  <2> QED BY <2>3 DEF ReadingsAreCurrent, At
<1>6. ASSUME NEW j \in Jobs, Resets(j), NoWipe' PROVE ReadingsAreCurrent'
  <2>1. NoWipe
    BY <1>4, <1>6 DEF Resets
  <2>2. \A w \in Writes : job'[w].stage = "loadingTranscript" => job'[w] = job[w]
    BY <1>1, <1>6 DEF Resets, Moves
  <2>3. epoch' = epoch + 1 /\ epoch \in Nat /\ \A w \in Writes : job[w].epoch \in Nat
    BY <1>1, <1>6 DEF Resets, IInv, ReplayTypeOK, Calls
  <2>4. \A w \in Writes : job[w].stage = "loadingTranscript" => job[w].epoch <= epoch
    BY <1>2, <2>1 DEF IInv, EpochsAreOrdered, Loading
  <2>5. \A w \in Writes : job'[w].stage = "loadingTranscript" => job'[w].epoch # epoch'
    BY <2>2, <2>3, <2>4
  <2> QED BY <2>5 DEF ReadingsAreCurrent, At
<1>7. ASSUME NEW w \in Writes, Joining(w), NoWipe' PROVE ReadingsAreCurrent'
  <2>1. NoWipe
    BY <1>1, <1>7 DEF Joining, NoWipe, At
  <2>2. \A v \in Writes : job'[v].stage = "loadingTranscript" => job'[v] = job[v]
    BY <1>1, <1>7 DEF Joining
  <2> QED BY <1>3, <1>7, <2>1, <2>2 DEF Joining, ReadingsAreCurrent, At
<1>8. ASSUME NEW w \in Writes, Starting(w), NoWipe' PROVE ReadingsAreCurrent'
  <2>1. NoWipe
    BY <1>1, <1>4, <1>8 DEF Starting
  <2>2. \A v \in Writes : job'[v].stage = "loadingTranscript" => job'[v] = job[v]
    BY <1>1, <1>8 DEF Starting, Moves
  <2> QED BY <1>3, <1>8, <2>1, <2>2 DEF Starting, ReadingsAreCurrent, At
<1>9. ASSUME NEW w \in Writes, Settling(w), NoWipe' PROVE ReadingsAreCurrent'
  <2>1. \A x \in Wipes : job'[x] = job[x]
    BY <1>1, <1>9 DEF Settling, Settled, JoinedTo
  <2>2. NoWipe
    BY <1>9, <2>1 DEF NoWipe, At
  <2>3. \A v \in Writes : job'[v].stage = "loadingTranscript" => job'[v] = job[v]
    BY <1>1, <1>9 DEF Settling, Settled
  <2> QED BY <1>3, <1>9, <2>2, <2>3 DEF Settling, ReadingsAreCurrent, At
<1>10. ASSUME NEW x \in Wipes, Forgets(x) PROVE ~NoWipe'
  BY <1>10 DEF Forgets, NoWipe, At
<1> QED BY <1>5, <1>6, <1>7, <1>8, <1>9, <1>10 DEF Form, ReadingsAreCurrent

LEMMA StepIInv == IInv /\ [ReplayNext]_replayVars => IInv'
<1> SUFFICES ASSUME IInv, [ReplayNext]_replayVars PROVE IInv'
  OBVIOUS
<1>1. CASE ReplayNext
  BY <1>1, StepForms, OwnersStay, EpochsStayOrdered, ReadingsStayCurrent DEF IInv
<1>2. CASE UNCHANGED replayVars
  BY <1>2 DEF replayVars, database, cache, calls, IInv, ReplayTypeOK, PromiseIsAlive,
     JoinersHaveAnOwner, EpochsAreOrdered, ReadingsAreCurrent, Initializing, At, Wiped, NoWipe
<1> QED BY <1>1, <1>2

-----------------------------------------------------------------------------
(* The theorems.                                                           *)

(* The state of the replay bootstrap keeps its type.                       *)
THEOREM ReplayTypeCorrect == ReplaySpec => []ReplayTypeOK
<1>1. IInv => ReplayTypeOK
  BY DEF IInv
<1> QED BY InitIInv, StepIInv, <1>1, PTL DEF ReplaySpec

(* A write that joined a bootstrap is never left without it.               *)
THEOREM JoinersAreNeverStranded == ReplaySpec => []JoinersHaveAnOwner
<1>1. IInv => JoinersHaveAnOwner
  BY DEF IInv
<1> QED BY InitIInv, StepIInv, <1>1, PTL DEF ReplaySpec

(* Until a wipe is answered at most one bootstrap reads with the present   *)
(* epoch, for any number of writes and resets.                             *)
THEOREM OneCurrentBootstrapHolds == ReplaySpec => []OneCurrentBootstrap
<1>1. IInv => OneCurrentBootstrap
  BY DEF IInv, EpochsAreOrdered, OneCurrentBootstrap
<1> QED BY InitIInv, StepIInv, <1>1, PTL DEF ReplaySpec

(* No bootstrap begins to rewrite from a reading that a deletion or rewind *)
(* has overtaken.                                                          *)
THEOREM RewritesBeginFromTheTranscriptHolds == ReplaySpec => RewritesBeginFromTheTranscript
<1> DEFINE A == \A w \in Writes :
                  At(w, "loadingTranscript") /\ job'[w].stage = "clearing" /\ NoWipe
                    => job[w].rows \subseteq transcript
<1>1. IInv /\ [ReplayNext]_replayVars => [A]_replayVars
  <2> SUFFICES ASSUME IInv, ReplayNext, NEW w \in Writes, At(w, "loadingTranscript"),
                      job'[w].stage = "clearing", NoWipe
               PROVE  job[w].rows \subseteq transcript
    OBVIOUS
  <2>1. Form
    BY StepForms DEF IInv
  <2>2. w \in Jobs
    BY DEF Jobs
  <2>3. job[w].epoch = epoch
    BY <2>1, <2>2 DEF Form, Quiet, Resets, Joining, Starting, Settling, Settled, Forgets, Moves,
       At
  <2> QED BY <2>3 DEF IInv, ReadingsAreCurrent
<1> QED BY InitIInv, StepIInv, <1>1, PTL DEF ReplaySpec, RewritesBeginFromTheTranscript

-----------------------------------------------------------------------------
(* What reaches the replay rows, as long as nothing fails and nothing      *)
(* resets them.                                                            *)

Rewriter(v) == v \in Writes /\ job[v].stage \in {"clearing", "rewriting"} /\ job[v].epoch = epoch

(* The row of r will be appended by the call of r itself.                  *)
AppendsItself(r) ==
  /\ r \in Writes
  /\ \/ job[r].stage \in {"storing"} \union Loading
     \/ At(r, "joined") /\ \A o \in Writes : job[r].owner = o => ~Rewriter(o)
     \/ job[r].stage \in {"clearing", "rewriting"} /\ ~Rewriter(r)

Covered(r) ==
  r \in replay \/ AppendsItself(r) \/ \E v \in Writes : Rewriter(v) /\ r \in job[v].rows

(* Every call that was made has its row in the transcript; a reading lacks *)
(* only rows whose store the sidecar answers after it.                     *)
ReadingsAreComplete ==
  /\ transcript \subseteq Legacy \union Writes
  /\ \A w \in Writes : ~At(w, "failed") /\ (w \in transcript \/ At(w, "new"))
  /\ \A v \in Writes, r \in transcript :
       At(v, "loadingTranscript") /\ r \notin job[v].rows =>
         r \in Writes /\ At(r, "storing") /\ v \in ahead[r]

EpochsRise ==
  /\ inFlight # NoJob => inFlight \in Writes /\ job[inFlight].stage \in Loading
  /\ \A w \in Writes : job[w].epoch <= epoch
  /\ \A v, w \in Writes : Rewriter(v) /\ Rewriter(w) => v = w

(* Before the first rewrite nothing is appended, and after it every row of *)
(* the transcript is there or on its way.                                  *)
RowsAreCovered ==
  IF epoch = 0
    THEN /\ replay = {} /\ ~initialized
         /\ \A w \in Writes : /\ job[w].stage \in {"new", "storing", "joined"} \union Loading
                              /\ At(w, "loadingReplay") => ~job[w].found
    ELSE \A r \in transcript : Covered(r)

ReachIInv == Undisturbed => ReadingsAreComplete /\ EpochsRise /\ RowsAreCovered

(* A step under which nothing fails carries every request out.             *)
LEMMA SendsUndisturbed ==
  ASSUME ReplayTypeOK, NEW j \in Jobs, NEW ok \in BOOLEAN,
         NEW call \in Calls, NEW served \in BOOLEAN,
         Sends(j, ok, call, served), ~faulty'
  PROVE  /\ ok /\ served /\ ~faulty
         /\ job'[j].found = call.found
         /\ ahead'[j] = Outstanding \ {j}
         /\ \A k \in Jobs \ {j} : ahead'[k] = ahead[k] \ {j}
<1> DEFINE sent == IF served THEN {j} ELSE {}
           next == [job EXCEPT ![j] = call]
<1>1. Step(j, ok, next, {j}, sent)
  BY DEF Sends
<1>2. ok /\ ~faulty /\ sent = {j}
  BY <1>1 DEF Step
<1>3. served
  BY <1>2
<1>4. next[j] = call
  BY DEF ReplayTypeOK
<1> HIDE DEF next, sent
<1>5. /\ job'[j] = [call EXCEPT !.served = j \in sent]
      /\ ahead'[j] = Outstanding \ {j}
      /\ \A k \in Jobs \ {j} : ahead'[k] = ahead[k] \ {j}
  BY <1>1, <1>4 DEF Step
<1>6. [call EXCEPT !.served = j \in sent].found = call.found
  BY DEF Calls
<1> QED BY <1>2, <1>3, <1>5, <1>6

LEMMA EndsUndisturbed ==
  ASSUME ReplayTypeOK, NEW j \in Jobs, NEW ok \in BOOLEAN, NEW stage \in Stages,
         Ends(j, ok, stage), ~faulty'
  PROVE  /\ ok /\ ~faulty /\ job'[j] = Call(stage)
         /\ \A k \in Jobs \ {j} : ahead'[k] = ahead[k] \ {j}
<1> DEFINE next == [job EXCEPT ![j] = Call(stage)]
<1>1. Step(j, ok, next, {}, {})
  BY DEF Ends
<1>2. next[j] = Call(stage)
  BY DEF ReplayTypeOK
<1> HIDE DEF next
<1> QED BY <1>1, <1>2 DEF Step

LEMMA SettlesUndisturbed ==
  ASSUME ReplayTypeOK, NEW w \in Writes, NEW ok \in BOOLEAN,
         NEW outcome \in {"empty", "already-initialized", "bootstrapped"},
         Settles(w, ok, outcome, replay), ~faulty'
  PROVE  /\ ok /\ ~faulty /\ replay \subseteq replay'
         /\ \A k \in Jobs \ ({w} \union JoinedTo(w)) : ahead'[k] = ahead[k] \ {w}
         /\ \A k \in {w} \union JoinedTo(w) :
              /\ job'[k].epoch = 0
              /\ IF outcome = "bootstrapped" THEN job'[k].stage = "done"
                 ELSE job'[k].stage = "appending" /\ k \in replay'
<1> DEFINE callers == {w} \union JoinedTo(w)
           end     == CASE outcome = "bootstrapped" -> "done"
                        [] outcome = "rejected"     -> "failed"
                        [] OTHER                    -> "appending"
           senders == IF end = "appending" THEN callers ELSE {}
           next    == [k \in Jobs |-> IF k \in callers THEN Call(end) ELSE job[k]]
<1>1. end = IF outcome = "bootstrapped" THEN "done" ELSE "appending"
  OBVIOUS
<1>2. callers \subseteq Jobs /\ w \in Jobs
  BY DEF JoinedTo, Jobs
<1>3. PICK served \in SUBSET senders :
        /\ Step(w, ok, next, senders, served)
        /\ replay' = replay \union served
  BY DEF Settles
<1>4. ok /\ ~faulty /\ senders = served
  BY <1>3 DEF Step
<1>5. Call(end) \in Calls /\ Call(end).stage = end /\ Call(end).epoch = 0
  BY <1>1, CallType DEF Stages, Asking, Loading
<1>6. \A k \in callers : next[k] = Call(end)
  BY <1>2
<1>7. senders \subseteq callers /\ (end = "appending" => senders = callers)
  OBVIOUS
<1> HIDE DEF next, end, senders
<1>8. \A k \in Jobs : /\ k \in senders => job'[k] = [next[k] EXCEPT !.served = k \in served]
                      /\ k \notin senders => job'[k] = next[k]
  BY <1>3 DEF Step
<1>9. \A k \in callers : job'[k].stage = end /\ job'[k].epoch = 0
  <2>1. ASSUME NEW k \in callers PROVE job'[k].stage = end /\ job'[k].epoch = 0
    <3>1. CASE k \in senders
      <4>1. job'[k] = [Call(end) EXCEPT !.served = k \in served]
        BY <1>2, <1>6, <1>8, <3>1
      <4>2. [Call(end) EXCEPT !.served = k \in served].stage = end
            /\ [Call(end) EXCEPT !.served = k \in served].epoch = 0
        BY <1>5 DEF Calls
      <4> QED BY <4>1, <4>2
    <3>2. CASE k \notin senders
      BY <1>2, <1>5, <1>6, <1>8, <3>2
    <3> QED BY <3>1, <3>2
  <2> QED BY <2>1
<1>10. \A k \in Jobs \ callers : ahead'[k] = ahead[k] \ {w}
  BY <1>3, <1>7 DEF Step
<1> QED BY <1>1, <1>3, <1>4, <1>7, <1>9, <1>10

UndisturbedIInv == ReadingsAreComplete /\ EpochsRise /\ RowsAreCovered

(* The call of one write goes on, within the epoch.                        *)
LEMMA OneMoves ==
  ASSUME ReplayTypeOK, UndisturbedIInv, NEW j \in Writes, job' \in [Jobs -> Calls],
         epoch' = epoch,
         \A k \in Jobs \ {j} : job'[k] = job[k] /\ ahead'[k] = ahead[k] \ {j},
         replay \subseteq replay', j \in transcript', job'[j].stage \notin {"new", "failed"},
         \/ transcript' = transcript
         \/ transcript' = transcript \union {j} /\ At(j, "storing")' /\ Outstanding \ {j} \subseteq ahead'[j],
         At(j, "storing") => ahead[j] = {},
         At(j, "loadingTranscript")' => transcript' \subseteq job'[j].rows,
         inFlight' # NoJob => IF inFlight' = j THEN job'[j].stage \in Loading ELSE inFlight' = inFlight,
         job'[j].epoch <= epoch,
         Rewriter(j)' <=> Rewriter(j),
         Rewriter(j) => job[j].rows \subseteq job'[j].rows \union replay',
         epoch = 0 => /\ replay' = replay /\ ~initialized'
                      /\ job'[j].stage \in {"new", "storing", "joined"} \union Loading
                      /\ At(j, "loadingReplay")' => ~job'[j].found,
         j \in replay' \/ AppendsItself(j)' \/ (j \in transcript /\ ~AppendsItself(j))
  PROVE  UndisturbedIInv'
<1>0. Writes \subseteq Jobs /\ j \in Jobs /\ NoJob \notin Jobs
  BY JobsAreDistinct DEF Jobs
<1>1. ReadingsAreComplete'
  <2>1. transcript' \subseteq Legacy \union Writes
    BY DEF UndisturbedIInv, ReadingsAreComplete
  <2>2. \A w \in Writes : ~At(w, "failed")' /\ (w \in transcript' \/ At(w, "new")')
    BY <1>0 DEF UndisturbedIInv, ReadingsAreComplete, At
  <2>3. ASSUME NEW v \in Writes, NEW r \in transcript', At(v, "loadingTranscript")', r \notin job'[v].rows
        PROVE  r \in Writes /\ At(r, "storing")' /\ v \in ahead'[r]
    <3>1. v # j /\ job'[v] = job[v] /\ v \in Jobs
      BY <1>0, <2>3
    <3>2. CASE r \in transcript
      <4>1. r \in Writes /\ At(r, "storing") /\ v \in ahead[r]
        BY <2>3, <3>1, <3>2 DEF UndisturbedIInv, ReadingsAreComplete, At
      <4>2. r # j
        BY <4>1
      <4> QED BY <1>0, <3>1, <4>1, <4>2 DEF At
    <3>3. CASE r \notin transcript
      <4>1. r = j /\ At(j, "storing")' /\ Outstanding \ {j} \subseteq ahead'[j]
        BY <2>3, <3>3
      <4>2. v \in Outstanding
        BY <2>3, <3>1 DEF Outstanding, At, Asking, Loading
      <4> QED BY <3>1, <4>1, <4>2
    <3> QED BY <3>2, <3>3
  <2> QED BY <2>1, <2>2, <2>3 DEF ReadingsAreComplete
<1>2. \A v \in Writes : Rewriter(v)' <=> Rewriter(v)
  <2>1. ASSUME NEW v \in Writes PROVE Rewriter(v)' <=> Rewriter(v)
    <3>1. CASE v = j
      BY <3>1
    <3>2. CASE v # j
      BY <1>0, <3>2 DEF Rewriter
    <3> QED BY <3>1, <3>2
  <2> QED BY <2>1
<1>3. EpochsRise'
  <2>1. \A v, w \in Writes : Rewriter(v)' /\ Rewriter(w)' => v = w
    BY <1>2 DEF UndisturbedIInv, EpochsRise
  <2>2. inFlight' # NoJob => inFlight' \in Writes /\ job'[inFlight'].stage \in Loading
    BY <1>0 DEF UndisturbedIInv, EpochsRise
  <2>3. \A w \in Writes : job'[w].epoch <= epoch'
    BY <1>0 DEF UndisturbedIInv, EpochsRise
  <2> QED BY <2>1, <2>2, <2>3 DEF EpochsRise
<1>4. CASE epoch = 0
  <2>1. \A w \in Writes : /\ job'[w].stage \in {"new", "storing", "joined"} \union Loading
                          /\ At(w, "loadingReplay")' => ~job'[w].found
    BY <1>0, <1>4 DEF UndisturbedIInv, RowsAreCovered, At
  <2>2. replay' = {} /\ ~initialized'
    BY <1>4 DEF UndisturbedIInv, RowsAreCovered
  <2>3. RowsAreCovered'
    BY <1>4, <2>1, <2>2 DEF RowsAreCovered
  <2> QED BY <1>1, <1>3, <2>3 DEF UndisturbedIInv
<1>5. CASE epoch # 0
  <2>1. ASSUME NEW r \in transcript', r # j PROVE Covered(r)'
    <3>1. r \in transcript /\ Covered(r)
      BY <1>5, <2>1 DEF UndisturbedIInv, RowsAreCovered
    <3>2. CASE r \in replay
      BY <3>2 DEF Covered
    <3>3. CASE AppendsItself(r)
      <4>1. r \in Writes /\ r \in Jobs /\ job'[r] = job[r]
        BY <1>0, <2>1, <3>3 DEF AppendsItself
      <4>3. AppendsItself(r)'
        BY <1>2, <3>3, <4>1 DEF AppendsItself, At
      <4> QED BY <4>3 DEF Covered
    <3>4. ASSUME NEW v \in Writes, Rewriter(v), r \in job[v].rows PROVE Covered(r)'
      <4>1. CASE v = j
        BY <1>2, <3>4, <4>1 DEF Covered
      <4>2. CASE v # j
        <5>1. job'[v] = job[v]
          BY <1>0, <4>2
        <5> QED BY <1>2, <3>4, <5>1 DEF Covered
      <4> QED BY <4>1, <4>2
    <3> QED BY <3>1, <3>2, <3>3, <3>4 DEF Covered
  <2>2. Covered(j)'
    <3>1. CASE j \in replay' \/ AppendsItself(j)'
      BY <3>1 DEF Covered
    <3>2. CASE j \in transcript /\ ~AppendsItself(j)
      <4>1. j \in replay \/ \E v \in Writes : Rewriter(v) /\ j \in job[v].rows
        BY <1>5, <3>2 DEF UndisturbedIInv, RowsAreCovered, Covered
      <4>2. ASSUME NEW v \in Writes, Rewriter(v), j \in job[v].rows PROVE Covered(j)'
        <5>1. CASE v = j
          BY <1>2, <4>2, <5>1 DEF Covered
        <5>2. CASE v # j
          <6>1. job'[v] = job[v]
            BY <1>0, <5>2
          <6> QED BY <1>2, <4>2, <6>1 DEF Covered
        <5> QED BY <5>1, <5>2
      <4> QED BY <4>1, <4>2 DEF Covered
    <3> QED BY <3>1, <3>2
  <2>3. RowsAreCovered'
    BY <1>5, <2>1, <2>2 DEF RowsAreCovered
  <2> QED BY <1>1, <1>3, <2>3 DEF UndisturbedIInv
<1> QED BY <1>4, <1>5

(* An initialization settles: its callers append their rows, or have them  *)
(* in what the last rewrite left.                                          *)
LEMMA SettlingCovers ==
  ASSUME ReplayTypeOK, UndisturbedIInv, JoinersHaveAnOwner, NEW w \in Writes, NEW ok \in BOOLEAN,
         NEW outcome \in {"empty", "already-initialized", "bootstrapped"},
         Settles(w, ok, outcome, replay), ~faulty', Initializing(w),
         UNCHANGED <<transcript, epoch>>, epoch # 0,
         job[w].stage \in Loading \/ job[w].rows = {},
         outcome = "bootstrapped" => Rewriter(w)
  PROVE  UndisturbedIInv'
<1> DEFINE callers == {w} \union JoinedTo(w)
<1>0. Writes \subseteq Jobs /\ NoJob \notin Jobs /\ callers \subseteq Writes
      /\ epoch \in Nat /\ job \in [Jobs -> Calls]
  BY JobsAreDistinct DEF Jobs, JoinedTo, ReplayTypeOK
<1>1. /\ replay \subseteq replay' /\ job' \in [Jobs -> Calls]
      /\ \A k \in Jobs \ callers : ahead'[k] = ahead[k] \ {w} /\ job'[k] = job[k]
      /\ inFlight' = IF inFlight = w THEN NoJob ELSE inFlight
      /\ \A k \in callers :
           /\ job'[k].epoch = 0
           /\ IF outcome = "bootstrapped" THEN job'[k].stage = "done"
              ELSE job'[k].stage = "appending" /\ k \in replay'
  <2>1. replay \in SUBSET Rows
    BY DEF ReplayTypeOK
  <2> QED BY <2>1, SettlesType, SettlesUndisturbed DEF Settled
<1>2. \A k \in callers : job[k].stage \in {"joined"} \union Loading \union {"clearing", "rewriting"}
                         /\ job'[k].stage \in {"done", "appending"}
  BY <1>1 DEF Initializing, JoinedTo, At
<1>3. \A k \in Writes : At(k, "joined") /\ job[k].owner = w => k \in callers
  BY DEF JoinedTo
<1>4. \A k \in callers : k # w => At(k, "joined") /\ job[k].owner = w
  BY DEF JoinedTo
<1> HIDE DEF callers
<1>5. w \in callers
  BY DEF callers
<1>6. ReadingsAreComplete'
  <2>1. ASSUME NEW k \in Writes PROVE ~At(k, "failed")' /\ (k \in transcript' \/ At(k, "new")')
    <3>1. job[k].stage # "failed" /\ (k \in transcript \/ job[k].stage = "new")
      BY DEF UndisturbedIInv, ReadingsAreComplete, At
    <3>2. CASE k \in callers
      <4>1. job[k].stage # "new"
        BY <1>2, <3>2 DEF Loading
      <4>2. job'[k].stage # "failed"
        BY <1>2, <3>2
      <4> QED BY <3>1, <4>1, <4>2 DEF At
    <3>3. CASE k \notin callers
      BY <1>0, <1>1, <3>1, <3>3 DEF At
    <3> QED BY <3>2, <3>3
  <2>2. ASSUME NEW v \in Writes, NEW r \in transcript, At(v, "loadingTranscript")', r \notin job'[v].rows
        PROVE  r \in Writes /\ At(r, "storing")' /\ v \in ahead'[r]
    <3>1. v \notin callers /\ v # w /\ job'[v] = job[v]
      BY <1>0, <1>1, <1>2, <1>5, <2>2 DEF At
    <3>2. r \in Writes /\ At(r, "storing") /\ v \in ahead[r]
      BY <2>2, <3>1 DEF UndisturbedIInv, ReadingsAreComplete, At
    <3>3. r \notin callers
      BY <1>2, <3>2 DEF At, Loading
    <3> QED BY <1>0, <1>1, <3>1, <3>2, <3>3 DEF At
  <2> QED BY <2>1, <2>2 DEF ReadingsAreComplete, UndisturbedIInv
<1>7. \A v \in Writes : /\ Rewriter(v)' => Rewriter(v) /\ v \notin callers
                        /\ Rewriter(v) /\ v \notin callers => Rewriter(v)'
  BY <1>0, <1>1, <1>2 DEF Rewriter
<1>8. EpochsRise'
  <2>1. \A v \in Writes : job'[v].epoch <= epoch
    <3>1. 0 <= epoch
      BY <1>0
    <3> QED BY <1>0, <1>1, <3>1 DEF UndisturbedIInv, EpochsRise
  <2>2. inFlight' # NoJob => inFlight' \in Writes /\ job'[inFlight'].stage \in Loading
    <3>1. SUFFICES ASSUME inFlight' # NoJob PROVE inFlight' \in Writes /\ job'[inFlight'].stage \in Loading
      OBVIOUS
    <3>2. inFlight' = inFlight /\ inFlight # w /\ inFlight \in Writes /\ job[inFlight].stage \in Loading
      BY <1>1, <3>1 DEF UndisturbedIInv, EpochsRise
    <3>3. inFlight \notin callers
      BY <1>4, <3>2 DEF At, Loading
    <3> QED BY <1>0, <1>1, <3>2, <3>3
  <2> QED BY <1>7, <2>1, <2>2 DEF EpochsRise, UndisturbedIInv
<1>9. RowsAreCovered'
  <2>1. SUFFICES ASSUME NEW r \in transcript PROVE Covered(r)'
    BY DEF RowsAreCovered
  <2>2. Covered(r)
    BY DEF UndisturbedIInv, RowsAreCovered
  <2>3. CASE r \in replay
    BY <1>1, <2>3 DEF Covered
  <2>4. ASSUME NEW v \in Writes, Rewriter(v), r \in job[v].rows PROVE Covered(r)'
    <3>1. v # w
      BY <2>4 DEF Rewriter, Loading
    <3>2. v \notin callers
      BY <1>4, <2>4, <3>1 DEF At, Rewriter
    <3>3. Rewriter(v)' /\ job'[v] = job[v]
      BY <1>0, <1>1, <1>7, <2>4, <3>2
    <3> QED BY <2>4, <3>3 DEF Covered
  <2>5. CASE AppendsItself(r)
    <3>1. CASE r \in callers
      <4>1. outcome # "bootstrapped"
        <5>1. ASSUME outcome = "bootstrapped" PROVE FALSE
          <6>1. Rewriter(w)
            BY <5>1
          <6>2. CASE r = w
            BY <2>5, <6>1, <6>2 DEF AppendsItself, Rewriter, At, Loading
          <6>3. CASE r # w
            BY <1>4, <2>5, <3>1, <6>1, <6>3 DEF AppendsItself, At, Loading
          <6> QED BY <6>2, <6>3
        <5> QED BY <5>1
      <4> QED BY <1>1, <3>1, <4>1 DEF Covered
    <3>2. CASE r \notin callers
      <4>1. r \in Writes /\ job'[r] = job[r]
        BY <1>0, <1>1, <2>5, <3>2 DEF AppendsItself
      <4>3. AppendsItself(r)'
        BY <1>7, <2>5, <4>1 DEF AppendsItself, At
      <4> QED BY <4>3 DEF Covered
    <3> QED BY <3>1, <3>2
  <2> QED BY <2>2, <2>3, <2>4, <2>5 DEF Covered
<1> QED BY <1>6, <1>8, <1>9 DEF UndisturbedIInv

(* One lemma per operation of a write, while nothing fails and nothing is  *)
(* reset.                                                                  *)
LEMMA WriteCovers ==
  ASSUME IInv, UndisturbedIInv, NEW w \in Writes, Write(w), ~faulty'
  PROVE  UndisturbedIInv'
<1>0. w \in Jobs /\ ReplayTypeOK /\ job[w].stage = "new" /\ epoch \in Nat
  BY DEF Jobs, IInv, Write, At, ReplayTypeOK
<1>1. PICK served \in BOOLEAN : Sends(w, TRUE, Call("storing"), served)
                                /\ transcript' = With(transcript, w, served)
  BY DEF Write
<1>2. "storing" \in Stages /\ Call("storing") \in Calls /\ Call("storing").stage = "storing"
      /\ Call("storing").epoch = 0
  BY CallType DEF Stages, Asking
<1> HIDE DEF Call
<1>3. /\ job' \in [Jobs -> Calls] /\ job'[w].stage = "storing" /\ job'[w].epoch = 0
      /\ \A k \in Jobs \ {w} : job'[k] = job[k]
  BY <1>0, <1>1, <1>2, SendsType
<1>4. /\ served /\ ahead'[w] = Outstanding \ {w}
      /\ \A k \in Jobs \ {w} : ahead'[k] = ahead[k] \ {w}
  <2> DEFINE ok == TRUE
  <2>1. ok \in BOOLEAN /\ Sends(w, ok, Call("storing"), served)
    BY <1>1
  <2> HIDE DEF ok
  <2> QED BY <1>0, <1>2, <2>1, SendsUndisturbed
<1>5. transcript' = transcript \union {w} /\ UNCHANGED <<replay, initialized, inFlight, epoch>>
  BY <1>1, <1>4 DEF With, Write, cache
<1>6. ~Rewriter(w) /\ ~Rewriter(w)' /\ AppendsItself(w)'
  BY <1>0, <1>3 DEF Rewriter, AppendsItself
<1>7. inFlight' # NoJob => inFlight' # w
  BY <1>0, <1>5 DEF UndisturbedIInv, EpochsRise, Loading
<1>8. epoch = 0 => ~initialized'
  BY <1>5 DEF UndisturbedIInv, RowsAreCovered
<1>9. 0 <= epoch
  BY <1>0
<1> QED BY <1>0, <1>3, <1>4, <1>5, <1>6, <1>7, <1>8, <1>9, OneMoves DEF At

LEMMA StoreAnsweredCovers ==
  ASSUME IInv, UndisturbedIInv, NEW w \in Writes, StoreAnswered(w), ~faulty'
  PROVE  UndisturbedIInv'
<1>0. /\ w \in Jobs /\ ReplayTypeOK /\ job[w].stage = "storing" /\ epoch \in Nat
      /\ UNCHANGED <<transcript, initialized, epoch>> /\ w \in transcript
  BY DEF Jobs, IInv, StoreAnswered, At, ReplayTypeOK, UndisturbedIInv, ReadingsAreComplete
<1>1. PICK ok \in BOOLEAN :
        /\ Answers(w, ok)
        /\ AppendsAtOnce(w, ok) \/ Joins(w, ok) \/ StartsInitialization(w, ok)
  BY DEF StoreAnswered
<1>2. ~Rewriter(w) /\ AppendsItself(w)
  BY <1>0 DEF Rewriter, AppendsItself
<1>3. inFlight # NoJob => inFlight \in Writes /\ inFlight # w /\ job[inFlight].stage \in Loading
  BY <1>0 DEF UndisturbedIInv, EpochsRise, Loading
<1>4. epoch = 0 => ~initialized /\ replay = {}
  BY DEF UndisturbedIInv, RowsAreCovered
<1>5. 0 <= epoch
  BY <1>0
<1>6. CASE AppendsAtOnce(w, ok)
  <2>1. PICK served \in BOOLEAN : Sends(w, ok, Call("appending"), served)
                                  /\ replay' = With(replay, w, served)
    BY <1>6 DEF AppendsAtOnce
  <2>2. Call("appending") \in Calls /\ Call("appending").stage = "appending"
        /\ Call("appending").epoch = 0
    BY CallType DEF Stages, Asking
  <2> HIDE DEF Call
  <2>3. /\ job' \in [Jobs -> Calls] /\ job'[w].stage = "appending" /\ job'[w].epoch = 0
        /\ \A k \in Jobs \ {w} : job'[k] = job[k]
    BY <1>0, <2>1, <2>2, SendsType
  <2>4. /\ ok /\ served
        /\ \A k \in Jobs \ {w} : ahead'[k] = ahead[k] \ {w}
    BY <1>0, <2>1, <2>2, SendsUndisturbed
  <2>5. replay' = replay \union {w} /\ inFlight' = inFlight /\ initialized /\ ahead[w] = {}
    BY <1>1, <1>6, <2>1, <2>4 DEF With, AppendsAtOnce, Answers
  <2>6. ~Rewriter(w)'
    BY <2>3 DEF Rewriter
  <2> QED BY <1>0, <1>2, <1>3, <1>4, <1>5, <2>3, <2>4, <2>5, <2>6, OneMoves DEF At
<1>7. CASE Joins(w, ok)
  <2> DEFINE call == [Call("joined") EXCEPT !.owner = inFlight]
             next == [job EXCEPT ![w] = call]
  <2>1. Step(w, ok, next, {}, {}) /\ UNCHANGED <<replay, inFlight>> /\ inFlight # NoJob
    BY <1>7 DEF Joins
  <2>2. call \in Calls /\ call.stage = "joined" /\ call.epoch = 0 /\ call.owner = inFlight
    BY <1>3, <2>1 DEF Call, Calls, Stages, Jobs
  <2> HIDE DEF call
  <2>3. next \in [Jobs -> Calls] /\ next[w] = call /\ \A k \in Jobs \ {w} : next[k] = job[k]
    BY <1>0, <2>2 DEF ReplayTypeOK
  <2> HIDE DEF next
  <2>4. ok /\ \A k \in Jobs \ {w} : ahead'[k] = ahead[k] \ {w}
    BY <2>1 DEF Step
  <2>5. job' \in [Jobs -> Calls] /\ \A k \in Jobs : job'[k] = next[k]
    BY <1>0, <2>1, <2>3, StepType
  <2>6. job'[w] = call /\ \A k \in Jobs \ {w} : job'[k] = job[k]
    BY <1>0, <2>3, <2>5
  <2>7. ahead[w] = {}
    BY <1>1, <2>4 DEF Answers
  <2>8. ~Rewriter(w)'
    BY <2>2, <2>6 DEF Rewriter
  <2>9. \A o \in Writes : job'[w].owner = o => ~Rewriter(o)'
    <3>1. ASSUME NEW o \in Writes, job'[w].owner = o PROVE ~Rewriter(o)'
      <4>1. o = inFlight
        BY <2>2, <2>6, <3>1
      <4>2. job'[o] = job[o] /\ job[o].stage \in Loading
        BY <1>3, <2>1, <2>6, <4>1 DEF Jobs
      <4> QED BY <4>2 DEF Rewriter, Loading
    <3> QED BY <3>1
  <2>10. AppendsItself(w)'
    BY <2>2, <2>6, <2>9 DEF AppendsItself, At
  <2> QED BY <1>0, <1>2, <1>3, <1>4, <1>5, <2>1, <2>2, <2>4, <2>5, <2>6, <2>7, <2>8, <2>10,
             OneMoves DEF At
<1>8. CASE StartsInitialization(w, ok)
  <2> DEFINE call == [Call("loadingReplay") EXCEPT !.epoch = epoch, !.found = (replay # {})]
  <2>1. PICK served \in BOOLEAN : Sends(w, ok, call, served)
    BY <1>8 DEF StartsInitialization
  <2>2. call \in Calls /\ call.stage = "loadingReplay" /\ call.epoch = epoch
        /\ call.found = (replay # {})
    BY <1>0 DEF Call, Calls, Stages, Asking, Loading
  <2> HIDE DEF call
  <2>3. /\ job' \in [Jobs -> Calls] /\ job'[w].stage = "loadingReplay" /\ job'[w].epoch = epoch
        /\ \A k \in Jobs \ {w} : job'[k] = job[k]
    BY <1>0, <2>1, <2>2, SendsType
  <2>4. /\ ok /\ job'[w].found = (replay # {})
        /\ \A k \in Jobs \ {w} : ahead'[k] = ahead[k] \ {w}
    BY <1>0, <2>1, <2>2, SendsUndisturbed
  <2>5. replay' = replay /\ inFlight' = w /\ ahead[w] = {}
    BY <1>1, <1>8, <2>4 DEF StartsInitialization, Answers
  <2>6. ~Rewriter(w)' /\ AppendsItself(w)'
    BY <2>3 DEF Rewriter, AppendsItself, Loading
  <2>7. job'[w].stage \in Loading
    BY <2>3 DEF Loading
  <2>8. epoch = 0 => ~initialized' /\ ~job'[w].found
    BY <1>0, <1>4, <2>4
  <2>9. job'[w].epoch <= epoch
    BY <1>0, <2>3
  <2> QED BY <1>0, <1>2, <2>3, <2>4, <2>5, <2>6, <2>7, <2>8, <2>9, OneMoves DEF At
<1> QED BY <1>1, <1>6, <1>7, <1>8

(* An initialization that fails is a failure.                              *)
LEMMA RejectionsAreFaults ==
  ASSUME NEW w, NEW outcome, NEW rows, Settles(w, FALSE, outcome, rows)
  PROVE  faulty'
BY DEF Settles, Step

LEMMA ReplayLoadedCovers ==
  ASSUME IInv, UndisturbedIInv, NEW w \in Writes, ReplayLoaded(w), ~faulty'
  PROVE  UndisturbedIInv'
<1>0. /\ w \in Jobs /\ ReplayTypeOK /\ JoinersHaveAnOwner /\ job[w].stage = "loadingReplay"
      /\ epoch \in Nat /\ job[w] \in Calls
      /\ UNCHANGED <<transcript, epoch>> /\ w \in transcript /\ job[w].epoch <= epoch
  BY DEF Jobs, IInv, ReplayLoaded, At, ReplayTypeOK, UndisturbedIInv, ReadingsAreComplete,
         EpochsRise
<1>1. Initializing(w) /\ job[w].stage \in Loading
  BY <1>0 DEF Initializing, Loading
<1>2. job[w].epoch \in Nat
  BY <1>0 DEF Calls
<1>3. epoch = 0 => ~initialized /\ ~job[w].found
  BY <1>0 DEF UndisturbedIInv, RowsAreCovered, At
<1>4. ~ReplayLoadFails(w)
  BY RejectionsAreFaults DEF ReplayLoadFails
<1>5. CASE ReplayLoadIsStale(w)
  <2>1. epoch # 0
    BY <1>0, <1>2, <1>5 DEF ReplayLoadIsStale
  <2> QED BY <1>0, <1>1, <1>5, <2>1, SettlingCovers DEF ReplayLoadIsStale
<1>6. CASE ReplayRowsExist(w)
  <2>1. epoch # 0
    BY <1>3, <1>6 DEF ReplayRowsExist
  <2> QED BY <1>0, <1>1, <1>6, <2>1, SettlingCovers DEF ReplayRowsExist
<1>7. CASE NoReplayRows(w)
  <2> DEFINE call == [job[w] EXCEPT !.stage = "loadingTranscript", !.rows = transcript]
  <2>1. PICK served \in BOOLEAN : Sends(w, TRUE, call, served)
    BY <1>7 DEF NoReplayRows
  <2>2. call \in Calls /\ call.stage = "loadingTranscript" /\ call.epoch = job[w].epoch
        /\ call.rows = transcript
    <3>1. transcript \in SUBSET Rows
      BY <1>0 DEF ReplayTypeOK
    <3> QED BY <1>0, <3>1 DEF Calls, Stages, Asking, Loading
  <2> HIDE DEF call
  <2>3. /\ job' \in [Jobs -> Calls] /\ job'[w].stage = "loadingTranscript"
        /\ job'[w].epoch = job[w].epoch /\ job'[w].rows = transcript
        /\ \A k \in Jobs \ {w} : job'[k] = job[k]
    BY <1>0, <2>1, <2>2, SendsType
  <2>4. \A k \in Jobs \ {w} : ahead'[k] = ahead[k] \ {w}
    <3> DEFINE ok == TRUE
    <3>1. ok \in BOOLEAN /\ Sends(w, ok, call, served)
      BY <2>1
    <3> HIDE DEF ok
    <3> QED BY <1>0, <2>2, <3>1, SendsUndisturbed
  <2>5. UNCHANGED <<replay, initialized, inFlight>>
    BY <1>7 DEF NoReplayRows
  <2>6. ~Rewriter(w) /\ ~Rewriter(w)' /\ AppendsItself(w)'
    BY <1>0, <2>3 DEF Rewriter, AppendsItself, Loading
  <2>7. job'[w].stage \in Loading
    BY <2>3 DEF Loading
  <2> QED BY <1>0, <1>3, <2>3, <2>4, <2>5, <2>6, <2>7, OneMoves DEF At
<1> QED BY <1>4, <1>5, <1>6, <1>7 DEF ReplayLoaded

(* The rewrite starts over from a complete reading.                        *)
LEMMA RewriteCovers ==
  ASSUME IInv, UndisturbedIInv, NEW w \in Writes, At(w, "loadingTranscript"), BeginsRewrite(w),
         transcript' = transcript, ~faulty'
  PROVE  UndisturbedIInv'
<1>0. Writes \subseteq Jobs /\ w \in Jobs /\ ReplayTypeOK /\ epoch \in Nat /\ job[w] \in Calls
  BY DEF Jobs, IInv, ReplayTypeOK
<1> DEFINE call == [job[w] EXCEPT !.stage = "clearing", !.epoch = epoch + 1]
<1>1. PICK served \in BOOLEAN : Sends(w, TRUE, call, served)
  BY DEF BeginsRewrite
<1>2. call \in Calls /\ call.stage = "clearing" /\ call.epoch = epoch + 1
      /\ call.rows = job[w].rows
  <2> DEFINE e == epoch + 1
  <2>1. e \in Nat
    BY <1>0
  <2> HIDE DEF e
  <2>2. [job[w] EXCEPT !.stage = "clearing", !.epoch = e] \in Calls
        /\ [job[w] EXCEPT !.stage = "clearing", !.epoch = e].epoch = e
        /\ [job[w] EXCEPT !.stage = "clearing", !.epoch = e].stage = "clearing"
        /\ [job[w] EXCEPT !.stage = "clearing", !.epoch = e].rows = job[w].rows
    BY <1>0, <2>1 DEF Calls, Stages, Asking
  <2> QED BY <2>2 DEF e
<1> HIDE DEF call
<1>3. /\ job'[w].stage = "clearing" /\ job'[w].epoch = epoch + 1 /\ job'[w].rows = job[w].rows
      /\ \A k \in Jobs \ {w} : job'[k] = job[k]
  BY <1>0, <1>1, <1>2, SendsType
<1>4. \A k \in Jobs \ {w} : ahead'[k] = ahead[k] \ {w}
  <2> DEFINE ok == TRUE
  <2>1. ok \in BOOLEAN /\ Sends(w, ok, call, served)
    BY <1>1
  <2> HIDE DEF ok
  <2> QED BY <1>0, <1>2, <2>1, SendsUndisturbed
<1>5. epoch' = epoch + 1 /\ inFlight' = NoJob
  BY DEF BeginsRewrite, ClearReplayInitialization
<1>6. ReadingsAreComplete'
  <2>1. \A k \in Writes : ~At(k, "failed")' /\ (k \in transcript' \/ At(k, "new")')
    <3>1. ASSUME NEW k \in Writes PROVE ~At(k, "failed")' /\ (k \in transcript' \/ At(k, "new")')
      <4>1. job[k].stage # "failed" /\ (k \in transcript \/ job[k].stage = "new")
        BY DEF UndisturbedIInv, ReadingsAreComplete, At
      <4>2. CASE k = w
        BY <1>3, <4>1, <4>2 DEF At
      <4>3. CASE k # w
        BY <1>0, <1>3, <4>1, <4>3 DEF At
      <4> QED BY <4>2, <4>3
    <3> QED BY <3>1
  <2>2. ASSUME NEW v \in Writes, NEW r \in transcript, At(v, "loadingTranscript")', r \notin job'[v].rows
        PROVE  r \in Writes /\ At(r, "storing")' /\ v \in ahead'[r]
    <3>1. v # w /\ job'[v] = job[v]
      BY <1>0, <1>3, <2>2 DEF At
    <3>2. r \in Writes /\ At(r, "storing") /\ v \in ahead[r]
      BY <2>2, <3>1 DEF UndisturbedIInv, ReadingsAreComplete, At
    <3>3. r # w
      BY <3>2 DEF At
    <3> QED BY <1>0, <1>3, <1>4, <3>1, <3>2, <3>3 DEF At
  <2> QED BY <2>1, <2>2 DEF ReadingsAreComplete, UndisturbedIInv
<1>7. \A v \in Writes : job[v].epoch \in Nat /\ job[v].epoch <= epoch
  BY <1>0 DEF UndisturbedIInv, EpochsRise, ReplayTypeOK, Calls
<1>8. \A v \in Writes : job'[v].epoch <= epoch + 1 /\ (job'[v].epoch = epoch + 1 => v = w)
  BY <1>0, <1>3, <1>7
<1>9. EpochsRise'
  BY <1>5, <1>8 DEF EpochsRise, Rewriter
<1>10. RowsAreCovered'
  <2>1. ASSUME NEW r \in transcript PROVE Covered(r)'
    <3>1. CASE r \in job[w].rows
      <4>1. Rewriter(w)' /\ r \in job'[w].rows
        BY <1>3, <1>5, <3>1 DEF Rewriter
      <4> QED BY <4>1 DEF Covered
    <3>2. CASE r \notin job[w].rows
      <4>1. r \in Writes /\ At(r, "storing")
        BY <3>2 DEF UndisturbedIInv, ReadingsAreComplete
      <4>2. job'[r] = job[r]
        BY <1>0, <1>3, <4>1 DEF At
      <4>3. AppendsItself(r)'
        BY <4>1, <4>2 DEF AppendsItself, At
      <4> QED BY <4>3 DEF Covered
    <3> QED BY <3>1, <3>2
  <2>2. epoch' # 0
    BY <1>0, <1>5
  <2> QED BY <2>1, <2>2 DEF RowsAreCovered
<1> QED BY <1>6, <1>9, <1>10 DEF UndisturbedIInv

LEMMA TranscriptLoadedCovers ==
  ASSUME IInv, UndisturbedIInv, NEW w \in Writes, TranscriptLoaded(w), ~faulty'
  PROVE  UndisturbedIInv'
<1>0. /\ ReplayTypeOK /\ JoinersHaveAnOwner /\ job[w].stage = "loadingTranscript"
      /\ epoch \in Nat /\ job[w] \in Calls
      /\ transcript' = transcript /\ w \in transcript /\ job[w].epoch <= epoch
  BY DEF Jobs, IInv, TranscriptLoaded, At, ReplayTypeOK, UndisturbedIInv, ReadingsAreComplete,
         EpochsRise
<1>1. Initializing(w) /\ job[w].stage \in Loading /\ job[w].epoch \in Nat
  BY <1>0 DEF Initializing, Loading, Calls
<1>2. job[w].rows # {}
  <2>1. w \notin job[w].rows => At(w, "storing")
    BY <1>0 DEF UndisturbedIInv, ReadingsAreComplete, At
  <2> QED BY <1>0, <2>1 DEF At
<1>3. ~TranscriptLoadFails(w)
  BY RejectionsAreFaults DEF TranscriptLoadFails
<1>4. CASE NothingToBootstrap(w)
  <2>1. epoch # 0 /\ epoch' = epoch
    BY <1>0, <1>1, <1>2, <1>4 DEF NothingToBootstrap
  <2> QED BY <1>0, <1>1, <1>4, <2>1, SettlingCovers DEF NothingToBootstrap
<1>5. CASE BeginsRewrite(w)
  BY <1>0, <1>5, RewriteCovers DEF At
<1> QED BY <1>3, <1>4, <1>5 DEF TranscriptLoaded

LEMMA AppendAnsweredCovers ==
  ASSUME IInv, UndisturbedIInv, NEW w \in Writes, AppendAnswered(w), ~faulty'
  PROVE  UndisturbedIInv'
<1>0. /\ w \in Jobs /\ ReplayTypeOK /\ job[w].stage = "appending" /\ epoch \in Nat
      /\ UNCHANGED <<transcript, replay, inFlight, epoch>> /\ w \in transcript
  BY DEF Jobs, IInv, AppendAnswered, At, ReplayTypeOK, UndisturbedIInv, ReadingsAreComplete,
         database
<1>1. PICK ok \in BOOLEAN : Ends(w, ok, "done")
  BY DEF AppendAnswered
<1>2. "done" \in Stages /\ Call("done") \in Calls /\ Call("done").epoch = 0
  BY CallType DEF Stages
<1>3. job' \in [Jobs -> Calls] /\ job'[w].stage = "done" /\ \A k \in Jobs \ {w} : job'[k] = job[k]
  BY <1>0, <1>1, <1>2, EndsType
<1>4. job'[w] = Call("done") /\ \A k \in Jobs \ {w} : ahead'[k] = ahead[k] \ {w}
  BY <1>0, <1>1, <1>2, EndsUndisturbed
<1> HIDE DEF Call
<1>5. ~Rewriter(w) /\ ~Rewriter(w)' /\ ~AppendsItself(w)
  BY <1>0, <1>3 DEF Rewriter, AppendsItself, At, Loading
<1>6. inFlight # w \/ inFlight = NoJob
  BY <1>0 DEF UndisturbedIInv, EpochsRise, Loading
<1>7. epoch # 0
  BY <1>0 DEF UndisturbedIInv, RowsAreCovered, Loading
<1>8. job'[w].epoch <= epoch
  BY <1>0, <1>2, <1>4
<1> QED BY <1>0, <1>3, <1>4, <1>5, <1>6, <1>7, <1>8, OneMoves DEF At

(* A rewrite goes on with one more row.                                    *)
LEMMA NextRowCovers ==
  ASSUME IInv, UndisturbedIInv, NEW j \in Writes, NEW ok \in BOOLEAN, StoresNextRow(j, ok),
         job[j].stage \in {"clearing", "rewriting"}, UNCHANGED <<transcript, cache>>, ~faulty'
  PROVE  UndisturbedIInv'
<1>0. /\ j \in Jobs /\ ReplayTypeOK /\ epoch \in Nat /\ job[j] \in Calls
      /\ UNCHANGED <<transcript, initialized, inFlight, epoch>>
      /\ j \in transcript /\ job[j].epoch <= epoch
  BY DEF Jobs, IInv, At, ReplayTypeOK, UndisturbedIInv, ReadingsAreComplete, EpochsRise, cache
<1>1. PICK row \in job[j].rows, served \in BOOLEAN :
        /\ Sends(j, ok, [job[j] EXCEPT !.stage = "rewriting", !.rows = @ \ {row}], served)
        /\ replay' = With(replay, row, served)
  BY DEF StoresNextRow
<1> DEFINE call == [job[j] EXCEPT !.stage = "rewriting", !.rows = @ \ {row}]
<1>a. Sends(j, ok, call, served)
  BY <1>1
<1>2. call \in Calls /\ call.stage = "rewriting" /\ call.epoch = job[j].epoch
      /\ call.rows = job[j].rows \ {row}
  BY <1>0 DEF Calls, Stages, Asking
<1> HIDE DEF call
<1>3. /\ job' \in [Jobs -> Calls] /\ job'[j].stage = "rewriting" /\ job'[j].epoch = job[j].epoch
      /\ job'[j].rows = job[j].rows \ {row}
      /\ \A k \in Jobs \ {j} : job'[k] = job[k]
  BY <1>0, <1>2, <1>a, SendsType
<1>4. served /\ \A k \in Jobs \ {j} : ahead'[k] = ahead[k] \ {j}
  BY <1>0, <1>2, <1>a, SendsUndisturbed
<1>5. replay' = replay \union {row}
  BY <1>1, <1>4 DEF With
<1>6. (Rewriter(j)' <=> Rewriter(j)) /\ (AppendsItself(j)' <=> ~Rewriter(j)')
      /\ (AppendsItself(j) <=> ~Rewriter(j))
  BY <1>0, <1>3 DEF Rewriter, AppendsItself, At, Loading
<1>7. inFlight # j \/ inFlight = NoJob
  BY <1>0 DEF UndisturbedIInv, EpochsRise, Loading
<1>8. epoch # 0
  BY <1>0 DEF UndisturbedIInv, RowsAreCovered, Loading
<1>9. job[j].rows \subseteq job'[j].rows \union replay'
  BY <1>3, <1>5
<1> QED BY <1>0, <1>3, <1>4, <1>5, <1>6, <1>7, <1>8, <1>9, OneMoves DEF At

LEMMA RewriteEndsCovers ==
  ASSUME IInv, UndisturbedIInv, NEW j \in Writes, RewriteEnds(j), ~faulty'
  PROVE  UndisturbedIInv'
<1>0. /\ ReplayTypeOK /\ JoinersHaveAnOwner /\ job[j].stage = "rewriting" /\ job[j].rows = {}
      /\ UNCHANGED <<transcript, epoch>>
  BY DEF IInv, RewriteEnds, At
<1> DEFINE outcome == IF epoch = job[j].epoch THEN "bootstrapped" ELSE "empty"
<1>1. PICK ok \in BOOLEAN : Settles(j, ok, outcome, replay)
  BY DEF RewriteEnds
<1>2. Initializing(j) /\ (outcome = "bootstrapped" => Rewriter(j))
  BY <1>0 DEF Initializing, Rewriter
<1>3. epoch # 0
  BY <1>0 DEF UndisturbedIInv, RowsAreCovered, Loading
<1>4. outcome \in {"empty", "already-initialized", "bootstrapped"}
  OBVIOUS
<1> HIDE DEF outcome
<1> QED BY <1>0, <1>1, <1>2, <1>3, <1>4, SettlingCovers

(* Without a reset and without a failure only writes move.                 *)
LEMMA OnlyWritesMove ==
  ASSUME ReplayTypeOK, ReplayNext, Undisturbed'
  PROVE  \E w \in Writes : \/ Write(w) \/ StoreAnswered(w) \/ ReplayLoaded(w) \/ TranscriptLoaded(w)
                           \/ AppendAnswered(w) \/ ReplayCleared(w) \/ RewriteGoesOn(w)
                           \/ RewriteEnds(w)
<1>0. Jobs \ Writes = Compactions \union Rewinds \union Wipes /\ ~faulty'
  BY JobsAreDistinct DEF Jobs, Undisturbed
<1>1. ASSUME NEW j \in Jobs \ Writes, NEW ok \in BOOLEAN, NEW call \in Calls, NEW served \in BOOLEAN,
             Sends(j, ok, call, served), call.stage # "new"
      PROVE  FALSE
  BY <1>1, SendsType DEF Undisturbed, At
<1>2. ASSUME NEW j \in Jobs \ Writes, NEW ok \in BOOLEAN, NEW stage \in {"done", "failed"},
             Ends(j, ok, stage)
      PROVE  FALSE
  BY <1>2, EndsType DEF Undisturbed, At, Stages
<1>3. \A j \in Jobs : job[j] \in Calls
  BY DEF ReplayTypeOK
<1>4. \A j \in Jobs \ Writes, ok \in BOOLEAN : ~StoresNextRow(j, ok)
  <2>1. ASSUME NEW j \in Jobs \ Writes, NEW ok \in BOOLEAN, StoresNextRow(j, ok) PROVE FALSE
    <3>1. PICK row \in job[j].rows, served \in BOOLEAN :
            Sends(j, ok, [job[j] EXCEPT !.stage = "rewriting", !.rows = @ \ {row}], served)
      BY <2>1 DEF StoresNextRow
    <3>2. /\ [job[j] EXCEPT !.stage = "rewriting", !.rows = @ \ {row}] \in Calls
          /\ [job[j] EXCEPT !.stage = "rewriting", !.rows = @ \ {row}].stage # "new"
      BY <1>3 DEF Calls, Stages, Asking
    <3> QED BY <1>1, <3>1, <3>2
  <2> QED BY <2>1
<1>5. \A j \in Rewinds, ok \in BOOLEAN : ~RestoresNextRow(j, ok)
  <2>1. ASSUME NEW j \in Rewinds, NEW ok \in BOOLEAN, RestoresNextRow(j, ok) PROVE FALSE
    <3>0. j \in Jobs \ Writes
      BY <1>0
    <3>1. CASE job[j].rows = {}
      BY <1>2, <2>1, <3>0, <3>1 DEF RestoresNextRow
    <3>2. CASE job[j].rows # {}
      <4>1. PICK row \in job[j].rows, served \in BOOLEAN :
              Sends(j, ok, [job[j] EXCEPT !.stage = "restoring", !.rows = @ \ {row}], served)
        BY <2>1, <3>2 DEF RestoresNextRow
      <4>2. /\ [job[j] EXCEPT !.stage = "restoring", !.rows = @ \ {row}] \in Calls
            /\ [job[j] EXCEPT !.stage = "restoring", !.rows = @ \ {row}].stage # "new"
        BY <1>3, <3>0 DEF Calls, Stages, Asking
      <4> QED BY <1>1, <3>0, <4>1, <4>2
    <3> QED BY <3>1, <3>2
  <2> QED BY <2>1
<1>6. ~\E c \in Compactions : Compact(c)
  <2>1. ASSUME NEW c \in Compactions, Compact(c) PROVE FALSE
    <3>1. PICK served \in BOOLEAN : Sends(c, TRUE, [Call("clearing") EXCEPT !.rows = Summary], served)
      BY <2>1 DEF Compact
    <3>2. /\ [Call("clearing") EXCEPT !.rows = Summary] \in Calls
          /\ [Call("clearing") EXCEPT !.rows = Summary].stage # "new"
      BY DEF Call, Calls, Stages, Asking, Rows
    <3> QED BY <1>0, <1>1, <3>1, <3>2
  <2> QED BY <2>1
<1>7. ~\E r \in Rewinds : Rewind(r)
  <2>1. ASSUME NEW r \in Rewinds, Rewind(r) PROVE FALSE
    <3>1. PICK kept \in SUBSET transcript, deleted \in SUBSET {"transcript", "replay"} :
            Sends(r, TRUE, [Call("clearing") EXCEPT !.rows = kept], deleted = {"transcript", "replay"})
      BY <2>1 DEF Rewind
    <3>2. /\ [Call("clearing") EXCEPT !.rows = kept] \in Calls
          /\ [Call("clearing") EXCEPT !.rows = kept].stage # "new"
      BY DEF Call, Calls, Stages, Asking, ReplayTypeOK
    <3> DEFINE served == deleted = {"transcript", "replay"}
    <3>3. served \in BOOLEAN
      OBVIOUS
    <3>4. Sends(r, TRUE, [Call("clearing") EXCEPT !.rows = kept], served)
      BY <3>1
    <3> HIDE DEF served
    <3> QED BY <1>0, <1>1, <3>2, <3>3, <3>4
  <2> QED BY <2>1
<1>8. ~\E x \in Wipes : Wipe(x)
  <2>1. ASSUME NEW x \in Wipes, Wipe(x) PROVE FALSE
    <3>1. PICK served \in BOOLEAN : Sends(x, TRUE, Call("wiping"), served)
      BY <2>1 DEF Wipe
    <3>2. Call("wiping") \in Calls /\ Call("wiping").stage # "new"
      BY CallType DEF Stages, Asking
    <3> QED BY <1>0, <1>1, <3>1, <3>2
  <2> QED BY <2>1
<1>9. \A j \in Rewinds : ~Restore(j) /\ ~DeletionFails(j)
  BY <1>0, <1>2, <1>5 DEF Restore, DeletionFails
<1>10. \A j \in Wipes : ~ClearConversationReplayStateCache(j) /\ ~WipeFails(j)
  BY <1>0, <1>2 DEF ClearConversationReplayStateCache, WipeFails
<1>11. \A j \in Compactions : ~ReplayCleared(j) /\ ~ReplayClearFails(j) /\ ~RewriteGoesOn(j) /\ ~RewriteEnds(j)
  <2> TAKE j \in Compactions
  <2>1. j \in Jobs \ Writes
    BY <1>0
  <2> QED BY <1>2, <1>4, <2>1 DEF ReplayCleared, ReplayClearFails, RewriteGoesOn, RewriteEnds
<1>12. \A j \in Writes : ~ReplayClearFails(j)
  BY <1>0, RejectionsAreFaults DEF ReplayClearFails
<1> QED BY <1>6, <1>7, <1>8, <1>9, <1>10, <1>11, <1>12 DEF ReplayNext, Starts, Continues

(* What reaches the replay rows is inductive.                              *)
LEMMA InitReachIInv == ReplayInit => ReachIInv
<1> SUFFICES ASSUME ReplayInit PROVE UndisturbedIInv
  BY DEF ReachIInv, UndisturbedIInv
<1>1. "new" \in Stages
  BY DEF Stages
<1>2. \A j \in Jobs : job[j].stage = "new" /\ job[j].epoch = 0
  BY <1>1, CallType DEF ReplayInit
<1>3. Writes \subseteq Jobs
  BY DEF Jobs
<1>4. ReadingsAreComplete
  BY <1>2, <1>3 DEF ReadingsAreComplete, At, ReplayInit
<1>5. EpochsRise
  BY <1>2, <1>3 DEF EpochsRise, Rewriter, ReplayInit
<1>6. RowsAreCovered
  BY <1>2, <1>3 DEF RowsAreCovered, At, ReplayInit
<1> QED BY <1>4, <1>5, <1>6 DEF UndisturbedIInv

LEMMA StepReachIInv == IInv /\ ReachIInv /\ [ReplayNext]_replayVars => ReachIInv'
<1> SUFFICES ASSUME IInv, ReachIInv, [ReplayNext]_replayVars, Undisturbed' PROVE UndisturbedIInv'
  BY DEF ReachIInv, UndisturbedIInv
<1>1. CASE UNCHANGED replayVars
  <2>1. UNCHANGED <<transcript, replay, initialized, inFlight, epoch, job, ahead, faulty>>
    BY <1>1 DEF replayVars, database, cache, calls
  <2>2. Undisturbed
    BY <2>1 DEF Undisturbed, At
  <2>3. UndisturbedIInv
    BY <2>2 DEF ReachIInv, UndisturbedIInv
  <2>4. ReadingsAreComplete'
    BY <2>1, <2>3 DEF UndisturbedIInv, ReadingsAreComplete, At
  <2>5. EpochsRise'
    BY <2>1, <2>3 DEF UndisturbedIInv, EpochsRise, Rewriter
  <2>6. RowsAreCovered'
    BY <2>1, <2>3 DEF UndisturbedIInv, RowsAreCovered, Covered, AppendsItself, Rewriter, At
  <2> QED BY <2>4, <2>5, <2>6 DEF UndisturbedIInv
<1>2. CASE ReplayNext
  <2>0. ReplayTypeOK /\ ~faulty' /\ Writes \subseteq Jobs
    BY DEF IInv, Undisturbed, Jobs
  <2>1. PICK w \in Writes : \/ Write(w) \/ StoreAnswered(w) \/ ReplayLoaded(w) \/ TranscriptLoaded(w)
                            \/ AppendAnswered(w) \/ ReplayCleared(w) \/ RewriteGoesOn(w)
                            \/ RewriteEnds(w)
    BY <1>2, <2>0, OnlyWritesMove
  <2>2. ~faulty
    <3>1. ASSUME NEW ok, NEW next, NEW senders, NEW served, Step(w, ok, next, senders, served)
          PROVE  ~faulty
      BY <2>0, <3>1 DEF Step
    <3>2. ~faulty
      BY <2>1, <3>1 DEF Write, StoreAnswered, AppendsAtOnce, Joins, StartsInitialization,
         ReplayLoaded, ReplayLoadFails, ReplayLoadIsStale, ReplayRowsExist, NoReplayRows,
         TranscriptLoaded, TranscriptLoadFails, NothingToBootstrap, BeginsRewrite, AppendAnswered,
         ReplayCleared, RewriteGoesOn, RewriteEnds, StoresNextRow, Sends, Ends, Settles
    <3> QED BY <3>2
  <2>3. Undisturbed
    <3>1. Form
      BY <1>2, StepForms DEF IInv
    <3>2. ASSUME NEW j \in Jobs \ Writes PROVE At(j, "new")
      <4>1. job'[j].stage = "new"
        BY <3>2 DEF Undisturbed, At
      <4>2. job'[j] = job[j]
        BY <3>1, <3>2, <4>1, JobsAreDistinct DEF Form, Quiet, Resets, Joining, Starting, Settling,
           Settled, Forgets, Moves, JoinedTo, Jobs
      <4> QED BY <4>1, <4>2 DEF At
    <3> QED BY <2>2, <3>2 DEF Undisturbed
  <2>4. UndisturbedIInv
    BY <2>3 DEF ReachIInv, UndisturbedIInv
  <2>5. CASE ReplayCleared(w)
    BY <2>0, <2>4, <2>5, NextRowCovers DEF ReplayCleared, At
  <2>6. CASE RewriteGoesOn(w)
    BY <2>0, <2>4, <2>6, NextRowCovers DEF RewriteGoesOn, At
  <2> QED BY <2>0, <2>1, <2>4, <2>5, <2>6, WriteCovers, StoreAnsweredCovers, ReplayLoadedCovers,
             TranscriptLoadedCovers, AppendAnsweredCovers, RewriteEndsCovers
<1> QED BY <1>1, <1>2

(* However many writes bootstrap, join, rewrite and append at once: when   *)
(* nothing is under way, nothing failed and nothing was reset, every entry *)
(* of the transcript is among the replay rows.                             *)
THEOREM EntriesReachReplayHolds == ReplaySpec => []EntriesReachReplay
<1>1. IInv /\ ReachIInv => EntriesReachReplay
  <2> SUFFICES ASSUME IInv, ReachIInv, Undisturbed, Outstanding = {}, NEW w \in Writes, At(w, "done")
               PROVE  transcript \subseteq replay
    BY DEF EntriesReachReplay
  <2>1. RowsAreCovered /\ JoinersHaveAnOwner
    BY DEF ReachIInv, IInv
  <2>2. \A v \in Writes : v \in Jobs /\ job[v].stage \notin Asking
    BY DEF Outstanding, Jobs
  <2>3. \A v \in Writes : ~Rewriter(v) /\ ~Initializing(v)
    BY <2>2 DEF Rewriter, Initializing, Asking
  <2>4. epoch # 0
    BY <2>1 DEF RowsAreCovered, At, Loading
  <2>5. \A r : ~AppendsItself(r)
    BY <2>1, <2>2, <2>3 DEF AppendsItself, JoinersHaveAnOwner, Initializing, Asking, At
  <2> QED BY <2>1, <2>3, <2>4, <2>5 DEF RowsAreCovered, Covered
<1>2. IInv /\ ReachIInv /\ [ReplayNext]_replayVars => (IInv /\ ReachIInv)'
  BY StepIInv, StepReachIInv
<1> QED BY InitIInv, InitReachIInv, <1>1, <1>2, PTL DEF ReplaySpec
=============================================================================

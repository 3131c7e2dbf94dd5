-------------------------- MODULE ChatStream_proofs --------------------------
(***************************************************************************)
(* Proofs about the chat stream of the dashboard's renderer, for any number*)
(* of conversations, turns, chunks and tool rows.  HomeIInv places what a  *)
(* workspace shows, WorkIInv adds what its phase and its latch stand for,  *)
(* KeptIInv how much of an answer its rows hold.                           *)
(***************************************************************************)
EXTENDS ChatStream, SequenceTheorems, FiniteSetTheorems, WellFoundedInduction, TLAPS

-----------------------------------------------------------------------------
(* What is always so.                                                      *)

Places == Conversations \union {NoConversation}
Lives == [home : Places, stage : Stages, age : Nat, said : 0..MaxChunks,
          cut : BOOLEAN, tools : Nat]

ChatTypes ==
  /\ foreground \in Places /\ session \in Places
  /\ spaces \in [Places -> Workspaces]
  /\ turnConversation \in [Turns -> Places]
  /\ outbox \in [Conversations -> {"none", "asked", "shown"}]
  /\ turns \in [Turns -> Lives]
  /\ kept \in [Turns -> {"none", "cut", "whole"}]
  /\ IsFiniteSet(Born)

(* Every turn has a conversation, which the store knows when the turn ends.*)
HomesAreKnown ==
  \A t \in Turns :
    /\ t \in Born => Home(t) \in Conversations
    /\ turnConversation[t] = NoConversation \/ (t \in Born /\ turnConversation[t] = Home(t))
    /\ Over(t) => turnConversation[t] = Home(t)

(* What a workspace shows of turns is of its own.                          *)
Of(s, t) == s.turn = t \/ \E i \in DOMAIN s.rows : s.rows[i].turn = t
MentionsAreHome == \A c \in Places, t \in Turns : Of(spaces[c], t) => t \in Born /\ Home(t) = c

HomeIInv == ChatTypes /\ HomesAreKnown /\ MentionsAreHome

-----------------------------------------------------------------------------
(* Rows.                                                                   *)

LEMMA AddingRow ==
  ASSUME NEW s \in Workspaces, NEW row \in RowRecords
  PROVE  /\ AddRow(s, row) \in Workspaces
         /\ AddRow(s, row).rows = Append(s.rows, row)
         /\ AddRow(s, row).turn = s.turn /\ AddRow(s, row).phase = s.phase
         /\ AddRow(s, row).sending = s.sending
<1>1. s.rows \in Seq(RowRecords) /\ Append(s.rows, row) \in Seq(RowRecords)
  BY DEF Workspaces
<1>. QED
  BY <1>1 DEF AddRow, Workspaces

LEMMA AppendedRows ==
  ASSUME NEW rows \in Seq(RowRecords), NEW row \in RowRecords
  PROVE  /\ Append(rows, row) \in Seq(RowRecords)
         /\ Len(Append(rows, row)) = Len(rows) + 1 /\ Len(rows) \in Nat
         /\ DOMAIN Append(rows, row) = 1..Len(rows) + 1 /\ DOMAIN rows = 1..Len(rows)
         /\ Append(rows, row)[Len(rows) + 1] = row
         /\ \A i \in DOMAIN rows : Append(rows, row)[i] = rows[i]
         /\ Append(rows, row) # <<>>
OBVIOUS

LEMMA RowKindsAreRows ==
  ASSUME NEW t \in Turns \union {NoTurn}
  PROVE  /\ UserRow(t) \in RowRecords /\ ToolRow(t) \in RowRecords /\ ErrorRow(t) \in RowRecords
         /\ UserRow(t).turn = t /\ ToolRow(t).turn = t /\ ErrorRow(t).turn = t
         /\ UserRow(t).kind = "user" /\ ToolRow(t).kind = "tool" /\ ErrorRow(t).kind = "error"
         /\ ~ToolRow(t).open
BY StreamBounds DEF UserRow, ToolRow, ErrorRow, RowRecords, RowKinds

LEMMA TextIsARow ==
  ASSUME NEW t \in Turns \union {NoTurn}, NEW n \in 0..MaxChunks
  PROVE  /\ TextRow(t, n, TRUE) \in RowRecords /\ TextRow(t, n, FALSE) \in RowRecords
         /\ TextRow(t, n, TRUE).turn = t /\ TextRow(t, n, FALSE).turn = t
         /\ TextRow(t, n, TRUE).kind = "text" /\ TextRow(t, n, FALSE).kind = "text"
         /\ TextRow(t, n, TRUE).size = n /\ TextRow(t, n, TRUE).open
BY DEF TextRow, RowRecords, RowKinds

LEMMA ZeroAndOne == 0 \in 0..MaxChunks /\ 1 \in 0..MaxChunks
BY StreamBounds

LEMMA MentionsOfAdded ==
  ASSUME NEW s \in Workspaces, NEW row \in RowRecords, NEW w \in Workspaces,
         w.rows = Append(s.rows, row), NEW u \in Turns, Of(w, u)
  PROVE  w.turn = u \/ row.turn = u \/ Of(s, u)
<1>1. s.rows \in Seq(RowRecords)
  BY DEF Workspaces
<1>. QED
  BY <1>1, AppendedRows DEF Of

LEMMA PhasesAre ==
  /\ {"streaming", "tool-call", "tool-output", "awaiting-first-chunk"} \subseteq StreamPhases
  /\ "complete" \in StreamPhases /\ "error" \in StreamPhases /\ "idle" \in StreamPhases
  /\ "streaming" \in StreamPhases /\ "tool-call" \in StreamPhases
  /\ "tool-output" \in StreamPhases /\ "awaiting-first-chunk" \in StreamPhases
BY DEF StreamPhases, BusyPhases, Terminal

TracksAs(w, s, t, p) ==
  w \in Workspaces /\ w.rows = s.rows /\ w.sending = s.sending /\ w.turn = t /\ w.phase = p

LEMMA TrackingIn ==
  ASSUME NEW s \in Workspaces, NEW t \in Turns
  PROVE  /\ TracksAs(TrackedIn(s, t, "streaming"), s, t, "streaming")
         /\ TracksAs(TrackedIn(s, t, "tool-call"), s, t, "tool-call")
         /\ TracksAs(TrackedIn(s, t, "tool-output"), s, t, "tool-output")
         /\ TracksAs(TrackedIn(s, t, "complete"), s, t, "complete")
         /\ TracksAs(TrackedIn(s, t, "error"), s, t, "error")
         /\ TracksAs(TrackedIn(s, t, "awaiting-first-chunk"), s, t, "awaiting-first-chunk")
BY PhasesAre DEF TrackedIn, Workspaces, TracksAs

UnlatchedAs(w, s, t, p) ==
  w \in Workspaces /\ w.rows = s.rows /\ w.sending = FALSE /\ w.turn = t /\ w.phase = p

LEMMA TrackingUnlatched ==
  ASSUME NEW s \in Workspaces, NEW t \in Turns
  PROVE  /\ UnlatchedAs(TrackedIn([s EXCEPT !.sending = FALSE], t, "streaming"), s, t, "streaming")
         /\ UnlatchedAs(TrackedIn([s EXCEPT !.sending = FALSE], t, "tool-output"), s, t, "tool-output")
         /\ UnlatchedAs(TrackedIn([s EXCEPT !.sending = FALSE], t, "complete"), s, t, "complete")
         /\ UnlatchedAs(TrackedIn([s EXCEPT !.sending = FALSE], t, "error"), s, t, "error")
BY PhasesAre DEF TrackedIn, Workspaces, UnlatchedAs

LEMMA Tracking ==
  ASSUME NEW s \in Workspaces, NEW t \in Turns
  PROVE  /\ Tracked(s, t) \in Workspaces
         /\ Tracked(s, t).rows = s.rows
         /\ Tracked(s, t).sending = s.sending
         /\ Tracked(s, t).turn = t /\ Tracked(s, t).phase = s.phase
BY DEF Tracked, Workspaces

(* The last row of text of a turn: a set of indexes has a largest one.     *)
LEMMA LargestIndex ==
  ASSUME NEW n \in Nat, NEW S, S \subseteq 1..n, S # {}
  PROVE  \E m \in S : \A k \in S : k <= m
<1>. DEFINE T == {n - k : k \in S}
            R == OpToRel(<, Nat)
<1>1. T \subseteq Nat /\ T # {}
  <2>1. \A k \in S : n - k \in Nat
    OBVIOUS
  <2>2. \A y \in T : \E k \in S : y = n - k
    BY Zenon
  <2>3. T # {}
    BY Zenon
  <2>. QED
    BY <2>1, <2>2, <2>3, Zenon
<1>2. IsWellFoundedOn(R, Nat)
  BY NatLessThanWellFounded
<1>3. \E x \in T : \A y \in T : ~(<<y, x>> \in R)
  <2>. HIDE DEF T, R
  <2>. QED
    BY <1>1, <1>2, WFMin
<1>4. PICK x \in T : \A y \in T : ~(<<y, x>> \in R)
  BY <1>3
<1>5. \A y \in T : ~(y < x)
  BY <1>1, <1>4 DEF OpToRel
<1>6. PICK m \in S : x = n - m
  BY <1>4, Zenon
<1>7. \A k \in S : k <= m
  <2>1. SUFFICES ASSUME NEW k \in S PROVE k <= m
    OBVIOUS
  <2>2. n - k \in T
    OBVIOUS
  <2>3. ~(n - k < n - m)
    BY <1>5, <1>6, <2>2
  <2>4. k \in 1..n /\ m \in 1..n
    OBVIOUS
  <2>. QED
    BY <2>3, <2>4
<1>. QED
  BY <1>7

LEMMA LastTextRowIsLast ==
  ASSUME NEW s \in Workspaces, NEW t
  PROVE  /\ LastTextRow(s, t) \in Nat
         /\ LastTextRow(s, t) = 0 <=> TextRowsOf(s, t) = {}
         /\ LastTextRow(s, t) # 0 => /\ LastTextRow(s, t) \in TextRowsOf(s, t)
                                     /\ \A j \in TextRowsOf(s, t) : j <= LastTextRow(s, t)
<1>1. s.rows \in Seq(RowRecords) /\ Len(s.rows) \in Nat
  BY DEF Workspaces
<1>2. TextRowsOf(s, t) \subseteq 1..Len(s.rows)
  BY <1>1 DEF TextRowsOf
<1>3. CASE TextRowsOf(s, t) = {}
  BY <1>3 DEF LastTextRow
<1>4. CASE TextRowsOf(s, t) # {}
  <2>1. \E m \in TextRowsOf(s, t) : \A k \in TextRowsOf(s, t) : k <= m
    BY <1>1, <1>2, <1>4, LargestIndex
  <2>2. /\ LastTextRow(s, t) \in TextRowsOf(s, t)
        /\ \A j \in TextRowsOf(s, t) : j <= LastTextRow(s, t)
    BY <1>4, <2>1 DEF LastTextRow
  <2>. QED
    BY <1>2, <1>4, <2>2
<1>. QED
  BY <1>3, <1>4

-----------------------------------------------------------------------------
(* What the handlers do to a workspace.                                    *)

LEMMA ThoughtDoes ==
  ASSUME NEW s \in Workspaces, NEW t \in Turns
  PROVE  /\ ShowsThought(s, t) \in Workspaces
         /\ ShowsThought(s, t).turn = t /\ ShowsThought(s, t).phase = s.phase
         /\ ShowsThought(s, t).sending = s.sending
         /\ ShowsThought(s, t).rows = IF LastTextRow(s, t) # 0 THEN s.rows
                                      ELSE Append(s.rows, TextRow(t, 0, TRUE))
<1>1. TextRow(t, 0, TRUE) \in RowRecords
  BY TextIsARow, ZeroAndOne
<1>2. CASE LastTextRow(s, t) # 0
  BY <1>2, Tracking DEF ShowsThought
<1>3. CASE LastTextRow(s, t) = 0
  <2>1. PICK w \in Workspaces : /\ w = AddRow(s, TextRow(t, 0, TRUE))
                                /\ w.rows = Append(s.rows, TextRow(t, 0, TRUE))
                                /\ w.phase = s.phase /\ w.sending = s.sending
    BY <1>1, AddingRow
  <2>. QED
    BY <1>3, <2>1, Tracking DEF ShowsThought
<1>. QED
  BY <1>2, <1>3

(* A row is replaced by one of the same kind and turn.                     *)
Recast(rows, i, row) ==
  /\ row \in RowRecords /\ row.kind = rows[i].kind /\ row.turn = rows[i].turn

LEMMA Recasting ==
  ASSUME NEW s \in Workspaces, NEW i \in DOMAIN s.rows, NEW row, Recast(s.rows, i, row)
  PROVE  /\ [s EXCEPT !.rows = [s.rows EXCEPT ![i] = row]] \in Workspaces
         /\ [s.rows EXCEPT ![i] = row] \in Seq(RowRecords)
         /\ DOMAIN [s.rows EXCEPT ![i] = row] = DOMAIN s.rows
         /\ Len([s.rows EXCEPT ![i] = row]) = Len(s.rows)
         /\ [s.rows EXCEPT ![i] = row][i] = row
         /\ \A k \in DOMAIN s.rows \ {i} : [s.rows EXCEPT ![i] = row][k] = s.rows[k]
<1>1. s.rows \in Seq(RowRecords) /\ row \in RowRecords
  BY DEF Workspaces, Recast
<1>2. [s.rows EXCEPT ![i] = row] \in Seq(RowRecords)
  BY <1>1
<1>3. /\ DOMAIN [s.rows EXCEPT ![i] = row] = DOMAIN s.rows
      /\ Len([s.rows EXCEPT ![i] = row]) = Len(s.rows)
      /\ [s.rows EXCEPT ![i] = row][i] = row
      /\ \A k \in DOMAIN s.rows \ {i} : [s.rows EXCEPT ![i] = row][k] = s.rows[k]
  BY <1>1
<1>4. [s EXCEPT !.rows = [s.rows EXCEPT ![i] = row]] \in Workspaces
  BY <1>2 DEF Workspaces
<1>. QED
  BY <1>2, <1>3, <1>4

(* The last row with one more chunk.                                       *)
Grown(s, row) ==
  LET n == Len(s.rows)
  IN /\ n \in DOMAIN s.rows /\ Recast(s.rows, n, row)
     /\ row.open = s.rows[n].open
     /\ row.size = IF s.rows[n].size < MaxChunks THEN s.rows[n].size + 1 ELSE s.rows[n].size

LEMMA ChunkDoes ==
  ASSUME NEW s \in Workspaces, NEW t \in Turns
  PROVE  /\ ShowsChunk(s, t) \in Workspaces
         /\ ShowsChunk(s, t).turn = t /\ ShowsChunk(s, t).phase = "streaming"
         /\ ~ShowsChunk(s, t).sending
         /\ Appends(s, t) => \E row \in RowRecords :
              /\ Grown(s, row)
              /\ ShowsChunk(s, t).rows = [s.rows EXCEPT ![Len(s.rows)] = row]
         /\ ~Appends(s, t) => ShowsChunk(s, t).rows = Append(s.rows, TextRow(t, 1, TRUE))
<1>. DEFINE n == Len(s.rows)
            size == IF s.rows[n].size < MaxChunks THEN s.rows[n].size + 1 ELSE s.rows[n].size
            row == [s.rows[n] EXCEPT !.size = size]
<1>0. s.rows \in Seq(RowRecords)
  BY DEF Workspaces
<1>1. CASE Appends(s, t)
  <2>1. n \in DOMAIN s.rows /\ s.rows[n] \in RowRecords
    BY <1>0, <1>1 DEF Appends, HoldsPlaceholder, HasRows
  <2>2. s.rows[n].size \in 0..MaxChunks
    BY <2>1 DEF RowRecords
  <2>3. size \in 0..MaxChunks
    BY <2>2, StreamBounds
  <2>4. /\ row \in RowRecords /\ row.kind = s.rows[n].kind /\ row.turn = s.rows[n].turn
        /\ row.open = s.rows[n].open /\ row.size = size
    <3>. HIDE DEF size
    <3>. QED
      BY <2>1, <2>3 DEF RowRecords
  <2>5. [s EXCEPT !.rows[Len(s.rows)].size = IF @ < MaxChunks THEN @ + 1 ELSE @]
          = [s EXCEPT !.rows = [s.rows EXCEPT ![n] = row]]
    OBVIOUS
  <2>6. PICK w : w = [s EXCEPT !.rows = [s.rows EXCEPT ![n] = row]]
    OBVIOUS
  <2>7. WithChunk(s, t) = w
    BY <1>1, <2>5, <2>6 DEF WithChunk
  <2>8. /\ w \in Workspaces /\ w.rows = [s.rows EXCEPT ![n] = row]
    <3>. HIDE DEF row
    <3>1. Recast(s.rows, n, row)
      BY <2>4 DEF Recast
    <3>2. w \in Workspaces
      BY <2>1, <2>6, <3>1, Recasting
    <3>. QED
      BY <2>6, <3>2 DEF Workspaces
  <2>9. /\ ShowsChunk(s, t) \in Workspaces /\ ShowsChunk(s, t).rows = w.rows
        /\ ShowsChunk(s, t).turn = t /\ ShowsChunk(s, t).phase = "streaming"
        /\ ~ShowsChunk(s, t).sending
    <3>1. ShowsChunk(s, t) = TrackedIn([w EXCEPT !.sending = FALSE], t, "streaming")
      BY <2>7 DEF ShowsChunk
    <3>2. UnlatchedAs(ShowsChunk(s, t), w, t, "streaming")
      BY <2>8, <3>1, TrackingUnlatched
    <3>. QED
      BY <3>2 DEF UnlatchedAs
  <2>. QED
    <3>. HIDE DEF row, size
    <3>1. Recast(s.rows, n, row)
      BY <2>4 DEF Recast
    <3>2. Grown(s, row)
      BY <2>1, <2>4, <3>1 DEF Grown, size
    <3>. QED
      BY <1>1, <2>4, <2>8, <2>9, <3>2
<1>2. CASE ~Appends(s, t)
  <2>1. TextRow(t, 1, TRUE) \in RowRecords
    BY TextIsARow, ZeroAndOne
  <2>2. PICK w \in Workspaces : w = AddRow(s, TextRow(t, 1, TRUE))
                                /\ w.rows = Append(s.rows, TextRow(t, 1, TRUE))
    BY <2>1, AddingRow
  <2>3. ShowsChunk(s, t) = TrackedIn([w EXCEPT !.sending = FALSE], t, "streaming")
    BY <1>2, <2>2 DEF ShowsChunk, WithChunk
  <2>4. UnlatchedAs(ShowsChunk(s, t), w, t, "streaming")
    BY <2>3, TrackingUnlatched
  <2>. QED
    BY <1>2, <2>2, <2>4 DEF UnlatchedAs
<1>. QED
  BY <1>1, <1>2

ShowsTool(s, t, w) ==
  \/ \E skipped \in BOOLEAN : w = ShowsCall(s, t, skipped)
  \/ w = ShowsOutput(s, t) \/ w = ShowsBundle(s, t) \/ w = ShowsSearch(s, t)

LEMMA ToolRowDoes ==
  ASSUME NEW s \in Workspaces, NEW t \in Turns, NEW w, ShowsTool(s, t, w)
  PROVE  /\ w \in Workspaces /\ w.turn = t /\ w.phase \in {"tool-call", "tool-output"}
         /\ w.rows = Append(s.rows, ToolRow(t))
<1>1. ToolRow(t) \in RowRecords
  BY RowKindsAreRows
<1>2. PICK a \in Workspaces : /\ a = AddRow(s, ToolRow(t))
                              /\ a.rows = Append(s.rows, ToolRow(t))
  BY <1>1, AddingRow
<1>3. CASE \E skipped \in BOOLEAN : w = ShowsCall(s, t, skipped)
  <2>0. PICK skipped \in BOOLEAN : w = ShowsCall(s, t, skipped)
    BY <1>3
  <2>1. PICK b \in BOOLEAN : b = (a.sending /\ skipped)
    BY DEF Workspaces
  <2>2. w = TrackedIn([a EXCEPT !.sending = b], t, "tool-call")
    BY <1>2, <2>0, <2>1 DEF ShowsCall
  <2>3. w \in Workspaces /\ w.rows = a.rows /\ w.turn = t /\ w.phase = "tool-call"
    BY <2>2, PhasesAre DEF TrackedIn, Workspaces
  <2>. QED
    BY <1>2, <2>3
<1>4. CASE w = ShowsOutput(s, t)
  <2>1. w = TrackedIn([a EXCEPT !.sending = FALSE], t, "tool-output")
    BY <1>2, <1>4 DEF ShowsOutput
  <2>2. UnlatchedAs(w, a, t, "tool-output")
    BY <2>1, TrackingUnlatched
  <2>. QED
    BY <1>2, <2>2 DEF UnlatchedAs
<1>5. CASE w = ShowsBundle(s, t) \/ w = ShowsSearch(s, t)
  <2>1. TracksAs(w, a, t, "tool-call")
    BY <1>2, <1>5, TrackingIn DEF ShowsBundle, ShowsSearch
  <2>. QED
    BY <1>2, <2>1 DEF TracksAs
<1>. QED
  BY <1>3, <1>4, <1>5 DEF ShowsTool

LEMMA ErrorDoes ==
  ASSUME NEW s \in Workspaces, NEW t \in Turns
  PROVE  /\ ShowsError(s, t) \in Workspaces /\ ShowsError(s, t).turn = t
         /\ ShowsError(s, t).phase = "error" /\ ~ShowsError(s, t).sending
         /\ ShowsError(s, t).rows = Append(s.rows, ErrorRow(t))
<1>1. ErrorRow(t) \in RowRecords
  BY RowKindsAreRows
<1>2. PICK a \in Workspaces : /\ a = AddRow(s, ErrorRow(t))
                              /\ a.rows = Append(s.rows, ErrorRow(t))
  BY <1>1, AddingRow
<1>3. ShowsError(s, t) = TrackedIn([a EXCEPT !.sending = FALSE], t, "error")
  BY <1>2 DEF ShowsError
<1>4. UnlatchedAs(ShowsError(s, t), a, t, "error")
  BY <1>3, TrackingUnlatched
<1>. QED
  BY <1>2, <1>4 DEF UnlatchedAs

(* The late events: the latch goes down with the turn, or neither changes. *)
LateOn(s, w) ==
  \/ s.sending /\ w.phase = "complete" /\ ~w.sending
  \/ w.phase = s.phase /\ w.sending = s.sending

LEMMA LateDoes ==
  ASSUME NEW s \in Workspaces, NEW t \in Turns, NEW w,
         w = CountsTokens(s, t) \/ w = StoresMemory(s, t)
  PROVE  /\ w \in Workspaces /\ w.turn = t /\ w.rows = s.rows
         /\ LateOn(s, w)
         /\ s.sending /\ s.phase = "awaiting-first-chunk" => w.phase = "complete"
<1>1. \/ s.sending /\ w = TrackedIn([s EXCEPT !.sending = FALSE], t, "complete")
      \/ w = Tracked(s, t) /\ ~(s.sending /\ s.phase = "awaiting-first-chunk")
  BY DEF CountsTokens, StoresMemory
<1>2. CASE s.sending /\ w = TrackedIn([s EXCEPT !.sending = FALSE], t, "complete")
  <2>1. UnlatchedAs(w, s, t, "complete")
    BY <1>2, TrackingUnlatched
  <2>. QED
    BY <1>2, <2>1 DEF UnlatchedAs, LateOn
<1>3. CASE w = Tracked(s, t) /\ ~(s.sending /\ s.phase = "awaiting-first-chunk")
  BY <1>3, Tracking DEF LateOn
<1>. QED
  BY <1>1, <1>2, <1>3

(* The mentions of a completed turn's rows.                                *)
LEMMA CompletedDoes ==
  ASSUME NEW s \in Workspaces, NEW t \in Turns, NEW final \in 0..MaxChunks
  PROVE  /\ Completed(s, t, final) \in Workspaces /\ Completed(s, t, final).turn = t
         /\ Completed(s, t, final).phase = "complete" /\ ~Completed(s, t, final).sending
         /\ \A u \in Turns : Of(Completed(s, t, final), u) => u = t \/ Of(s, u)
<1>. DEFINE i == LastTextRow(s, t)
            size == IF s.rows[i].size = 0 /\ final # 0 THEN final ELSE s.rows[i].size
            row == [s.rows[i] EXCEPT !.open = FALSE, !.size = size]
<1>0. s.rows \in Seq(RowRecords)
  BY DEF Workspaces
<1>1. PICK shown \in Workspaces :
        /\ Completed(s, t, final) = TrackedIn([shown EXCEPT !.sending = FALSE], t, "complete")
        /\ \A u \in Turns : (\E k \in DOMAIN shown.rows : shown.rows[k].turn = u) => u = t \/ Of(s, u)
  <2>1. CASE i # 0 /\ s.rows[i].open
    <3>1. i \in DOMAIN s.rows
      BY <2>1, LastTextRowIsLast DEF TextRowsOf
    <3>2. s.rows[i] \in RowRecords
      BY <1>0, <3>1
    <3>3. size \in 0..MaxChunks
      BY <3>2 DEF RowRecords
    <3>4. row \in RowRecords /\ row.kind = s.rows[i].kind /\ row.turn = s.rows[i].turn
      <4>. HIDE DEF size
      <4>. QED
        BY <3>2, <3>3 DEF RowRecords
    <3>5. [s EXCEPT !.rows[i].open = FALSE,
                    !.rows[i].size = IF @ = 0 /\ final # 0 THEN final ELSE @]
            = [s EXCEPT !.rows = [s.rows EXCEPT ![i] = row]]
      <4>. HIDE DEF i
      <4>1. s.rows[i] \in [kind : RowKinds, turn : Turns \union {NoTurn}, size : 0..MaxChunks, open : BOOLEAN]
        BY <3>2 DEF RowRecords
      <4>. QED
        BY <1>0, <3>1, <4>1 DEF Workspaces
    <3>6. PICK w : w = [s EXCEPT !.rows = [s.rows EXCEPT ![i] = row]]
      OBVIOUS
    <3>7. /\ w \in Workspaces /\ w.rows = [s.rows EXCEPT ![i] = row]
          /\ DOMAIN w.rows = DOMAIN s.rows /\ w.rows[i] = row
          /\ \A k \in DOMAIN s.rows \ {i} : w.rows[k] = s.rows[k]
      <4>. HIDE DEF row, i
      <4>1. Recast(s.rows, i, row)
        BY <3>4 DEF Recast
      <4>2. w \in Workspaces /\ w.rows = [s.rows EXCEPT ![i] = row]
        BY <3>1, <3>6, <4>1, Recasting DEF Workspaces
      <4>. QED
        BY <3>1, <4>1, <4>2, Recasting
    <3>8. Completed(s, t, final) = TrackedIn([w EXCEPT !.sending = FALSE], t, "complete")
      BY <2>1, <3>5, <3>6 DEF Completed
    <3>9. \A u \in Turns : (\E k \in DOMAIN w.rows : w.rows[k].turn = u) => Of(s, u)
      <4>. HIDE DEF row, i
      <4>. QED
        BY <3>1, <3>4, <3>7 DEF Of
    <3>. QED
      BY <3>7, <3>8, <3>9
  <2>2. CASE ~(i # 0 /\ s.rows[i].open) /\ final # 0
    <3>1. TextRow(t, final, FALSE) \in RowRecords /\ TextRow(t, final, FALSE).turn = t
      BY TextIsARow
    <3>2. PICK w \in Workspaces : w = AddRow(s, TextRow(t, final, FALSE))
                                  /\ w.rows = Append(s.rows, TextRow(t, final, FALSE))
      BY <3>1, AddingRow
    <3>3. Completed(s, t, final) = TrackedIn([w EXCEPT !.sending = FALSE], t, "complete")
      BY <2>2, <3>2 DEF Completed
    <3>4. \A u \in Turns : (\E k \in DOMAIN w.rows : w.rows[k].turn = u) => u = t \/ Of(s, u)
      <4>1. PICK added \in RowRecords : added = TextRow(t, final, FALSE) /\ added.turn = t
        BY <3>1
      <4>2. w.rows = Append(s.rows, added)
        BY <3>2, <4>1
      <4>3. SUFFICES ASSUME NEW u \in Turns, NEW k \in DOMAIN w.rows, w.rows[k].turn = u
                     PROVE  u = t \/ Of(s, u)
        OBVIOUS
      <4>4. /\ DOMAIN w.rows = 1..Len(s.rows) + 1 /\ DOMAIN s.rows = 1..Len(s.rows)
            /\ Len(s.rows) \in Nat /\ w.rows[Len(s.rows) + 1] = added
            /\ \A j \in DOMAIN s.rows : w.rows[j] = s.rows[j]
        BY <1>0, <4>2, AppendedRows
      <4>5. k \in DOMAIN s.rows \/ k = Len(s.rows) + 1
        BY <4>4
      <4>. QED
        BY <4>1, <4>3, <4>4, <4>5 DEF Of
    <3>. QED
      BY <3>3, <3>4
  <2>3. CASE ~(i # 0 /\ s.rows[i].open) /\ final = 0
    BY <2>3 DEF Completed, Of
  <2>. QED
    BY <2>1, <2>2, <2>3
<1>2. UnlatchedAs(Completed(s, t, final), shown, t, "complete")
  BY <1>1, TrackingUnlatched
<1>. QED
  BY <1>1, <1>2 DEF UnlatchedAs, Of

-----------------------------------------------------------------------------
(* Hearing an event.                                                       *)

(* The turns after an event of t: nobody is born and nobody moves.         *)
TurnsGoOn(t) ==
  /\ turns' \in [Turns -> Lives]
  /\ kept' \in [Turns -> {"none", "cut", "whole"}]
  /\ \A u \in Turns : /\ turns'[u].home = turns[u].home
                      /\ turns'[u].age = turns[u].age
                      /\ turns'[u].stage = "unborn" <=> turns[u].stage = "unborn"
                      /\ u # t => turns'[u] = turns[u] /\ kept'[u] = kept[u]

LEMMA TurnFields ==
  ASSUME ChatTypes, NEW t \in Turns
  PROVE  /\ turns[t] \in Lives /\ turns[t].home \in Places /\ turns[t].stage \in Stages
         /\ turns[t].age \in Nat /\ turns[t].said \in 0..MaxChunks /\ turns[t].said \in Nat
         /\ turns[t].cut \in BOOLEAN /\ turns[t].tools \in Nat
BY DEF ChatTypes, Lives

LEMMA RewriteTurn ==
  ASSUME ChatTypes, NEW t \in Turns, turns' = [turns EXCEPT ![t] = turns'[t]],
         turns'[t] \in Lives, turns'[t].home = turns[t].home, turns'[t].age = turns[t].age,
         (turns'[t].stage = "unborn") <=> (turns[t].stage = "unborn"),
         kept' \in [Turns -> {"none", "cut", "whole"}],
         \A u \in Turns \ {t} : kept'[u] = kept[u]
  PROVE  TurnsGoOn(t)
<1>1. turns' \in [Turns -> Lives] /\ \A u \in Turns \ {t} : turns'[u] = turns[u]
  BY DEF ChatTypes
<1>. QED
  BY <1>1 DEF TurnsGoOn

LEMMA TurnsRest ==
  ASSUME ChatTypes, NEW t \in Turns, UNCHANGED <<turns, kept>>
  PROVE  TurnsGoOn(t)
BY DEF TurnsGoOn, ChatTypes

LEMMA FindsHome ==
  ASSUME HomeIInv, NEW t \in Turns, t \in Born, NEW named \in BOOLEAN, named \/ Over(t)
  PROVE  /\ Resolved(t, named) = Home(t) /\ Target(t, named) = Home(t)
         /\ Home(t) \in Conversations /\ Home(t) # NoConversation
         /\ Hearer(t, named) = spaces[Home(t)] /\ spaces[Home(t)] \in Workspaces
<1>1. Home(t) \in Conversations /\ Home(t) # NoConversation
  BY AbsentRefs DEF HomeIInv, HomesAreKnown
<1>2. Resolved(t, named) = Home(t)
  BY <1>1 DEF HomeIInv, HomesAreKnown, Resolved
<1>3. Target(t, named) = Home(t)
  BY <1>1, <1>2 DEF Target
<1>. QED
  BY <1>1, <1>2, <1>3 DEF Hearer, HomeIInv, ChatTypes, Places

(* What every event does: it is heard at home, and what it shows there is  *)
(* its own.                                                                *)
Shows(s, t, after) ==
  /\ after \in Workspaces
  /\ after = s \/ after.turn = t
  /\ \A u \in Turns : Of(after, u) => u = t \/ Of(s, u)

LEMMA ShowingAdded ==
  ASSUME NEW s \in Workspaces, NEW t \in Turns, NEW after \in Workspaces,
         NEW row \in RowRecords, row.turn = t,
         after.turn = t, after.rows = Append(s.rows, row) \/ after.rows = s.rows
  PROVE  Shows(s, t, after)
<1>1. ASSUME NEW u \in Turns, Of(after, u) PROVE u = t \/ Of(s, u)
  <2>1. CASE after.rows = s.rows
    BY <1>1, <2>1 DEF Of
  <2>2. CASE after.rows = Append(s.rows, row)
    BY <1>1, <2>2, MentionsOfAdded
  <2>. QED
    BY <2>1, <2>2
<1>. QED
  BY <1>1 DEF Shows

LEMMA ShowingRecast ==
  ASSUME NEW s \in Workspaces, NEW t \in Turns, NEW after \in Workspaces,
         NEW i \in DOMAIN s.rows, NEW row, Recast(s.rows, i, row),
         after.turn = t, after.rows = [s.rows EXCEPT ![i] = row]
  PROVE  Shows(s, t, after)
<1>1. ASSUME NEW u \in Turns, Of(after, u) PROVE u = t \/ Of(s, u)
  <2>1. /\ DOMAIN after.rows = DOMAIN s.rows /\ after.rows[i] = row
        /\ \A k \in DOMAIN s.rows \ {i} : after.rows[k] = s.rows[k]
    BY Recasting
  <2>. QED
    BY <1>1, <2>1 DEF Of, Recast
<1>. QED
  BY <1>1 DEF Shows

HeardAtHome(t) ==
  \E named \in BOOLEAN, after \in Workspaces :
    /\ t \in Born /\ (named \/ Over(t))
    /\ Hears(t, named, after)
    /\ Shows(Hearer(t, named), t, after)
    /\ TurnsGoOn(t)

LEMMA MetadataIsHeard ==
  ASSUME HomeIInv, NEW t \in Turns, HearMetadata(t) \/ HearCompaction(t) \/ HearBenignError(t)
  PROVE  HeardAtHome(t)
<1>1. t \in Born /\ Hearer(t, TRUE) \in Workspaces
  <2>1. t \in Born
    BY DEF HearMetadata, HearCompaction, HearBenignError, Open, Born
  <2>. QED
    BY <2>1, FindsHome
<1>2. PICK after \in Workspaces : /\ after = Hearer(t, TRUE) \/ after = Tracked(Hearer(t, TRUE), t)
                                  /\ Marks(t, TRUE, after)
  BY <1>1, Tracking DEF HearMetadata, HearCompaction, HearBenignError
<1>3. Shows(Hearer(t, TRUE), t, after)
  <2>1. CASE after = Hearer(t, TRUE)
    BY <2>1 DEF Shows
  <2>2. CASE after = Tracked(Hearer(t, TRUE), t)
    <3>1. after.turn = t /\ after.rows = Hearer(t, TRUE).rows
      BY <1>1, <2>2, Tracking
    <3>2. PICK row \in RowRecords : row.turn = t
      BY RowKindsAreRows
    <3>. QED
      BY <1>1, <3>1, <3>2, ShowingAdded
  <2>. QED
    BY <1>2, <2>1, <2>2
<1>4. TurnsGoOn(t)
  BY <1>2, TurnsRest DEF Marks, HomeIInv
<1>. QED
  BY <1>1, <1>2, <1>3, <1>4 DEF Marks, HeardAtHome

LEMMA ThoughtIsHeard ==
  ASSUME HomeIInv, NEW t \in Turns, HearThought(t)
  PROVE  HeardAtHome(t)
<1>1. t \in Born /\ Hearer(t, TRUE) \in Workspaces
  <2>1. t \in Born
    BY DEF HearThought, Open, Born
  <2>. QED
    BY <2>1, FindsHome
<1>2. PICK after \in Workspaces : after = ShowsThought(Hearer(t, TRUE), t) /\ Marks(t, TRUE, after)
  BY <1>1, ThoughtDoes DEF HearThought
<1>3. Shows(Hearer(t, TRUE), t, after)
  <2>1. PICK row \in RowRecords : row = TextRow(t, 0, TRUE) /\ row.turn = t
    BY TextIsARow, ZeroAndOne
  <2>2. after.turn = t /\ (after.rows = Append(Hearer(t, TRUE).rows, row)
                           \/ after.rows = Hearer(t, TRUE).rows)
    BY <1>1, <1>2, <2>1, ThoughtDoes
  <2>. QED
    BY <1>1, <2>1, <2>2, ShowingAdded
<1>4. TurnsGoOn(t)
  BY <1>2, TurnsRest DEF Marks, HomeIInv
<1>. QED
  BY <1>1, <1>2, <1>3, <1>4 DEF Marks, HeardAtHome

LEMMA ChunkTurns ==
  ASSUME HomeIInv, NEW t \in Turns, HearChunk(t)
  PROVE  TurnsGoOn(t)
<1>. DEFINE fresh == turns[t].cut \/ turns[t].said = 0
<1>1. /\ turns' = [turns EXCEPT ![t].said = IF fresh THEN 1 ELSE @ + 1, ![t].cut = FALSE]
      /\ fresh \/ turns[t].said < MaxChunks
      /\ turns[t] \in Lives /\ turns[t].said \in 0..MaxChunks /\ kept' = kept
      /\ kept \in [Turns -> {"none", "cut", "whole"}] /\ turns \in [Turns -> Lives]
  BY TurnFields DEF HearChunk, HomeIInv, ChatTypes
<1>2. PICK n : n = IF fresh THEN 1 ELSE turns[t].said + 1
  OBVIOUS
<1>3. n \in 0..MaxChunks
  BY <1>1, <1>2, StreamBounds
<1>4. turns'[t] = [turns[t] EXCEPT !.said = n, !.cut = FALSE]
  <2>. HIDE DEF fresh
  <2>. QED
    BY <1>1, <1>2
<1>5. /\ turns'[t] \in Lives /\ turns'[t].home = turns[t].home /\ turns'[t].age = turns[t].age
      /\ turns'[t].stage = turns[t].stage
  <2>. HIDE DEF fresh
  <2>. QED
    BY <1>1, <1>3, <1>4 DEF Lives
<1>6. turns' = [turns EXCEPT ![t] = turns'[t]]
  <2>. HIDE DEF fresh
  <2>. QED
    BY <1>1
<1>. QED
  BY <1>1, <1>5, <1>6, RewriteTurn DEF HomeIInv

LEMMA ChunkIsHeard ==
  ASSUME HomeIInv, NEW t \in Turns, HearChunk(t)
  PROVE  HeardAtHome(t)
<1>1. t \in Born /\ Hearer(t, TRUE) \in Workspaces
  <2>1. t \in Born
    BY DEF HearChunk, Open, Born
  <2>. QED
    BY <2>1, FindsHome
<1>2. PICK after \in Workspaces : after = ShowsChunk(Hearer(t, TRUE), t) /\ Hears(t, TRUE, after)
  BY <1>1, ChunkDoes DEF HearChunk
<1>3. Shows(Hearer(t, TRUE), t, after)
  <2>1. CASE Appends(Hearer(t, TRUE), t)
    <3>1. PICK s \in Workspaces : s = Hearer(t, TRUE)
      BY <1>1
    <3>2. PICK row : Grown(s, row) /\ ShowsChunk(s, t).rows = [s.rows EXCEPT ![Len(s.rows)] = row]
      <4>1. Appends(s, t)
        BY <2>1, <3>1
      <4>2. \E row \in RowRecords :
              Grown(s, row) /\ ShowsChunk(s, t).rows = [s.rows EXCEPT ![Len(s.rows)] = row]
        BY <4>1, ChunkDoes, Zenon
      <4>. QED
        BY <4>2
    <3>5. Recast(s.rows, Len(s.rows), row) /\ Len(s.rows) \in DOMAIN s.rows
      BY <3>2 DEF Grown
    <3>3. after.turn = t /\ after.rows = [s.rows EXCEPT ![Len(s.rows)] = row]
      BY <1>2, <3>1, <3>2, ChunkDoes
    <3>4. Shows(s, t, after)
      BY <3>3, <3>5, ShowingRecast
    <3>. QED
      BY <3>1, <3>4
  <2>2. CASE ~Appends(Hearer(t, TRUE), t)
    <3>1. PICK row \in RowRecords : row = TextRow(t, 1, TRUE) /\ row.turn = t
      BY TextIsARow, ZeroAndOne
    <3>2. after.turn = t /\ after.rows = Append(Hearer(t, TRUE).rows, row)
      BY <1>1, <1>2, <2>2, <3>1, ChunkDoes
    <3>. QED
      BY <1>1, <3>1, <3>2, ShowingAdded
  <2>. QED
    BY <2>1, <2>2
<1>4. TurnsGoOn(t)
  BY ChunkTurns
<1>. QED
  BY <1>1, <1>2, <1>3, <1>4 DEF HeardAtHome

LEMMA ToolTurns ==
  ASSUME HomeIInv, NEW t \in Turns, NEW after, HearToolRow(t, after)
  PROVE  TurnsGoOn(t)
<1>1. /\ turns' = [turns EXCEPT ![t].tools = @ + 1, ![t].cut = turns[t].said > 0]
      /\ turns[t] \in Lives /\ turns[t].said \in Nat /\ turns[t].tools \in Nat /\ kept' = kept
      /\ kept \in [Turns -> {"none", "cut", "whole"}] /\ turns \in [Turns -> Lives]
  BY TurnFields DEF HearToolRow, HomeIInv, ChatTypes
<1>2. PICK b \in BOOLEAN, n \in Nat : turns'[t] = [turns[t] EXCEPT !.tools = n, !.cut = b]
  <2>1. PICK n \in Nat : n = turns[t].tools + 1
    BY <1>1
  <2>2. CASE turns[t].said > 0
    BY <1>1, <2>1, <2>2
  <2>3. CASE ~(turns[t].said > 0)
    <3>1. (turns[t].said > 0) = FALSE
      BY <2>3
    <3>2. turns' = [turns EXCEPT ![t] = [turns[t] EXCEPT !.tools = n, !.cut = FALSE]]
      BY <1>1, <2>1, <3>1
    <3>. QED
      BY <1>1, <3>2
  <2>. QED
    BY <2>2, <2>3
<1>4. /\ turns'[t] \in Lives /\ turns'[t].home = turns[t].home /\ turns'[t].age = turns[t].age
      /\ turns'[t].stage = turns[t].stage
  BY <1>1, <1>2 DEF Lives
<1>5. turns' = [turns EXCEPT ![t] = turns'[t]]
  BY <1>1
<1>. QED
  BY <1>1, <1>4, <1>5, RewriteTurn DEF HomeIInv

LEMMA ToolRowIsHeard ==
  ASSUME HomeIInv, NEW t \in Turns,
         HearToolCall(t) \/ HearToolOutput(t) \/ HearToolBundle(t) \/ HearSearch(t)
  PROVE  HeardAtHome(t)
<1>1. PICK after : HearToolRow(t, after) /\ ShowsTool(Hearer(t, TRUE), t, after)
  BY DEF HearToolCall, HearToolOutput, HearToolBundle, HearSearch, ShowsTool
<1>2. t \in Born /\ Hearer(t, TRUE) \in Workspaces
  <2>1. t \in Born
    BY <1>1 DEF HearToolRow, Open, Born
  <2>. QED
    BY <2>1, FindsHome
<1>3. PICK s \in Workspaces : s = Hearer(t, TRUE)
  BY <1>2
<1>4. after \in Workspaces /\ Shows(s, t, after)
  <2>1. after \in Workspaces /\ after.turn = t /\ after.rows = Append(s.rows, ToolRow(t))
    BY <1>1, <1>3, ToolRowDoes
  <2>2. PICK row \in RowRecords : row = ToolRow(t) /\ row.turn = t
    BY RowKindsAreRows
  <2>. QED
    BY <2>1, <2>2, ShowingAdded
<1>5. TurnsGoOn(t)
  BY <1>1, ToolTurns
<1>. QED
  BY <1>1, <1>2, <1>3, <1>4, <1>5 DEF HearToolRow, HeardAtHome

LEMMA EndTurns ==
  ASSUME HomeIInv, NEW t \in Turns, Open(t), NEW stage \in {"answered", "ended"},
         turns' = [turns EXCEPT ![t].stage = stage],
         kept' = kept \/ \E k \in {"whole", "cut"} : kept' = [kept EXCEPT ![t] = k]
  PROVE  TurnsGoOn(t)
<1>1. turns[t] \in Lives /\ turns \in [Turns -> Lives] /\ kept \in [Turns -> {"none", "cut", "whole"}]
  BY TurnFields DEF HomeIInv, ChatTypes
<1>2. turns'[t] = [turns[t] EXCEPT !.stage = stage] /\ stage \in Stages
  BY <1>1 DEF Stages
<1>3. /\ turns'[t] \in Lives /\ turns'[t].home = turns[t].home /\ turns'[t].age = turns[t].age
      /\ turns'[t].stage = stage
  BY <1>1, <1>2 DEF Lives
<1>4. turns' = [turns EXCEPT ![t] = turns'[t]]
  BY <1>1
<1>5. kept' \in [Turns -> {"none", "cut", "whole"}] /\ \A u \in Turns \ {t} : kept'[u] = kept[u]
  BY <1>1
<1>. QED
  BY <1>3, <1>4, <1>5, RewriteTurn DEF HomeIInv, Open

LEMMA EndIsHeard ==
  ASSUME HomeIInv, NEW t \in Turns, HearComplete(t) \/ HearError(t)
  PROVE  HeardAtHome(t)
<1>1. Open(t)
  BY DEF HearComplete, HearError
<1>2. t \in Born /\ Hearer(t, TRUE) \in Workspaces
  BY <1>1, FindsHome DEF Open, Born
<1>3. CASE HearComplete(t)
  <2>1. PICK final \in 0..MaxChunks :
          /\ Hears(t, TRUE, Completed(Hearer(t, TRUE), t, final))
          /\ turns' = [turns EXCEPT ![t].stage = IF @ = "open" /\ turns[t].said > 0
                                                 THEN "answered" ELSE "ended"]
          /\ kept' = IF Heeds(t, TRUE) /\ Recorded(Hearer(t, TRUE), t, final) > 0
                     THEN [kept EXCEPT ![t] = IF Recorded(Hearer(t, TRUE), t, final) = turns[t].said
                                              THEN "whole" ELSE "cut"]
                     ELSE kept
    <3>1. {0, turns[t].said} \subseteq 0..MaxChunks
      BY ZeroAndOne, TurnFields DEF HomeIInv
    <3>. QED
      BY <1>3, <3>1 DEF HearComplete
  <2>2. PICK stage \in {"answered", "ended"} : turns' = [turns EXCEPT ![t].stage = stage]
    BY <2>1
  <2>3. TurnsGoOn(t)
    BY <1>1, <2>1, <2>2, EndTurns
  <2>4. PICK after \in Workspaces : /\ after = Completed(Hearer(t, TRUE), t, final)
                                    /\ Shows(Hearer(t, TRUE), t, after)
    <3>1. PICK s \in Workspaces : s = Hearer(t, TRUE)
      BY <1>2
    <3>2. PICK after \in Workspaces : after = Completed(s, t, final)
      BY CompletedDoes
    <3>3. after.turn = t /\ \A u \in Turns : Of(after, u) => u = t \/ Of(s, u)
      BY <3>2, CompletedDoes
    <3>. QED
      BY <3>1, <3>2, <3>3 DEF Shows
  <2>. QED
    BY <1>2, <2>1, <2>3, <2>4 DEF HeardAtHome
<1>4. CASE HearError(t)
  <2>1. TurnsGoOn(t)
    BY <1>1, <1>4, EndTurns DEF HearError
  <2>2. PICK after \in Workspaces : /\ after = ShowsError(Hearer(t, TRUE), t) /\ after.turn = t
                                    /\ after.rows = Append(Hearer(t, TRUE).rows, ErrorRow(t))
    BY <1>2, ErrorDoes
  <2>3. Shows(Hearer(t, TRUE), t, after)
    BY <1>2, <2>2, ShowingAdded, RowKindsAreRows
  <2>. QED
    BY <1>2, <1>4, <2>1, <2>2, <2>3 DEF HearError, HeardAtHome
<1>. QED
  BY <1>3, <1>4

LEMMA LateIsHeard ==
  ASSUME HomeIInv, NEW t \in Turns, HearTokenCount(t) \/ HearMemoryStore(t)
  PROVE  HeardAtHome(t)
<1>1. PICK named \in BOOLEAN : \E after :
        /\ (named /\ Open(t)) \/ Over(t)
        /\ Marks(t, named, after)
        /\ after = CountsTokens(Hearer(t, named), t) \/ after = StoresMemory(Hearer(t, named), t)
  BY DEF HearTokenCount, HearMemoryStore
<1>2. PICK after :
        /\ Marks(t, named, after)
        /\ after = CountsTokens(Hearer(t, named), t) \/ after = StoresMemory(Hearer(t, named), t)
  BY <1>1
<1>3. t \in Born /\ (named \/ Over(t))
  BY <1>1 DEF Open, Over, Born
<1>4. Hearer(t, named) \in Workspaces
  BY <1>3, FindsHome
<1>5. after \in Workspaces /\ after.turn = t /\ after.rows = Hearer(t, named).rows
  BY <1>4, <1>2, LateDoes
<1>6. Shows(Hearer(t, named), t, after)
  <2>1. PICK row \in RowRecords : row.turn = t
    BY RowKindsAreRows
  <2>. QED
    BY <1>4, <1>5, <2>1, ShowingAdded
<1>7. TurnsGoOn(t)
  BY <1>2, TurnsRest DEF Marks, HomeIInv
<1>. QED
  BY <1>3, <1>5, <1>6, <1>7, <1>2 DEF Marks, HeardAtHome

LEMMA EventsAreHeard ==
  ASSUME HomeIInv, NEW t \in Turns, HearEvent(t)
  PROVE  HeardAtHome(t)
BY MetadataIsHeard, ThoughtIsHeard, ChunkIsHeard, ToolRowIsHeard, EndIsHeard, LateIsHeard
   DEF HearEvent

-----------------------------------------------------------------------------
(* Turns stay home.                                                        *)

LEMMA HomeInit == ChatInit => HomeIInv
<1>. SUFFICES ASSUME ChatInit PROVE HomeIInv
  OBVIOUS
<1>1. EmptyWorkspace \in Workspaces /\ EmptyWorkspace.rows = <<>> /\ EmptyWorkspace.turn = NoTurn
  BY DEF EmptyWorkspace, Workspaces, StreamPhases, Terminal
<1>2. Unborn \in Lives /\ Unborn.stage = "unborn"
  BY ZeroAndOne DEF Unborn, Lives, Places, Stages
<1>3. ChatTypes
  <2>1. IsFiniteSet(Born)
    <3>1. Born = {}
      BY <1>2 DEF ChatInit, Born
    <3>. QED
      BY <3>1, FS_EmptySet
  <2>. QED
    BY <1>1, <1>2, <2>1 DEF ChatInit, ChatTypes, Places
<1>4. HomesAreKnown
  BY <1>2 DEF ChatInit, HomesAreKnown, Born, Over
<1>5. MentionsAreHome
  <2>. SUFFICES ASSUME NEW c \in Places, NEW t \in Turns PROVE ~Of(spaces[c], t)
    BY DEF MentionsAreHome
  <2>1. spaces[c].rows = <<>> /\ spaces[c].turn # t
    BY <1>1, AbsentRefs DEF ChatInit, Places
  <2>. QED
    BY <2>1 DEF Of
<1>. QED
  BY <1>3, <1>4, <1>5 DEF HomeIInv

LEMMA HearingKeepsHome ==
  ASSUME HomeIInv, NEW t \in Turns, HeardAtHome(t)
  PROVE  HomeIInv'
<1>1. PICK named \in BOOLEAN, after \in Workspaces :
        /\ t \in Born /\ (named \/ Over(t))
        /\ Hears(t, named, after)
        /\ Shows(Hearer(t, named), t, after)
        /\ TurnsGoOn(t)
  BY DEF HeardAtHome
<1>2. /\ Resolved(t, named) = Home(t) /\ Target(t, named) = Home(t)
      /\ Home(t) \in Conversations /\ Home(t) # NoConversation /\ Home(t) \in Places
      /\ Hearer(t, named) = spaces[Home(t)] /\ spaces[Home(t)] \in Workspaces
  BY <1>1, FindsHome DEF Places
<1>3. /\ foreground' \in {Home(t), foreground} /\ session' \in {Home(t), session}
      /\ turnConversation' = [turnConversation EXCEPT ![t] = Home(t)]
      /\ spaces' = spaces \/ spaces' = [spaces EXCEPT ![Home(t)] = after]
      /\ outbox' = outbox
  BY <1>1, <1>2 DEF Hears, Projected, SyncedSession, Registered
<1>4. ChatTypes'
  <2>1. Born' = Born
    BY <1>1 DEF TurnsGoOn, Born
  <2>. QED
    BY <1>1, <1>2, <1>3, <2>1 DEF ChatTypes, HomeIInv, TurnsGoOn
<1>5. \A u \in Turns : Home(u)' = Home(u) /\ (u \in Born' <=> u \in Born) /\ (u # t => Over(u)' = Over(u))
  BY <1>1 DEF TurnsGoOn, Home, Born, Over
<1>6. HomesAreKnown'
  <2>. SUFFICES ASSUME NEW u \in Turns
                PROVE  /\ u \in Born' => Home(u)' \in Conversations
                       /\ \/ turnConversation'[u] = NoConversation
                          \/ u \in Born' /\ turnConversation'[u] = Home(u)'
                       /\ Over(u)' => turnConversation'[u] = Home(u)'
    BY DEF HomesAreKnown
  <2>1. /\ u \in Born => Home(u) \in Conversations
        /\ turnConversation[u] = NoConversation \/ (u \in Born /\ turnConversation[u] = Home(u))
        /\ Over(u) => turnConversation[u] = Home(u)
        /\ turnConversation \in [Turns -> Places]
    BY DEF HomesAreKnown, HomeIInv, ChatTypes
  <2>2. CASE u = t
    BY <1>1, <1>2, <1>3, <1>5, <2>1, <2>2
  <2>3. CASE u # t
    BY <1>3, <1>5, <2>1, <2>3
  <2>. QED
    BY <2>2, <2>3
<1>7. MentionsAreHome'
  <2>. SUFFICES ASSUME NEW c \in Places, NEW u \in Turns, Of(spaces'[c], u)
                PROVE  u \in Born' /\ Home(u)' = c
    BY DEF MentionsAreHome, Of
  <2>1. spaces \in [Places -> Workspaces]
    BY DEF HomeIInv, ChatTypes
  <2>2. CASE spaces'[c] = spaces[c]
    BY <1>5, <2>2 DEF HomeIInv, MentionsAreHome
  <2>3. CASE c = Home(t) /\ spaces'[c] = after
    <3>1. u = t \/ Of(spaces[c], u)
      BY <1>1, <1>2, <2>3 DEF Shows
    <3>. QED
      BY <1>1, <1>5, <2>3, <3>1 DEF HomeIInv, MentionsAreHome
  <2>. QED
    BY <1>2, <1>3, <2>1, <2>2, <2>3
<1>. QED
  BY <1>4, <1>6, <1>7 DEF HomeIInv

(* What the user and the link do to the turns and to what is shown.        *)
SpacesDrop ==
  /\ spaces' \in [Places -> Workspaces]
  /\ \A c \in Places, u \in Turns : Of(spaces'[c], u) => Of(spaces[c], u)

LEMMA OneSpaceDrops ==
  ASSUME ChatTypes, NEW c \in Places, NEW after \in Workspaces,
         spaces' = [spaces EXCEPT ![c] = after],
         \A u \in Turns : Of(after, u) => Of(spaces[c], u)
  PROVE  SpacesDrop
BY DEF ChatTypes, SpacesDrop

LEMMA DroppingKeepsHome ==
  ASSUME HomeIInv, SpacesDrop, foreground' \in Places, session' \in Places,
         outbox' \in [Conversations -> {"none", "asked", "shown"}],
         UNCHANGED <<turnConversation, turns, kept>>
  PROVE  HomeIInv'
<1>1. ChatTypes'
  BY DEF HomeIInv, ChatTypes, SpacesDrop, Born
<1>2. HomesAreKnown'
  BY DEF HomeIInv, HomesAreKnown, Home, Over, Born
<1>3. \A u \in Turns : Home(u)' = Home(u) /\ (u \in Born' <=> u \in Born)
  BY DEF Home, Born
<1>4. MentionsAreHome'
  BY <1>3 DEF HomeIInv, MentionsAreHome, SpacesDrop, Of
<1>. QED
  BY <1>1, <1>2, <1>4 DEF HomeIInv

LEMMA AbsentRowDrops ==
  ASSUME NEW s \in Workspaces, NEW row \in RowRecords, row.turn = NoTurn, NEW w \in Workspaces,
         w.rows = Append(s.rows, row), w.turn = s.turn, NEW u \in Turns, Of(w, u)
  PROVE  Of(s, u)
<1>1. w.turn = u \/ row.turn = u \/ Of(s, u)
  BY MentionsOfAdded
<1>. QED
  BY <1>1, AbsentRefs DEF Of

LEMMA QueryRowDoes ==
  ASSUME NEW s \in Workspaces
  PROVE  /\ [AddRow(s, UserRow(NoTurn)) EXCEPT !.sending = TRUE] \in Workspaces
         /\ [AddRow(s, UserRow(NoTurn)) EXCEPT !.sending = TRUE].rows = Append(s.rows, UserRow(NoTurn))
         /\ [AddRow(s, UserRow(NoTurn)) EXCEPT !.sending = TRUE].turn = s.turn
         /\ [AddRow(s, UserRow(NoTurn)) EXCEPT !.sending = TRUE].phase = s.phase
         /\ [AddRow(s, UserRow(NoTurn)) EXCEPT !.sending = TRUE].sending
<1>1. UserRow(NoTurn) \in RowRecords
  BY RowKindsAreRows
<1>2. PICK a \in Workspaces : /\ a = AddRow(s, UserRow(NoTurn))
                              /\ a.rows = Append(s.rows, UserRow(NoTurn))
                              /\ a.turn = s.turn /\ a.phase = s.phase
  BY <1>1, AddingRow
<1>3. PICK b : b = [a EXCEPT !.sending = TRUE]
  OBVIOUS
<1>4. b \in Workspaces /\ b.rows = a.rows /\ b.turn = a.turn /\ b.phase = a.phase /\ b.sending
  BY <1>3 DEF Workspaces
<1>. QED
  BY <1>2, <1>3, <1>4

LEMMA FailureDoes ==
  ASSUME NEW s \in Workspaces
  PROVE  /\ SendFailure(s) \in Workspaces
         /\ SendFailure(s).rows = Append(s.rows, ErrorRow(NoTurn))
         /\ SendFailure(s).turn = s.turn /\ SendFailure(s).phase = s.phase
         /\ ~SendFailure(s).sending
<1>1. ErrorRow(NoTurn) \in RowRecords
  BY RowKindsAreRows
<1>2. PICK a \in Workspaces : /\ a = AddRow(s, ErrorRow(NoTurn))
                              /\ a.rows = Append(s.rows, ErrorRow(NoTurn))
                              /\ a.turn = s.turn /\ a.phase = s.phase
  BY <1>1, AddingRow
<1>3. PICK b : b = [a EXCEPT !.sending = FALSE]
  OBVIOUS
<1>4. b \in Workspaces /\ b.rows = a.rows /\ b.turn = a.turn /\ b.phase = a.phase /\ ~b.sending
  BY <1>3 DEF Workspaces
<1>. QED
  BY <1>2, <1>3, <1>4 DEF SendFailure

LEMMA ShownQueryDoes ==
  ASSUME NEW s \in Workspaces, NEW t \in Turns
  PROVE  /\ ShowsQuery(s, t) \in Workspaces
         /\ ShowsQuery(s, t).rows = Append(s.rows, UserRow(t))
         /\ ShowsQuery(s, t).turn = t /\ ShowsQuery(s, t).phase = "awaiting-first-chunk"
         /\ ShowsQuery(s, t).sending
<1>1. UserRow(t) \in RowRecords
  BY RowKindsAreRows
<1>2. PICK a \in Workspaces : /\ a = AddRow(s, UserRow(t))
                              /\ a.rows = Append(s.rows, UserRow(t))
  BY <1>1, AddingRow
<1>3. PICK b \in Workspaces : b = [a EXCEPT !.sending = TRUE] /\ b.sending /\ b.rows = a.rows
  <2>1. PICK b : b = [a EXCEPT !.sending = TRUE]
    OBVIOUS
  <2>2. b \in Workspaces /\ b.sending /\ b.rows = a.rows
    BY <2>1 DEF Workspaces
  <2>. QED
    BY <2>1, <2>2
<1>4. TracksAs(TrackedIn(b, t, "awaiting-first-chunk"), b, t, "awaiting-first-chunk")
  BY TrackingIn
<1>5. ShowsQuery(s, t) = TrackedIn(b, t, "awaiting-first-chunk")
  BY <1>2, <1>3 DEF ShowsQuery
<1>. QED
  BY <1>2, <1>3, <1>4, <1>5 DEF TracksAs

(* A turn begins.                                                          *)
LEMMA Begins ==
  ASSUME ChatTypes, NEW t \in Turns, NEW c \in Conversations, Bear(t, c)
  PROVE  /\ turns' \in [Turns -> Lives]
         /\ t \notin Born /\ t \in Born' /\ turns'[t].home = c /\ turns'[t].stage = "open"
         /\ turns'[t].age = Cardinality(Born) + 1 /\ turns'[t].said = 0 /\ ~turns'[t].cut
         /\ \A u \in Turns \ {t} : turns'[u] = turns[u]
         /\ Born' = Born \union {t} /\ IsFiniteSet(Born') /\ Cardinality(Born) \in Nat
<1>0. Cardinality(Born) \in Nat
  BY FS_CardinalityType DEF ChatTypes
<1>1. PICK n \in Nat : n = Cardinality(Born) + 1
  BY <1>0
<1>2. PICK r : r = [Unborn EXCEPT !.home = c, !.stage = "open", !.age = n]
  OBVIOUS
<1>3. /\ r \in Lives /\ r.home = c /\ r.stage = "open" /\ r.age = n /\ r.said = 0 /\ ~r.cut
  BY <1>2, ZeroAndOne DEF Unborn, Lives, Stages, Places
<1>4. turns' = [turns EXCEPT ![t] = r] /\ turns[t].stage = "unborn"
  BY <1>1, <1>2 DEF Bear
<1>5. turns' \in [Turns -> Lives] /\ turns'[t] = r /\ \A u \in Turns \ {t} : turns'[u] = turns[u]
  BY <1>3, <1>4 DEF ChatTypes
<1>6. Born' = Born \union {t} /\ t \notin Born
  BY <1>3, <1>4, <1>5 DEF Born
<1>7. IsFiniteSet(Born')
  <2>1. PICK B : B = Born \union {t}
    OBVIOUS
  <2>2. IsFiniteSet(B)
    BY <2>1, FS_AddElement DEF ChatTypes
  <2>. QED
    BY <1>6, <2>1, <2>2
<1>. QED
  BY <1>0, <1>1, <1>3, <1>5, <1>6, <1>7

LEMMA BeginningKeepsHome ==
  ASSUME HomeIInv, NEW t \in Turns, NEW c \in Conversations, Bear(t, c),
         foreground' \in Places, session' \in Places,
         outbox' \in [Conversations -> {"none", "asked", "shown"}], kept' = kept,
         \/ turnConversation' = turnConversation
         \/ turnConversation' = [turnConversation EXCEPT ![t] = c],
         spaces' \in [Places -> Workspaces],
         \A d \in Places, u \in Turns : Of(spaces'[d], u) => Of(spaces[d], u) \/ (d = c /\ u = t)
  PROVE  HomeIInv'
<1>1. /\ turns' \in [Turns -> Lives]
      /\ t \notin Born /\ t \in Born' /\ turns'[t].home = c /\ turns'[t].stage = "open"
      /\ \A u \in Turns \ {t} : turns'[u] = turns[u]
      /\ IsFiniteSet(Born')
  BY Begins DEF HomeIInv
<1>2. ChatTypes'
  BY <1>1 DEF HomeIInv, ChatTypes, Places
<1>3. \A u \in Turns \ {t} : Home(u)' = Home(u) /\ (u \in Born' <=> u \in Born) /\ Over(u)' = Over(u)
  BY <1>1 DEF Home, Born, Over
<1>4. HomesAreKnown'
  <2>. SUFFICES ASSUME NEW u \in Turns
                PROVE  /\ u \in Born' => Home(u)' \in Conversations
                       /\ \/ turnConversation'[u] = NoConversation
                          \/ u \in Born' /\ turnConversation'[u] = Home(u)'
                       /\ Over(u)' => turnConversation'[u] = Home(u)'
    BY DEF HomesAreKnown
  <2>1. /\ u \in Born => Home(u) \in Conversations
        /\ turnConversation[u] = NoConversation \/ (u \in Born /\ turnConversation[u] = Home(u))
        /\ Over(u) => turnConversation[u] = Home(u)
        /\ turnConversation \in [Turns -> Places]
    BY DEF HomesAreKnown, HomeIInv, ChatTypes
  <2>2. CASE u = t
    <3>1. ~Over(u)' /\ Home(u)' = c /\ u \in Born'
      BY <1>1, <2>2 DEF Over, Home
    <3>2. turnConversation'[u] = NoConversation \/ turnConversation'[u] = c
      BY <1>1, <2>1, <2>2
    <3>. QED
      BY <3>1, <3>2
  <2>3. CASE u # t
    BY <1>3, <2>1, <2>3
  <2>. QED
    BY <2>2, <2>3
<1>5. MentionsAreHome'
  <2>. SUFFICES ASSUME NEW d \in Places, NEW u \in Turns, Of(spaces'[d], u)
                PROVE  u \in Born' /\ Home(u)' = d
    BY DEF MentionsAreHome, Of
  <2>1. CASE d = c /\ u = t
    BY <1>1, <2>1 DEF Home
  <2>2. CASE ~(d = c /\ u = t)
    <3>1. u \in Born /\ Home(u) = d
      BY <2>2 DEF HomeIInv, MentionsAreHome
    <3>. QED
      BY <1>1, <1>3, <3>1
  <2>. QED
    BY <2>1, <2>2
<1>. QED
  BY <1>2, <1>4, <1>5 DEF HomeIInv

LEMMA UserKeepsHome ==
  ASSUME HomeIInv, NEW c \in Conversations, ChatUserActs(c)
  PROVE  HomeIInv'
<1>0. /\ c \in Places /\ foreground \in Places /\ session \in Places /\ NoConversation \in Places
      /\ spaces \in [Places -> Workspaces] /\ spaces[c] \in Workspaces /\ ChatTypes
      /\ spaces[foreground] \in Workspaces
      /\ outbox \in [Conversations -> {"none", "asked", "shown"}]
  BY DEF HomeIInv, ChatTypes, Places
<1>1. CASE Ask(c)
  <2>1. SpacesDrop
    BY <1>0, <1>1 DEF Ask, SpacesDrop
  <2>. QED
    BY <1>0, <1>1, <2>1, DroppingKeepsHome DEF Ask
<1>2. CASE ShowQuery(c)
  <2>1. PICK w : w = [AddRow(spaces[c], UserRow(NoTurn)) EXCEPT !.sending = TRUE]
    OBVIOUS
  <2>2. w \in Workspaces /\ w.rows = Append(spaces[c].rows, UserRow(NoTurn)) /\ w.turn = spaces[c].turn
    BY <1>0, <2>1, QueryRowDoes
  <2>3. UserRow(NoTurn) \in RowRecords /\ UserRow(NoTurn).turn = NoTurn
    BY RowKindsAreRows
  <2>4. spaces' = [spaces EXCEPT ![c] = w]
    BY <1>2, <2>1 DEF ShowQuery
  <2>5. \A u \in Turns : Of(w, u) => Of(spaces[c], u)
    BY <1>0, <2>2, <2>3, AbsentRowDrops
  <2>6. SpacesDrop
    BY <1>0, <2>2, <2>4, <2>5, OneSpaceDrops
  <2>. QED
    BY <1>0, <1>2, <2>6, DroppingKeepsHome DEF ShowQuery
<1>3. CASE FailToSend(c)
  <2>1. PICK w : w = SendFailure(spaces[c])
    OBVIOUS
  <2>2. w \in Workspaces /\ w.rows = Append(spaces[c].rows, ErrorRow(NoTurn)) /\ w.turn = spaces[c].turn
    BY <1>0, <2>1, FailureDoes
  <2>3. ErrorRow(NoTurn) \in RowRecords /\ ErrorRow(NoTurn).turn = NoTurn
    BY RowKindsAreRows
  <2>4. spaces' = [spaces EXCEPT ![c] = w]
    BY <1>3, <2>1 DEF FailToSend
  <2>5. \A u \in Turns : Of(w, u) => Of(spaces[c], u)
    BY <1>0, <2>2, <2>3, AbsentRowDrops
  <2>6. SpacesDrop
    BY <1>0, <2>2, <2>4, <2>5, OneSpaceDrops
  <2>. QED
    BY <1>0, <1>3, <2>6, DroppingKeepsHome DEF FailToSend
<1>4. CASE OpenConversation(c)
  <2>1. PICK rows \in Snapshots : spaces' = [spaces EXCEPT ![c].rows = rows, ![c].sending = FALSE]
    BY <1>4 DEF OpenConversation
  <2>2. rows \in Seq(RowRecords) /\ \A i \in DOMAIN rows : rows[i].turn = NoTurn
    <3>1. PICK user \in RowRecords : user = UserRow(NoTurn) /\ user.turn = NoTurn
      BY RowKindsAreRows
    <3>2. PICK text \in RowRecords : text = TextRow(NoTurn, 1, FALSE) /\ text.turn = NoTurn
      BY TextIsARow, ZeroAndOne
    <3>3. rows = <<>> \/ rows = <<user>> \/ rows = <<text>>
      BY <3>1, <3>2 DEF Snapshots
    <3>4. /\ <<>> \in Seq(RowRecords) /\ <<user>> \in Seq(RowRecords) /\ <<text>> \in Seq(RowRecords)
          /\ DOMAIN <<>> = {} /\ DOMAIN <<user>> = {1} /\ DOMAIN <<text>> = {1}
      OBVIOUS
    <3>5. rows \in Seq(RowRecords)
      BY <3>3, <3>4
    <3>6. \A i \in DOMAIN rows : rows[i] = user \/ rows[i] = text
      <4>1. <<user>>[1] = user /\ <<text>>[1] = text
        OBVIOUS
      <4>2. CASE rows = <<>>
        BY <3>4, <4>2
      <4>3. CASE rows = <<user>>
        BY <3>4, <4>1, <4>3
      <4>4. CASE rows = <<text>>
        BY <3>4, <4>1, <4>4
      <4>. QED
        BY <3>3, <4>2, <4>3, <4>4
    <3>. QED
      BY <3>1, <3>2, <3>5, <3>6
  <2>3. PICK w : w = [spaces[c] EXCEPT !.rows = rows, !.sending = FALSE]
    OBVIOUS
  <2>4. w \in Workspaces /\ w.rows = rows /\ w.turn = spaces[c].turn
    BY <1>0, <2>2, <2>3 DEF Workspaces
  <2>5. spaces' = [spaces EXCEPT ![c] = w]
    BY <1>0, <2>1, <2>3
  <2>6. \A u \in Turns : Of(w, u) => Of(spaces[c], u)
    BY <2>2, <2>4, AbsentRefs DEF Of
  <2>7. SpacesDrop
    BY <1>0, <2>4, <2>5, <2>6, OneSpaceDrops
  <2>. QED
    BY <1>0, <1>4, <2>7, DroppingKeepsHome DEF OpenConversation
<1>e. EmptyWorkspace \in Workspaces /\ \A u \in Turns : ~Of(EmptyWorkspace, u)
  BY AbsentRefs DEF EmptyWorkspace, Workspaces, StreamPhases, Terminal, Of
<1>5. CASE NewChat(c)
  <2>1. spaces' = [spaces EXCEPT ![foreground] = EmptyWorkspace]
    BY <1>5 DEF NewChat, Cleared
  <2>2. SpacesDrop
    BY <1>0, <1>e, <2>1, OneSpaceDrops
  <2>. QED
    BY <1>0, <1>5, <2>2, DroppingKeepsHome DEF NewChat
<1>6. CASE DeleteConversation(c)
  <2>1. spaces' = [spaces EXCEPT ![c] = EmptyWorkspace]
    BY <1>6 DEF DeleteConversation, Cleared
  <2>2. SpacesDrop
    BY <1>0, <1>e, <2>1, OneSpaceDrops
  <2>. QED
    BY <1>0, <1>6, <2>2, DroppingKeepsHome DEF DeleteConversation
<1>7. CASE \E t \in Turns : Dispatch(c, t)
  <2>1. PICK t \in Turns : Dispatch(c, t)
    BY <1>7
  <2>. QED
    BY <1>0, <2>1, BeginningKeepsHome DEF Dispatch, store
<1>8. CASE \E t \in Turns : PillSends(c, t)
  <2>1. PICK t \in Turns : PillSends(c, t)
    BY <1>8
  <2>2. PICK w : w = ShowsQuery(spaces[c], t)
    OBVIOUS
  <2>3. w \in Workspaces /\ w.rows = Append(spaces[c].rows, UserRow(t)) /\ w.turn = t
    BY <1>0, <2>2, ShownQueryDoes
  <2>4. UserRow(t) \in RowRecords /\ UserRow(t).turn = t
    BY RowKindsAreRows
  <2>5. spaces' = [spaces EXCEPT ![c] = w]
    BY <2>1, <2>2 DEF PillSends
  <2>6. \A u \in Turns : Of(w, u) => u = t \/ Of(spaces[c], u)
    BY <1>0, <2>3, <2>4, MentionsOfAdded
  <2>7. spaces' \in [Places -> Workspaces]
    BY <1>0, <2>3, <2>5
  <2>8. \A d \in Places, u \in Turns : Of(spaces'[d], u) => Of(spaces[d], u) \/ (d = c /\ u = t)
    BY <1>0, <2>5, <2>6
  <2>9. /\ Bear(t, c) /\ foreground' \in Places /\ session' \in Places
        /\ outbox' = outbox /\ kept' = kept
        /\ \/ turnConversation' = turnConversation
           \/ turnConversation' = [turnConversation EXCEPT ![t] = c]
    BY <1>0, <2>1 DEF PillSends, Projected, SyncedSession, Registered
  <2>. QED
    BY <1>0, <2>7, <2>8, <2>9, BeginningKeepsHome
<1>. QED
  BY <1>1, <1>2, <1>3, <1>4, <1>5, <1>6, <1>7, <1>8 DEF ChatUserActs

LEMMA RestKeepsHome ==
  ASSUME HomeIInv, Stop \/ FollowSession \/ LoseTurns \/ UNCHANGED chatVars
  PROVE  HomeIInv'
<1>0. /\ foreground \in Places /\ session \in Places
      /\ spaces \in [Places -> Workspaces] /\ spaces[foreground] \in Workspaces /\ ChatTypes
      /\ outbox \in [Conversations -> {"none", "asked", "shown"}]
  BY DEF HomeIInv, ChatTypes
<1>1. CASE Stop
  <2>1. PICK w : w = [spaces[foreground] EXCEPT !.sending = FALSE, !.phase = "complete"]
    OBVIOUS
  <2>2. w \in Workspaces /\ w.rows = spaces[foreground].rows /\ w.turn = spaces[foreground].turn
    BY <1>0, <2>1, PhasesAre DEF Workspaces
  <2>3. spaces' = [spaces EXCEPT ![foreground] = w]
    BY <1>0, <1>1, <2>1 DEF Stop
  <2>4. \A u \in Turns : Of(w, u) => Of(spaces[foreground], u)
    BY <2>2 DEF Of
  <2>5. SpacesDrop
    BY <1>0, <2>2, <2>3, <2>4, OneSpaceDrops
  <2>. QED
    BY <1>0, <1>1, <2>5, DroppingKeepsHome DEF Stop
<1>2. CASE FollowSession \/ UNCHANGED chatVars
  <2>1. SpacesDrop /\ UNCHANGED <<turnConversation, turns, kept, outbox>>
    BY <1>0, <1>2 DEF FollowSession, chatVars, store, SpacesDrop
  <2>. QED
    BY <1>0, <1>2, <2>1, DroppingKeepsHome DEF FollowSession, chatVars, store
<1>3. CASE LoseTurns
  <2>1. /\ UNCHANGED <<foreground, session, spaces, turnConversation, outbox, kept>>
        /\ turns' = [t \in Turns |-> [turns[t] EXCEPT !.stage = IF @ = "open" THEN "lost" ELSE @]]
    BY <1>3 DEF LoseTurns, store
  <2>2. ASSUME NEW t \in Turns
        PROVE  /\ turns'[t] \in Lives /\ Home(t)' = Home(t) /\ (t \in Born' <=> t \in Born)
               /\ Over(t)' = Over(t)
    <3>1. turns[t] \in Lives
      BY <1>0, TurnFields
    <3>2. CASE turns[t].stage = "open"
      <4>1. turns'[t] = [turns[t] EXCEPT !.stage = "lost"]
        BY <2>1, <3>2
      <4>2. turns'[t] \in Lives /\ turns'[t].home = turns[t].home /\ turns'[t].stage = "lost"
        BY <3>1, <4>1 DEF Lives, Stages
      <4>. QED
        BY <3>2, <4>2 DEF Home, Born, Over
    <3>3. CASE turns[t].stage # "open"
      <4>1. turns'[t] = turns[t]
        BY <2>1, <3>1, <3>3 DEF Lives
      <4>. QED
        BY <3>1, <4>1 DEF Home, Born, Over
    <3>. QED
      BY <3>2, <3>3
  <2>3. ChatTypes'
    <3>1. turns' \in [Turns -> Lives]
      BY <2>1, <2>2
    <3>2. Born' = Born
      BY <2>2 DEF Born
    <3>. QED
      BY <1>0, <2>1, <3>1, <3>2 DEF ChatTypes
  <2>4. HomesAreKnown'
    BY <2>1, <2>2 DEF HomeIInv, HomesAreKnown
  <2>5. MentionsAreHome'
    BY <2>1, <2>2 DEF HomeIInv, MentionsAreHome, Of
  <2>. QED
    BY <2>3, <2>4, <2>5 DEF HomeIInv
<1>. QED
  BY <1>1, <1>2, <1>3

LEMMA HomeStep == HomeIInv /\ [ChatNext]_chatVars => HomeIInv'
BY EventsAreHeard, HearingKeepsHome, UserKeepsHome, RestKeepsHome DEF ChatNext

LEMMA HomeAlways == ChatSpec => []HomeIInv
BY HomeInit, HomeStep, PTL DEF ChatSpec

(* Whatever the user opens, clears or deletes meanwhile, and whether or not*)
(* a late event names its conversation, what a workspace shows of a turn is*)
(* in the workspace of its own conversation: the routing of an event       *)
(* (applyEventChatConversationProjection, turnConversationRefs) finds it.  *)
THEOREM TurnsStayHomeHolds == ChatSpec => []TurnsStayHome
<1>1. HomeIInv => TurnsStayHome
  <2>. SUFFICES ASSUME HomeIInv, NEW c \in Places, NEW t \in Born,
                       spaces[c].turn = t \/ \E i \in DOMAIN spaces[c].rows : spaces[c].rows[i].turn = t
                PROVE  c = Home(t)
    BY DEF TurnsStayHome, Places
  <2>1. t \in Turns /\ Of(spaces[c], t)
    BY DEF Born, Of
  <2>. QED
    BY <2>1 DEF HomeIInv, MentionsAreHome
<1>. QED
  BY <1>1, HomeAlways, PTL

-----------------------------------------------------------------------------
(* Events keep their place.                                                *)

LEMMA OwnAge == ASSUME ChatTypes, NEW t \in Turns PROVE ~Newer(t, t)
BY TurnFields DEF Newer

LEMMA TurnStays ==
  ASSUME HomeIInv, NEW c \in Places,
         spaces'[c].turn \in {spaces[c].turn, NoTurn} \/ spaces'[c].turn \notin Born
  PROVE  ~GoesBack(c)
BY OwnAge, AbsentRefs DEF GoesBack, HomeIInv, Born

LEMMA HearingGoesOn ==
  ASSUME HomeIInv, NEW t \in Turns, HeardAtHome(t), NEW c \in Places
  PROVE  ~GoesBack(c)
<1>1. PICK named \in BOOLEAN, after \in Workspaces :
        /\ t \in Born /\ (named \/ Over(t))
        /\ Hears(t, named, after)
        /\ Shows(Hearer(t, named), t, after)
  BY DEF HeardAtHome
<1>2. /\ Target(t, named) = Home(t) /\ Home(t) \in Places
      /\ Hearer(t, named) = spaces[Home(t)] /\ spaces[Home(t)] \in Workspaces
  BY <1>1, FindsHome DEF Places
<1>3. spaces' = IF Heeds(t, named) THEN [spaces EXCEPT ![Home(t)] = after] ELSE spaces
  BY <1>1, <1>2 DEF Hears
<1>4. CASE c # Home(t) \/ ~Heeds(t, named)
  <2>1. spaces'[c] = spaces[c]
    BY <1>3, <1>4 DEF HomeIInv, ChatTypes
  <2>. QED
    BY <2>1, TurnStays
<1>5. CASE c = Home(t) /\ Heeds(t, named)
  <2>1. spaces'[c] = after
    BY <1>2, <1>3, <1>5 DEF HomeIInv, ChatTypes
  <2>2. CASE after = spaces[c]
    BY <2>1, <2>2, TurnStays
  <2>3. CASE after.turn = t
    <3>1. CASE spaces[c].sending
      BY <3>1 DEF GoesBack
    <3>2. CASE ~spaces[c].sending
      <4>1. ~AwaitsAnother(spaces[c], t) /\ ~PendingHandoff(spaces[c])
        BY <3>2 DEF AwaitsAnother, PendingHandoff
      <4>2. ~OtherTurn(spaces[c], t)
        BY <1>2, <1>5, <4>1 DEF Heeds, StaleTurn
      <4>3. spaces[c].turn = NoTurn \/ spaces[c].turn = t
        BY <4>2 DEF OtherTurn
      <4>. QED
        BY <2>1, <2>3, <4>3, OwnAge, AbsentRefs DEF GoesBack, Born, HomeIInv
    <3>. QED
      BY <3>1, <3>2
  <2>. QED
    BY <1>1, <1>2, <1>5, <2>2, <2>3 DEF Shows
<1>. QED
  BY <1>4, <1>5

LEMMA HearingIntrudesNot ==
  ASSUME HomeIInv, NEW t \in Turns, HeardAtHome(t)
  PROVE  ~Intrudes(t)
<1>1. PICK named \in BOOLEAN, after \in Workspaces :
        /\ t \in Born /\ (named \/ Over(t))
        /\ Hears(t, named, after)
  BY DEF HeardAtHome
<1>2. Resolved(t, named) = Home(t) /\ Target(t, named) = Home(t) /\ Home(t) \in Places
  BY <1>1, FindsHome DEF Places
<1>3. foreground # NoConversation => foreground' = foreground
  BY <1>1, <1>2 DEF Hears, Projected
<1>4. Home(t) # foreground => spaces'[foreground] = spaces[foreground]
  BY <1>1, <1>2 DEF Hears, HomeIInv, ChatTypes
<1>. QED
  BY <1>3, <1>4 DEF Intrudes

LEMMA UserGoesOn ==
  ASSUME HomeIInv, NEW d \in Conversations, ChatUserActs(d), NEW c \in Places
  PROVE  ~GoesBack(c)
<1>0. spaces \in [Places -> Workspaces] /\ d \in Places /\ foreground \in Places
  BY DEF HomeIInv, ChatTypes, Places
<1>1. CASE Ask(d) \/ \E t \in Turns : Dispatch(d, t)
  BY <1>1, TurnStays DEF Ask, Dispatch, store
<1>2. CASE ShowQuery(d)
  <2>1. PICK w : w = [AddRow(spaces[d], UserRow(NoTurn)) EXCEPT !.sending = TRUE]
    OBVIOUS
  <2>2. w.turn = spaces[d].turn
    BY <1>0, <2>1, QueryRowDoes
  <2>3. spaces' = [spaces EXCEPT ![d] = w]
    BY <1>2, <2>1 DEF ShowQuery
  <2>. QED
    BY <1>0, <2>2, <2>3, TurnStays
<1>3. CASE FailToSend(d)
  <2>1. PICK w : w = SendFailure(spaces[d])
    OBVIOUS
  <2>2. w.turn = spaces[d].turn
    BY <1>0, <2>1, FailureDoes
  <2>3. spaces' = [spaces EXCEPT ![d] = w]
    BY <1>3, <2>1 DEF FailToSend
  <2>. QED
    BY <1>0, <2>2, <2>3, TurnStays
<1>4. CASE OpenConversation(d)
  <2>1. PICK rows : spaces' = [spaces EXCEPT ![d].rows = rows, ![d].sending = FALSE]
    BY <1>4 DEF OpenConversation
  <2>2. spaces'[c].turn = spaces[c].turn
    <3>1. PICK w : w = [spaces[d] EXCEPT !.rows = rows, !.sending = FALSE]
      OBVIOUS
    <3>2. w.turn = spaces[d].turn
      BY <1>0, <3>1 DEF Workspaces
    <3>3. spaces' = [spaces EXCEPT ![d] = w]
      BY <1>0, <2>1, <3>1
    <3>. QED
      BY <1>0, <3>2, <3>3
  <2>. QED
    BY <2>2, TurnStays
<1>5. CASE NewChat(d) \/ DeleteConversation(d)
  <2>1. EmptyWorkspace.turn = NoTurn
    BY DEF EmptyWorkspace
  <2>2. \E e \in Places : spaces' = [spaces EXCEPT ![e] = EmptyWorkspace]
    BY <1>0, <1>5 DEF NewChat, DeleteConversation, Cleared
  <2>. QED
    BY <1>0, <2>1, <2>2, TurnStays
<1>6. CASE \E t \in Turns : PillSends(d, t)
  <2>1. PICK t \in Turns : PillSends(d, t)
    BY <1>6
  <2>2. PICK w : w = ShowsQuery(spaces[d], t)
    OBVIOUS
  <2>3. w.turn = t
    BY <1>0, <2>2, ShownQueryDoes
  <2>4. spaces' = [spaces EXCEPT ![d] = w] /\ t \notin Born
    BY <2>1, <2>2 DEF PillSends, Bear, Born
  <2>. QED
    BY <1>0, <2>3, <2>4, TurnStays
<1>. QED
  BY <1>1, <1>2, <1>3, <1>4, <1>5, <1>6 DEF ChatUserActs

LEMMA RestGoesOn ==
  ASSUME HomeIInv, Stop \/ FollowSession \/ LoseTurns \/ UNCHANGED chatVars, NEW c \in Places
  PROVE  ~GoesBack(c)
<1>0. spaces \in [Places -> Workspaces] /\ foreground \in Places
  BY DEF HomeIInv, ChatTypes
<1>1. CASE Stop
  <2>1. PICK w : w = [spaces[foreground] EXCEPT !.sending = FALSE, !.phase = "complete"]
    OBVIOUS
  <2>2. w.turn = spaces[foreground].turn
    BY <1>0, <2>1 DEF Workspaces
  <2>3. spaces' = [spaces EXCEPT ![foreground] = w]
    BY <1>0, <1>1, <2>1 DEF Stop
  <2>. QED
    BY <1>0, <2>2, <2>3, TurnStays
<1>2. CASE ~Stop
  <2>1. spaces' = spaces
    BY <1>2 DEF FollowSession, LoseTurns, chatVars, store
  <2>. QED
    BY <2>1, TurnStays
<1>. QED
  BY <1>1, <1>2

(* An event of the backend never takes the foreground from a conversation  *)
(* nor touches the workspace in front unless the turn is of it, and no step*)
(* takes a workspace back from a turn to an older one once the latch of the*)
(* query is down: shouldIgnoreForStaleTurn and the projection see to it.   *)
THEOREM EventsKeepTheirPlaceHolds == ChatSpec => EventsKeepTheirPlace
<1>. DEFINE Keeps == /\ \A c \in Conversations : ~GoesBack(c)
                     /\ \A t \in Turns : Intrudes(t) => ~HearEvent(t)
<1>1. HomeIInv /\ [ChatNext]_chatVars => Keeps
  <2>. SUFFICES ASSUME HomeIInv, [ChatNext]_chatVars PROVE Keeps
    OBVIOUS
  <2>1. \A t \in Turns : Intrudes(t) => ~HearEvent(t)
    BY EventsAreHeard, HearingIntrudesNot
  <2>2. ASSUME NEW c \in Conversations PROVE ~GoesBack(c)
    <3>1. c \in Places
      BY DEF Places
    <3>. QED
      BY <3>1, EventsAreHeard, HearingGoesOn, UserGoesOn, RestGoesOn DEF ChatNext
  <2>. QED
    BY <2>1, <2>2
<1>2. HomeIInv /\ [ChatNext]_chatVars => [Keeps]_chatVars
  BY <1>1
<1>. QED
  BY <1>2, HomeAlways, PTL DEF ChatSpec, EventsKeepTheirPlace

-----------------------------------------------------------------------------
(* Busy means work.                                                        *)

(* What a workspace may show when W are its open turns and o its send: a   *)
(* busy phase is that of an open turn, and a latch that waits for its first*)
(* event under a terminal phase stands on the row of the query or on an    *)
(* open row of a turn at work, and has a query or a turn to wait for.      *)
Waiting(s, W) ==
  HasRows(s) /\ (LastRow(s).kind = "user" \/ (LastRow(s).open /\ LastRow(s).turn \in W))

Sound(s, W, o) ==
  /\ s.phase \in BusyPhases => s.turn \in W
  /\ PendingHandoff(s) => Waiting(s, W) /\ (o = "shown" \/ W # {})

WorkIInv ==
  HomeIInv /\ \A c \in Conversations \ severed : Sound(spaces[c], OpenIn(c), outbox[c])

LEMMA PhasesApart ==
  /\ "streaming" \notin Terminal /\ "tool-call" \notin Terminal /\ "tool-output" \notin Terminal
  /\ "awaiting-first-chunk" \notin Terminal
  /\ "complete" \notin BusyPhases /\ "error" \notin BusyPhases /\ "idle" \notin BusyPhases
BY DEF Terminal, BusyPhases

LEMMA RestingIsSound ==
  ASSUME NEW s, NEW W, NEW o, ~s.sending, s.phase \notin BusyPhases
  PROVE  Sound(s, W, o)
BY DEF Sound, PendingHandoff

LEMMA RestIsSound ==
  ASSUME NEW s, NEW w, NEW W, NEW o, Sound(s, W, o),
         w.rows = s.rows, w.phase = s.phase, w.sending = s.sending, w.turn = s.turn \/ w.turn \in W
  PROVE  Sound(w, W, o)
BY DEF Sound, PendingHandoff, Waiting, HasRows, LastRow

LEMMA ThoughtIsSound ==
  ASSUME NEW s \in Workspaces, NEW W, NEW o, Sound(s, W, o), NEW t \in Turns, t \in W
  PROVE  Sound(ShowsThought(s, t), W, o)
<1>1. PICK w \in Workspaces :
        /\ w = ShowsThought(s, t) /\ w.turn = t /\ w.phase = s.phase /\ w.sending = s.sending
        /\ w.rows = IF LastTextRow(s, t) # 0 THEN s.rows ELSE Append(s.rows, TextRow(t, 0, TRUE))
  BY ThoughtDoes
<1>2. CASE LastTextRow(s, t) # 0
  BY <1>1, <1>2, RestIsSound
<1>3. CASE LastTextRow(s, t) = 0
  <2>1. PICK row \in RowRecords : row = TextRow(t, 0, TRUE) /\ row.open /\ row.turn = t
    BY TextIsARow, ZeroAndOne
  <2>2. w.rows = Append(s.rows, row) /\ s.rows \in Seq(RowRecords)
    BY <1>1, <1>3, <2>1 DEF Workspaces
  <2>3. HasRows(w) /\ LastRow(w) = row
    BY <2>2, AppendedRows DEF HasRows, LastRow
  <2>4. Waiting(w, W)
    BY <2>1, <2>3 DEF Waiting
  <2>. QED
    BY <1>1, <2>4 DEF Sound
<1>. QED
  BY <1>2, <1>3

LEMMA WorkIsSound ==
  ASSUME NEW s, NEW W, NEW o, NEW t, t \in W, s.turn = t,
         s.phase \in {"streaming", "tool-call", "tool-output", "awaiting-first-chunk"}
  PROVE  Sound(s, W, o)
BY PhasesApart DEF Sound, PendingHandoff

(* A turn that ends: its workspace takes the end, or shows another's work. *)
LEMMA EndUnheededIsSound ==
  ASSUME NEW s \in Workspaces, NEW W, NEW o, Sound(s, W, o), NEW t \in Turns, StaleTurn(s, t)
  PROVE  Sound(s, W \ {t}, o)
<1>1. CASE PendingHandoff(s)
  <2>1. IgnoredAtHandoff(s, t)
    BY <1>1 DEF StaleTurn
  <2>2. HasRows(s) /\ LastRow(s).kind # "user" /\ LastRow(s).open /\ LastRow(s).turn \in W
    BY <1>1, <2>1 DEF Sound, Waiting, IgnoredAtHandoff
  <2>3. LastRow(s).turn # t
    BY <2>1, <2>2 DEF IgnoredAtHandoff, HoldsPlaceholder
  <2>4. s.phase \notin BusyPhases
    BY <1>1 DEF PendingHandoff, Terminal, BusyPhases
  <2>. QED
    BY <2>2, <2>3, <2>4 DEF Sound, Waiting
<1>2. CASE ~PendingHandoff(s)
  BY <1>2 DEF StaleTurn, OtherTurn, Sound
<1>. QED
  BY <1>1, <1>2

LEMMA LateIsSound ==
  ASSUME NEW s \in Workspaces, NEW W, NEW o, Sound(s, W, o), NEW t \in Turns,
         W \subseteq Turns, t \in W \/ ~StaleTurn(s, t), NEW w,
         w = CountsTokens(s, t) \/ w = StoresMemory(s, t)
  PROVE  Sound(w, W, o)
<1>1. /\ w \in Workspaces /\ w.turn = t /\ w.rows = s.rows /\ LateOn(s, w)
      /\ s.sending /\ s.phase = "awaiting-first-chunk" => w.phase = "complete"
  BY LateDoes
<1>2. CASE w.phase = "complete" /\ ~w.sending
  BY <1>2, PhasesApart, RestingIsSound
<1>3. CASE w.phase = s.phase /\ w.sending = s.sending
  <2>1. PendingHandoff(w) => Waiting(w, W) /\ (o = "shown" \/ W # {})
    BY <1>1, <1>3 DEF Sound, PendingHandoff, Waiting, HasRows, LastRow
  <2>2. ASSUME w.phase \in BusyPhases PROVE w.turn \in W
    <3>1. s.turn \in W /\ ~AwaitsAnother(s, t) /\ ~PendingHandoff(s)
      BY <1>1, <1>3, <2>2 DEF Sound, AwaitsAnother, PendingHandoff, Terminal, BusyPhases
    <3>2. t \in W \/ ~OtherTurn(s, t)
      BY <3>1 DEF StaleTurn
    <3>. QED
      BY <1>1, <3>1, <3>2, AbsentRefs DEF OtherTurn
  <2>. QED
    BY <2>1, <2>2 DEF Sound
<1>. QED
  BY <1>1, <1>2, <1>3 DEF LateOn

(* What hearing an event leaves in a workspace.                            *)
Leaves(t, named, after, c) ==
  spaces'[c] = IF c = Home(t) /\ Heeds(t, named) THEN after ELSE spaces[c]

LEMMA HearingLeaves ==
  ASSUME HomeIInv, NEW t \in Turns, t \in Born, NEW named \in BOOLEAN, named \/ Over(t),
         NEW after, Hears(t, named, after), NEW c \in Conversations
  PROVE  /\ Leaves(t, named, after, c) /\ outbox' = outbox /\ severed' = severed
         /\ spaces[c] \in Workspaces
         /\ Heeds(t, named) <=> ~StaleTurn(spaces[Home(t)], t)
         /\ Hearer(t, named) = spaces[Home(t)]
<1>1. Target(t, named) = Home(t) /\ Home(t) \in Places /\ c \in Places
      /\ Hearer(t, named) = spaces[Home(t)]
  BY FindsHome DEF Places
<1>. QED
  BY <1>1 DEF Hears, Leaves, HomeIInv, ChatTypes, Heeds

LEMMA MarksKeepWork ==
  ASSUME WorkIInv, NEW t \in Turns, NEW named \in BOOLEAN, t \in Born, named \/ Over(t),
         NEW after, Hears(t, named, after), UNCHANGED <<turns, kept>>,
         \A c \in Conversations \ severed :
           c = Home(t) /\ ~StaleTurn(spaces[c], t) => Sound(after, OpenIn(c), outbox[c])
  PROVE  \A c \in Conversations \ severed' : Sound(spaces'[c], OpenIn(c)', outbox'[c])
<1>. SUFFICES ASSUME NEW c \in Conversations, c \notin severed'
              PROVE  Sound(spaces'[c], OpenIn(c)', outbox'[c])
  OBVIOUS
<1>1. /\ Leaves(t, named, after, c) /\ outbox' = outbox /\ c \notin severed
      /\ Heeds(t, named) <=> ~StaleTurn(spaces[Home(t)], t)
  BY HearingLeaves DEF WorkIInv
<1>2. OpenIn(c)' = OpenIn(c)
  BY DEF OpenIn, Open, Home
<1>3. Sound(spaces[c], OpenIn(c), outbox[c])
  BY <1>1 DEF WorkIInv
<1>. QED
  BY <1>1, <1>2, <1>3 DEF Leaves

(* A turn that goes on: open turns stay what they are.                     *)
LEMMA GoingOnKeepsOpen ==
  ASSUME NEW t \in Turns, TurnsGoOn(t), (turns'[t].stage = "open") <=> (turns[t].stage = "open"),
         NEW c
  PROVE  OpenIn(c)' = OpenIn(c)
BY DEF TurnsGoOn, OpenIn, Open, Home

LEMMA StepsKeepWork ==
  ASSUME WorkIInv, NEW t \in Turns, t \in Born, NEW after, Hears(t, TRUE, after),
         \A c \in Conversations : OpenIn(c)' = OpenIn(c),
         \A c \in Conversations \ severed :
           c = Home(t) => Sound(after, OpenIn(c), outbox[c])
  PROVE  \A c \in Conversations \ severed' : Sound(spaces'[c], OpenIn(c)', outbox'[c])
<1>. SUFFICES ASSUME NEW c \in Conversations, c \notin severed'
              PROVE  Sound(spaces'[c], OpenIn(c)', outbox'[c])
  OBVIOUS
<1>1. Leaves(t, TRUE, after, c) /\ outbox' = outbox /\ c \notin severed
  BY HearingLeaves DEF WorkIInv
<1>2. Sound(spaces[c], OpenIn(c), outbox[c])
  BY <1>1 DEF WorkIInv
<1>. QED
  BY <1>1, <1>2 DEF Leaves

LEMMA EndsKeepWork ==
  ASSUME WorkIInv, NEW t \in Turns, Open(t), NEW after, Hears(t, TRUE, after),
         TurnsGoOn(t), turns'[t].stage # "open",
         \A W, o : Sound(after, W, o)
  PROVE  \A c \in Conversations \ severed' : Sound(spaces'[c], OpenIn(c)', outbox'[c])
<1>. SUFFICES ASSUME NEW c \in Conversations, c \notin severed'
              PROVE  Sound(spaces'[c], OpenIn(c)', outbox'[c])
  OBVIOUS
<1>0. t \in Born
  BY DEF Open, Born
<1>1. /\ Leaves(t, TRUE, after, c) /\ outbox' = outbox /\ c \notin severed
      /\ Heeds(t, TRUE) <=> ~StaleTurn(spaces[Home(t)], t)
      /\ spaces[c] \in Workspaces
  BY <1>0, HearingLeaves DEF WorkIInv
<1>2. OpenIn(c)' = OpenIn(c) \ {t}
  BY DEF TurnsGoOn, OpenIn, Open, Home
<1>3. Sound(spaces[c], OpenIn(c), outbox[c])
  BY <1>1 DEF WorkIInv
<1>4. CASE c # Home(t)
  <2>1. OpenIn(c)' = OpenIn(c)
    BY <1>2, <1>4 DEF OpenIn
  <2>. QED
    BY <1>1, <1>3, <1>4, <2>1 DEF Leaves
<1>5. CASE c = Home(t) /\ Heeds(t, TRUE)
  BY <1>1, <1>5 DEF Leaves
<1>6. CASE c = Home(t) /\ ~Heeds(t, TRUE)
  <2>0. PICK s \in Workspaces : s = spaces[c]
    BY <1>1
  <2>1. PICK W, o : W = OpenIn(c) /\ o = outbox[c]
    OBVIOUS
  <2>2. StaleTurn(s, t) /\ Sound(s, W, o)
    BY <1>1, <1>3, <1>6, <2>0, <2>1
  <2>3. Sound(s, W \ {t}, o)
    BY <2>2, EndUnheededIsSound
  <2>4. Sound(spaces[c], OpenIn(c) \ {t}, outbox[c])
    BY <2>0, <2>1, <2>3
  <2>. QED
    BY <1>1, <1>2, <1>6, <2>4 DEF Leaves
<1>. QED
  BY <1>4, <1>5, <1>6

Working == \A c \in Conversations \ severed : Sound(spaces[c], OpenIn(c), outbox[c])

LEMMA HeardAt ==
  ASSUME WorkIInv, NEW t \in Turns, t \in Born
  PROVE  /\ Home(t) \in Conversations /\ Hearer(t, TRUE) = spaces[Home(t)]
         /\ spaces[Home(t)] \in Workspaces
         /\ Home(t) \notin severed => Sound(spaces[Home(t)], OpenIn(Home(t)), outbox[Home(t)])
         /\ Open(t) => t \in OpenIn(Home(t))
<1>1. Home(t) \in Conversations /\ Hearer(t, TRUE) = spaces[Home(t)] /\ spaces[Home(t)] \in Workspaces
  BY FindsHome DEF WorkIInv
<1>. QED
  BY <1>1 DEF WorkIInv, OpenIn

LEMMA MetadataKeepsWork ==
  ASSUME WorkIInv, NEW t \in Turns, HearMetadata(t) \/ HearCompaction(t) \/ HearBenignError(t)
  PROVE  Working'
<1>1. Open(t) /\ t \in Born
  BY DEF HearMetadata, HearCompaction, HearBenignError, Open, Born
<1>s. PICK s \in Workspaces : s = spaces[Home(t)] /\ s = Hearer(t, TRUE)
  BY <1>1, HeardAt
<1>2. PICK W, o :
        /\ W = OpenIn(Home(t)) /\ o = outbox[Home(t)]
        /\ t \in W /\ (Home(t) \notin severed => Sound(s, W, o))
  BY <1>s, <1>1, HeardAt
<1>3. PICK after : Marks(t, TRUE, after) /\ (after = s \/ after = Tracked(s, t))
  BY <1>2, <1>s DEF HearMetadata, HearCompaction, HearBenignError
<1>4. Home(t) \notin severed => Sound(after, W, o)
  <2>0. PICK w : /\ w = Tracked(s, t) /\ w.rows = s.rows /\ w.phase = s.phase /\ w.sending = s.sending
                 /\ w.turn = t
    BY Tracking
  <2>1. after.rows = s.rows /\ after.phase = s.phase /\ after.sending = s.sending
    BY <1>3, <2>0
  <2>2. after.turn = s.turn \/ after.turn \in W
    BY <1>2, <1>3, <2>0
  <2>. QED
    BY <1>2, <1>s, <2>1, <2>2, RestIsSound
<1>. QED
  BY <1>1, <1>2, <1>s, <1>3, <1>4, MarksKeepWork DEF Marks, Working

LEMMA ThoughtKeepsWork ==
  ASSUME WorkIInv, NEW t \in Turns, HearThought(t)
  PROVE  Working'
<1>1. Open(t) /\ t \in Born
  BY DEF HearThought, Open, Born
<1>s. PICK s \in Workspaces : s = spaces[Home(t)] /\ s = Hearer(t, TRUE)
  BY <1>1, HeardAt
<1>2. PICK W, o :
        /\ W = OpenIn(Home(t)) /\ o = outbox[Home(t)]
        /\ t \in W /\ (Home(t) \notin severed => Sound(s, W, o))
  BY <1>s, <1>1, HeardAt
<1>3. PICK after : Marks(t, TRUE, after) /\ after = ShowsThought(s, t)
  BY <1>2, <1>s DEF HearThought
<1>4. Home(t) \notin severed => Sound(after, W, o)
  BY <1>2, <1>s, <1>3, ThoughtIsSound
<1>. QED
  BY <1>1, <1>2, <1>s, <1>3, <1>4, MarksKeepWork DEF Marks, Working

LEMMA ChunkKeepsWork ==
  ASSUME WorkIInv, NEW t \in Turns, HearChunk(t)
  PROVE  Working'
<1>1. Open(t) /\ t \in Born
  BY DEF HearChunk, Open, Born
<1>s. PICK s \in Workspaces : s = spaces[Home(t)] /\ s = Hearer(t, TRUE)
  BY <1>1, HeardAt
<1>2. PICK W, o :
        /\ W = OpenIn(Home(t)) /\ o = outbox[Home(t)]
        /\ t \in W
  BY <1>s, <1>1, HeardAt
<1>3. PICK after : Hears(t, TRUE, after) /\ after = ShowsChunk(s, t)
  BY <1>2, <1>s DEF HearChunk
<1>4. Sound(after, W, o)
  <2>1. after.turn = t /\ after.phase = "streaming"
    BY <1>2, <1>s, <1>3, ChunkDoes
  <2>. QED
    BY <1>2, <1>s, <2>1, WorkIsSound
<1>5. TurnsGoOn(t)
  BY ChunkTurns DEF WorkIInv
<1>6. turns'[t].stage = turns[t].stage
  <2>1. turns[t] \in Lives /\ turns \in [Turns -> Lives]
    BY TurnFields DEF WorkIInv, HomeIInv, ChatTypes
  <2>2. PICK n : turns' = [turns EXCEPT ![t].said = n, ![t].cut = FALSE]
    BY DEF HearChunk
  <2>3. turns'[t] = [turns[t] EXCEPT !.said = n, !.cut = FALSE]
    BY <2>1, <2>2
  <2>. QED
    BY <2>1, <2>3 DEF Lives
<1>7. \A c \in Conversations : OpenIn(c)' = OpenIn(c)
  BY <1>5, <1>6, GoingOnKeepsOpen
<1>. QED
  BY <1>1, <1>2, <1>s, <1>3, <1>4, <1>7, StepsKeepWork DEF Working

LEMMA ToolRowKeepsWork ==
  ASSUME WorkIInv, NEW t \in Turns,
         HearToolCall(t) \/ HearToolOutput(t) \/ HearToolBundle(t) \/ HearSearch(t)
  PROVE  Working'
<1>0. PICK after : HearToolRow(t, after) /\ ShowsTool(Hearer(t, TRUE), t, after)
  BY DEF HearToolCall, HearToolOutput, HearToolBundle, HearSearch, ShowsTool
<1>1. Open(t) /\ t \in Born
  BY <1>0 DEF HearToolRow, Open, Born
<1>s. PICK s \in Workspaces : s = spaces[Home(t)] /\ s = Hearer(t, TRUE)
  BY <1>1, HeardAt
<1>2. PICK W, o :
        /\ W = OpenIn(Home(t)) /\ o = outbox[Home(t)]
        /\ t \in W
  BY <1>s, <1>1, HeardAt
<1>3. Hears(t, TRUE, after) /\ ShowsTool(s, t, after)
  BY <1>0, <1>2, <1>s DEF HearToolRow
<1>4. Sound(after, W, o)
  <2>1. after.turn = t /\ after.phase \in {"tool-call", "tool-output"}
    BY <1>3, ToolRowDoes
  <2>. QED
    BY <1>2, <1>s, <2>1, WorkIsSound
<1>5. TurnsGoOn(t)
  BY <1>0, ToolTurns DEF WorkIInv
<1>6. turns'[t].stage = turns[t].stage
  <2>1. turns[t] \in Lives /\ turns \in [Turns -> Lives]
    BY TurnFields DEF WorkIInv, HomeIInv, ChatTypes
  <2>2. PICK n, b : turns' = [turns EXCEPT ![t].tools = n, ![t].cut = b]
    BY <1>0 DEF HearToolRow
  <2>3. turns'[t] = [turns[t] EXCEPT !.tools = n, !.cut = b]
    BY <2>1, <2>2
  <2>. QED
    BY <2>1, <2>3 DEF Lives
<1>7. \A c \in Conversations : OpenIn(c)' = OpenIn(c)
  BY <1>5, <1>6, GoingOnKeepsOpen
<1>. QED
  BY <1>1, <1>2, <1>s, <1>3, <1>4, <1>7, StepsKeepWork DEF Working

LEMMA EndedStage ==
  ASSUME ChatTypes, NEW t \in Turns, NEW stage, turns' = [turns EXCEPT ![t].stage = stage]
  PROVE  /\ turns'[t].stage = stage /\ turns'[t].said = turns[t].said /\ turns'[t].cut = turns[t].cut
         /\ turns'[t].home = turns[t].home
<1>1. turns[t] \in Lives /\ turns \in [Turns -> Lives]
  BY TurnFields DEF ChatTypes
<1>2. turns'[t] = [turns[t] EXCEPT !.stage = stage]
  BY <1>1
<1>. QED
  BY <1>1, <1>2 DEF Lives

LEMMA CompleteIs ==
  ASSUME HomeIInv, NEW t \in Turns, HearComplete(t)
  PROVE  \E final \in {0, turns[t].said}, stage \in {"answered", "ended"} :
           /\ final \in 0..MaxChunks
           /\ Hears(t, TRUE, Completed(Hearer(t, TRUE), t, final))
           /\ turns' = [turns EXCEPT ![t].stage = stage]
           /\ stage = "answered" => turns[t].said > 0
           /\ kept' = IF Heeds(t, TRUE) /\ Recorded(Hearer(t, TRUE), t, final) > 0
                      THEN [kept EXCEPT ![t] = IF Recorded(Hearer(t, TRUE), t, final) = turns[t].said
                                               THEN "whole" ELSE "cut"]
                      ELSE kept
<1>0. {0, turns[t].said} \subseteq 0..MaxChunks
  BY ZeroAndOne, TurnFields DEF HomeIInv
<1>1. PICK final \in {0, turns[t].said} :
        /\ Hears(t, TRUE, Completed(Hearer(t, TRUE), t, final))
        /\ turns' = [turns EXCEPT ![t].stage = IF @ = "open" /\ turns[t].said > 0
                                               THEN "answered" ELSE "ended"]
        /\ kept' = IF Heeds(t, TRUE) /\ Recorded(Hearer(t, TRUE), t, final) > 0
                   THEN [kept EXCEPT ![t] = IF Recorded(Hearer(t, TRUE), t, final) = turns[t].said
                                            THEN "whole" ELSE "cut"]
                   ELSE kept
  BY DEF HearComplete
<1>2. CASE turns[t].stage = "open" /\ turns[t].said > 0
  <2>1. turns' = [turns EXCEPT ![t].stage = "answered"]
    BY <1>1, <1>2
  <2>. QED
    BY <1>0, <1>1, <1>2, <2>1
<1>3. CASE ~(turns[t].stage = "open" /\ turns[t].said > 0)
  <2>1. turns' = [turns EXCEPT ![t].stage = "ended"]
    BY <1>1, <1>3
  <2>. QED
    BY <1>0, <1>1, <2>1
<1>. QED
  BY <1>2, <1>3

LEMMA EndKeepsWork ==
  ASSUME WorkIInv, NEW t \in Turns, HearComplete(t) \/ HearError(t)
  PROVE  Working'
<1>1. Open(t) /\ t \in Born
  BY DEF HearComplete, HearError, Open, Born
<1>2. PICK s \in Workspaces : s = Hearer(t, TRUE)
  BY <1>1, HeardAt
<1>3. CASE HearComplete(t)
  <2>1. PICK final \in 0..MaxChunks, stage \in {"answered", "ended"} :
          /\ Hears(t, TRUE, Completed(s, t, final))
          /\ turns' = [turns EXCEPT ![t].stage = stage]
          /\ kept' = kept \/ \E k \in {"whole", "cut"} : kept' = [kept EXCEPT ![t] = k]
    <3>1. PICK final \in {0, turns[t].said}, stage \in {"answered", "ended"} :
            /\ final \in 0..MaxChunks
            /\ Hears(t, TRUE, Completed(Hearer(t, TRUE), t, final))
            /\ turns' = [turns EXCEPT ![t].stage = stage]
            /\ kept' = IF Heeds(t, TRUE) /\ Recorded(Hearer(t, TRUE), t, final) > 0
                       THEN [kept EXCEPT ![t] = IF Recorded(Hearer(t, TRUE), t, final) = turns[t].said
                                                THEN "whole" ELSE "cut"]
                       ELSE kept
      BY <1>3, CompleteIs DEF WorkIInv
    <3>2. kept' = kept \/ \E k \in {"whole", "cut"} : kept' = [kept EXCEPT ![t] = k]
      BY <3>1
    <3>. QED
      BY <1>2, <3>1, <3>2
  <2>2. TurnsGoOn(t)
    BY <1>1, <2>1, EndTurns DEF WorkIInv
  <2>3. turns'[t].stage # "open"
    BY <2>1, EndedStage DEF WorkIInv, HomeIInv
  <2>4. PICK after : after = Completed(s, t, final)
    OBVIOUS
  <2>5. after.phase \notin BusyPhases /\ ~after.sending
    BY <2>4, CompletedDoes, PhasesApart
  <2>6. \A W, o : Sound(after, W, o)
    BY <2>5, RestingIsSound
  <2>. QED
    BY <1>1, <2>1, <2>2, <2>3, <2>4, <2>6, EndsKeepWork DEF Working
<1>4. CASE HearError(t)
  <2>0. PICK stage \in {"ended"} : turns' = [turns EXCEPT ![t].stage = stage]
    BY <1>4 DEF HearError
  <2>1. Hears(t, TRUE, ShowsError(s, t)) /\ turns' = [turns EXCEPT ![t].stage = "ended"] /\ kept' = kept
    BY <1>2, <1>4 DEF HearError
  <2>2. TurnsGoOn(t)
    BY <1>1, <2>1, EndTurns DEF WorkIInv
  <2>3. turns'[t].stage # "open"
    BY <2>0, EndedStage DEF WorkIInv, HomeIInv
  <2>4. PICK after : after = ShowsError(s, t)
    OBVIOUS
  <2>5. after.phase \notin BusyPhases /\ ~after.sending
    BY <2>4, ErrorDoes, PhasesApart
  <2>6. \A W, o : Sound(after, W, o)
    BY <2>5, RestingIsSound
  <2>. QED
    BY <1>1, <2>1, <2>2, <2>3, <2>4, <2>6, EndsKeepWork DEF Working
<1>. QED
  BY <1>3, <1>4

LEMMA LateKeepsWork ==
  ASSUME WorkIInv, NEW t \in Turns, HearTokenCount(t) \/ HearMemoryStore(t)
  PROVE  Working'
<1>1. PICK named \in BOOLEAN : \E after :
        /\ (named /\ Open(t)) \/ Over(t)
        /\ Marks(t, named, after)
        /\ after = CountsTokens(Hearer(t, named), t) \/ after = StoresMemory(Hearer(t, named), t)
  BY DEF HearTokenCount, HearMemoryStore
<1>2. PICK after :
        /\ Marks(t, named, after)
        /\ after = CountsTokens(Hearer(t, named), t) \/ after = StoresMemory(Hearer(t, named), t)
  BY <1>1
<1>3. t \in Born /\ (named \/ Over(t))
  BY <1>1 DEF Open, Over, Born
<1>s. PICK s \in Workspaces : s = spaces[Home(t)] /\ s = Hearer(t, named)
  BY <1>3, FindsHome DEF WorkIInv, OpenIn
<1>4. PICK W, o :
        /\ W = OpenIn(Home(t)) /\ o = outbox[Home(t)]
        /\ (Home(t) \notin severed => Sound(s, W, o)) /\ W \subseteq Turns
  BY <1>s, <1>3, FindsHome DEF WorkIInv, OpenIn
<1>5. after = CountsTokens(s, t) \/ after = StoresMemory(s, t)
  BY <1>2, <1>4, <1>s
<1>6. Home(t) \notin severed /\ ~StaleTurn(s, t) => Sound(after, W, o)
  BY <1>4, <1>s, <1>5, LateIsSound
<1>. QED
  BY <1>2, <1>3, <1>4, <1>s, <1>6, MarksKeepWork DEF Marks, Working

LEMMA EventsKeepWork ==
  ASSUME WorkIInv, NEW t \in Turns, HearEvent(t)
  PROVE  Working'
BY MetadataKeepsWork, ThoughtKeepsWork, ChunkKeepsWork, ToolRowKeepsWork, EndKeepsWork,
   LateKeepsWork DEF HearEvent

LEMMA UserKeepsWork ==
  ASSUME WorkIInv, NEW c \in Conversations, ChatUserActs(c)
  PROVE  Working'
<1>. SUFFICES ASSUME NEW d \in Conversations, d \notin severed'
              PROVE  Sound(spaces'[d], OpenIn(d)', outbox'[d])
  BY DEF Working
<1>0. /\ spaces \in [Places -> Workspaces] /\ spaces[d] \in Workspaces /\ spaces[c] \in Workspaces
      /\ c \in Places /\ d \in Places /\ foreground \in Places /\ ChatTypes
      /\ outbox \in [Conversations -> {"none", "asked", "shown"}]
  BY DEF WorkIInv, HomeIInv, ChatTypes, Places
<1>s. severed' = severed
  BY DEF ChatUserActs, Ask, ShowQuery, FailToSend, OpenConversation, NewChat, DeleteConversation,
         Dispatch, PillSends
<1>w. Sound(spaces[d], OpenIn(d), outbox[d])
  BY <1>s DEF WorkIInv
<1>o. ASSUME turns' = turns PROVE OpenIn(d)' = OpenIn(d)
  BY <1>o DEF OpenIn, Open, Home
<1>1. CASE Ask(c)
  <2>1. outbox'[d] = "shown" <=> outbox[d] = "shown"
    BY <1>0, <1>1 DEF Ask
  <2>2. spaces' = spaces /\ turns' = turns
    BY <1>1 DEF Ask
  <2>. QED
    BY <1>w, <1>o, <2>1, <2>2 DEF Sound
<1>2. CASE ShowQuery(c)
  <2>1. turns' = turns /\ outbox' = [outbox EXCEPT ![c] = "shown"]
    BY <1>2 DEF ShowQuery
  <2>2. CASE d # c
    <3>1. spaces'[d] = spaces[d] /\ outbox'[d] = outbox[d]
      BY <1>0, <1>2, <2>1, <2>2 DEF ShowQuery
    <3>. QED
      BY <1>w, <1>o, <2>1, <3>1
  <2>3. CASE d = c
    <3>1. PICK w : w = [AddRow(spaces[c], UserRow(NoTurn)) EXCEPT !.sending = TRUE]
      OBVIOUS
    <3>2. PICK row \in RowRecords : row = UserRow(NoTurn) /\ row.kind = "user"
      BY RowKindsAreRows
    <3>3. /\ w \in Workspaces /\ w.rows = Append(spaces[c].rows, row)
          /\ w.turn = spaces[c].turn /\ w.phase = spaces[c].phase
      BY <1>0, <3>1, <3>2, QueryRowDoes
    <3>4. spaces[c].rows \in Seq(RowRecords)
      BY <1>0 DEF Workspaces
    <3>5. HasRows(w) /\ LastRow(w) = row
      BY <3>3, <3>4, AppendedRows DEF HasRows, LastRow
    <3>6. spaces'[d] = w /\ outbox'[d] = "shown"
      BY <1>0, <1>2, <2>1, <2>3, <3>1 DEF ShowQuery
    <3>7. OpenIn(d)' = OpenIn(d)
      BY <1>o, <2>1
    <3>. QED
      BY <1>w, <2>3, <3>2, <3>3, <3>5, <3>6, <3>7 DEF Sound, Waiting
  <2>. QED
    BY <2>2, <2>3
<1>3. CASE FailToSend(c)
  <2>1. turns' = turns /\ outbox' = [outbox EXCEPT ![c] = "none"]
    BY <1>3 DEF FailToSend
  <2>2. CASE d # c
    <3>1. spaces'[d] = spaces[d] /\ outbox'[d] = outbox[d]
      BY <1>0, <1>3, <2>1, <2>2 DEF FailToSend
    <3>. QED
      BY <1>w, <1>o, <2>1, <3>1
  <2>3. CASE d = c
    <3>1. PICK w : w = SendFailure(spaces[c])
      OBVIOUS
    <3>2. w.turn = spaces[c].turn /\ w.phase = spaces[c].phase /\ ~w.sending
      BY <1>0, <3>1, FailureDoes
    <3>3. spaces'[d] = w /\ OpenIn(d)' = OpenIn(d)
      BY <1>0, <1>3, <1>o, <2>1, <2>3, <3>1 DEF FailToSend
    <3>. QED
      BY <1>w, <2>3, <3>2, <3>3 DEF Sound, PendingHandoff
  <2>. QED
    BY <2>2, <2>3
<1>4. CASE OpenConversation(c)
  <2>1. turns' = turns /\ outbox' = outbox
    BY <1>4 DEF OpenConversation
  <2>2. PICK rows : spaces' = [spaces EXCEPT ![c].rows = rows, ![c].sending = FALSE]
    BY <1>4 DEF OpenConversation
  <2>3. CASE d # c
    <3>1. spaces'[d] = spaces[d]
      BY <1>0, <2>2, <2>3
    <3>. QED
      BY <1>w, <1>o, <2>1, <3>1
  <2>4. CASE d = c
    <3>1. PICK w : w = [spaces[c] EXCEPT !.rows = rows, !.sending = FALSE]
      OBVIOUS
    <3>2. w.turn = spaces[c].turn /\ w.phase = spaces[c].phase /\ ~w.sending
      BY <1>0, <3>1 DEF Workspaces
    <3>3. spaces'[d] = w /\ OpenIn(d)' = OpenIn(d)
      BY <1>0, <1>o, <2>1, <2>2, <2>4, <3>1
    <3>. QED
      BY <1>w, <2>4, <3>2, <3>3 DEF Sound, PendingHandoff
  <2>. QED
    BY <2>3, <2>4
<1>5. CASE NewChat(c) \/ DeleteConversation(c)
  <2>1. turns' = turns /\ outbox' = outbox
    BY <1>5 DEF NewChat, DeleteConversation
  <2>2. spaces'[d] = spaces[d] \/ spaces'[d] = EmptyWorkspace
    BY <1>0, <1>5 DEF NewChat, DeleteConversation, Cleared
  <2>3. \A W, o : Sound(EmptyWorkspace, W, o)
    BY RestingIsSound, PhasesApart DEF EmptyWorkspace
  <2>. QED
    BY <1>w, <1>o, <2>1, <2>2, <2>3
<1>6. CASE \E t \in Turns : Dispatch(c, t) \/ PillSends(c, t)
  <2>1. PICK t \in Turns : Dispatch(c, t) \/ PillSends(c, t)
    BY <1>6
  <2>2. Bear(t, c)
    BY <2>1 DEF Dispatch, PillSends
  <2>3. /\ turns'[t].home = c /\ turns'[t].stage = "open" /\ t \notin Born
        /\ \A u \in Turns \ {t} : turns'[u] = turns[u]
    BY <1>0, <2>2, Begins
  <2>4. OpenIn(d)' = IF d = c THEN OpenIn(d) \union {t} ELSE OpenIn(d)
    BY <2>3 DEF OpenIn, Open, Home, Born
  <2>5. CASE Dispatch(c, t)
    <3>1. spaces' = spaces /\ outbox' = [outbox EXCEPT ![c] = "none"]
      BY <2>5 DEF Dispatch, store
    <3>2. CASE d = c
      BY <1>w, <2>4, <3>1, <3>2 DEF Sound, Waiting
    <3>3. CASE d # c
      BY <1>0, <1>w, <2>4, <3>1, <3>3
    <3>. QED
      BY <3>2, <3>3
  <2>6. CASE PillSends(c, t)
    <3>1. outbox' = outbox /\ spaces' = [spaces EXCEPT ![c] = ShowsQuery(@, t)]
      BY <2>6 DEF PillSends
    <3>2. CASE d = c
      <4>1. PICK w : w = ShowsQuery(spaces[c], t)
        OBVIOUS
      <4>2. w.turn = t /\ w.phase = "awaiting-first-chunk"
        BY <1>0, <4>1, ShownQueryDoes
      <4>3. PICK W : W = OpenIn(d)' /\ t \in W
        BY <2>4, <3>2
      <4>4. Sound(w, W, outbox[d])
        BY <4>2, <4>3, WorkIsSound
      <4>5. spaces'[d] = w
        BY <1>0, <3>1, <3>2, <4>1
      <4>. QED
        BY <3>1, <4>3, <4>4, <4>5
    <3>3. CASE d # c
      BY <1>0, <1>w, <2>4, <3>1, <3>3
    <3>. QED
      BY <3>2, <3>3
  <2>. QED
    BY <2>1, <2>5, <2>6
<1>. QED
  BY <1>1, <1>2, <1>3, <1>4, <1>5, <1>6 DEF ChatUserActs

LEMMA RestKeepsWork ==
  ASSUME WorkIInv, Stop \/ FollowSession \/ LoseTurns \/ UNCHANGED chatVars
  PROVE  Working'
<1>. SUFFICES ASSUME NEW d \in Conversations, d \notin severed'
              PROVE  Sound(spaces'[d], OpenIn(d)', outbox'[d])
  BY DEF Working
<1>0. /\ spaces \in [Places -> Workspaces] /\ spaces[d] \in Workspaces
      /\ d \in Places /\ foreground \in Places /\ ChatTypes
  BY DEF WorkIInv, HomeIInv, ChatTypes, Places
<1>s. outbox' = outbox /\ d \notin severed
  BY DEF Stop, FollowSession, LoseTurns, chatVars, store
<1>w. Sound(spaces[d], OpenIn(d), outbox[d])
  BY <1>s DEF WorkIInv
<1>o. ASSUME turns' = turns PROVE OpenIn(d)' = OpenIn(d)
  BY <1>o DEF OpenIn, Open, Home
<1>1. CASE Stop
  <2>1. PICK w : w = [spaces[foreground] EXCEPT !.sending = FALSE, !.phase = "complete"]
    OBVIOUS
  <2>2. ~w.sending /\ w.phase = "complete"
    BY <1>0, <2>1 DEF Workspaces
  <2>3. spaces'[d] = w \/ spaces'[d] = spaces[d]
    BY <1>0, <1>1, <2>1 DEF Stop
  <2>4. \A W, o : Sound(w, W, o)
    BY <2>2, PhasesApart, RestingIsSound
  <2>5. OpenIn(d)' = OpenIn(d)
    BY <1>1, <1>o DEF Stop
  <2>. QED
    BY <1>s, <1>w, <2>3, <2>4, <2>5
<1>2. CASE FollowSession \/ UNCHANGED chatVars
  <2>1. spaces' = spaces /\ OpenIn(d)' = OpenIn(d)
    BY <1>2, <1>o DEF FollowSession, chatVars, store
  <2>. QED
    BY <1>s, <1>w, <2>1
<1>3. CASE LoseTurns
  <2>1. /\ spaces' = spaces
        /\ turns' = [t \in Turns |-> [turns[t] EXCEPT !.stage = IF @ = "open" THEN "lost" ELSE @]]
        /\ \A t \in Turns : Open(t) => Home(t) # d
    BY <1>3 DEF LoseTurns, store
  <2>2. ASSUME NEW t \in Turns PROVE ~(turns'[t].stage = "open")
    <3>1. turns[t] \in Lives
      BY <1>0, TurnFields
    <3>. QED
      BY <2>1, <3>1 DEF Lives
  <2>3. OpenIn(d)' = {} /\ OpenIn(d) = {}
    BY <2>1, <2>2 DEF OpenIn, Open
  <2>. QED
    BY <1>s, <1>w, <2>1, <2>3
<1>. QED
  BY <1>1, <1>2, <1>3

LEMMA WorkInit == ChatInit => WorkIInv
<1>. SUFFICES ASSUME ChatInit, NEW c \in Conversations PROVE Sound(spaces[c], OpenIn(c), outbox[c])
  BY HomeInit DEF WorkIInv
<1>1. spaces[c] = EmptyWorkspace
  BY DEF ChatInit
<1>. QED
  BY <1>1, RestingIsSound, PhasesApart DEF EmptyWorkspace

LEMMA WorkStep == WorkIInv /\ [ChatNext]_chatVars => WorkIInv'
<1>. SUFFICES ASSUME WorkIInv, [ChatNext]_chatVars PROVE WorkIInv'
  OBVIOUS
<1>1. HomeIInv'
  BY HomeStep DEF WorkIInv
<1>2. Working'
  BY EventsKeepWork, UserKeepsWork, RestKeepsWork DEF ChatNext
<1>. QED
  BY <1>1, <1>2 DEF WorkIInv, Working

LEMMA WorkAlways == ChatSpec => []WorkIInv
BY WorkInit, WorkStep, PTL DEF ChatSpec

(* A workspace that shows work in progress has some, unless the link took  *)
(* it: the gate (shouldIgnoreForStaleTurn) drops the end of a turn only    *)
(* while the workspace shows or awaits another that is at work.            *)
THEOREM BusyMeansWorkHolds == ChatSpec => []BusyMeansWork
<1>1. WorkIInv => BusyMeansWork
  <2>. SUFFICES ASSUME WorkIInv, NEW c \in Conversations, c \notin severed,
                       spaces[c].sending \/ spaces[c].phase \in BusyPhases
                PROVE  outbox[c] = "shown" \/ OpenIn(c) # {}
    BY DEF BusyMeansWork
  <2>1. Sound(spaces[c], OpenIn(c), outbox[c])
    BY DEF WorkIInv
  <2>2. spaces[c].phase \in BusyPhases \/ spaces[c].phase \in Terminal
    BY DEF WorkIInv, HomeIInv, ChatTypes, Places, Workspaces, StreamPhases
  <2>. QED
    BY <2>1, <2>2 DEF Sound, PendingHandoff
<1>. QED
  BY <1>1, WorkAlways, PTL

-----------------------------------------------------------------------------
(* Answers are kept.                                                       *)

(* The ages of the turns are their order.                                  *)
AgesApart ==
  /\ \A t \in Born : turns[t].age <= Cardinality(Born)
  /\ \A t, u \in Born : turns[t].age = turns[u].age => t = u

(* A query that nothing crossed waits behind its row.                      *)
QueriesWait ==
  \A c \in Conversations :
    outbox[c] = "shown" /\ c \notin crossed \union severed
      => PendingHandoff(spaces[c]) /\ HasRows(spaces[c]) /\ LastRow(spaces[c]).kind = "user"

(* The workspace takes the events of t.                                    *)
Awaited(s, t) ==
  IF PendingHandoff(s)
  THEN HasRows(s) /\ (LastRow(s).kind = "user" \/ (LastRow(s).open /\ LastRow(s).turn = t))
  ELSE s.turn = t

(* The last text row of t holds its current stretch of text, and is the    *)
(* last row until a tool row ends the stretch.                             *)
Told(s, t, said, cut) ==
  LET i == LastTextRow(s, t)
  IN /\ said = 0 => ~cut
     /\ i = 0 => said = 0
     /\ i # 0 => s.rows[i].open /\ s.rows[i].size = said
     /\ said > 0 => (cut <=> i # Len(s.rows))

Alone(t) ==
  /\ outbox[Home(t)] # "shown"
  /\ \A u \in Born : Home(u) = Home(t) => ~Newer(u, t)

Fresh(t) == Open(t) /\ t \notin crossed /\ Home(t) \notin severed

TurnsAreHeard ==
  \A t \in Turns : Fresh(t) =>
    /\ Alone(t)
    /\ Awaited(spaces[Home(t)], t)
    /\ Told(spaces[Home(t)], t, turns[t].said, turns[t].cut)

KeptIInv == WorkIInv /\ AgesApart /\ QueriesWait /\ TurnsAreHeard /\ AnswersAreKept

-----------------------------------------------------------------------------
(* Where the last text row of a turn is after a change of the rows.        *)

LEMMA LastTextIs ==
  ASSUME NEW s \in Workspaces, NEW t, NEW i, i \in TextRowsOf(s, t),
         \A j \in TextRowsOf(s, t) : j <= i
  PROVE  LastTextRow(s, t) = i
<1>1. LastTextRow(s, t) \in TextRowsOf(s, t) /\ \A j \in TextRowsOf(s, t) : j <= LastTextRow(s, t)
  BY LastTextRowIsLast
<1>2. LastTextRow(s, t) <= i /\ i <= LastTextRow(s, t)
  BY <1>1
<1>3. TextRowsOf(s, t) \subseteq Nat
  <2>1. s.rows \in Seq(RowRecords)
    BY DEF Workspaces
  <2>. QED
    BY <2>1 DEF TextRowsOf
<1>. QED
  BY <1>1, <1>2, <1>3

LEMMA LastTextOfSameRows ==
  ASSUME NEW s, NEW w, w.rows = s.rows, NEW t
  PROVE  LastTextRow(w, t) = LastTextRow(s, t)
BY DEF LastTextRow, TextRowsOf

LEMMA LastTextOfAdded ==
  ASSUME NEW s \in Workspaces, NEW w \in Workspaces, NEW row \in RowRecords,
         w.rows = Append(s.rows, row), NEW t
  PROVE  /\ row.kind = "text" /\ row.turn = t => LastTextRow(w, t) = Len(s.rows) + 1
         /\ ~(row.kind = "text" /\ row.turn = t) => LastTextRow(w, t) = LastTextRow(s, t)
<1>0. s.rows \in Seq(RowRecords) /\ Len(s.rows) \in Nat
  BY DEF Workspaces
<1>1. /\ DOMAIN w.rows = 1..Len(s.rows) + 1 /\ DOMAIN s.rows = 1..Len(s.rows)
      /\ w.rows[Len(s.rows) + 1] = row /\ \A j \in DOMAIN s.rows : w.rows[j] = s.rows[j]
  BY <1>0, AppendedRows
<1>2. CASE row.kind = "text" /\ row.turn = t
  <2>1. Len(s.rows) + 1 \in TextRowsOf(w, t)
    BY <1>0, <1>1, <1>2 DEF TextRowsOf
  <2>2. \A j \in TextRowsOf(w, t) : j <= Len(s.rows) + 1
    BY <1>0, <1>1 DEF TextRowsOf
  <2>. QED
    BY <1>2, <2>1, <2>2, LastTextIs
<1>3. CASE ~(row.kind = "text" /\ row.turn = t)
  <2>1. \A j : j \in DOMAIN w.rows <=> j \in DOMAIN s.rows \/ j = Len(s.rows) + 1
    BY <1>0, <1>1
  <2>2. TextRowsOf(w, t) = TextRowsOf(s, t)
    BY <1>1, <1>3, <2>1 DEF TextRowsOf
  <2>. QED
    BY <1>3, <2>2 DEF LastTextRow
<1>. QED
  BY <1>2, <1>3

LEMMA LastTextOfRecast ==
  ASSUME NEW s \in Workspaces, NEW w \in Workspaces, NEW i \in DOMAIN s.rows,
         NEW row, Recast(s.rows, i, row), w.rows = [s.rows EXCEPT ![i] = row], NEW t
  PROVE  LastTextRow(w, t) = LastTextRow(s, t)
<1>1. /\ DOMAIN w.rows = DOMAIN s.rows /\ w.rows[i] = row
      /\ \A k \in DOMAIN s.rows \ {i} : w.rows[k] = s.rows[k]
  BY Recasting
<1>2. TextRowsOf(w, t) = TextRowsOf(s, t)
  BY <1>1 DEF TextRowsOf, Recast
<1>. QED
  BY <1>2 DEF LastTextRow

-----------------------------------------------------------------------------
(* A turn's own events.                                                    *)

LEMMA AwaitedIsHeeded ==
  ASSUME NEW s \in Workspaces, NEW t \in Turns, Awaited(s, t)
  PROVE  ~StaleTurn(s, t)
<1>1. CASE PendingHandoff(s)
  BY <1>1 DEF Awaited, StaleTurn, IgnoredAtHandoff, HoldsPlaceholder
<1>2. CASE ~PendingHandoff(s)
  BY <1>2 DEF Awaited, StaleTurn, OtherTurn
<1>. QED
  BY <1>1, <1>2

LEMMA StillHeard ==
  ASSUME NEW s \in Workspaces, NEW w \in Workspaces, NEW t \in Turns, NEW said, NEW cut,
         Awaited(s, t), Told(s, t, said, cut),
         w.rows = s.rows, w.turn = t \/ w.turn = s.turn,
         \/ w.phase = s.phase /\ w.sending = s.sending
         \/ ~w.sending /\ w.turn = t
  PROVE  Awaited(w, t) /\ Told(w, t, said, cut)
<1>1. Awaited(w, t)
  BY DEF Awaited, PendingHandoff, HasRows, LastRow
<1>2. Told(w, t, said, cut)
  BY LastTextOfSameRows DEF Told
<1>. QED
  BY <1>1, <1>2

(* A fresh row of text at the end of the rows.                             *)
LEMMA FreshText ==
  ASSUME NEW s \in Workspaces, NEW w \in Workspaces, NEW t \in Turns, NEW n \in {0, 1},
         w.rows = Append(s.rows, TextRow(t, n, TRUE))
  PROVE  /\ HasRows(w) /\ LastRow(w).open /\ LastRow(w).turn = t
         /\ Told(w, t, n, FALSE)
<1>1. s.rows \in Seq(RowRecords) /\ n \in 0..MaxChunks
  BY ZeroAndOne DEF Workspaces
<1>2. PICK row \in RowRecords : row = TextRow(t, n, TRUE)
  BY <1>1, TextIsARow
<1>3. row.open /\ row.turn = t /\ row.kind = "text" /\ row.size = n
  BY <1>1, <1>2, TextIsARow
<1>4. w.rows = Append(s.rows, row)
  BY <1>2
<1>5. PICK i \in Nat \ {0} : /\ i = Len(s.rows) + 1 /\ Len(w.rows) = i /\ w.rows[i] = row
                            /\ w.rows # <<>>
  <2>1. /\ Len(s.rows) \in Nat /\ Len(w.rows) = Len(s.rows) + 1
        /\ w.rows[Len(s.rows) + 1] = row /\ w.rows # <<>>
    <3>1. PICK rows \in Seq(RowRecords) : rows = s.rows
      BY <1>1
    <3>2. /\ Len(rows) \in Nat /\ Len(Append(rows, row)) = Len(rows) + 1
          /\ Append(rows, row)[Len(rows) + 1] = row /\ Append(rows, row) # <<>>
      BY AppendedRows
    <3>. QED
      BY <1>4, <3>1, <3>2
  <2>2. Len(s.rows) + 1 \in Nat \ {0}
    BY <2>1
  <2>. QED
    BY <2>1, <2>2
<1>6. LastTextRow(w, t) = i
  BY <1>3, <1>4, <1>5, LastTextOfAdded
<1>7. Told(w, t, n, FALSE)
  BY <1>3, <1>5, <1>6 DEF Told
<1>8. HasRows(w) /\ LastRow(w) = row
  BY <1>5 DEF HasRows, LastRow
<1>. QED
  BY <1>3, <1>7, <1>8

LEMMA ThoughtIsAwaited ==
  ASSUME NEW s \in Workspaces, NEW t \in Turns, NEW said \in Nat, NEW cut \in BOOLEAN,
         Awaited(s, t), Told(s, t, said, cut)
  PROVE  Awaited(ShowsThought(s, t), t) /\ Told(ShowsThought(s, t), t, said, cut)
<1>1. PICK w \in Workspaces :
        /\ w = ShowsThought(s, t) /\ w.turn = t /\ w.phase = s.phase /\ w.sending = s.sending
        /\ w.rows = IF LastTextRow(s, t) # 0 THEN s.rows ELSE Append(s.rows, TextRow(t, 0, TRUE))
  BY ThoughtDoes
<1>2. CASE LastTextRow(s, t) # 0
  BY <1>1, <1>2, StillHeard
<1>3. CASE LastTextRow(s, t) = 0
  <2>1. HasRows(w) /\ LastRow(w).open /\ LastRow(w).turn = t /\ Told(w, t, 0, FALSE)
    BY <1>1, <1>3, FreshText
  <2>2. Awaited(w, t)
    BY <1>1, <2>1 DEF Awaited
  <2>3. said = 0 /\ cut = FALSE
    BY <1>3 DEF Told
  <2>. QED
    BY <1>1, <2>1, <2>2, <2>3
<1>. QED
  BY <1>2, <1>3

LEMMA ToolIsAwaited ==
  ASSUME NEW s \in Workspaces, NEW t \in Turns, NEW said \in Nat, NEW cut \in BOOLEAN,
         Told(s, t, said, cut), NEW w \in Workspaces, ShowsTool(s, t, w),
         NEW b \in BOOLEAN, b <=> said > 0
  PROVE  Awaited(w, t) /\ Told(w, t, said, b)
<1>1. /\ w.turn = t /\ w.phase \in {"tool-call", "tool-output"}
      /\ w.rows = Append(s.rows, ToolRow(t))
  BY ToolRowDoes
<1>2. Awaited(w, t)
  BY <1>1, PhasesApart DEF Awaited, PendingHandoff
<1>3. PICK row \in RowRecords : row = ToolRow(t) /\ row.kind = "tool"
  BY RowKindsAreRows
<1>4. w.rows = Append(s.rows, row) /\ s.rows \in Seq(RowRecords)
  BY <1>1, <1>3 DEF Workspaces
<1>5. /\ Len(w.rows) = Len(s.rows) + 1 /\ Len(s.rows) \in Nat /\ DOMAIN s.rows = 1..Len(s.rows)
      /\ \A j \in DOMAIN s.rows : w.rows[j] = s.rows[j]
  BY <1>4, AppendedRows
<1>6. LastTextRow(w, t) = LastTextRow(s, t)
  BY <1>3, <1>4, LastTextOfAdded
<1>7. LastTextRow(s, t) # 0 => LastTextRow(s, t) \in DOMAIN s.rows
  BY LastTextRowIsLast DEF TextRowsOf
<1>8. Told(w, t, said, b)
  BY <1>5, <1>6, <1>7 DEF Told
<1>. QED
  BY <1>2, <1>8

LEMMA ChunkIsAwaited ==
  ASSUME NEW s \in Workspaces, NEW t \in Turns, NEW said \in 0..MaxChunks, NEW cut \in BOOLEAN,
         Told(s, t, said, cut), cut \/ said = 0 \/ said < MaxChunks,
         NEW n, n = IF cut \/ said = 0 THEN 1 ELSE said + 1
  PROVE  Awaited(ShowsChunk(s, t), t) /\ Told(ShowsChunk(s, t), t, n, FALSE)
<1>1. PICK w \in Workspaces : /\ w = ShowsChunk(s, t) /\ w.turn = t /\ w.phase = "streaming"
                              /\ ~w.sending
  BY ChunkDoes
<1>2. Awaited(w, t)
  BY <1>1 DEF Awaited, PendingHandoff
<1>3. s.rows \in Seq(RowRecords) /\ Len(s.rows) \in Nat /\ DOMAIN s.rows = 1..Len(s.rows)
  BY DEF Workspaces
<1>4. CASE Appends(s, t)
  <2>1. \E row \in RowRecords :
          Grown(s, row) /\ ShowsChunk(s, t).rows = [s.rows EXCEPT ![Len(s.rows)] = row]
    BY <1>4, ChunkDoes, Zenon
  <2>2. PICK row \in RowRecords : Grown(s, row) /\ w.rows = [s.rows EXCEPT ![Len(s.rows)] = row]
    BY <1>1, <2>1
  <2>3. /\ Len(s.rows) \in DOMAIN s.rows /\ Recast(s.rows, Len(s.rows), row)
        /\ row.open = s.rows[Len(s.rows)].open
        /\ row.size = IF s.rows[Len(s.rows)].size < MaxChunks THEN s.rows[Len(s.rows)].size + 1
                      ELSE s.rows[Len(s.rows)].size
    BY <2>2 DEF Grown
  <2>4. /\ s.rows[Len(s.rows)].open /\ Len(s.rows) \in TextRowsOf(s, t)
    BY <1>4, <2>3 DEF Appends, HoldsPlaceholder, LastRow, TextRowsOf
  <2>5. LastTextRow(s, t) = Len(s.rows)
    <3>1. \A j \in TextRowsOf(s, t) : j <= Len(s.rows)
      BY <1>3 DEF TextRowsOf
    <3>. QED
      BY <2>4, <3>1, LastTextIs
  <2>6. s.rows[Len(s.rows)].size = said /\ ~cut
    BY <1>3, <2>3, <2>5 DEF Told
  <2>7. row.size = n
    BY <2>3, <2>6, StreamBounds
  <2>8. LastTextRow(w, t) = Len(s.rows)
    BY <2>2, <2>3, <2>5, LastTextOfRecast
  <2>9. w.rows[Len(s.rows)] = row /\ Len(w.rows) = Len(s.rows)
    BY <2>2, <2>3, Recasting
  <2>10. PICK i : i = Len(s.rows)
    OBVIOUS
  <2>11. /\ LastTextRow(w, t) = i /\ w.rows[i] = row /\ Len(w.rows) = i /\ i # 0
         /\ row.open /\ row.size = n
    BY <1>3, <2>3, <2>4, <2>7, <2>8, <2>9, <2>10
  <2>12. Told(w, t, n, FALSE)
    BY <2>11 DEF Told
  <2>. QED
    BY <1>1, <1>2, <2>12
<1>5. CASE ~Appends(s, t)
  <2>1. w.rows = Append(s.rows, TextRow(t, 1, TRUE))
    BY <1>1, <1>5, ChunkDoes
  <2>2. Told(w, t, 1, FALSE)
    BY <2>1, FreshText
  <2>3. cut \/ said = 0
    <3>. SUFFICES ASSUME ~cut, said # 0 PROVE FALSE
      OBVIOUS
    <3>1. /\ LastTextRow(s, t) = Len(s.rows) /\ LastTextRow(s, t) # 0
          /\ s.rows[Len(s.rows)].open
      BY DEF Told
    <3>2. Len(s.rows) \in TextRowsOf(s, t)
      BY <3>1, LastTextRowIsLast
    <3>. QED
      BY <1>3, <1>5, <3>1, <3>2 DEF Appends, HoldsPlaceholder, HasRows, LastRow, TextRowsOf
  <2>4. n = 1
    BY <2>3
  <2>. QED
    BY <1>1, <1>2, <2>2, <2>4
<1>. QED
  BY <1>4, <1>5

-----------------------------------------------------------------------------
(* What an event of one turn leaves of the others.                         *)

HeardWell(t) ==
  /\ Alone(t)
  /\ Awaited(spaces[Home(t)], t)
  /\ Told(spaces[Home(t)], t, turns[t].said, turns[t].cut)

Stored(t) == turns[t].stage = "answered" /\ t \notin crossed /\ Home(t) \notin severed
               => kept[t] = "whole"

LEMMA KeptIs ==
  KeptIInv <=> /\ WorkIInv /\ AgesApart /\ QueriesWait
               /\ \A t \in Turns : (Fresh(t) => HeardWell(t)) /\ Stored(t)
BY DEF KeptIInv, TurnsAreHeard, AnswersAreKept, HeardWell, Stored

LEMMA HearingKeepsOthers ==
  ASSUME KeptIInv, NEW u \in Turns, u \in Born, NEW named \in BOOLEAN, named \/ Over(u),
         NEW after, Hears(u, named, after), TurnsGoOn(u)
  PROVE  /\ AgesApart' /\ QueriesWait'
         /\ \A t \in Turns \ {u} : (Fresh(t)' => HeardWell(t)') /\ Stored(t)'
         /\ Open(u) /\ Fresh(u)' => Fresh(u) /\ Alone(u)'
<1>0. /\ WorkIInv /\ HomeIInv /\ ChatTypes /\ AgesApart /\ QueriesWait
      /\ \A t \in Turns : (Fresh(t) => HeardWell(t)) /\ Stored(t)
  BY KeptIs DEF WorkIInv, HomeIInv
<1>1. /\ Resolved(u, named) = Home(u) /\ Home(u) \in Conversations /\ Home(u) # NoConversation
      /\ Hearer(u, named) = spaces[Home(u)]
  BY <1>0, FindsHome
<1>2. /\ crossed' = IF Overtaken(u) THEN crossed \union {u} \union InWork(Home(u)) ELSE crossed
      /\ outbox' = outbox /\ severed' = severed
  BY DEF Hears
<1>3. \A c \in Conversations : c # Home(u) => spaces'[c] = spaces[c]
  BY <1>0, HearingLeaves DEF Leaves
<1>4. /\ Born' = Born
      /\ \A t \in Turns : Home(t)' = Home(t) /\ turns'[t].age = turns[t].age
      /\ \A t \in Turns \ {u} : turns'[t] = turns[t] /\ kept'[t] = kept[t]
  BY DEF TurnsGoOn, Born, Home
<1>5. \A t, v \in Turns : Newer(t, v)' = Newer(t, v)
  BY <1>4 DEF Newer
<1>6. AgesApart'
  BY <1>0, <1>4 DEF AgesApart, Born
<1>7. QueriesWait'
  <2>. SUFFICES ASSUME NEW c \in Conversations, outbox'[c] = "shown", c \notin crossed' \union severed'
                PROVE  PendingHandoff(spaces'[c]) /\ HasRows(spaces'[c]) /\ LastRow(spaces'[c]).kind = "user"
    BY DEF QueriesWait
  <2>1. c # Home(u)
    <3>. SUFFICES ASSUME c = Home(u) PROVE FALSE
      OBVIOUS
    <3>1. Overtaken(u)
      BY <1>2 DEF Overtaken
    <3>2. c \in InWork(Home(u))
      BY <1>1, <1>2 DEF InWork
    <3>. QED
      BY <1>2, <3>1, <3>2
  <2>2. c \notin crossed \union severed /\ outbox[c] = "shown"
    BY <1>2
  <2>. QED
    BY <1>0, <1>3, <2>1, <2>2 DEF QueriesWait
<1>8. ASSUME NEW t \in Turns PROVE Open(t) /\ Fresh(t)' => Fresh(t)
  BY <1>2, <1>4 DEF Fresh
<1>9. ASSUME NEW t \in Turns, Alone(t) PROVE Alone(t)'
  BY <1>2, <1>4, <1>5, <1>9 DEF Alone, Born
<1>10. ASSUME NEW t \in Turns \ {u} PROVE Fresh(t)' => HeardWell(t)'
  <2>. SUFFICES ASSUME Fresh(t)' PROVE HeardWell(t)'
    OBVIOUS
  <2>1. Fresh(t)
    BY <1>4, <1>8 DEF Fresh, Open
  <2>2. HeardWell(t) /\ t \in Born /\ Home(t) \in Conversations
    BY <1>0, <2>1 DEF Fresh, Open, Born, HomeIInv, HomesAreKnown
  <2>3. Home(t) # Home(u)
    <3>. SUFFICES ASSUME Home(t) = Home(u) PROVE FALSE
      OBVIOUS
    <3>1. Newer(t, u)
      <4>1. ~Newer(u, t)
        BY <2>2 DEF HeardWell, Alone
      <4>2. turns[u].age \in Nat /\ turns[t].age \in Nat
        BY <1>0, TurnFields
      <4>3. turns[t].age # turns[u].age
        BY <1>0, <2>2 DEF AgesApart
      <4>. QED
        BY <4>1, <4>2, <4>3 DEF Newer
    <3>2. Overtaken(u)
      BY <2>2, <3>1 DEF Overtaken
    <3>3. t \in InWork(Home(u))
      BY <2>1 DEF InWork, OpenIn, Fresh
    <3>. QED
      BY <1>2, <3>2, <3>3 DEF Fresh
  <2>4. spaces'[Home(t)] = spaces[Home(t)]
    BY <1>3, <2>2, <2>3
  <2>. QED
    BY <1>4, <1>9, <2>2, <2>4 DEF HeardWell
<1>11. ASSUME NEW t \in Turns \ {u} PROVE Stored(t)'
  BY <1>0, <1>2, <1>4 DEF Stored
<1>12. Open(u) /\ Fresh(u)' => Fresh(u) /\ Alone(u)'
  BY <1>0, <1>8, <1>9 DEF HeardWell
<1>. QED
  BY <1>6, <1>7, <1>10, <1>11, <1>12

(* A fresh turn is heeded.                                                 *)
LEMMA FreshIsHeeded ==
  ASSUME KeptIInv, NEW t \in Turns, Fresh(t), NEW after, Hears(t, TRUE, after)
  PROVE  /\ Hearer(t, TRUE) = spaces[Home(t)] /\ spaces[Home(t)] \in Workspaces
         /\ Awaited(spaces[Home(t)], t) /\ Told(spaces[Home(t)], t, turns[t].said, turns[t].cut)
         /\ Heeds(t, TRUE) /\ spaces'[Home(t)] = after
<1>0. WorkIInv /\ HomeIInv /\ t \in Born /\ HeardWell(t)
  BY KeptIs DEF WorkIInv, Fresh, Open, Born
<1>1. Home(t) \in Conversations /\ Hearer(t, TRUE) = spaces[Home(t)] /\ spaces[Home(t)] \in Workspaces
  BY <1>0, FindsHome
<1>2. Awaited(spaces[Home(t)], t) /\ Told(spaces[Home(t)], t, turns[t].said, turns[t].cut)
  BY <1>0 DEF HeardWell
<1>3. ~StaleTurn(spaces[Home(t)], t)
  BY <1>1, <1>2, AwaitedIsHeeded
<1>4. Leaves(t, TRUE, after, Home(t)) /\ (Heeds(t, TRUE) <=> ~StaleTurn(spaces[Home(t)], t))
  BY <1>0, <1>1, HearingLeaves
<1>. QED
  BY <1>1, <1>2, <1>3, <1>4 DEF Leaves

(* An event of a turn that goes on: it stays heard and told.               *)
LEMMA OwnEventKeeps ==
  ASSUME KeptIInv, NEW t \in Turns, Open(t), NEW after, Hears(t, TRUE, after), TurnsGoOn(t),
         turns'[t].stage = "open",
         Fresh(t) => Awaited(after, t) /\ Told(after, t, turns'[t].said, turns'[t].cut)
  PROVE  AgesApart' /\ QueriesWait' /\ TurnsAreHeard' /\ AnswersAreKept'
<1>0. t \in Born
  BY DEF Open, Born
<1>1. /\ AgesApart' /\ QueriesWait'
      /\ \A u \in Turns \ {t} : (Fresh(u)' => HeardWell(u)') /\ Stored(u)'
      /\ Fresh(t)' => Fresh(t) /\ Alone(t)'
  BY <1>0, HearingKeepsOthers
<1>2. Stored(t)'
  BY DEF Stored
<1>3. Fresh(t)' => HeardWell(t)'
  <2>. SUFFICES ASSUME Fresh(t)' PROVE HeardWell(t)'
    OBVIOUS
  <2>1. Fresh(t) /\ Alone(t)'
    BY <1>1
  <2>2. spaces'[Home(t)] = after
    BY <2>1, FreshIsHeeded
  <2>3. Home(t)' = Home(t)
    BY DEF TurnsGoOn, Home
  <2>. QED
    BY <2>1, <2>2, <2>3 DEF HeardWell
<1>. QED
  BY <1>1, <1>2, <1>3 DEF TurnsAreHeard, AnswersAreKept, HeardWell, Stored

LEMMA MarkKeeps ==
  ASSUME KeptIInv, NEW t \in Turns, Open(t), NEW after, Marks(t, TRUE, after),
         Fresh(t) => Awaited(after, t) /\ Told(after, t, turns[t].said, turns[t].cut)
  PROVE  AgesApart' /\ QueriesWait' /\ TurnsAreHeard' /\ AnswersAreKept'
<1>1. TurnsGoOn(t)
  BY TurnsRest DEF Marks, KeptIInv, WorkIInv, HomeIInv
<1>. QED
  BY <1>1, OwnEventKeeps DEF Marks, Open

LEMMA MetadataKeepsAnswers ==
  ASSUME KeptIInv, NEW t \in Turns, HearMetadata(t) \/ HearCompaction(t) \/ HearBenignError(t)
  PROVE  AgesApart' /\ QueriesWait' /\ TurnsAreHeard' /\ AnswersAreKept'
<1>1. Open(t) /\ t \in Born
  BY DEF HearMetadata, HearCompaction, HearBenignError, Open, Born
<1>2. PICK s \in Workspaces : s = spaces[Home(t)] /\ s = Hearer(t, TRUE)
  BY <1>1, HeardAt DEF KeptIInv
<1>3. PICK after : Marks(t, TRUE, after) /\ (after = s \/ after = Tracked(s, t))
  BY <1>2 DEF HearMetadata, HearCompaction, HearBenignError
<1>4. Fresh(t) => Awaited(after, t) /\ Told(after, t, turns[t].said, turns[t].cut)
  <2>. SUFFICES ASSUME Fresh(t) PROVE Awaited(after, t) /\ Told(after, t, turns[t].said, turns[t].cut)
    OBVIOUS
  <2>1. Awaited(s, t) /\ Told(s, t, turns[t].said, turns[t].cut)
    BY <1>2, <1>3, FreshIsHeeded DEF Marks
  <2>2. CASE after = s
    BY <2>1, <2>2
  <2>3. CASE after = Tracked(s, t)
    <3>1. PICK w \in Workspaces : /\ w = Tracked(s, t) /\ w.rows = s.rows /\ w.phase = s.phase
                                  /\ w.sending = s.sending /\ w.turn = t
      BY Tracking
    <3>2. Awaited(w, t) /\ Told(w, t, turns[t].said, turns[t].cut)
      BY <2>1, <3>1, StillHeard
    <3>. QED
      BY <2>3, <3>1, <3>2
  <2>. QED
    BY <1>3, <2>2, <2>3
<1>. QED
  BY <1>1, <1>3, <1>4, MarkKeeps

LEMMA ThoughtKeepsAnswers ==
  ASSUME KeptIInv, NEW t \in Turns, HearThought(t)
  PROVE  AgesApart' /\ QueriesWait' /\ TurnsAreHeard' /\ AnswersAreKept'
<1>1. Open(t) /\ t \in Born
  BY DEF HearThought, Open, Born
<1>2. PICK s \in Workspaces : s = spaces[Home(t)] /\ s = Hearer(t, TRUE)
  BY <1>1, HeardAt DEF KeptIInv
<1>3. Marks(t, TRUE, ShowsThought(s, t))
  BY <1>2 DEF HearThought
<1>4. Fresh(t) => /\ Awaited(ShowsThought(s, t), t)
                  /\ Told(ShowsThought(s, t), t, turns[t].said, turns[t].cut)
  <2>1. turns[t].said \in Nat /\ turns[t].cut \in BOOLEAN
    BY TurnFields DEF KeptIInv, WorkIInv, HomeIInv
  <2>2. Fresh(t) => Awaited(s, t) /\ Told(s, t, turns[t].said, turns[t].cut)
    BY <1>2, <1>3, FreshIsHeeded DEF Marks
  <2>. QED
    BY <2>1, <2>2, ThoughtIsAwaited
<1>. QED
  BY <1>1, <1>3, <1>4, MarkKeeps

LEMMA ChunkIs ==
  ASSUME ChatTypes, NEW t \in Turns, HearChunk(t)
  PROVE  /\ turns'[t].stage = turns[t].stage /\ turns'[t].cut = FALSE
         /\ turns'[t].said = IF turns[t].cut \/ turns[t].said = 0 THEN 1 ELSE turns[t].said + 1
         /\ turns[t].cut \/ turns[t].said = 0 \/ turns[t].said < MaxChunks
<1>1. turns[t] \in Lives /\ turns \in [Turns -> Lives]
  BY TurnFields DEF ChatTypes
<1>2. PICK n : n = IF turns[t].cut \/ turns[t].said = 0 THEN 1 ELSE turns[t].said + 1
  OBVIOUS
<1>3. turns' = [turns EXCEPT ![t].said = n, ![t].cut = FALSE]
  BY <1>2 DEF HearChunk
<1>4. turns'[t] = [turns[t] EXCEPT !.said = n, !.cut = FALSE]
  BY <1>1, <1>3
<1>5. turns'[t].said = n /\ turns'[t].cut = FALSE /\ turns'[t].stage = turns[t].stage
  BY <1>1, <1>4 DEF Lives
<1>6. turns[t].cut \/ turns[t].said = 0 \/ turns[t].said < MaxChunks
  BY DEF HearChunk
<1>. QED
  BY <1>2, <1>5, <1>6

LEMMA ChunkKeepsAnswers ==
  ASSUME KeptIInv, NEW t \in Turns, HearChunk(t)
  PROVE  AgesApart' /\ QueriesWait' /\ TurnsAreHeard' /\ AnswersAreKept'
<1>0. WorkIInv /\ HomeIInv /\ ChatTypes
  BY DEF KeptIInv, WorkIInv, HomeIInv
<1>1. Open(t) /\ t \in Born
  BY DEF HearChunk, Open, Born
<1>2. PICK s \in Workspaces : s = spaces[Home(t)] /\ s = Hearer(t, TRUE)
  BY <1>0, <1>1, HeardAt
<1>3. Hears(t, TRUE, ShowsChunk(s, t))
  BY <1>2 DEF HearChunk
<1>4. TurnsGoOn(t)
  BY <1>0, ChunkTurns
<1>5. PICK said \in 0..MaxChunks, cut \in BOOLEAN : said = turns[t].said /\ cut = turns[t].cut
  BY <1>0, TurnFields
<1>6. PICK n : n = IF cut \/ said = 0 THEN 1 ELSE said + 1
  OBVIOUS
<1>7. /\ turns'[t].stage = "open" /\ turns'[t].cut = FALSE /\ turns'[t].said = n
      /\ cut \/ said = 0 \/ said < MaxChunks
  BY <1>0, <1>1, <1>5, <1>6, ChunkIs DEF Open
<1>8. Fresh(t) => Awaited(ShowsChunk(s, t), t) /\ Told(ShowsChunk(s, t), t, n, FALSE)
  <2>1. Fresh(t) => Told(s, t, said, cut)
    BY <1>2, <1>3, <1>5, FreshIsHeeded
  <2>. QED
    BY <1>6, <1>7, <2>1, ChunkIsAwaited
<1>. QED
  BY <1>1, <1>3, <1>4, <1>7, <1>8, OwnEventKeeps

LEMMA ToolIs ==
  ASSUME ChatTypes, NEW t \in Turns, NEW after, HearToolRow(t, after)
  PROVE  /\ turns'[t].stage = turns[t].stage /\ turns'[t].cut = (turns[t].said > 0)
         /\ turns'[t].said = turns[t].said
<1>1. turns[t] \in Lives /\ turns \in [Turns -> Lives]
  BY TurnFields DEF ChatTypes
<1>2. PICK b, n : b = (turns[t].said > 0) /\ n = turns[t].tools + 1
  OBVIOUS
<1>3. turns' = [turns EXCEPT ![t].tools = n, ![t].cut = b]
  BY <1>2 DEF HearToolRow
<1>4. turns'[t] = [turns[t] EXCEPT !.tools = n, !.cut = b]
  BY <1>1, <1>3
<1>5. turns'[t].said = turns[t].said /\ turns'[t].cut = b /\ turns'[t].stage = turns[t].stage
  BY <1>1, <1>4 DEF Lives
<1>. QED
  BY <1>2, <1>5

LEMMA ToolRowKeepsAnswers ==
  ASSUME KeptIInv, NEW t \in Turns,
         HearToolCall(t) \/ HearToolOutput(t) \/ HearToolBundle(t) \/ HearSearch(t)
  PROVE  AgesApart' /\ QueriesWait' /\ TurnsAreHeard' /\ AnswersAreKept'
<1>0. WorkIInv /\ HomeIInv /\ ChatTypes
  BY DEF KeptIInv, WorkIInv, HomeIInv
<1>1. PICK after : HearToolRow(t, after) /\ ShowsTool(Hearer(t, TRUE), t, after)
  BY DEF HearToolCall, HearToolOutput, HearToolBundle, HearSearch, ShowsTool
<1>2. Open(t) /\ t \in Born /\ Hears(t, TRUE, after)
  BY <1>1 DEF HearToolRow, Open, Born
<1>3. PICK s \in Workspaces : s = spaces[Home(t)] /\ s = Hearer(t, TRUE)
  BY <1>0, <1>2, HeardAt
<1>4. PICK w \in Workspaces : w = after /\ ShowsTool(s, t, w)
  BY <1>1, <1>3, ToolRowDoes
<1>5. PICK said \in Nat, cut \in BOOLEAN : said = turns[t].said /\ cut = turns[t].cut
  BY <1>0, TurnFields
<1>6. PICK b \in BOOLEAN : b <=> said > 0
  <2>1. CASE said > 0
    BY <2>1
  <2>2. CASE ~(said > 0)
    BY <2>2
  <2>. QED
    BY <2>1, <2>2
<1>7. turns'[t].stage = "open" /\ (turns'[t].cut <=> b) /\ turns'[t].said = said
  BY <1>0, <1>1, <1>2, <1>5, <1>6, ToolIs DEF Open
<1>8. TurnsGoOn(t)
  BY <1>0, <1>1, ToolTurns
<1>9. Fresh(t) => Awaited(w, t) /\ Told(w, t, said, b)
  <2>1. Fresh(t) => Told(s, t, said, cut)
    BY <1>2, <1>3, <1>5, FreshIsHeeded
  <2>. QED
    BY <1>4, <1>6, <2>1, ToolIsAwaited
<1>10. turns'[t].cut = b
  BY <1>0, <1>7, <1>8, TurnFields DEF TurnsGoOn, Lives
<1>. QED
  BY <1>2, <1>4, <1>7, <1>8, <1>9, <1>10, OwnEventKeeps

LEMMA EndKeepsAnswers ==
  ASSUME KeptIInv, NEW t \in Turns, HearComplete(t) \/ HearError(t)
  PROVE  AgesApart' /\ QueriesWait' /\ TurnsAreHeard' /\ AnswersAreKept'
<1>0. WorkIInv /\ HomeIInv /\ ChatTypes
  BY DEF KeptIInv, WorkIInv, HomeIInv
<1>1. Open(t) /\ t \in Born
  BY DEF HearComplete, HearError, Open, Born
<1>2. ASSUME NEW after, Hears(t, TRUE, after), TurnsGoOn(t), turns'[t].stage # "open",
             Fresh(t) => Stored(t)'
      PROVE  AgesApart' /\ QueriesWait' /\ TurnsAreHeard' /\ AnswersAreKept'
  <2>1. /\ AgesApart' /\ QueriesWait'
        /\ \A u \in Turns \ {t} : (Fresh(u)' => HeardWell(u)') /\ Stored(u)'
    BY <1>1, <1>2, HearingKeepsOthers
  <2>2. ~Fresh(t)'
    BY <1>2 DEF Fresh, Open
  <2>3. Stored(t)'
    <3>1. crossed \subseteq crossed' /\ severed' = severed /\ Home(t)' = Home(t)
      BY <1>2 DEF Hears, TurnsGoOn, Home
    <3>2. CASE Fresh(t)
      BY <1>2, <3>2
    <3>3. CASE ~Fresh(t)
      BY <1>1, <3>1, <3>3 DEF Fresh, Stored
    <3>. QED
      BY <3>2, <3>3
  <2>. QED
    BY <2>1, <2>2, <2>3 DEF TurnsAreHeard, AnswersAreKept, HeardWell, Stored
<1>3. CASE HearComplete(t)
  <2>1. PICK final \in {0, turns[t].said}, stage \in {"answered", "ended"} :
          /\ final \in 0..MaxChunks
          /\ Hears(t, TRUE, Completed(Hearer(t, TRUE), t, final))
          /\ turns' = [turns EXCEPT ![t].stage = stage]
          /\ stage = "answered" => turns[t].said > 0
          /\ kept' = IF Heeds(t, TRUE) /\ Recorded(Hearer(t, TRUE), t, final) > 0
                     THEN [kept EXCEPT ![t] = IF Recorded(Hearer(t, TRUE), t, final) = turns[t].said
                                              THEN "whole" ELSE "cut"]
                     ELSE kept
    BY <1>0, <1>3, CompleteIs
  <2>2. turns'[t].stage = stage
    BY <1>0, <2>1, EndedStage
  <2>3. TurnsGoOn(t)
    <3>1. kept' = kept \/ \E k \in {"whole", "cut"} : kept' = [kept EXCEPT ![t] = k]
      BY <2>1
    <3>. QED
      BY <1>0, <1>1, <2>1, <3>1, EndTurns
  <2>4. Fresh(t) => Stored(t)'
    <3>. SUFFICES ASSUME Fresh(t), stage = "answered" PROVE kept'[t] = "whole"
      BY <2>2 DEF Stored
    <3>1. PICK s \in Workspaces : /\ s = Hearer(t, TRUE) /\ Heeds(t, TRUE)
                                  /\ Told(s, t, turns[t].said, turns[t].cut)
      BY <2>1, FreshIsHeeded
    <3>2. turns[t].said > 0 /\ turns[t].said \in Nat
      BY <1>0, <2>1, TurnFields
    <3>3. Recorded(s, t, final) = turns[t].said
      BY <3>1, <3>2 DEF Told, Recorded
    <3>4. kept' = [kept EXCEPT ![t] = "whole"]
      BY <2>1, <3>1, <3>2, <3>3
    <3>. QED
      BY <1>0, <3>4 DEF ChatTypes
  <2>5. stage # "open"
    OBVIOUS
  <2>. QED
    BY <1>2, <2>1, <2>2, <2>3, <2>4, <2>5
<1>4. CASE HearError(t)
  <2>1. Hears(t, TRUE, ShowsError(Hearer(t, TRUE), t)) /\ kept' = kept
    BY <1>4 DEF HearError
  <2>2. PICK stage \in {"answered", "ended"} : stage = "ended" /\ turns' = [turns EXCEPT ![t].stage = stage]
    BY <1>4 DEF HearError
  <2>3. turns'[t].stage = stage
    BY <1>0, <2>2, EndedStage
  <2>4. TurnsGoOn(t)
    BY <1>0, <1>1, <2>1, <2>2, EndTurns
  <2>5. Stored(t)'
    BY <2>2, <2>3 DEF Stored
  <2>. QED
    BY <1>2, <2>1, <2>2, <2>3, <2>4, <2>5
<1>. QED
  BY <1>3, <1>4

LEMMA LateKeepsAnswers ==
  ASSUME KeptIInv, NEW t \in Turns, HearTokenCount(t) \/ HearMemoryStore(t)
  PROVE  AgesApart' /\ QueriesWait' /\ TurnsAreHeard' /\ AnswersAreKept'
<1>0. WorkIInv /\ HomeIInv /\ ChatTypes
  BY DEF KeptIInv, WorkIInv, HomeIInv
<1>1. PICK named \in BOOLEAN : \E after :
        /\ (named /\ Open(t)) \/ Over(t)
        /\ Marks(t, named, after)
        /\ after = CountsTokens(Hearer(t, named), t) \/ after = StoresMemory(Hearer(t, named), t)
  BY DEF HearTokenCount, HearMemoryStore
<1>2. PICK after :
        /\ Marks(t, named, after)
        /\ after = CountsTokens(Hearer(t, named), t) \/ after = StoresMemory(Hearer(t, named), t)
  BY <1>1
<1>3. t \in Born /\ (named \/ Over(t)) /\ (Open(t) => named = TRUE)
  BY <1>1 DEF Open, Over, Born
<1>4. CASE Open(t)
  <2>1. PICK s \in Workspaces : s = spaces[Home(t)] /\ s = Hearer(t, TRUE)
    BY <1>0, <1>3, HeardAt
  <2>2. after = CountsTokens(s, t) \/ after = StoresMemory(s, t)
    BY <1>2, <1>3, <1>4, <2>1
  <2>3. after \in Workspaces /\ after.turn = t /\ after.rows = s.rows /\ LateOn(s, after)
    BY <2>2, LateDoes
  <2>4. Marks(t, TRUE, after)
    BY <1>2, <1>3, <1>4
  <2>5. Fresh(t) => Awaited(after, t) /\ Told(after, t, turns[t].said, turns[t].cut)
    <3>1. Fresh(t) => Awaited(s, t) /\ Told(s, t, turns[t].said, turns[t].cut)
      BY <2>1, <2>4, FreshIsHeeded DEF Marks
    <3>. QED
      BY <2>3, <3>1, StillHeard DEF LateOn
  <2>. QED
    BY <1>4, <2>4, <2>5, MarkKeeps
<1>5. CASE ~Open(t)
  <2>1. Hears(t, named, after) /\ UNCHANGED <<turns, kept>>
    BY <1>2 DEF Marks
  <2>2. TurnsGoOn(t)
    BY <1>0, <2>1, TurnsRest
  <2>3. /\ AgesApart' /\ QueriesWait'
        /\ \A u \in Turns \ {t} : (Fresh(u)' => HeardWell(u)') /\ Stored(u)'
    BY <1>3, <2>1, <2>2, HearingKeepsOthers
  <2>4. ~Fresh(t)'
    BY <1>5, <2>1 DEF Fresh, Open
  <2>5. Stored(t)'
    <3>1. crossed \subseteq crossed' /\ severed' = severed
      BY <2>1 DEF Hears
    <3>2. Stored(t)
      BY KeptIs
    <3>. QED
      BY <2>1, <3>1, <3>2 DEF Stored, Home
  <2>. QED
    BY <2>3, <2>4, <2>5 DEF TurnsAreHeard, AnswersAreKept, HeardWell, Stored
<1>. QED
  BY <1>4, <1>5

LEMMA EventsKeepAnswers ==
  ASSUME KeptIInv, NEW t \in Turns, HearEvent(t)
  PROVE  AgesApart' /\ QueriesWait' /\ TurnsAreHeard' /\ AnswersAreKept'
BY MetadataKeepsAnswers, ThoughtKeepsAnswers, ChunkKeepsAnswers, ToolRowKeepsAnswers,
   EndKeepsAnswers, LateKeepsAnswers DEF HearEvent

-----------------------------------------------------------------------------
(* The user: a conversation is left alone, or its turns are crossed, or its*)
(* query is given up.                                                      *)

Shown(o, c) == o[c] = "shown"
QueryWaits(s) == PendingHandoff(s) /\ HasRows(s) /\ LastRow(s).kind = "user"

LeftAlone(c) ==
  /\ spaces'[c] = spaces[c] /\ (outbox'[c] = "shown" <=> outbox[c] = "shown")
  /\ c \in crossed => c \in crossed'

Crosses(c) ==
  /\ OpenIn(c) \subseteq crossed'
  /\ outbox'[c] = "shown" /\ c \notin crossed' \union severed => QueryWaits(spaces'[c])

GivesUp(c) == outbox[c] = "shown" /\ outbox'[c] # "shown"

LEMMA QuietKeeps ==
  ASSUME KeptIInv, UNCHANGED <<turns, kept, severed>>,
         \A t \in Turns : t \in crossed => t \in crossed',
         \A c \in Conversations : LeftAlone(c) \/ Crosses(c) \/ GivesUp(c)
  PROVE  AgesApart' /\ QueriesWait' /\ TurnsAreHeard' /\ AnswersAreKept'
<1>0. /\ HomeIInv /\ AgesApart /\ QueriesWait
      /\ \A t \in Turns : (Fresh(t) => HeardWell(t)) /\ Stored(t)
  BY KeptIs DEF WorkIInv
<1>1. AgesApart'
  BY <1>0 DEF AgesApart, Born
<1>2. QueriesWait'
  <2>. SUFFICES ASSUME NEW c \in Conversations, outbox'[c] = "shown", c \notin crossed' \union severed'
                PROVE  QueryWaits(spaces'[c])
    BY DEF QueriesWait, QueryWaits
  <2>1. CASE LeftAlone(c)
    BY <1>0, <2>1 DEF QueriesWait, LeftAlone, QueryWaits
  <2>2. CASE Crosses(c)
    BY <2>2 DEF Crosses
  <2>3. CASE GivesUp(c)
    BY <2>3 DEF GivesUp
  <2>. QED
    BY <2>1, <2>2, <2>3
<1>3. ASSUME NEW t \in Turns, Fresh(t)' PROVE HeardWell(t)'
  <2>1. Fresh(t) /\ Home(t)' = Home(t) /\ t \notin crossed'
    BY <1>3 DEF Fresh, Open, Home
  <2>2. HeardWell(t) /\ Home(t) \in Conversations
    BY <1>0, <2>1 DEF Fresh, Open, Born, HomeIInv, HomesAreKnown
  <2>3. LeftAlone(Home(t))
    <3>1. ~Crosses(Home(t))
      BY <2>1 DEF Crosses, OpenIn, Fresh
    <3>2. ~GivesUp(Home(t))
      BY <2>2 DEF GivesUp, HeardWell, Alone
    <3>. QED
      BY <2>2, <3>1, <3>2
  <2>4. Alone(t)'
    BY <2>1, <2>2, <2>3 DEF HeardWell, Alone, LeftAlone, Born, Home, Newer
  <2>. QED
    BY <2>1, <2>2, <2>3, <2>4 DEF HeardWell, LeftAlone
<1>4. ASSUME NEW t \in Turns PROVE Stored(t)'
  BY <1>0 DEF Stored, Home
<1>. QED
  BY <1>1, <1>2, <1>3, <1>4 DEF TurnsAreHeard, AnswersAreKept, HeardWell, Stored

LEMMA SomeCross ==
  ASSUME NEW c \in Conversations, crossed' = crossed \union InWork(c), outbox' = outbox
  PROVE  Crosses(c)
<1>1. c \in {c} \ {NoConversation}
  BY AbsentRefs
<1>. QED
  BY <1>1 DEF Crosses, InWork

LEMMA UserCrosses ==
  ASSUME KeptIInv, NEW c \in Conversations,
         \/ Ask(c) \/ ShowQuery(c) \/ FailToSend(c)
         \/ OpenConversation(c) \/ NewChat(c) \/ DeleteConversation(c)
  PROVE  AgesApart' /\ QueriesWait' /\ TurnsAreHeard' /\ AnswersAreKept'
<1>0. /\ HomeIInv /\ spaces \in [Places -> Workspaces] /\ foreground \in Places /\ c \in Places
      /\ outbox \in [Conversations -> {"none", "asked", "shown"}] /\ spaces[c] \in Workspaces
      /\ Conversations \subseteq Places
  BY DEF KeptIInv, WorkIInv, HomeIInv, ChatTypes, Places
<1>u. UNCHANGED <<turns, kept, severed>>
  BY DEF Ask, ShowQuery, FailToSend, OpenConversation, NewChat, DeleteConversation
<1>1. CASE Ask(c)
  <2>1. \A d \in Conversations : LeftAlone(d)
    BY <1>0, <1>1 DEF Ask, LeftAlone
  <2>2. \A t \in Turns : t \in crossed => t \in crossed'
    BY <1>1 DEF Ask
  <2>. QED
    BY <1>u, <2>1, <2>2, QuietKeeps
<1>2. CASE ShowQuery(c)
  <2>1. /\ outbox' = [outbox EXCEPT ![c] = "shown"]
        /\ crossed' = IF OpenIn(c) # {} THEN crossed \union {c} \union InWork(c) ELSE crossed
    BY <1>2 DEF ShowQuery
  <2>2. PICK w : w = [AddRow(spaces[c], UserRow(NoTurn)) EXCEPT !.sending = TRUE]
    OBVIOUS
  <2>3. spaces' = [spaces EXCEPT ![c] = w]
    BY <1>2, <2>2 DEF ShowQuery
  <2>4. \A d \in Conversations \ {c} : LeftAlone(d)
    BY <1>0, <2>1, <2>3 DEF LeftAlone
  <2>5. Crosses(c)
    <3>1. OpenIn(c) \subseteq crossed'
      BY <2>1 DEF InWork
    <3>2. ASSUME c \notin crossed' \union severed PROVE QueryWaits(spaces'[c])
      <4>1. OpenIn(c) = {}
        BY <2>1, <3>2
      <4>2. spaces[c].phase \notin BusyPhases
        BY <3>2, <4>1 DEF KeptIInv, WorkIInv, Sound
      <4>3. spaces[c].phase \in Terminal
        BY <1>0, <4>2 DEF Workspaces, StreamPhases
      <4>4. PICK row \in RowRecords : row = UserRow(NoTurn) /\ row.kind = "user"
        BY RowKindsAreRows
      <4>5. /\ w.rows = Append(spaces[c].rows, row) /\ w.phase = spaces[c].phase /\ w.sending
            /\ w \in Workspaces
        BY <1>0, <2>2, <4>4, QueryRowDoes
      <4>6. spaces[c].rows \in Seq(RowRecords)
        BY <1>0 DEF Workspaces
      <4>7. HasRows(w) /\ LastRow(w) = row
        BY <4>5, <4>6, AppendedRows DEF HasRows, LastRow
      <4>8. spaces'[c] = w
        BY <1>0, <2>3
      <4>. QED
        BY <4>3, <4>4, <4>5, <4>7, <4>8 DEF QueryWaits, PendingHandoff
    <3>. QED
      BY <3>1, <3>2 DEF Crosses
  <2>6. \A t \in Turns : t \in crossed => t \in crossed'
    BY <2>1
  <2>. QED
    BY <1>u, <2>4, <2>5, <2>6, QuietKeeps
<1>3. CASE FailToSend(c)
  <2>1. /\ outbox' = [outbox EXCEPT ![c] = "none"] /\ crossed' = crossed \ {c} /\ outbox[c] = "shown"
        /\ spaces' = [spaces EXCEPT ![c] = SendFailure(@)]
    BY <1>3 DEF FailToSend
  <2>2. GivesUp(c)
    BY <1>0, <2>1 DEF GivesUp
  <2>3. \A d \in Conversations \ {c} : LeftAlone(d)
    BY <1>0, <2>1 DEF LeftAlone
  <2>4. \A t \in Turns : t \in crossed => t \in crossed'
    BY <2>1, AbsentRefs
  <2>. QED
    BY <1>u, <2>2, <2>3, <2>4, QuietKeeps
<1>4. CASE OpenConversation(c) \/ DeleteConversation(c)
  <2>1. /\ outbox' = outbox /\ crossed' = crossed \union InWork(c)
        /\ \A d \in Conversations \ {c} : spaces'[d] = spaces[d]
    BY <1>0, <1>4 DEF OpenConversation, DeleteConversation
  <2>2. Crosses(c)
    BY <2>1, SomeCross
  <2>3. \A d \in Conversations \ {c} : LeftAlone(d)
    BY <2>1 DEF LeftAlone
  <2>4. \A t \in Turns : t \in crossed => t \in crossed'
    BY <2>1
  <2>. QED
    BY <1>u, <2>2, <2>3, <2>4, QuietKeeps
<1>5. CASE NewChat(c)
  <2>1. /\ outbox' = outbox /\ crossed' = crossed \union InWork(foreground)
        /\ \A d \in Conversations \ {foreground} : spaces'[d] = spaces[d]
    BY <1>0, <1>5 DEF NewChat
  <2>2. foreground \in Conversations => Crosses(foreground)
    BY <2>1, SomeCross
  <2>3. \A d \in Conversations \ {foreground} : LeftAlone(d)
    BY <2>1 DEF LeftAlone
  <2>4. \A t \in Turns : t \in crossed => t \in crossed'
    BY <2>1
  <2>. QED
    BY <1>u, <2>2, <2>3, <2>4, QuietKeeps
<1>. QED
  BY <1>1, <1>2, <1>3, <1>4, <1>5

LEMMA RestKeepsAnswers ==
  ASSUME KeptIInv, Stop \/ FollowSession \/ LoseTurns \/ UNCHANGED chatVars
  PROVE  AgesApart' /\ QueriesWait' /\ TurnsAreHeard' /\ AnswersAreKept'
<1>0. /\ HomeIInv /\ spaces \in [Places -> Workspaces] /\ foreground \in Places
      /\ Conversations \subseteq Places /\ ChatTypes
  BY DEF KeptIInv, WorkIInv, HomeIInv, ChatTypes, Places
<1>1. CASE Stop
  <2>1. /\ outbox' = outbox /\ crossed' = crossed \union InWork(foreground)
        /\ \A d \in Conversations \ {foreground} : spaces'[d] = spaces[d]
        /\ UNCHANGED <<turns, kept, severed>>
    BY <1>0, <1>1 DEF Stop
  <2>2. foreground \in Conversations => Crosses(foreground)
    BY <2>1, SomeCross
  <2>3. \A d \in Conversations \ {foreground} : LeftAlone(d)
    BY <2>1 DEF LeftAlone
  <2>4. \A t \in Turns : t \in crossed => t \in crossed'
    BY <2>1
  <2>. QED
    BY <2>1, <2>2, <2>3, <2>4, QuietKeeps
<1>2. CASE FollowSession \/ UNCHANGED chatVars
  <2>1. UNCHANGED <<spaces, outbox, turns, kept, crossed, severed>>
    BY <1>2 DEF FollowSession, chatVars, store
  <2>2. (\A d \in Conversations : LeftAlone(d)) /\ \A t \in Turns : t \in crossed => t \in crossed'
    BY <2>1 DEF LeftAlone
  <2>. QED
    BY <2>1, <2>2, QuietKeeps
<1>3. CASE LoseTurns
  <2>1. /\ UNCHANGED <<spaces, outbox, kept, crossed>> /\ severed \subseteq severed'
        /\ turns' = [t \in Turns |-> [turns[t] EXCEPT !.stage = IF @ = "open" THEN "lost" ELSE @]]
    BY <1>3 DEF LoseTurns, store
  <2>2. ASSUME NEW t \in Turns
        PROVE  /\ turns'[t].stage = IF turns[t].stage = "open" THEN "lost" ELSE turns[t].stage
               /\ turns'[t].age = turns[t].age /\ turns'[t].home = turns[t].home
    <3>1. turns[t] \in Lives
      BY <1>0, TurnFields
    <3>. QED
      BY <2>1, <3>1 DEF Lives
  <2>3. Born' = Born
    BY <2>2 DEF Born
  <2>4. AgesApart'
    BY <2>2, <2>3 DEF KeptIInv, AgesApart, Born
  <2>5. QueriesWait'
    BY <2>1 DEF KeptIInv, QueriesWait
  <2>6. TurnsAreHeard'
    BY <2>2 DEF TurnsAreHeard, Fresh, Open
  <2>7. AnswersAreKept'
    BY <2>1, <2>2 DEF KeptIInv, AnswersAreKept, Home
  <2>. QED
    BY <2>4, <2>5, <2>6, <2>7
<1>. QED
  BY <1>1, <1>2, <1>3

(* A turn begins: the only one of its conversation, or it is crossed.      *)
LEMMA BeginningKeepsOthers ==
  ASSUME KeptIInv, NEW t \in Turns, NEW c \in Conversations, Bear(t, c),
         UNCHANGED <<kept, severed>>,
         \A u \in Turns : u \in crossed => u \in crossed',
         \A d \in Conversations \ {c} :
           spaces'[d] = spaces[d] /\ outbox'[d] = outbox[d] /\ (d \in crossed => d \in crossed'),
         OpenIn(c) \subseteq crossed',
         outbox'[c] = "shown" => c \in crossed'
  PROVE  /\ AgesApart' /\ QueriesWait' /\ AnswersAreKept'
         /\ \A u \in Turns \ {t} : Fresh(u)' => HeardWell(u)'
         /\ \A u \in Born' : Home(u)' = c => ~Newer(u, t)'
         /\ Home(t)' = c /\ turns'[t].said = 0 /\ turns'[t].cut = FALSE
         /\ LastTextRow(spaces[c], t) = 0
<1>0. /\ HomeIInv /\ ChatTypes /\ AgesApart /\ QueriesWait
      /\ \A u \in Turns : (Fresh(u) => HeardWell(u)) /\ Stored(u)
  BY KeptIs DEF WorkIInv, HomeIInv
<1>1. /\ turns' \in [Turns -> Lives]
      /\ t \notin Born /\ turns'[t].home = c /\ turns'[t].stage = "open"
      /\ turns'[t].age = Cardinality(Born) + 1 /\ turns'[t].said = 0 /\ ~turns'[t].cut
      /\ \A u \in Turns \ {t} : turns'[u] = turns[u]
      /\ Born' = Born \union {t} /\ Cardinality(Born) \in Nat
  BY <1>0, Begins
<1>2. Cardinality(Born') = Cardinality(Born) + 1
  <2>1. PICK B : B = Born \union {t}
    OBVIOUS
  <2>2. Cardinality(B) = Cardinality(Born) + 1
    BY <1>0, <1>1, <2>1, FS_AddElement DEF ChatTypes
  <2>. QED
    BY <1>1, <2>1, <2>2
<1>3. \A u \in Born : u # t /\ u \in Turns /\ turns[u].age \in Nat /\ turns[u].age <= Cardinality(Born)
  BY <1>0, <1>1, TurnFields DEF AgesApart, Born
<1>4. \A u \in Born' : turns'[u].age <= Cardinality(Born)'
  BY <1>1, <1>2, <1>3
<1>5. \A u, v \in Born' : turns'[u].age = turns'[v].age => u = v
  <2>. SUFFICES ASSUME NEW u \in Born', NEW v \in Born', turns'[u].age = turns'[v].age PROVE u = v
    OBVIOUS
  <2>1. CASE u \in Born /\ v \in Born
    BY <1>0, <1>1, <1>3, <2>1 DEF AgesApart
  <2>2. CASE u \notin Born \/ v \notin Born
    BY <1>1, <1>3, <2>2
  <2>. QED
    BY <2>1, <2>2
<1>6. AgesApart'
  BY <1>4, <1>5 DEF AgesApart
<1>7. QueriesWait'
  <2>. SUFFICES ASSUME NEW d \in Conversations, outbox'[d] = "shown", d \notin crossed' \union severed'
                PROVE  PendingHandoff(spaces'[d]) /\ HasRows(spaces'[d]) /\ LastRow(spaces'[d]).kind = "user"
    BY DEF QueriesWait
  <2>1. d # c
    OBVIOUS
  <2>. QED
    BY <1>0, <2>1 DEF QueriesWait
<1>8. AnswersAreKept'
  <2>. SUFFICES ASSUME NEW u \in Turns PROVE Stored(u)'
    BY DEF AnswersAreKept, Stored
  <2>1. CASE u = t
    BY <1>1, <2>1 DEF Stored
  <2>2. CASE u # t
    BY <1>0, <1>1, <2>2 DEF Stored, Home
  <2>. QED
    BY <2>1, <2>2
<1>9. ASSUME NEW u \in Turns \ {t}, Fresh(u)' PROVE HeardWell(u)'
  <2>1. turns'[u] = turns[u] /\ Home(u)' = Home(u) /\ Fresh(u)
    BY <1>1, <1>9 DEF Fresh, Open, Home
  <2>2. HeardWell(u) /\ u \in Born /\ Home(u) \in Conversations
    BY <1>0, <2>1 DEF Fresh, Open, Born, HomeIInv, HomesAreKnown
  <2>3. Home(u) # c
    BY <1>9, <2>1 DEF Fresh, OpenIn
  <2>4. spaces'[Home(u)] = spaces[Home(u)] /\ outbox'[Home(u)] = outbox[Home(u)]
    BY <2>2, <2>3
  <2>5. Alone(u)'
    <3>. SUFFICES ASSUME NEW v \in Born', Home(v)' = Home(u)' PROVE ~Newer(v, u)'
      BY <2>1, <2>2, <2>4 DEF Alone, HeardWell
    <3>1. v # t
      BY <1>1, <2>1, <2>3 DEF Home
    <3>2. v \in Born /\ turns'[v] = turns[v] /\ Home(v) = Home(u)
      BY <1>1, <1>3, <2>1, <3>1 DEF Home
    <3>. QED
      BY <2>1, <2>2, <3>2 DEF HeardWell, Alone, Newer
  <2>. QED
    BY <2>1, <2>2, <2>4, <2>5 DEF HeardWell
<1>10. \A u \in Born' : Home(u)' = c => ~Newer(u, t)'
  BY <1>1, <1>3 DEF Newer
<1>11. LastTextRow(spaces[c], t) = 0
  <2>1. ~Of(spaces[c], t)
    BY <1>0, <1>1 DEF HomeIInv, MentionsAreHome, Places
  <2>2. TextRowsOf(spaces[c], t) = {}
    BY <2>1 DEF TextRowsOf, Of
  <2>. QED
    BY <2>2 DEF LastTextRow
<1>12. turns'[t].cut = FALSE
  BY <1>1, <1>0 DEF Lives
<1>. QED
  BY <1>1, <1>6, <1>7, <1>8, <1>9, <1>10, <1>11, <1>12 DEF Home

LEMMA ToldNothing ==
  ASSUME NEW s, NEW t, LastTextRow(s, t) = 0
  PROVE  Told(s, t, 0, FALSE)
BY DEF Told

LEMMA DispatchKeepsAnswers ==
  ASSUME KeptIInv, NEW t \in Turns, NEW c \in Conversations, Dispatch(c, t)
  PROVE  AgesApart' /\ QueriesWait' /\ TurnsAreHeard' /\ AnswersAreKept'
<1>0. /\ outbox \in [Conversations -> {"none", "asked", "shown"}] /\ QueriesWait
      /\ t \notin Conversations
  BY AbsentRefs DEF KeptIInv, WorkIInv, HomeIInv, ChatTypes
<1>1. /\ Bear(t, c) /\ outbox[c] = "shown" /\ outbox' = [outbox EXCEPT ![c] = "none"]
      /\ crossed' = (crossed \ {c}) \union IF c \in crossed \/ OpenIn(c) # {}
                                          THEN {t} \union OpenIn(c) ELSE {}
      /\ UNCHANGED <<spaces, kept, severed>>
  BY DEF Dispatch, store
<1>2. /\ \A u \in Turns : u \in crossed => u \in crossed'
      /\ OpenIn(c) \subseteq crossed'
  BY <1>1, AbsentRefs
<1>3. outbox'[c] = "none"
  BY <1>0, <1>1
<1>4. \A d \in Conversations \ {c} :
        spaces'[d] = spaces[d] /\ outbox'[d] = outbox[d] /\ (d \in crossed => d \in crossed')
  BY <1>0, <1>1
<1>5. /\ AgesApart' /\ QueriesWait' /\ AnswersAreKept'
      /\ \A u \in Turns \ {t} : Fresh(u)' => HeardWell(u)'
      /\ \A u \in Born' : Home(u)' = c => ~Newer(u, t)'
      /\ Home(t)' = c /\ turns'[t].said = 0 /\ turns'[t].cut = FALSE
      /\ LastTextRow(spaces[c], t) = 0
  BY <1>1, <1>2, <1>3, <1>4, BeginningKeepsOthers
<1>6. ASSUME Fresh(t)' PROVE HeardWell(t)'
  <2>1. c \notin crossed \union severed
    BY <1>1, <1>5, <1>6 DEF Fresh
  <2>2. PendingHandoff(spaces[c]) /\ HasRows(spaces[c]) /\ LastRow(spaces[c]).kind = "user"
    BY <1>0, <1>1, <2>1 DEF QueriesWait
  <2>3. Awaited(spaces[c], t)
    BY <2>2 DEF Awaited
  <2>4. Told(spaces[c], t, 0, FALSE)
    BY <1>5, ToldNothing
  <2>5. Alone(t)'
    BY <1>3, <1>5 DEF Alone
  <2>. QED
    BY <1>1, <1>5, <2>3, <2>4, <2>5 DEF HeardWell
<1>. QED
  BY <1>5, <1>6 DEF TurnsAreHeard, HeardWell

LEMMA PillKeepsAnswers ==
  ASSUME KeptIInv, NEW t \in Turns, NEW c \in Conversations, PillSends(c, t)
  PROVE  AgesApart' /\ QueriesWait' /\ TurnsAreHeard' /\ AnswersAreKept'
<1>0. /\ spaces \in [Places -> Workspaces] /\ spaces[c] \in Workspaces /\ c \in Places
      /\ Conversations \subseteq Places /\ c # NoConversation
  BY AbsentRefs DEF KeptIInv, WorkIInv, HomeIInv, ChatTypes, Places
<1>1. /\ Bear(t, c) /\ outbox' = outbox
      /\ crossed' = IF InWork(c) # {} THEN crossed \union {t} \union InWork(c) ELSE crossed
      /\ spaces' = [spaces EXCEPT ![c] = ShowsQuery(@, t)]
      /\ UNCHANGED <<kept, severed>>
  BY DEF PillSends
<1>2. /\ \A u \in Turns : u \in crossed => u \in crossed'
      /\ OpenIn(c) \subseteq crossed'
  BY <1>1 DEF InWork
<1>3. outbox[c] = "shown" => c \in InWork(c)
  BY <1>0 DEF InWork
<1>4. outbox'[c] = "shown" => c \in crossed'
  BY <1>1, <1>3
<1>5. \A d \in Conversations \ {c} :
        spaces'[d] = spaces[d] /\ outbox'[d] = outbox[d] /\ (d \in crossed => d \in crossed')
  BY <1>0, <1>1
<1>6. /\ AgesApart' /\ QueriesWait' /\ AnswersAreKept'
      /\ \A u \in Turns \ {t} : Fresh(u)' => HeardWell(u)'
      /\ \A u \in Born' : Home(u)' = c => ~Newer(u, t)'
      /\ Home(t)' = c /\ turns'[t].said = 0 /\ turns'[t].cut = FALSE
      /\ LastTextRow(spaces[c], t) = 0
  BY <1>1, <1>2, <1>4, <1>5, BeginningKeepsOthers
<1>7. ASSUME Fresh(t)' PROVE HeardWell(t)'
  <2>1. outbox[c] # "shown"
    BY <1>1, <1>3, <1>7 DEF Fresh
  <2>2. PICK w \in Workspaces : /\ w = ShowsQuery(spaces[c], t)
                                /\ w.rows = Append(spaces[c].rows, UserRow(t))
                                /\ w.turn = t /\ w.phase = "awaiting-first-chunk"
    BY <1>0, ShownQueryDoes
  <2>3. Awaited(w, t)
    BY <2>2, PhasesApart DEF Awaited, PendingHandoff
  <2>4. LastTextRow(w, t) = 0
    <3>1. PICK row \in RowRecords : row = UserRow(t) /\ row.kind = "user"
      BY RowKindsAreRows
    <3>2. w.rows = Append(spaces[c].rows, row) /\ row.kind # "text"
      BY <2>2, <3>1
    <3>. QED
      BY <1>0, <1>6, <3>2, LastTextOfAdded
  <2>5. Told(w, t, 0, FALSE)
    BY <2>4, ToldNothing
  <2>6. Alone(t)'
    BY <1>1, <1>6, <2>1 DEF Alone
  <2>7. spaces'[c] = w
    BY <1>0, <1>1, <2>2
  <2>. QED
    BY <1>6, <2>3, <2>5, <2>6, <2>7 DEF HeardWell
<1>. QED
  BY <1>6, <1>7 DEF TurnsAreHeard, HeardWell

LEMMA KeptInit == ChatInit => KeptIInv
<1>. SUFFICES ASSUME ChatInit PROVE KeptIInv
  OBVIOUS
<1>1. Unborn.stage = "unborn"
  BY DEF Unborn
<1>2. \A t \in Turns : turns[t].stage = "unborn"
  BY <1>1 DEF ChatInit
<1>3. Born = {}
  BY <1>2 DEF Born
<1>4. AgesApart /\ TurnsAreHeard /\ AnswersAreKept
  BY <1>2, <1>3 DEF AgesApart, TurnsAreHeard, AnswersAreKept, Fresh, Open
<1>5. QueriesWait
  BY DEF QueriesWait, ChatInit
<1>. QED
  BY <1>4, <1>5, WorkInit DEF KeptIInv

LEMMA KeptStep == KeptIInv /\ [ChatNext]_chatVars => KeptIInv'
<1>. SUFFICES ASSUME KeptIInv, [ChatNext]_chatVars PROVE KeptIInv'
  OBVIOUS
<1>1. WorkIInv'
  BY WorkStep DEF KeptIInv
<1>2. AgesApart' /\ QueriesWait' /\ TurnsAreHeard' /\ AnswersAreKept'
  <2>1. ASSUME NEW t \in Turns, HearEvent(t)
        PROVE  AgesApart' /\ QueriesWait' /\ TurnsAreHeard' /\ AnswersAreKept'
    BY <2>1, EventsKeepAnswers
  <2>2. ASSUME NEW c \in Conversations, ChatUserActs(c)
        PROVE  AgesApart' /\ QueriesWait' /\ TurnsAreHeard' /\ AnswersAreKept'
    BY <2>2, UserCrosses, DispatchKeepsAnswers, PillKeepsAnswers DEF ChatUserActs
  <2>. QED
    BY <2>1, <2>2, RestKeepsAnswers DEF ChatNext
<1>. QED
  BY <1>1, <1>2 DEF KeptIInv

(* An answered turn that no later query, stop or change of its rows        *)
(* overlapped, in a conversation that lost no turn with the link, is in the*)
(* transcript with all of its last stretch of text: the gate never drops   *)
(* its events, and streaming-complete finds its open row.                  *)
THEOREM AnswersAreKeptHolds == ChatSpec => []AnswersAreKept
<1>1. KeptIInv => AnswersAreKept
  BY DEF KeptIInv
<1>. QED
  BY <1>1, KeptInit, KeptStep, PTL DEF ChatSpec

=============================================================================

------------------------ MODULE TranscriptQueue_proofs ------------------------
(***************************************************************************)
(* Safety of the sessions of the windows and of the queues of the          *)
(* transcript writer, for any number of windows, conversations, entries,   *)
(* concurrent flushes and changes of the session.                          *)
(***************************************************************************)
EXTENDS TranscriptQueue, SequenceTheorems, TLAPS

-----------------------------------------------------------------------------
(* The sessions.                                                           *)

\* Two sessions with the same conversation and the same user are the same.
LEMMA SessionsAreEqual ==
  ASSUME NEW s \in Sessions, NEW t \in Sessions, s.chat = t.chat, s.user <=> t.user
  PROVE  s = t
BY DEF Sessions

LEMMA UpdatedType ==
  ASSUME NEW s \in Sessions, NEW chat \in Chats \union {NoChat}, NEW user \in BOOLEAN
  PROVE  /\ Updated(s, chat, user) \in Sessions
         /\ Updated(s, chat, user).chat = chat
         /\ Updated(s, chat, user).user <=> (s.user \/ user)
BY DEF Updated, Sessions

LEMMA SessionTypeStays == SessionTypeOK /\ [SessionNext]_sessionVars => SessionTypeOK'
<1> SUFFICES ASSUME SessionTypeOK, [SessionNext]_sessionVars PROVE SessionTypeOK'
  OBVIOUS
<1>1. ASSUME NEW w \in Windows, UpdateSession(w) PROVE SessionTypeOK'
  <2>1. PICK chat \in Chats \union {NoChat}, user \in BOOLEAN :
          LET next == Updated(session[w], chat, user)
          IN  /\ session' = [session EXCEPT ![w] = next]
              /\ toMain' = [toMain EXCEPT ![w] = Append(@, next)]
    BY <1>1 DEF UpdateSession
  <2> DEFINE next == Updated(session[w], chat, user)
  <2>2. next \in Sessions
    BY UpdatedType DEF SessionTypeOK
  <2>3. session' = [session EXCEPT ![w] = next] /\ toMain' = [toMain EXCEPT ![w] = Append(@, next)]
    BY <2>1
  <2> HIDE DEF next
  <2>4. toMain[w] \in Seq(Sessions) /\ Append(toMain[w], next) \in Seq(Sessions)
    BY <2>2, AppendProperties DEF SessionTypeOK
  <2>5. session' \in [Windows -> Sessions] /\ toMain' \in [Windows -> Seq(Sessions)]
    BY <2>2, <2>3, <2>4 DEF SessionTypeOK
  <2>6. updates' \in 0..MaxUpdates
    BY <1>1, SessionAssumption DEF UpdateSession, SessionTypeOK
  <2>7. crossed' \in BOOLEAN
    BY <1>1 DEF UpdateSession, SessionTypeOK
  <2> QED BY <1>1, <2>5, <2>6, <2>7 DEF UpdateSession, SessionTypeOK
<1>2. ASSUME NEW w \in Windows, MainSyncs(w) PROVE SessionTypeOK'
  <2> DEFINE sent == Head(toMain[w])
  <2>1. /\ mainSession' = Updated(mainSession, sent.chat, sent.user)
        /\ toWindow' = [v \in Windows |-> IF v = w THEN toWindow[v] ELSE Append(toWindow[v], sent)]
        /\ toMain' = [toMain EXCEPT ![w] = Tail(@)]
        /\ UNCHANGED <<session, updates, crossed>>
    BY <1>2 DEF MainSyncs
  <2>2. sent \in Sessions /\ Tail(toMain[w]) \in Seq(Sessions)
    BY <1>2, HeadTailProperties DEF MainSyncs, SessionTypeOK
  <2> HIDE DEF sent
  <2>3. sent.chat \in Chats \union {NoChat} /\ sent.user \in BOOLEAN
    BY <2>2 DEF Sessions
  <2>4. mainSession' \in Sessions
    BY <2>1, <2>3, UpdatedType DEF SessionTypeOK
  <2>5. \A v \in Windows : Append(toWindow[v], sent) \in Seq(Sessions)
    BY <2>2, AppendProperties DEF SessionTypeOK
  <2>6. toWindow' \in [Windows -> Seq(Sessions)] /\ toMain' \in [Windows -> Seq(Sessions)]
    BY <2>1, <2>2, <2>5 DEF SessionTypeOK
  <2> QED BY <2>1, <2>4, <2>6 DEF SessionTypeOK
<1>3. ASSUME NEW w \in Windows, WindowSyncs(w) PROVE SessionTypeOK'
  <2> DEFINE sent == Head(toWindow[w])
             next == Updated(session[w], sent.chat, sent.user)
  <2>1. /\ session' = [session EXCEPT ![w] = next]
        /\ toWindow' = [toWindow EXCEPT ![w] = Tail(@)]
        /\ UNCHANGED <<mainSession, toMain, updates, crossed>>
    BY <1>3 DEF WindowSyncs
  <2>2. sent \in Sessions /\ Tail(toWindow[w]) \in Seq(Sessions)
    BY <1>3, HeadTailProperties DEF WindowSyncs, SessionTypeOK
  <2> HIDE DEF sent
  <2>3. sent.chat \in Chats \union {NoChat} /\ sent.user \in BOOLEAN
    BY <2>2 DEF Sessions
  <2>4. next \in Sessions
    BY <2>3, UpdatedType DEF SessionTypeOK
  <2> HIDE DEF next
  <2>5. session' \in [Windows -> Sessions] /\ toWindow' \in [Windows -> Seq(Sessions)]
    BY <2>1, <2>2, <2>4 DEF SessionTypeOK
  <2> QED BY <2>1, <2>5 DEF SessionTypeOK
<1>4. CASE UNCHANGED sessionVars
  BY <1>4 DEF sessionVars, SessionTypeOK
<1> QED BY <1>1, <1>2, <1>3, <1>4 DEF SessionNext

\* What the windows will agree on when everything is delivered: the session
\* of the window that speaks, which is alone and has heard everything, and
\* the last message on the way to a window.
Informed(s) ==
  \A v \in Windows :
    /\ session[v].user => s.user
    /\ \A i \in 1..Len(toMain[v]) : toMain[v][i].user => s.user
    /\ \A i \in 1..Len(toWindow[v]) : toWindow[v][i].user => s.user
Speaks(s) ==
  \A v \in Windows : toMain[v] # <<>> =>
    /\ session[v] = s /\ toWindow[v] = <<>>
    /\ toMain[v][Len(toMain[v])] = s
    /\ \A u \in Windows \ {v} : toMain[u] = <<>>
Hears(s) ==
  \A v \in Windows : (\A u \in Windows \ {v} : toMain[u] = <<>>) =>
    IF toWindow[v] = <<>> THEN session[v] = s ELSE toWindow[v][Len(toWindow[v])] = s

SessionIInv ==
  SessionTypeOK /\ (~crossed => \E s \in Sessions : Informed(s) /\ Speaks(s) /\ Hears(s))

LEMMA InitSessionIInv == SessionInit => SessionIInv
<1> SUFFICES ASSUME SessionInit PROVE SessionIInv
  OBVIOUS
<1> DEFINE s == [chat |-> NoChat, user |-> FALSE]
<1>1. s \in Sessions
  BY DEF Sessions
<1>2. session = [w \in Windows |-> s] /\ toMain = [w \in Windows |-> <<>>]
      /\ toWindow = [w \in Windows |-> <<>>] /\ mainSession = s
  BY DEF SessionInit
<1>3. \A q : q = <<>> => Len(q) = 0
  OBVIOUS
<1>4. ~ s.user
  OBVIOUS
<1> HIDE DEF s
<1>5. SessionTypeOK
  <2>1. <<>> \in Seq(Sessions)
    BY EmptySeq
  <2>2. /\ session \in [Windows -> Sessions] /\ mainSession \in Sessions
        /\ toMain \in [Windows -> Seq(Sessions)] /\ toWindow \in [Windows -> Seq(Sessions)]
    BY <1>1, <1>2, <2>1
  <2>3. updates = 0 /\ crossed = FALSE
    BY DEF SessionInit
  <2>4. 0 \in 0..MaxUpdates
    BY SessionAssumption
  <2> QED BY <2>2, <2>3, <2>4 DEF SessionTypeOK
<1>6. Speaks(s) /\ Hears(s)
  BY <1>2 DEF Speaks, Hears
<1>7. Informed(s)
  <2> SUFFICES ASSUME NEW v \in Windows
               PROVE  /\ session[v].user => s.user
                      /\ \A i \in 1..Len(toMain[v]) : toMain[v][i].user => s.user
                      /\ \A i \in 1..Len(toWindow[v]) : toWindow[v][i].user => s.user
    BY DEF Informed
  <2>1. session[v] = s /\ Len(toMain[v]) = 0 /\ Len(toWindow[v]) = 0
    BY <1>2, <1>3
  <2>2. 1..0 = {}
    OBVIOUS
  <2> QED BY <2>1, <2>2
<1> QED BY <1>1, <1>5, <1>6, <1>7 DEF SessionIInv

LEMMA StepSessionIInv == SessionIInv /\ [SessionNext]_sessionVars => SessionIInv'
<1> SUFFICES ASSUME SessionIInv, [SessionNext]_sessionVars, ~crossed'
             PROVE  \E s \in Sessions : Informed(s)' /\ Speaks(s)' /\ Hears(s)'
  BY SessionTypeStays DEF SessionIInv
<1>0. SessionTypeOK
  BY DEF SessionIInv
<1>1. ASSUME NEW w \in Windows, UpdateSession(w)
      PROVE  \E s \in Sessions : Informed(s)' /\ Speaks(s)' /\ Hears(s)'
  <2>1. PICK chat \in Chats \union {NoChat}, user \in BOOLEAN :
          LET next == Updated(session[w], chat, user)
          IN  /\ session' = [session EXCEPT ![w] = next]
              /\ toMain' = [toMain EXCEPT ![w] = Append(@, next)]
    BY <1>1 DEF UpdateSession
  <2> DEFINE sent == Updated(session[w], chat, user)
  <2>a. sent \in Sessions /\ (session[w].user => sent.user)
    BY <1>0, UpdatedType DEF SessionTypeOK
  <2>b. session' = [session EXCEPT ![w] = sent] /\ toMain' = [toMain EXCEPT ![w] = Append(@, sent)]
        /\ toWindow' = toWindow
    BY <1>1, <2>1 DEF UpdateSession
  <2>c. PICK next : next = sent
    OBVIOUS
  <2> HIDE DEF sent
  <2>2. next \in Sessions /\ (session[w].user => next.user)
    BY <2>a, <2>c
  <2>3. session' = [session EXCEPT ![w] = next] /\ toMain' = [toMain EXCEPT ![w] = Append(@, next)]
        /\ toWindow' = toWindow
    BY <2>b, <2>c
  <2>4. ~crossed /\ toWindow[w] = <<>> /\ \A v \in Windows \ {w} : toMain[v] = <<>>
    BY <1>1 DEF UpdateSession
  <2>5. PICK s \in Sessions : Informed(s) /\ Speaks(s) /\ Hears(s)
    BY <2>4 DEF SessionIInv
  <2>6. session[w] = s
    BY <2>4, <2>5 DEF Hears
  <2>7. /\ session'[w] = next /\ toMain'[w] = Append(toMain[w], next)
        /\ \A v \in Windows \ {w} : session'[v] = session[v] /\ toMain'[v] = toMain[v]
    BY <1>0, <2>3 DEF SessionTypeOK
  <2>8. /\ Len(toMain'[w]) = Len(toMain[w]) + 1 /\ toMain'[w] # <<>> /\ Len(toMain[w]) \in Nat
        /\ toMain'[w][Len(toMain[w]) + 1] = next
        /\ \A i \in 1..Len(toMain[w]) : toMain'[w][i] = toMain[w][i]
    <3>1. toMain[w] \in Seq(Sessions) /\ toMain'[w] = Append(toMain[w], next)
      BY <1>0, <2>7 DEF SessionTypeOK
    <3> QED BY <2>2, <3>1, AppendProperties, LenProperties
  <2>9. Informed(next)'
    <3> SUFFICES ASSUME NEW v \in Windows
                 PROVE  /\ session'[v].user => next.user
                        /\ \A i \in 1..Len(toMain'[v]) : toMain'[v][i].user => next.user
                        /\ \A i \in 1..Len(toWindow'[v]) : toWindow'[v][i].user => next.user
      BY DEF Informed
    <3>1. s.user => next.user
      BY <2>2, <2>6
    <3>2. /\ session[v].user => next.user
          /\ \A i \in 1..Len(toMain[v]) : toMain[v][i].user => next.user
          /\ \A i \in 1..Len(toWindow[v]) : toWindow[v][i].user => next.user
      BY <2>5, <3>1 DEF Informed
    <3>3. CASE v = w
      <4>1. \A i \in 1..Len(toMain'[w]) : i \in 1..Len(toMain[w]) \/ i = Len(toMain[w]) + 1
        BY <2>8
      <4>2. \A i \in 1..Len(toMain'[w]) : toMain'[w][i].user => next.user
        BY <2>8, <3>2, <3>3, <4>1
      <4> QED BY <2>3, <2>7, <3>2, <3>3, <4>2
    <3>4. CASE v # w
      BY <2>3, <2>7, <3>2, <3>4
    <3> QED BY <3>3, <3>4
  <2>10. Speaks(next)'
    BY <2>3, <2>4, <2>7, <2>8 DEF Speaks
  <2>11. Hears(next)'
    BY <2>3, <2>4, <2>7, <2>8 DEF Hears
  <2> QED BY <2>2, <2>9, <2>10, <2>11
<1>2. ASSUME NEW w \in Windows, MainSyncs(w)
      PROVE  \E s \in Sessions : Informed(s)' /\ Speaks(s)' /\ Hears(s)'
  <2> DEFINE sent == Head(toMain[w])
  <2>1. /\ toMain[w] # <<>>
        /\ toWindow' = [v \in Windows |-> IF v = w THEN toWindow[v] ELSE Append(toWindow[v], sent)]
        /\ toMain' = [toMain EXCEPT ![w] = Tail(@)]
        /\ UNCHANGED <<session, crossed>>
    BY <1>2 DEF MainSyncs
  <2>2. PICK s \in Sessions : Informed(s) /\ Speaks(s) /\ Hears(s)
    BY <2>1 DEF SessionIInv
  <2>3. /\ session[w] = s /\ toWindow[w] = <<>>
        /\ toMain[w][Len(toMain[w])] = s
        /\ \A u \in Windows \ {w} : toMain[u] = <<>>
    BY <2>1, <2>2 DEF Speaks
  <2>4. /\ sent \in Sessions /\ sent = toMain[w][1]
        /\ Len(toMain[w]) \in Nat \ {0}
        /\ Tail(toMain[w]) \in Seq(Sessions) /\ Len(Tail(toMain[w])) = Len(toMain[w]) - 1
        /\ \A i \in 1..Len(Tail(toMain[w])) : Tail(toMain[w])[i] = toMain[w][i + 1]
    BY <1>0, <2>1, HeadTailProperties, EmptySeq DEF SessionTypeOK
  <2>5. sent.user => s.user
    BY <2>2, <2>4 DEF Informed
  <2> HIDE DEF sent
  <2>6. /\ toMain'[w] = Tail(toMain[w]) /\ toWindow'[w] = <<>>
        /\ \A v \in Windows \ {w} : toMain'[v] = <<>> /\ toWindow'[v] = Append(toWindow[v], sent)
    BY <1>0, <2>1, <2>3 DEF SessionTypeOK
  <2>7. \A v \in Windows \ {w} :
          /\ Len(toWindow'[v]) = Len(toWindow[v]) + 1 /\ toWindow'[v] # <<>>
          /\ Len(toWindow[v]) \in Nat
          /\ toWindow'[v][Len(toWindow[v]) + 1] = sent
          /\ \A i \in 1..Len(toWindow[v]) : toWindow'[v][i] = toWindow[v][i]
    <3> TAKE v \in Windows \ {w}
    <3>1. toWindow[v] \in Seq(Sessions) /\ toWindow'[v] = Append(toWindow[v], sent)
      BY <1>0, <2>6 DEF SessionTypeOK
    <3> QED BY <2>4, <3>1, AppendProperties, LenProperties
  <2>8. /\ Len(toMain'[w]) = Len(toMain[w]) - 1
        /\ \A i \in 1..Len(toMain'[w]) : i + 1 \in 1..Len(toMain[w]) /\ toMain'[w][i] = toMain[w][i + 1]
        /\ toMain'[w] = <<>> => Len(toMain[w]) = 1
        /\ toMain'[w] # <<>> => Len(toMain'[w]) \in Nat \ {0}
    <3>1. toMain'[w] = <<>> => Len(toMain'[w]) = 0
      OBVIOUS
    <3>2. toMain'[w] # <<>> => Len(toMain'[w]) \in Nat \ {0}
      BY <2>4, <2>6, EmptySeq
    <3> QED BY <2>4, <2>6, <3>1, <3>2
  <2>9. Informed(s)'
    <3> SUFFICES ASSUME NEW v \in Windows
                 PROVE  /\ session'[v].user => s.user
                        /\ \A i \in 1..Len(toMain'[v]) : toMain'[v][i].user => s.user
                        /\ \A i \in 1..Len(toWindow'[v]) : toWindow'[v][i].user => s.user
      BY DEF Informed
    <3>1. /\ session[v].user => s.user
          /\ \A i \in 1..Len(toMain[v]) : toMain[v][i].user => s.user
          /\ \A i \in 1..Len(toWindow[v]) : toWindow[v][i].user => s.user
      BY <2>2 DEF Informed
    <3>2. CASE v = w
      <4>1. \A i \in 1..Len(toMain'[v]) : toMain'[v][i].user => s.user
        BY <2>8, <3>1, <3>2
      <4>2. \A i \in 1..Len(toWindow'[v]) : toWindow'[v][i].user => s.user
        BY <2>3, <2>6, <3>1, <3>2
      <4> QED BY <2>1, <3>1, <4>1, <4>2
    <3>3. CASE v # w
      <4>1. \A i \in 1..Len(toWindow'[v]) : i \in 1..Len(toWindow[v]) \/ i = Len(toWindow[v]) + 1
        BY <2>7, <3>3
      <4>2. \A i \in 1..Len(toWindow'[v]) : toWindow'[v][i].user => s.user
        BY <2>5, <2>7, <3>1, <3>3, <4>1
      <4>3. toMain'[v] = toMain[v]
        BY <2>3, <2>6, <3>3
      <4> QED BY <2>1, <3>1, <4>2, <4>3
    <3> QED BY <3>2, <3>3
  <2>10. Speaks(s)'
    <3> SUFFICES ASSUME NEW v \in Windows, toMain'[v] # <<>>
                 PROVE  /\ session'[v] = s /\ toWindow'[v] = <<>>
                        /\ toMain'[v][Len(toMain'[v])] = s
                        /\ \A u \in Windows \ {v} : toMain'[u] = <<>>
      BY DEF Speaks
    <3>1. v = w
      BY <2>6
    <3>2. Len(toMain'[w]) \in Nat \ {0} /\ Len(toMain'[w]) + 1 = Len(toMain[w])
      BY <2>4, <2>8, <3>1
    <3>3. toMain'[w][Len(toMain'[w])] = toMain[w][Len(toMain[w])]
      BY <2>8, <3>2
    <3> QED BY <2>1, <2>3, <2>6, <3>1, <3>3
  <2>11. Hears(s)'
    <3> SUFFICES ASSUME NEW v \in Windows, \A u \in Windows \ {v} : toMain'[u] = <<>>
                 PROVE  IF toWindow'[v] = <<>> THEN session'[v] = s
                        ELSE toWindow'[v][Len(toWindow'[v])] = s
      BY DEF Hears
    <3>1. CASE v = w
      BY <2>1, <2>3, <2>6, <3>1
    <3>2. CASE v # w
      <4>1. sent = s
        BY <2>3, <2>4, <2>8, <3>2
      <4> QED BY <2>7, <3>2, <4>1
    <3> QED BY <3>1, <3>2
  <2> QED BY <2>2, <2>9, <2>10, <2>11
<1>3. ASSUME NEW w \in Windows, WindowSyncs(w)
      PROVE  \E s \in Sessions : Informed(s)' /\ Speaks(s)' /\ Hears(s)'
  <2> DEFINE sent == Head(toWindow[w])
             next == Updated(session[w], sent.chat, sent.user)
  <2>1. /\ toWindow[w] # <<>>
        /\ session' = [session EXCEPT ![w] = next]
        /\ toWindow' = [toWindow EXCEPT ![w] = Tail(@)]
        /\ UNCHANGED <<toMain, crossed>>
    BY <1>3 DEF WindowSyncs
  <2>2. PICK s \in Sessions : Informed(s) /\ Speaks(s) /\ Hears(s)
    BY <2>1 DEF SessionIInv
  <2>3. toMain[w] = <<>>
    BY <2>1, <2>2 DEF Speaks
  <2>4. /\ sent \in Sessions /\ sent = toWindow[w][1]
        /\ Len(toWindow[w]) \in Nat \ {0}
        /\ Tail(toWindow[w]) \in Seq(Sessions) /\ Len(Tail(toWindow[w])) = Len(toWindow[w]) - 1
        /\ \A i \in 1..Len(Tail(toWindow[w])) : Tail(toWindow[w])[i] = toWindow[w][i + 1]
    BY <1>0, <2>1, HeadTailProperties, EmptySeq DEF SessionTypeOK
  <2>5. sent.user => s.user
    BY <2>2, <2>4 DEF Informed
  <2> HIDE DEF sent
  <2>6. /\ next \in Sessions /\ next.chat = sent.chat
        /\ next.user <=> (session[w].user \/ sent.user)
    <3>1. sent.chat \in Chats \union {NoChat} /\ sent.user \in BOOLEAN /\ session[w] \in Sessions
      BY <1>0, <2>4 DEF Sessions, SessionTypeOK
    <3> QED BY <3>1 DEF Updated, Sessions
  <2>7. session[w].user => s.user
    BY <2>2 DEF Informed
  <2> HIDE DEF next
  <2>8. /\ session'[w] = next /\ toWindow'[w] = Tail(toWindow[w]) /\ toMain' = toMain
        /\ \A v \in Windows \ {w} : session'[v] = session[v] /\ toWindow'[v] = toWindow[v]
    BY <1>0, <2>1 DEF SessionTypeOK
  <2>9. /\ \A i \in 1..Len(toWindow'[w]) : i + 1 \in 1..Len(toWindow[w])
                                           /\ toWindow'[w][i] = toWindow[w][i + 1]
        /\ toWindow'[w] = <<>> => Len(toWindow[w]) = 1
        /\ toWindow'[w] # <<>> => Len(toWindow'[w]) \in Nat \ {0}
        /\ Len(toWindow'[w]) = Len(toWindow[w]) - 1
    <3>1. toWindow'[w] = <<>> => Len(toWindow'[w]) = 0
      OBVIOUS
    <3>2. toWindow'[w] # <<>> => Len(toWindow'[w]) \in Nat \ {0}
      BY <2>4, <2>8, EmptySeq
    <3> QED BY <2>4, <2>8, <3>1, <3>2
  <2>10. Informed(s)'
    <3> SUFFICES ASSUME NEW v \in Windows
                 PROVE  /\ session'[v].user => s.user
                        /\ \A i \in 1..Len(toMain'[v]) : toMain'[v][i].user => s.user
                        /\ \A i \in 1..Len(toWindow'[v]) : toWindow'[v][i].user => s.user
      BY DEF Informed
    <3>1. /\ session[v].user => s.user
          /\ \A i \in 1..Len(toMain[v]) : toMain[v][i].user => s.user
          /\ \A i \in 1..Len(toWindow[v]) : toWindow[v][i].user => s.user
      BY <2>2 DEF Informed
    <3>2. CASE v = w
      <4>1. \A i \in 1..Len(toWindow'[v]) : toWindow'[v][i].user => s.user
        BY <2>9, <3>1, <3>2
      <4>2. session'[v].user => s.user
        BY <2>5, <2>6, <2>7, <2>8, <3>2
      <4> QED BY <2>8, <3>1, <4>1, <4>2
    <3>3. CASE v # w
      BY <2>8, <3>1, <3>3
    <3> QED BY <3>2, <3>3
  <2>11. Speaks(s)'
    BY <2>2, <2>3, <2>8 DEF Speaks
  <2>12. Hears(s)'
    <3> SUFFICES ASSUME NEW v \in Windows, \A u \in Windows \ {v} : toMain[u] = <<>>
                 PROVE  IF toWindow'[v] = <<>> THEN session'[v] = s
                        ELSE toWindow'[v][Len(toWindow'[v])] = s
      BY <2>8 DEF Hears
    <3>1. CASE v # w
      BY <2>2, <2>8, <3>1 DEF Hears
    <3>2. CASE v = w
      <4>1. toWindow[w][Len(toWindow[w])] = s
        BY <2>1, <2>2, <3>2 DEF Hears
      <4>2. CASE toWindow'[w] = <<>>
        <5>1. sent = s
          BY <2>4, <2>9, <4>1, <4>2
        <5>2. next.user <=> s.user
          BY <2>6, <2>7, <5>1
        <5> QED BY <2>6, <2>8, <3>2, <4>2, <5>1, <5>2, SessionsAreEqual
      <4>3. CASE toWindow'[w] # <<>>
        <5>1. Len(toWindow'[w]) \in 1..Len(toWindow'[w]) /\ Len(toWindow'[w]) + 1 = Len(toWindow[w])
          BY <2>4, <2>9, <4>3
        <5>2. toWindow'[w][Len(toWindow'[w])] = toWindow[w][Len(toWindow[w])]
          BY <2>9, <5>1
        <5> QED BY <3>2, <4>1, <4>3, <5>2
      <4> QED BY <4>2, <4>3
    <3> QED BY <3>1, <3>2
  <2> QED BY <2>2, <2>10, <2>11, <2>12
<1>4. CASE UNCHANGED sessionVars
  <2>1. PICK s \in Sessions : Informed(s) /\ Speaks(s) /\ Hears(s)
    BY <1>4 DEF sessionVars, SessionIInv
  <2>2. Informed(s)' /\ Speaks(s)' /\ Hears(s)'
    BY <1>4, <2>1 DEF sessionVars, Informed, Speaks, Hears
  <2> QED BY <2>2
<1> QED BY <1>1, <1>2, <1>3, <1>4 DEF SessionNext

\* Changes that do not cross bring any number of windows to one session.
THEOREM UncrossedSessionsAgreeHolds == SessionSpec => []UncrossedSessionsAgree
<1>1. SessionIInv => UncrossedSessionsAgree
  BY DEF SessionIInv, UncrossedSessionsAgree, SessionsDelivered, Hears
<1> QED BY InitSessionIInv, StepSessionIInv, <1>1, PTL DEF SessionSpec

-----------------------------------------------------------------------------
(* The queues: where an entry is.                                          *)

Queued(c) == {pending[c][i] : i \in 1..Len(pending[c])}
Left(f)   == IF Running(f) THEN Batched(f) ELSE {}

\* The store of e is under way; e waits for its store.
InFlight(e) == e \in direct \/ \E f \in Flushes : Running(f) /\ e = Current(f)
Waits(e)    == \/ \E c \in 1..3 : e \in Queued(c)
               \/ \E f \in Flushes : Running(f) /\ e \in Left(f) /\ e # Current(f)

Distinct(s, k) == \A i, j \in k..Len(s) : s[i] = s[j] => i = j

FlushTypes == [category : 0..3, batch : Seq(Entries), index : Nat]

PlacesType ==
  /\ pending \in [1..3 -> Seq(Entries)]
  /\ flush \in [Flushes -> FlushTypes]
  /\ \A f \in Flushes : Running(f) => flush[f].index \in 1..Len(flush[f].batch)
  /\ direct \subseteq Entries /\ recorded \subseteq Entries
  /\ rows \in [Entries -> Nat]

\* An entry is in one place only, and there once.
OnePlace ==
  /\ \A c \in 1..3 : Distinct(pending[c], 1) /\ Queued(c) \subseteq recorded
  /\ \A f \in Flushes : Running(f) =>
       Distinct(flush[f].batch, flush[f].index) /\ Left(f) \subseteq recorded
  /\ direct \subseteq recorded
  /\ \A c \in 1..3 : Queued(c) \intersect direct = {}
  /\ \A c, d \in 1..3 : c # d => Queued(c) \intersect Queued(d) = {}
  /\ \A f \in Flushes : Left(f) \intersect direct = {}
  /\ \A f \in Flushes, c \in 1..3 : Left(f) \intersect Queued(c) = {}
  /\ \A f, g \in Flushes : f # g => Left(f) \intersect Left(g) = {}

\* How often an entry is stored, by where it is.
Counted(e) ==
  /\ e \notin recorded => rows[e] = 0
  /\ InFlight(e) => rows[e] > 0 \/ e \in dropped
  /\ Waits(e) => rows[e] = 0 \/ e \in retried
  /\ e \in recorded => InFlight(e) \/ Waits(e) \/ rows[e] > 0 \/ e \in dropped
  /\ rows[e] > 1 => e \in retried

QueueIInv == PlacesType /\ OnePlace /\ \A e \in Entries : Counted(e)

LEMMA CategoryType == \A e : CategoryOf(e) \in 1..3
BY DEF CategoryOf

\* What an entry is appended to keeps its entries apart.
LEMMA AppendedEntry ==
  ASSUME NEW s \in Seq(Entries), NEW e \in Entries, Distinct(s, 1),
         \A i \in 1..Len(s) : s[i] # e
  PROVE  LET t == Append(s, e)
         IN  /\ t \in Seq(Entries) /\ Distinct(t, 1)
             /\ {t[i] : i \in 1..Len(t)} = {s[i] : i \in 1..Len(s)} \union {e}
<1> DEFINE t == Append(s, e)
<1>1. /\ t \in Seq(Entries) /\ Len(t) = Len(s) + 1 /\ Len(s) \in Nat
      /\ \A i \in 1..Len(s) : t[i] = s[i]
      /\ t[Len(s) + 1] = e
  BY AppendProperties, LenProperties
<1> HIDE DEF t
<1>2. \A i \in 1..Len(t) : i \in 1..Len(s) \/ i = Len(s) + 1
  BY <1>1
<1>3. 1..Len(s) \subseteq 1..Len(t) /\ Len(s) + 1 \in 1..Len(t)
  BY <1>1
<1>4. Distinct(t, 1)
  <2> SUFFICES ASSUME NEW i \in 1..Len(t), NEW j \in 1..Len(t), t[i] = t[j] PROVE i = j
    BY DEF Distinct
  <2>1. CASE i \in 1..Len(s) /\ j \in 1..Len(s)
    BY <1>1, <2>1 DEF Distinct
  <2> QED BY <1>1, <1>2, <2>1
<1>5. {t[i] : i \in 1..Len(t)} = {s[i] : i \in 1..Len(s)} \union {e}
  <2>1. ASSUME NEW i \in 1..Len(t) PROVE t[i] \in {s[k] : k \in 1..Len(s)} \union {e}
    BY <1>1, <1>2
  <2>2. ASSUME NEW i \in 1..Len(s) PROVE s[i] \in {t[k] : k \in 1..Len(t)}
    <3>1. t[i] = s[i] /\ i \in 1..Len(t)
      BY <1>1, <1>3
    <3> QED BY <3>1
  <2>3. e \in {t[k] : k \in 1..Len(t)}
    BY <1>1, <1>3
  <2> QED BY <2>1, <2>2, <2>3
<1> QED BY <1>1, <1>4, <1>5 DEF t

ItemsFrom(s, k) == {s[i] : i \in k..Len(s)}

\* What is left of a batch, queued again behind what was queued meanwhile.
LEMMA RequeuedBatch ==
  ASSUME NEW s \in Seq(Entries), NEW b \in Seq(Entries), NEW k \in 1..Len(b),
         Distinct(s, 1), Distinct(b, k),
         \A i \in 1..Len(s), j \in k..Len(b) : s[i] # b[j]
  PROVE  LET left == SubSeq(b, k, Len(b))
             t    == s \o left
         IN  /\ t \in Seq(Entries) /\ Distinct(t, 1)
             /\ ItemsFrom(t, 1) = ItemsFrom(s, 1) \union ItemsFrom(b, k)
             /\ ToSet(left) = ItemsFrom(b, k)
<1> DEFINE left == SubSeq(b, k, Len(b))
           t    == s \o left
<1>1. Len(s) \in Nat /\ Len(b) \in Nat /\ k \in Nat \ {0} /\ k <= Len(b)
  BY LenProperties
<1>2. /\ left \in Seq(Entries) /\ Len(left) = Len(b) - k + 1
      /\ \A i \in 1..Len(left) : left[i] = b[k + i - 1]
  <2>1. \A i \in k..Len(b) : b[i] \in Entries
    BY <1>1, ElementOfSeq
  <2> HIDE DEF left
  <2>2. /\ SubSeq(b, k, Len(b)) \in Seq(Entries)
        /\ Len(SubSeq(b, k, Len(b))) = IF k <= Len(b) THEN Len(b) - k + 1 ELSE 0
        /\ \A i \in 1 .. Len(b) - k + 1 : SubSeq(b, k, Len(b))[i] = b[k + i - 1]
    BY <1>1, <2>1, SubSeqProperties
  <2> QED BY <1>1, <2>2 DEF left
<1> HIDE DEF left
<1>3. /\ t \in Seq(Entries) /\ Len(t) = Len(s) + Len(left)
      /\ \A i \in 1..Len(s) + Len(left) : t[i] = IF i <= Len(s) THEN s[i] ELSE left[i - Len(s)]
  BY <1>2, ConcatProperties
<1> HIDE DEF t
<1>4. \A i \in 1..Len(s) : i \in 1..Len(t) /\ t[i] = s[i]
  <2> TAKE i \in 1..Len(s)
  <2>1. i \in 1..Len(s) + Len(left) /\ i <= Len(s)
    BY <1>1, <1>2
  <2> QED BY <1>3, <2>1
<1>5. \A j \in k..Len(b) : /\ Len(s) + (j - k + 1) \in 1..Len(t)
                           /\ t[Len(s) + (j - k + 1)] = b[j]
  <2> TAKE j \in k..Len(b)
  <2>1. j \in Int /\ j - k + 1 \in 1..Len(left) /\ k + (j - k + 1) - 1 = j
    BY <1>1, <1>2
  <2>2. left[j - k + 1] = b[j]
    BY <1>2, <2>1
  <2>3. Len(s) + (j - k + 1) \in 1..Len(s) + Len(left)
        /\ ~ (Len(s) + (j - k + 1) <= Len(s))
        /\ Len(s) + (j - k + 1) - Len(s) = j - k + 1
    BY <1>1, <1>2, <2>1
  <2> QED BY <1>3, <2>2, <2>3
<1>6. \A i \in 1..Len(t) : \/ i \in 1..Len(s)
                           \/ \E j \in k..Len(b) : i = Len(s) + (j - k + 1)
  <2> TAKE i \in 1..Len(t)
  <2>1. i \notin 1..Len(s) => i - Len(s) + k - 1 \in k..Len(b)
                              /\ i = Len(s) + ((i - Len(s) + k - 1) - k + 1)
    BY <1>1, <1>2, <1>3
  <2> QED BY <2>1
<1>7. Distinct(t, 1)
  <2> SUFFICES ASSUME NEW i \in 1..Len(t), NEW j \in 1..Len(t), t[i] = t[j] PROVE i = j
    BY DEF Distinct
  <2>1. CASE i \in 1..Len(s) /\ j \in 1..Len(s)
    BY <1>4, <2>1 DEF Distinct
  <2>2. CASE i \notin 1..Len(s) /\ j \notin 1..Len(s)
    <3>1. PICK x \in k..Len(b), y \in k..Len(b) : i = Len(s) + (x - k + 1) /\ j = Len(s) + (y - k + 1)
      BY <1>6, <2>2
    <3>2. b[x] = b[y]
      BY <1>5, <3>1
    <3> QED BY <3>1, <3>2 DEF Distinct
  <2>3. CASE i \in 1..Len(s) /\ j \notin 1..Len(s)
    BY <1>4, <1>5, <1>6, <2>3
  <2>4. CASE i \notin 1..Len(s) /\ j \in 1..Len(s)
    <3>1. PICK x \in k..Len(b) : i = Len(s) + (x - k + 1)
      BY <1>6, <2>4
    <3>2. t[i] = b[x] /\ t[j] = s[j]
      BY <1>4, <1>5, <2>4, <3>1
    <3> QED BY <2>4, <3>2
  <2> QED BY <2>1, <2>2, <2>3, <2>4
<1>8. {t[i] : i \in 1..Len(t)} = {s[i] : i \in 1..Len(s)} \union {b[j] : j \in k..Len(b)}
  <2>1. ASSUME NEW i \in 1..Len(t)
        PROVE  t[i] \in {s[x] : x \in 1..Len(s)} \union {b[j] : j \in k..Len(b)}
    <3>1. CASE i \in 1..Len(s)
      BY <1>4, <3>1
    <3>2. CASE i \notin 1..Len(s)
      <4>1. PICK x \in k..Len(b) : i = Len(s) + (x - k + 1)
        BY <1>6, <3>2
      <4>2. t[i] = b[x]
        BY <1>5, <4>1
      <4> QED BY <4>2
    <3> QED BY <3>1, <3>2
  <2>2. ASSUME NEW x \in 1..Len(s) PROVE s[x] \in {t[i] : i \in 1..Len(t)}
    <3>1. x \in 1..Len(t) /\ t[x] = s[x]
      BY <1>4
    <3> QED BY <3>1
  <2>3. ASSUME NEW j \in k..Len(b) PROVE b[j] \in {t[i] : i \in 1..Len(t)}
    <3>1. Len(s) + (j - k + 1) \in 1..Len(t) /\ t[Len(s) + (j - k + 1)] = b[j]
      BY <1>5
    <3> QED BY <3>1
  <2> QED BY <2>1, <2>2, <2>3
<1>9. ToSet(left) = {b[j] : j \in k..Len(b)}
  <2>1. DOMAIN left = 1..Len(left)
    BY <1>2, LenProperties
  <2>2. ASSUME NEW i \in 1..Len(left) PROVE left[i] \in {b[j] : j \in k..Len(b)}
    <3>1. k + i - 1 \in k..Len(b)
      BY <1>1, <1>2
    <3> QED BY <1>2, <3>1
  <2>3. ASSUME NEW j \in k..Len(b) PROVE b[j] \in {left[i] : i \in 1..Len(left)}
    <3>1. j - k + 1 \in 1..Len(left) /\ k + (j - k + 1) - 1 = j
      BY <1>1, <1>2
    <3>2. left[j - k + 1] = b[j]
      BY <1>2, <3>1
    <3> QED BY <3>1, <3>2
  <2> QED BY <2>1, <2>2, <2>3 DEF ToSet
<1>10. ItemsFrom(t, 1) = ItemsFrom(s, 1) \union ItemsFrom(b, k) /\ ToSet(left) = ItemsFrom(b, k)
  BY <1>8, <1>9 DEF ItemsFrom
<1> QED BY <1>3, <1>7, <1>10 DEF t, left

LEMMA StoreSent ==
  ASSUME rows \in [Entries -> Nat], NEW e \in Entries, NEW served \in BOOLEAN,
         SendsStore(e, served), rows[e] = 0 \/ e \in retried
  PROVE  /\ rows' \in [Entries -> Nat]
         /\ \A x \in Entries : x # e => rows'[x] = rows[x] /\ (x \in dropped' <=> x \in dropped)
         /\ rows'[e] > 0 \/ e \in dropped'
         /\ rows'[e] > 1 => e \in retried
<1>1. CASE served
  <2>1. rows' = [rows EXCEPT ![e] = rows[e] + 1] /\ dropped' = dropped \ {e}
    BY <1>1 DEF SendsStore
  <2>2. rows[e] \in Nat /\ rows[e] + 1 \in Nat /\ rows[e] + 1 > 0
    OBVIOUS
  <2>3. rows'[e] = rows[e] + 1 /\ \A x \in Entries : x # e => rows'[x] = rows[x]
    BY <2>1
  <2>4. rows' \in [Entries -> Nat]
    BY <2>1, <2>2
  <2>5. rows[e] = 0 => ~ (rows'[e] > 1)
    BY <2>3
  <2> QED BY <2>1, <2>2, <2>3, <2>4, <2>5
<1>2. CASE ~served
  <2>1. rows' = rows /\ dropped' = dropped \union {e}
    BY <1>2 DEF SendsStore
  <2>2. rows[e] = 0 => ~ (rows[e] > 1)
    OBVIOUS
  <2> QED BY <2>1, <2>2
<1> QED BY <1>1, <1>2

\* A flush that does not move keeps its entries.
LEMMA FlushStays ==
  ASSUME NEW g, flush'[g] = flush[g]
  PROVE  /\ Running(g)' <=> Running(g)
         /\ Current(g)' = Current(g)
         /\ Left(g)' = Left(g)
BY DEF Running, Current, Left, Batched

LEMMA CurrentIsLeft ==
  ASSUME PlacesType, NEW f \in Flushes, Running(f)
  PROVE  /\ Current(f) \in Left(f) /\ Left(f) \subseteq Entries
         /\ flush[f].batch \in Seq(Entries) /\ flush[f].index \in 1..Len(flush[f].batch)
         /\ Len(flush[f].batch) \in Nat /\ flush[f].category \in 1..3
         /\ Left(f) = {flush[f].batch[i] : i \in flush[f].index..Len(flush[f].batch)}
<1>1. /\ flush[f].batch \in Seq(Entries) /\ flush[f].index \in 1..Len(flush[f].batch)
      /\ flush[f].category \in 1..3
  BY DEF PlacesType, FlushTypes, Running
<1>2. Len(flush[f].batch) \in Nat
  BY <1>1, LenProperties
<1>3. Left(f) = {flush[f].batch[i] : i \in flush[f].index..Len(flush[f].batch)}
  BY DEF Left, Batched
<1>4. flush[f].index \in flush[f].index..Len(flush[f].batch)
  BY <1>1, <1>2
<1>5. \A i \in flush[f].index..Len(flush[f].batch) : flush[f].batch[i] \in Entries
  BY <1>1, <1>2, ElementOfSeq
<1> QED BY <1>1, <1>2, <1>3, <1>4, <1>5 DEF Current

\* What becomes of an entry nobody moves.
LEMMA UnmovedCounts ==
  ASSUME NEW x, Counted(x), InFlight(x)' <=> InFlight(x), Waits(x)' <=> Waits(x),
         rows'[x] = rows[x], x \in recorded' <=> x \in recorded,
         x \in dropped' <=> x \in dropped, x \in retried' <=> x \in retried
  PROVE  Counted(x)'
BY DEF Counted

\* An entry is queued that was in no place.
LEMMA EnqueuedPlaces ==
  ASSUME PlacesType, OnePlace, NEW e \in Entries, pending' = Enqueue(pending, e), flush' = flush,
         e \notin direct', direct' \subseteq direct, recorded' = recorded \union {e}, rows' = rows,
         \A c \in 1..3 : e \notin Queued(c),
         \A f \in Flushes : e \notin Left(f)
  PROVE  /\ PlacesType' /\ OnePlace'
         /\ \A x : Waits(x)' <=> (Waits(x) \/ x = e)
<1> DEFINE k == CategoryOf(e)
<1>1. k \in 1..3
  BY CategoryType
<1>2. pending' = [pending EXCEPT ![k] = Append(pending[k], e)]
  BY DEF Enqueue
<1> HIDE DEF k
<1>3. pending[k] \in Seq(Entries) /\ Distinct(pending[k], 1) /\ \A i \in 1..Len(pending[k]) : pending[k][i] # e
  BY <1>1 DEF PlacesType, OnePlace, Queued
<1>4. /\ pending'[k] = Append(pending[k], e)
      /\ \A c \in 1..3 : c # k => pending'[c] = pending[c]
  BY <1>1, <1>2 DEF PlacesType
<1>5. /\ pending'[k] \in Seq(Entries) /\ Distinct(pending'[k], 1)
      /\ {pending'[k][i] : i \in 1..Len(pending'[k])} = {pending[k][i] : i \in 1..Len(pending[k])} \union {e}
  BY <1>3, <1>4, AppendedEntry
<1>6. /\ Queued(k)' = Queued(k) \union {e}
      /\ \A c \in 1..3 : c # k => Queued(c)' = Queued(c)
  BY <1>4, <1>5 DEF Queued
<1>7. \A f \in Flushes : Left(f)' = Left(f) /\ (Running(f)' <=> Running(f)) /\ Current(f)' = Current(f)
  BY FlushStays
<1>8. PlacesType'
  <2>1. pending' \in [1..3 -> Seq(Entries)]
    BY <1>2, <1>5, <1>4 DEF PlacesType
  <2>2. \A f \in Flushes : Running(f)' => flush'[f].index \in 1..Len(flush'[f].batch)
    BY <1>7 DEF PlacesType
  <2> QED BY <2>1, <2>2 DEF PlacesType
<1>9. OnePlace'
  <2>1. \A c \in 1..3 : Distinct(pending'[c], 1)
    BY <1>4, <1>5 DEF OnePlace
  <2>2. \A c \in 1..3 : Queued(c)' \subseteq recorded' /\ Queued(c)' \intersect direct' = {}
    BY <1>6 DEF OnePlace
  <2>3. \A c, d \in 1..3 : c # d => Queued(c)' \intersect Queued(d)' = {}
    <3> TAKE c, d \in 1..3
    <3>1. Queued(c)' \subseteq Queued(c) \union {e} /\ Queued(d)' \subseteq Queued(d) \union {e}
          /\ (e \in Queued(c)' => c = k) /\ (e \in Queued(d)' => d = k)
      BY <1>6
    <3> QED BY <3>1 DEF OnePlace
  <2>4. \A f \in Flushes, c \in 1..3 : Left(f)' \intersect Queued(c)' = {}
    BY <1>6, <1>7 DEF OnePlace
  <2>5. \A f \in Flushes : /\ Running(f)' => Distinct(flush'[f].batch, flush'[f].index) /\ Left(f)' \subseteq recorded'
                           /\ Left(f)' \intersect direct' = {}
    BY <1>7 DEF OnePlace
  <2>6. \A f, g \in Flushes : f # g => Left(f)' \intersect Left(g)' = {}
    BY <1>7 DEF OnePlace
  <2>7. direct' \subseteq recorded'
    BY DEF OnePlace
  <2> QED BY <2>1, <2>2, <2>3, <2>4, <2>5, <2>6, <2>7 DEF OnePlace
<1>10. ASSUME NEW x PROVE Waits(x)' <=> (Waits(x) \/ x = e)
  <2>1. (\E c \in 1..3 : x \in Queued(c)') <=> ((\E c \in 1..3 : x \in Queued(c)) \/ x = e)
    BY <1>1, <1>6
  <2>2. (\E f \in Flushes : Running(f)' /\ x \in Left(f)' /\ x # Current(f)')
        <=> (\E f \in Flushes : Running(f) /\ x \in Left(f) /\ x # Current(f))
    BY <1>7
  <2> QED BY <2>1, <2>2 DEF Waits
<1> QED BY <1>8, <1>9, <1>10

LEMMA RecordStays ==
  ASSUME QueueIInv, NEW e \in Entries, Record(e)
  PROVE  QueueIInv'
<1>0. PlacesType /\ OnePlace /\ (\A x \in Entries : Counted(x)) /\ e \notin recorded
      /\ recorded' = recorded \union {e} /\ flush' = flush /\ retried' = retried
  BY DEF QueueIInv, Record
<1>1. /\ \A c \in 1..3 : e \notin Queued(c)
      /\ \A f \in Flushes : e \notin Left(f)
      /\ e \notin direct
  BY <1>0 DEF OnePlace, Left
<1>2. \A f \in Flushes : Running(f) => e # Current(f)
  BY <1>0, <1>1, CurrentIsLeft
<1>3. ~InFlight(e) /\ ~Waits(e) /\ rows[e] = 0
  BY <1>0, <1>1, <1>2 DEF InFlight, Waits, Counted
<1>4. CASE pending' = Enqueue(pending, e) /\ UNCHANGED <<direct, rows, dropped>>
  <2>1. PlacesType' /\ OnePlace' /\ \A x : Waits(x)' <=> (Waits(x) \/ x = e)
    BY <1>0, <1>1, <1>4, EnqueuedPlaces
  <2>2. \A f \in Flushes : (Running(f)' <=> Running(f)) /\ Current(f)' = Current(f)
    BY <1>0, FlushStays
  <2>3. \A x : InFlight(x)' <=> InFlight(x)
    BY <1>4, <2>2 DEF InFlight
  <2>4. ASSUME NEW x \in Entries PROVE Counted(x)'
    <3>1. CASE x = e
      BY <1>0, <1>3, <1>4, <2>1, <2>3, <3>1 DEF Counted
    <3>2. CASE x # e
      BY <1>0, <1>4, <2>1, <2>3, <3>2, UnmovedCounts
    <3> QED BY <3>1, <3>2
  <2> QED BY <2>1, <2>4 DEF QueueIInv
<1>5. CASE direct' = direct \union {e} /\ (\E served \in BOOLEAN : SendsStore(e, served)) /\ UNCHANGED pending
  <2>1. /\ rows' \in [Entries -> Nat]
        /\ \A x \in Entries : x # e => rows'[x] = rows[x] /\ (x \in dropped' <=> x \in dropped)
        /\ rows'[e] > 0 \/ e \in dropped'
        /\ rows'[e] > 1 => e \in retried
    BY <1>0, <1>3, <1>5, StoreSent DEF PlacesType
  <2>2. \A f \in Flushes : (Running(f)' <=> Running(f)) /\ Current(f)' = Current(f) /\ Left(f)' = Left(f)
    BY <1>0, FlushStays
  <2>3. \A c \in 1..3 : Queued(c)' = Queued(c)
    BY <1>5 DEF Queued
  <2>4. PlacesType'
    BY <1>0, <1>5, <2>1, <2>2 DEF PlacesType
  <2>5. OnePlace'
    BY <1>0, <1>1, <1>5, <2>2, <2>3 DEF OnePlace
  <2>6. \A x : (InFlight(x)' <=> (InFlight(x) \/ x = e)) /\ (Waits(x)' <=> Waits(x))
    BY <1>5, <2>2, <2>3 DEF InFlight, Waits
  <2>7. ASSUME NEW x \in Entries PROVE Counted(x)'
    <3>1. CASE x = e
      BY <1>0, <1>3, <2>1, <2>6, <3>1 DEF Counted
    <3>2. CASE x # e
      BY <1>0, <2>1, <2>6, <3>2, UnmovedCounts
    <3> QED BY <3>1, <3>2
  <2> QED BY <2>4, <2>5, <2>7 DEF QueueIInv
<1> QED BY <1>4, <1>5 DEF Record

LEMMA DirectStays ==
  ASSUME QueueIInv, NEW e \in Entries, DirectSettles(e)
  PROVE  QueueIInv'
<1>0. PlacesType /\ OnePlace /\ (\A x \in Entries : Counted(x)) /\ e \in direct
      /\ direct' = direct \ {e} /\ UNCHANGED <<flush, recorded, rows>>
  BY DEF QueueIInv, DirectSettles
<1>1. /\ \A c \in 1..3 : e \notin Queued(c)
      /\ \A f \in Flushes : e \notin Left(f)
      /\ e \in recorded
  BY <1>0 DEF OnePlace
<1>2. \A f \in Flushes : Running(f) => e # Current(f)
  BY <1>0, <1>1, CurrentIsLeft
<1>3. InFlight(e) /\ ~Waits(e)
  BY <1>0, <1>1, <1>2 DEF InFlight, Waits
<1>4. \A f \in Flushes : (Running(f)' <=> Running(f)) /\ Current(f)' = Current(f) /\ Left(f)' = Left(f)
  BY <1>0, FlushStays
<1>5. \A x : InFlight(x)' <=> (InFlight(x) /\ x # e)
  BY <1>0, <1>2, <1>4 DEF InFlight
<1>6. CASE UNCHANGED <<pending, dropped, retried>>
  <2>1. \A c \in 1..3 : Queued(c)' = Queued(c)
    BY <1>6 DEF Queued
  <2>2. PlacesType'
    BY <1>0, <1>4, <1>6 DEF PlacesType
  <2>3. OnePlace'
    BY <1>0, <1>4, <1>6, <2>1 DEF OnePlace
  <2>4. \A x : Waits(x)' <=> Waits(x)
    BY <1>4, <2>1 DEF Waits
  <2>5. ASSUME NEW x \in Entries PROVE Counted(x)'
    <3>1. CASE x = e
      BY <1>0, <1>3, <1>5, <1>6, <2>4, <3>1 DEF Counted
    <3>2. CASE x # e
      BY <1>0, <1>5, <1>6, <2>4, <3>2, UnmovedCounts
    <3> QED BY <3>1, <3>2
  <2> QED BY <2>2, <2>3, <2>5 DEF QueueIInv
<1>7. CASE pending' = Enqueue(pending, e) /\ Again(<<e>>)
  <2>1. recorded' = recorded \union {e} /\ e \notin direct' /\ direct' \subseteq direct
    BY <1>0, <1>1
  <2>2. PlacesType' /\ OnePlace' /\ \A x : Waits(x)' <=> (Waits(x) \/ x = e)
    BY <1>0, <1>1, <1>7, <2>1, EnqueuedPlaces
  <2>3. ToSet(<<e>>) = {e}
    BY DEF ToSet
  <2>4. dropped' = dropped \ {e} /\ retried' = retried \union {d \in {e} : rows[d] > 0}
    BY <1>7, <2>3 DEF Again
  <2>5. ASSUME NEW x \in Entries PROVE Counted(x)'
    <3>1. CASE x = e
      <4>1. rows[e] \in Nat
        BY <1>0 DEF PlacesType
      <4>2. rows[e] > 0 => e \in retried'
        BY <2>4
      <4>3. rows[e] = 0 \/ rows[e] > 0
        BY <4>1
      <4>4. rows[e] > 1 => rows[e] > 0
        BY <4>1
      <4> QED BY <1>0, <1>1, <1>5, <2>2, <3>1, <4>2, <4>3, <4>4 DEF Counted
    <3>2. CASE x # e
      <4>1. (x \in dropped' <=> x \in dropped) /\ (x \in retried' <=> x \in retried)
        BY <2>4, <3>2
      <4> QED BY <1>0, <1>5, <2>2, <3>2, <4>1, UnmovedCounts
    <3> QED BY <3>1, <3>2
  <2> QED BY <2>2, <2>5 DEF QueueIInv
<1> QED BY <1>6, <1>7 DEF DirectSettles

LEMMA NextCategoryType ==
  ASSUME PlacesType, NEW c \in 1..4, NextCategory(c) # 0
  PROVE  NextCategory(c) \in 1..3 /\ NextCategory(c) >= c /\ pending[NextCategory(c)] # <<>>
<1> DEFINE waiting == {d \in c..3 : pending[d] # <<>>}
<1>1. waiting # {} /\ NextCategory(c) = CHOOSE d \in waiting : \A x \in waiting : d <= x
  BY DEF NextCategory
<1>2. waiting \subseteq 1..3 /\ \A d \in waiting : d >= c /\ pending[d] # <<>>
  OBVIOUS
<1> HIDE DEF waiting
<1>3. \E d \in waiting : \A x \in waiting : d <= x
  <2>1. CASE 1 \in waiting
    BY <1>2, <2>1
  <2>2. CASE 1 \notin waiting /\ 2 \in waiting
    BY <1>2, <2>2
  <2>3. CASE 1 \notin waiting /\ 2 \notin waiting
    <3>1. \A x \in waiting : x = 3
      BY <1>2, <2>3
    <3>2. 3 \in waiting /\ 3 <= 3
      BY <1>1, <3>1
    <3> QED BY <3>1, <3>2
  <2> QED BY <2>1, <2>2, <2>3
<1>4. NextCategory(c) \in waiting
  BY <1>1, <1>3
<1> QED BY <1>2, <1>4

\* A flush takes over a queue and sends its first entry; if it was running,
\* its last entry is done.
LEMMA DrainStays ==
  ASSUME QueueIInv, NEW f \in Flushes, NEW c \in 1..3, pending[c] # <<>>, DrainsCategory(f, c),
         UNCHANGED <<direct, recorded, retried>>,
         Running(f) => Left(f) \subseteq {Current(f)}
  PROVE  QueueIInv'
<1>16. pending[c] \in Seq(Entries) /\ Len(pending[c]) \in Nat \ {0}
       /\ Head(pending[c]) = pending[c][1] /\ Head(pending[c]) \in Entries
  BY EmptySeq, HeadTailProperties DEF PlacesType, QueueIInv
<1>17. PICK h \in Entries : h = Head(pending[c])
  BY <1>16
<1>0. /\ PlacesType /\ OnePlace /\ \A x \in Entries : Counted(x)
      /\ flush' = [flush EXCEPT ![f] = [category |-> c, batch |-> pending[c], index |-> 1]]
      /\ pending' = [pending EXCEPT ![c] = <<>>]
      /\ \E served \in BOOLEAN : SendsStore(h, served)
  BY <1>17 DEF QueueIInv, DrainsCategory
<1>1. /\ pending[c] \in Seq(Entries) /\ Len(pending[c]) \in Nat \ {0} /\ h = pending[c][1]
      /\ h \in Entries
  BY <1>16, <1>17
<1>2. /\ flush'[f] = [category |-> c, batch |-> pending[c], index |-> 1]
      /\ \A g \in Flushes : g # f => flush'[g] = flush[g]
      /\ pending'[c] = <<>>
      /\ \A d \in 1..3 : d # c => pending'[d] = pending[d]
  BY <1>0 DEF PlacesType
<1>3. /\ Running(f)' /\ Current(f)' = h /\ Left(f)' = Queued(c) /\ h \in Queued(c)
      /\ flush'[f].batch = pending[c] /\ flush'[f].index = 1
  <2>1. flush'[f].category = c /\ flush'[f].batch = pending[c] /\ flush'[f].index = 1
    BY <1>2
  <2>2. c # 0
    OBVIOUS
  <2>3. Running(f)' /\ Current(f)' = h /\ Left(f)' = Queued(c)
    BY <1>1, <2>1, <2>2 DEF Running, Current, Left, Batched, Queued
  <2>4. 1 \in 1..Len(pending[c])
    BY <1>1
  <2> QED BY <1>1, <2>1, <2>3, <2>4 DEF Queued
<1>4. /\ Queued(c)' = {}
      /\ \A d \in 1..3 : d # c => Queued(d)' = Queued(d)
  <2>1. Len(pending'[c]) = 0 /\ 1..0 = {}
    BY <1>2
  <2> QED BY <1>2, <2>1 DEF Queued
<1>5. \A g \in Flushes : g # f => (Running(g)' <=> Running(g)) /\ Current(g)' = Current(g)
                                  /\ Left(g)' = Left(g)
  BY <1>2, FlushStays
<1>6. rows[h] = 0 \/ h \in retried
  <2>1. Waits(h)
    BY <1>3 DEF Waits
  <2> QED BY <1>0, <1>1, <2>1 DEF Counted
<1>7. /\ rows' \in [Entries -> Nat]
      /\ \A x \in Entries : x # h => rows'[x] = rows[x] /\ (x \in dropped' <=> x \in dropped)
      /\ rows'[h] > 0 \/ h \in dropped'
      /\ rows'[h] > 1 => h \in retried
  BY <1>0, <1>1, <1>6, StoreSent DEF PlacesType
<1>8. PlacesType'
  <2>1. pending' \in [1..3 -> Seq(Entries)]
    BY <1>0, EmptySeq DEF PlacesType
  <2>2. flush' \in [Flushes -> FlushTypes]
    BY <1>0, <1>1 DEF PlacesType, FlushTypes
  <2>3. \A g \in Flushes : Running(g)' => flush'[g].index \in 1..Len(flush'[g].batch)
    <3> TAKE g \in Flushes
    <3>1. CASE g = f
      BY <1>1, <1>3, <3>1
    <3>2. CASE g # f
      BY <1>0, <1>2, <1>5, <3>2 DEF PlacesType
    <3> QED BY <3>1, <3>2
  <2> QED BY <1>0, <1>7, <2>1, <2>2, <2>3 DEF PlacesType
<1>9. OnePlace'
  <2>1. \A d \in 1..3 : /\ Distinct(pending'[d], 1)
                        /\ Queued(d)' \subseteq recorded' /\ Queued(d)' \intersect direct' = {}
    <3>1. Distinct(pending'[c], 1)
      BY <1>2 DEF Distinct
    <3> QED BY <1>0, <1>2, <1>4, <3>1 DEF OnePlace
  <2>2. \A d, e \in 1..3 : d # e => Queued(d)' \intersect Queued(e)' = {}
    BY <1>0, <1>4 DEF OnePlace
  <2>3. \A g \in Flushes : Running(g)' =>
          Distinct(flush'[g].batch, flush'[g].index) /\ Left(g)' \subseteq recorded'
    BY <1>0, <1>2, <1>3, <1>5 DEF OnePlace
  <2>4. \A g \in Flushes : Left(g)' \intersect direct' = {}
    BY <1>0, <1>3, <1>5 DEF OnePlace
  <2>5. \A g \in Flushes, d \in 1..3 : Left(g)' \intersect Queued(d)' = {}
    BY <1>0, <1>3, <1>4, <1>5 DEF OnePlace
  <2>6. \A g, k \in Flushes : g # k => Left(g)' \intersect Left(k)' = {}
    <3> SUFFICES ASSUME NEW g \in Flushes, NEW k \in Flushes, g # k
                 PROVE  Left(g)' \intersect Left(k)' = {}
      OBVIOUS
    <3>1. CASE g = f
      BY <1>0, <1>3, <1>5, <3>1 DEF OnePlace
    <3>2. CASE k = f
      BY <1>0, <1>3, <1>5, <3>2 DEF OnePlace
    <3>3. CASE g # f /\ k # f
      BY <1>0, <1>5, <3>3 DEF OnePlace
    <3> QED BY <3>1, <3>2, <3>3
  <2>7. direct' \subseteq recorded'
    BY <1>0 DEF OnePlace
  <2> QED BY <2>1, <2>2, <2>3, <2>4, <2>5, <2>6, <2>7 DEF OnePlace
<1>10. \A g \in Flushes : Running(g) => Current(g) # h /\ h \notin Left(g)
  BY <1>0, <1>3, CurrentIsLeft DEF OnePlace
<1>11. ~InFlight(h) /\ InFlight(h)'
  <2>1. h \notin direct
    BY <1>0, <1>3 DEF OnePlace
  <2>2. ~InFlight(h)
    BY <1>10, <2>1 DEF InFlight
  <2>3. InFlight(h)'
    BY <1>3 DEF InFlight
  <2> QED BY <2>2, <2>3
<1>12. \A x \in Entries : x # h =>
         /\ InFlight(x)' => InFlight(x)
         /\ InFlight(x) => InFlight(x)' \/ (Running(f) /\ x = Current(f))
  BY <1>3, <1>5 DEF InFlight
<1>13. \A x \in Entries : x # h => (Waits(x)' <=> Waits(x))
  <2> SUFFICES ASSUME NEW x \in Entries, x # h PROVE Waits(x)' <=> Waits(x)
    OBVIOUS
  <2>1. ASSUME Waits(x)' PROVE Waits(x)
    <3>1. CASE \E d \in 1..3 : x \in Queued(d)'
      BY <1>4, <3>1 DEF Waits
    <3>2. ASSUME NEW g \in Flushes, Running(g)', x \in Left(g)', x # Current(g)' PROVE Waits(x)
      <4>1. CASE g = f
        BY <1>3, <3>2, <4>1 DEF Waits
      <4>2. CASE g # f
        BY <1>5, <3>2, <4>2 DEF Waits
      <4> QED BY <4>1, <4>2
    <3> QED BY <2>1, <3>1, <3>2 DEF Waits
  <2>2. ASSUME Waits(x) PROVE Waits(x)'
    <3>1. ASSUME NEW d \in 1..3, x \in Queued(d) PROVE Waits(x)'
      <4>1. CASE d = c
        BY <1>3, <3>1, <4>1 DEF Waits
      <4>2. CASE d # c
        BY <1>4, <3>1, <4>2 DEF Waits
      <4> QED BY <4>1, <4>2
    <3>2. ASSUME NEW g \in Flushes, Running(g), x \in Left(g), x # Current(g) PROVE Waits(x)'
      <4>1. g # f
        BY <3>2
      <4> QED BY <1>5, <3>2, <4>1 DEF Waits
    <3> QED BY <2>2, <3>1, <3>2 DEF Waits
  <2> QED BY <2>1, <2>2
<1>14. ~Waits(h)'
  <2>1. \A d \in 1..3 : h \notin Queued(d)'
    BY <1>0, <1>3, <1>4 DEF OnePlace
  <2>2. \A g \in Flushes : Running(g)' => ~ (h \in Left(g)' /\ h # Current(g)')
    BY <1>0, <1>3, <1>5 DEF OnePlace
  <2> QED BY <2>1, <2>2 DEF Waits
<1>15. ASSUME NEW x \in Entries PROVE Counted(x)'
  <2>1. CASE x = h
    <3>1. h \in recorded
      BY <1>0, <1>3 DEF OnePlace
    <3> QED BY <1>7, <1>11, <1>14, <2>1, <3>1 DEF Counted
  <2>2. CASE x # h
    <3>1. /\ rows'[x] = rows[x] /\ (x \in dropped' <=> x \in dropped)
          /\ (Waits(x)' <=> Waits(x)) /\ (InFlight(x)' => InFlight(x))
          /\ recorded' = recorded /\ retried' = retried /\ Counted(x)
      BY <1>0, <1>7, <1>12, <1>13, <2>2
    <3> QED BY <3>1 DEF Counted
  <2> QED BY <2>1, <2>2
<1> QED BY <1>8, <1>9, <1>15 DEF QueueIInv

\* The flush sends the next entry of its batch.
LEMMA AdvanceStays ==
  ASSUME QueueIInv, NEW f \in Flushes, Running(f), Left(f) \ {Current(f)} # {},
         flush' = [flush EXCEPT ![f].index = @ + 1],
         \E served \in BOOLEAN : SendsStore(flush[f].batch[flush[f].index + 1], served),
         UNCHANGED <<pending, direct, recorded, retried>>
  PROVE  QueueIInv'
<1>0. PlacesType /\ OnePlace /\ (\A x \in Entries : Counted(x)) /\ flush[f] \in FlushTypes
  BY DEF QueueIInv, PlacesType
<1>1. PICK b \in Seq(Entries), k \in Nat : b = flush[f].batch /\ k = flush[f].index
  BY <1>0 DEF FlushTypes
<1>2. /\ k \in 1..Len(b) /\ Len(b) \in Nat
      /\ Left(f) = {b[i] : i \in k..Len(b)} /\ Left(f) \subseteq Entries
      /\ Current(f) = b[k] /\ Current(f) \in Left(f)
      /\ Distinct(b, k)
  BY <1>0, <1>1, CurrentIsLeft DEF Current, OnePlace
<1>3. k + 1 \in 1..Len(b) /\ k + 1 \in k..Len(b)
  <2>1. k # Len(b)
    BY <1>2
  <2> QED BY <1>2, <2>1
<1>4. PICK cur \in Entries, nxt \in Entries : cur = b[k] /\ nxt = b[k + 1]
  BY <1>2, <1>3
<1>5. /\ flush'[f].index = k + 1 /\ flush'[f].batch = b /\ flush'[f].category = flush[f].category
      /\ flush' \in [Flushes -> FlushTypes]
      /\ \A g \in Flushes : g # f => flush'[g] = flush[g]
  <2> DEFINE rec == [flush[f] EXCEPT !.index = flush[f].index + 1]
  <2>1. k + 1 \in Nat
    BY <1>1
  <2>2. rec.index = k + 1 /\ rec.batch = b /\ rec.category = flush[f].category /\ rec \in FlushTypes
    BY <1>0, <1>1, <2>1 DEF FlushTypes
  <2>3. flush' = [flush EXCEPT ![f] = rec]
    OBVIOUS
  <2> HIDE DEF rec
  <2> QED BY <1>0, <2>2, <2>3 DEF PlacesType
<1>6. Running(f)' /\ Current(f)' = nxt /\ Left(f)' = {b[i] : i \in k + 1..Len(b)}
  BY <1>4, <1>5 DEF Running, Current, Left, Batched
<1>7. Left(f)' = Left(f) \ {cur} /\ nxt \in Left(f) /\ nxt # cur /\ cur = Current(f)
  <2>1. \A i \in k..Len(b) : i = k \/ i \in k + 1..Len(b)
    BY <1>2
  <2>2. \A i \in k + 1..Len(b) : i \in k..Len(b) /\ i # k
    BY <1>2
  <2>3. \A i \in k + 1..Len(b) : b[i] # b[k]
    <3>1. k \in k..Len(b)
      BY <1>2
    <3> QED BY <1>2, <2>2, <3>1 DEF Distinct
  <2>4. k + 1 \in k + 1..Len(b)
    BY <1>3
  <2>5. {b[i] : i \in k + 1..Len(b)} = {b[i] : i \in k..Len(b)} \ {b[k]}
    BY <2>1, <2>2, <2>3
  <2> QED BY <1>2, <1>3, <1>4, <1>6, <2>3, <2>4, <2>5
<1>8. Distinct(b, k + 1)
  <2>1. \A i \in k + 1..Len(b) : i \in k..Len(b)
    BY <1>2
  <2> QED BY <1>2, <2>1 DEF Distinct
<1>9. \A g \in Flushes : g # f => (Running(g)' <=> Running(g)) /\ Current(g)' = Current(g)
                                  /\ Left(g)' = Left(g)
  BY <1>5, FlushStays
<1>10. \A c \in 1..3 : Queued(c)' = Queued(c)
  BY DEF Queued
<1>11. Waits(nxt) /\ nxt \in recorded /\ nxt \notin direct /\ (\A c \in 1..3 : nxt \notin Queued(c))
       /\ \A g \in Flushes : g # f => nxt \notin Left(g)
  BY <1>0, <1>7 DEF Waits, OnePlace
<1>12. /\ rows' \in [Entries -> Nat]
       /\ \A x \in Entries : x # nxt => rows'[x] = rows[x] /\ (x \in dropped' <=> x \in dropped)
       /\ rows'[nxt] > 0 \/ nxt \in dropped'
       /\ rows'[nxt] > 1 => nxt \in retried
  <2>1. rows[nxt] = 0 \/ nxt \in retried
    BY <1>0, <1>11 DEF Counted
  <2>2. flush[f].batch[flush[f].index + 1] = nxt
    BY <1>1, <1>4
  <2> QED BY <1>0, <2>1, <2>2, StoreSent DEF PlacesType
<1>13. PlacesType'
  <2>1. \A g \in Flushes : Running(g)' => flush'[g].index \in 1..Len(flush'[g].batch)
    BY <1>0, <1>3, <1>5, <1>9 DEF PlacesType
  <2> QED BY <1>0, <1>5, <1>12, <2>1 DEF PlacesType
<1>14. OnePlace'
  <2>1. Left(f)' \subseteq Left(f)
    BY <1>7
  <2>2. \A g \in Flushes : Left(g)' \subseteq Left(g)
    BY <1>9, <2>1
  <2>3. \A g \in Flushes : Running(g)' =>
          Distinct(flush'[g].batch, flush'[g].index) /\ Left(g)' \subseteq recorded'
    <3> TAKE g \in Flushes
    <3>1. CASE g = f
      BY <1>0, <1>5, <1>8, <2>1, <3>1 DEF OnePlace
    <3>2. CASE g # f
      BY <1>0, <1>5, <1>9, <3>2 DEF OnePlace
    <3> QED BY <3>1, <3>2
  <2>4. \A c \in 1..3 : Distinct(pending'[c], 1)
    BY <1>0 DEF OnePlace
  <2>5. \A g, i \in Flushes : g # i => Left(g)' \intersect Left(i)' = {}
    <3> TAKE g, i \in Flushes
    <3>1. Left(g)' \subseteq Left(g) /\ Left(i)' \subseteq Left(i)
      BY <2>2
    <3> QED BY <1>0, <3>1 DEF OnePlace
  <2>6. \A g \in Flushes : /\ Left(g)' \intersect direct' = {}
                           /\ \A c \in 1..3 : Left(g)' \intersect Queued(c)' = {}
    <3> TAKE g \in Flushes
    <3>1. Left(g)' \subseteq Left(g)
      BY <2>2
    <3> QED BY <1>0, <1>10, <3>1 DEF OnePlace
  <2> QED BY <1>0, <1>10, <2>3, <2>4, <2>5, <2>6 DEF OnePlace
<1>15. InFlight(nxt)' /\ ~Waits(nxt)'
  <2>1. InFlight(nxt)'
    BY <1>6 DEF InFlight
  <2>2. \A c \in 1..3 : nxt \notin Queued(c)'
    BY <1>10, <1>11
  <2>3. \A g \in Flushes : Running(g)' => ~ (nxt \in Left(g)' /\ nxt # Current(g)')
    BY <1>6, <1>9, <1>11
  <2> QED BY <2>1, <2>2, <2>3 DEF Waits
<1>16. ASSUME NEW x \in Entries, x # nxt
       PROVE  /\ InFlight(x)' => InFlight(x)
              /\ InFlight(x) => InFlight(x)' \/ x = cur
              /\ Waits(x)' <=> Waits(x)
  <2>1. InFlight(x)' => InFlight(x)
    BY <1>6, <1>9, <1>16 DEF InFlight
  <2>2. InFlight(x) => InFlight(x)' \/ x = cur
    BY <1>7, <1>9 DEF InFlight
  <2>3. Waits(x)' => Waits(x)
    <3>1. CASE \E c \in 1..3 : x \in Queued(c)'
      BY <1>10, <3>1 DEF Waits
    <3>2. ASSUME NEW g \in Flushes, Running(g)', x \in Left(g)', x # Current(g)' PROVE Waits(x)
      <4>1. Running(g) /\ x \in Left(g) /\ x # Current(g)
        BY <1>7, <1>9, <3>2
      <4> QED BY <4>1 DEF Waits
    <3> QED BY <3>1, <3>2 DEF Waits
  <2>4. Waits(x) => Waits(x)'
    <3>1. CASE \E c \in 1..3 : x \in Queued(c)
      BY <1>10, <3>1 DEF Waits
    <3>2. ASSUME NEW g \in Flushes, Running(g), x \in Left(g), x # Current(g) PROVE Waits(x)'
      <4>1. Running(g)' /\ x \in Left(g)' /\ x # Current(g)'
        BY <1>6, <1>7, <1>9, <1>16, <3>2
      <4> QED BY <4>1 DEF Waits
    <3> QED BY <3>1, <3>2 DEF Waits
  <2> QED BY <2>1, <2>2, <2>3, <2>4
<1>17. InFlight(cur)
  BY <1>7 DEF InFlight
<1>18. ASSUME NEW x \in Entries PROVE Counted(x)'
  <2>1. CASE x = nxt
    BY <1>11, <1>12, <1>15, <2>1 DEF Counted
  <2>2. CASE x # nxt
    <3>1. /\ rows'[x] = rows[x] /\ (x \in dropped' <=> x \in dropped)
          /\ (Waits(x)' <=> Waits(x)) /\ (InFlight(x)' => InFlight(x))
          /\ recorded' = recorded /\ retried' = retried /\ Counted(x)
      BY <1>0, <1>12, <1>16, <2>2
    <3> QED BY <3>1 DEF Counted
  <2> QED BY <2>1, <2>2
<1> QED BY <1>13, <1>14, <1>18 DEF QueueIInv

\* The flush ends: what it lets go is stored or counts as dropped.
LEMMA EndStays ==
  ASSUME QueueIInv, NEW f \in Flushes, Running(f), flush' = [flush EXCEPT ![f] = NoFlush],
         UNCHANGED <<direct, recorded, retried, rows>>, NEW gone,
         \A c \in 1..3 : (pending'[c] = <<>> /\ Queued(c) \subseteq gone) \/ pending'[c] = pending[c],
         pending' \in [1..3 -> Seq(Entries)],
         Left(f) \subseteq gone \union {Current(f)}, dropped' = dropped \union gone
  PROVE  QueueIInv'
<1>0. PlacesType /\ OnePlace /\ (\A x \in Entries : Counted(x)) /\ NoFlush \in FlushTypes
  BY EmptySeq DEF QueueIInv, NoFlush, FlushTypes
<1>1. /\ flush'[f] = NoFlush /\ flush' \in [Flushes -> FlushTypes]
      /\ \A g \in Flushes : g # f => flush'[g] = flush[g]
  BY <1>0 DEF PlacesType
<1>2. ~Running(f)' /\ Left(f)' = {}
  BY <1>1 DEF Running, Left, NoFlush
<1>3. \A g \in Flushes : g # f => (Running(g)' <=> Running(g)) /\ Current(g)' = Current(g)
                                  /\ Left(g)' = Left(g)
  BY <1>1, FlushStays
<1>4. \A c \in 1..3 : /\ Distinct(pending'[c], 1)
                      /\ Queued(c)' \subseteq Queued(c) /\ Queued(c) \subseteq Queued(c)' \union gone
  <2> TAKE c \in 1..3
  <2>1. CASE pending'[c] = <<>> /\ Queued(c) \subseteq gone
    <3>1. Len(pending'[c]) = 0 /\ 1..0 = {}
      BY <2>1
    <3> QED BY <2>1, <3>1 DEF Queued, Distinct
  <2>2. CASE pending'[c] = pending[c]
    BY <1>0, <2>2 DEF Queued, OnePlace
  <2> QED BY <2>1, <2>2
<1>5. PlacesType'
  <2>1. \A g \in Flushes : Running(g)' => flush'[g].index \in 1..Len(flush'[g].batch)
    BY <1>0, <1>1, <1>2, <1>3 DEF PlacesType
  <2> QED BY <1>0, <1>1, <2>1 DEF PlacesType
<1>6. OnePlace'
  <2>1. \A g \in Flushes : Left(g)' \subseteq Left(g)
    BY <1>2, <1>3
  <2>2. \A g \in Flushes : Running(g)' =>
          Distinct(flush'[g].batch, flush'[g].index) /\ Left(g)' \subseteq recorded'
    BY <1>0, <1>1, <1>2, <1>3 DEF OnePlace
  <2>3. \A c \in 1..3 : Queued(c)' \subseteq recorded' /\ Queued(c)' \intersect direct' = {}
    BY <1>0, <1>4 DEF OnePlace
  <2>4. \A c, d \in 1..3 : c # d => Queued(c)' \intersect Queued(d)' = {}
    <3> TAKE c, d \in 1..3
    <3>1. Queued(c)' \subseteq Queued(c) /\ Queued(d)' \subseteq Queued(d)
      BY <1>4
    <3> QED BY <1>0, <3>1 DEF OnePlace
  <2>5. \A g, i \in Flushes : g # i => Left(g)' \intersect Left(i)' = {}
    <3> TAKE g, i \in Flushes
    <3>1. Left(g)' \subseteq Left(g) /\ Left(i)' \subseteq Left(i)
      BY <2>1
    <3> QED BY <1>0, <3>1 DEF OnePlace
  <2>6. \A g \in Flushes : /\ Left(g)' \intersect direct' = {}
                           /\ \A c \in 1..3 : Left(g)' \intersect Queued(c)' = {}
    <3> TAKE g \in Flushes
    <3>1. Left(g)' \subseteq Left(g)
      BY <2>1
    <3>2. \A c \in 1..3 : Left(g)' \intersect Queued(c)' = {}
      <4> TAKE c \in 1..3
      <4>1. Queued(c)' \subseteq Queued(c)
        BY <1>4
      <4> QED BY <1>0, <3>1, <4>1 DEF OnePlace
    <3> QED BY <1>0, <3>1, <3>2 DEF OnePlace
  <2>7. direct' \subseteq recorded'
    BY <1>0 DEF OnePlace
  <2> QED BY <1>4, <2>2, <2>3, <2>4, <2>5, <2>6, <2>7 DEF OnePlace
<1>7. ASSUME NEW x \in Entries PROVE Counted(x)'
  <2>1. InFlight(x)' => InFlight(x)
    BY <1>2, <1>3 DEF InFlight
  <2>2. Waits(x)' => Waits(x)
    <3>1. CASE \E c \in 1..3 : x \in Queued(c)'
      BY <1>4, <3>1 DEF Waits
    <3>2. CASE \E g \in Flushes : Running(g)' /\ x \in Left(g)' /\ x # Current(g)'
      BY <1>2, <1>3, <3>2 DEF Waits
    <3> QED BY <3>1, <3>2 DEF Waits
  <2>3. Waits(x) => Waits(x)' \/ x \in gone
    <3>1. CASE \E c \in 1..3 : x \in Queued(c)
      BY <1>4, <3>1 DEF Waits
    <3>2. ASSUME NEW g \in Flushes, Running(g), x \in Left(g), x # Current(g)
          PROVE  Waits(x)' \/ x \in gone
      <4>1. CASE g = f
        BY <3>2, <4>1
      <4>2. CASE g # f
        BY <1>3, <3>2, <4>2 DEF Waits
      <4> QED BY <4>1, <4>2
    <3> QED BY <3>1, <3>2 DEF Waits
  <2>4. x \in dropped \/ x \in gone => x \in dropped'
    OBVIOUS
  <2>5. Counted(x) /\ rows'[x] = rows[x] /\ recorded' = recorded /\ retried' = retried
    BY <1>0
  <2> QED BY <2>1, <2>2, <2>3, <2>4, <2>5 DEF Counted
<1> QED BY <1>5, <1>6, <1>7 DEF QueueIInv

LEMMA GoesOnStays ==
  ASSUME QueueIInv, NEW f \in Flushes, FlushGoesOn(f)
  PROVE  QueueIInv'
<1> DEFINE left == Batched(f) \ {Current(f)}
<1>0. /\ PlacesType /\ Running(f) /\ UNCHANGED <<direct, recorded, retried>>
      /\ pending \in [1..3 -> Seq(Entries)]
  BY DEF QueueIInv, FlushGoesOn, PlacesType
<1>1. Left(f) = Batched(f) /\ flush[f].category \in 1..3
  BY <1>0, CurrentIsLeft DEF Left
<1>2. CASE ~Complete(session[Writer])
  <2> DEFINE later == UNION {ToSet(pending[d]) : d \in (flush[f].category + 1)..3}
  <2>1. /\ flush' = [flush EXCEPT ![f] = NoFlush]
        /\ pending' = [d \in 1..3 |-> IF d > flush[f].category THEN <<>> ELSE pending[d]]
        /\ dropped' = dropped \union left \union later
        /\ UNCHANGED rows
    BY <1>2 DEF FlushGoesOn, DrainsIntoNothing
  <2>2. \A c \in 1..3 : (pending'[c] = <<>> /\ Queued(c) \subseteq left \union later)
                        \/ pending'[c] = pending[c]
    <3> TAKE c \in 1..3
    <3>1. CASE c > flush[f].category
      <4>1. Queued(c) = ToSet(pending[c])
        <5>1. pending[c] \in Seq(Entries)
          BY <1>0
        <5>2. DOMAIN pending[c] = 1..Len(pending[c])
          BY <5>1, LenProperties
        <5> QED BY <5>2 DEF Queued, ToSet
      <4>2. c \in (flush[f].category + 1)..3
        BY <1>1, <3>1
      <4>3. Queued(c) \subseteq later
        BY <4>1, <4>2
      <4> QED BY <2>1, <3>1, <4>3
    <3>2. CASE ~ (c > flush[f].category)
      BY <2>1, <3>2
    <3> QED BY <3>1, <3>2
  <2>3. pending' \in [1..3 -> Seq(Entries)]
    BY <1>0, <2>1, EmptySeq
  <2>4. Left(f) \subseteq (left \union later) \union {Current(f)}
    BY <1>1
  <2>5. dropped' = dropped \union (left \union later)
    BY <2>1
  <2> HIDE DEF left, later
  <2> QED BY <1>0, <2>1, <2>2, <2>3, <2>4, <2>5, EndStays
<1>3. CASE Complete(session[Writer]) /\ left # {}
  <2>1. /\ flush' = [flush EXCEPT ![f].index = @ + 1]
        /\ \E served \in BOOLEAN : SendsStore(flush[f].batch[flush[f].index + 1], served)
        /\ UNCHANGED pending
    BY <1>3 DEF FlushGoesOn
  <2> QED BY <1>0, <1>1, <1>3, <2>1, AdvanceStays
<1>4. CASE Complete(session[Writer]) /\ left = {} /\ NextCategory(flush[f].category + 1) # 0
  <2> DEFINE c == NextCategory(flush[f].category + 1)
  <2>1. DrainsCategory(f, c)
    BY <1>4 DEF FlushGoesOn
  <2>2. flush[f].category + 1 \in 1..4
    BY <1>1
  <2>3. c \in 1..3 /\ pending[c] # <<>>
    BY <1>0, <1>4, <2>2, NextCategoryType
  <2>4. Left(f) \subseteq {Current(f)}
    BY <1>1, <1>4
  <2> HIDE DEF c
  <2> QED BY <1>0, <2>1, <2>3, <2>4, DrainStays
<1>5. CASE Complete(session[Writer]) /\ left = {} /\ NextCategory(flush[f].category + 1) = 0
  <2>1. flush' = [flush EXCEPT ![f] = NoFlush] /\ UNCHANGED <<pending, rows, dropped>>
    BY <1>5 DEF FlushGoesOn
  <2>2. Left(f) \subseteq {} \union {Current(f)} /\ dropped' = dropped \union {}
    BY <1>1, <1>5, <2>1
  <2> QED BY <1>0, <2>1, <2>2, EndStays
<1> QED BY <1>2, <1>3, <1>4, <1>5

\* The flush fails: what is left of its batch is queued again.
LEMMA FailureStays ==
  ASSUME QueueIInv, NEW f \in Flushes, FlushFails(f)
  PROVE  QueueIInv'
<1>0. /\ PlacesType /\ OnePlace /\ (\A x \in Entries : Counted(x)) /\ Running(f)
      /\ NoFlush \in FlushTypes /\ UNCHANGED <<direct, recorded, rows>>
      /\ flush' = [flush EXCEPT ![f] = NoFlush]
  BY EmptySeq DEF QueueIInv, NoFlush, FlushTypes, FlushFails
<1>1. /\ flush'[f] = NoFlush /\ flush' \in [Flushes -> FlushTypes]
      /\ \A g \in Flushes : g # f => flush'[g] = flush[g]
  BY <1>0 DEF PlacesType
<1>2. ~Running(f)' /\ Left(f)' = {}
  BY <1>1 DEF Running, Left, NoFlush
<1>3. \A g \in Flushes : g # f => (Running(g)' <=> Running(g)) /\ Current(g)' = Current(g)
                                  /\ Left(g)' = Left(g)
  BY <1>1, FlushStays
<1>4. PICK c \in 1..3, b \in Seq(Entries), k \in Nat :
        /\ c = flush[f].category /\ b = flush[f].batch /\ k = flush[f].index
        /\ k \in 1..Len(b) /\ Left(f) = {b[i] : i \in k..Len(b)}
  <2>1. flush[f].index \in Nat
    BY <1>0, CurrentIsLeft
  <2> QED BY <1>0, <2>1, CurrentIsLeft
<1>5. /\ pending' = [pending EXCEPT ![c] = pending[c] \o SubSeq(b, k, Len(b))]
      /\ Again(SubSeq(b, k, Len(b)))
  BY <1>4 DEF FlushFails
<1>6. PICK back : back = Left(f)
  OBVIOUS
<1>7. /\ pending[c] \in Seq(Entries) /\ Distinct(pending[c], 1) /\ Distinct(b, k)
      /\ Queued(c) \intersect back = {}
  BY <1>0, <1>4, <1>6 DEF PlacesType, OnePlace
<1>8. LET left == SubSeq(b, k, Len(b))
          t    == pending[c] \o left
      IN  /\ t \in Seq(Entries) /\ Distinct(t, 1)
          /\ ItemsFrom(t, 1) = ItemsFrom(pending[c], 1) \union ItemsFrom(b, k)
          /\ ToSet(left) = ItemsFrom(b, k)
  <2>1. \A i \in 1..Len(pending[c]), j \in k..Len(b) : pending[c][i] # b[j]
    BY <1>4, <1>6, <1>7 DEF Queued
  <2>2. b \in Seq(Entries) /\ k \in 1..Len(b)
    BY <1>4
  <2> QED BY <1>7, <2>1, <2>2, RequeuedBatch
<1>9. /\ pending'[c] = pending[c] \o SubSeq(b, k, Len(b))
      /\ \A d \in 1..3 : d # c => pending'[d] = pending[d]
  BY <1>0, <1>5 DEF PlacesType
<1>10. /\ pending'[c] \in Seq(Entries) /\ Distinct(pending'[c], 1)
       /\ Queued(c)' = Queued(c) \union back
       /\ \A d \in 1..3 : d # c => Queued(d)' = Queued(d)
       /\ ToSet(SubSeq(b, k, Len(b))) = back
  <2> DEFINE t == pending[c] \o SubSeq(b, k, Len(b))
  <2>1. pending'[c] = t
    BY <1>9
  <2>2. /\ t \in Seq(Entries) /\ Distinct(t, 1)
        /\ ItemsFrom(t, 1) = Queued(c) \union back
        /\ ToSet(SubSeq(b, k, Len(b))) = back
    <3>1. ItemsFrom(b, k) = back /\ ItemsFrom(pending[c], 1) = Queued(c)
      BY <1>4, <1>6 DEF ItemsFrom, Queued
    <3> QED BY <1>8, <3>1
  <2> HIDE DEF t
  <2>3. \A d \in 1..3 : d # c => Queued(d)' = Queued(d)
    BY <1>9 DEF Queued
  <2>4. Queued(c)' = Queued(c) \union back
    BY <2>1, <2>2 DEF Queued, ItemsFrom
  <2> QED BY <2>1, <2>2, <2>3, <2>4
<1>11. dropped' = dropped \ back /\ retried' = retried \union {e \in back : rows[e] > 0}
  BY <1>5, <1>10 DEF Again
<1>12. PlacesType'
  <2>1. \A g \in Flushes : Running(g)' => flush'[g].index \in 1..Len(flush'[g].batch)
    BY <1>0, <1>1, <1>2, <1>3 DEF PlacesType
  <2>2. pending' \in [1..3 -> Seq(Entries)]
    BY <1>0, <1>5, <1>9, <1>10 DEF PlacesType
  <2> QED BY <1>0, <1>1, <2>1, <2>2 DEF PlacesType
<1>13. back \subseteq recorded /\ back \intersect direct = {}
       /\ (\A d \in 1..3 : back \intersect Queued(d) = {})
       /\ (\A g \in Flushes : g # f => back \intersect Left(g) = {})
  BY <1>0, <1>6 DEF OnePlace
<1>14. OnePlace'
  <2>1. \A d \in 1..3 : /\ Distinct(pending'[d], 1)
                        /\ Queued(d)' \subseteq recorded' /\ Queued(d)' \intersect direct' = {}
    BY <1>0, <1>9, <1>10, <1>13 DEF OnePlace
  <2>2. \A d, e \in 1..3 : d # e => Queued(d)' \intersect Queued(e)' = {}
    <3> TAKE d, e \in 1..3
    <3>1. /\ Queued(d)' = IF d = c THEN Queued(d) \union back ELSE Queued(d)
          /\ Queued(e)' = IF e = c THEN Queued(e) \union back ELSE Queued(e)
      BY <1>10
    <3> QED BY <1>0, <1>13, <3>1 DEF OnePlace
  <2>3. \A g \in Flushes : Running(g)' =>
          Distinct(flush'[g].batch, flush'[g].index) /\ Left(g)' \subseteq recorded'
    BY <1>0, <1>1, <1>2, <1>3 DEF OnePlace
  <2>4. \A g \in Flushes : Left(g)' \intersect direct' = {}
    BY <1>0, <1>2, <1>3 DEF OnePlace
  <2>5. \A g \in Flushes, d \in 1..3 : Left(g)' \intersect Queued(d)' = {}
    <3> TAKE g \in Flushes, d \in 1..3
    <3>1. Queued(d)' = IF d = c THEN Queued(d) \union back ELSE Queued(d)
      BY <1>10
    <3> QED BY <1>0, <1>2, <1>3, <1>13, <3>1 DEF OnePlace
  <2>6. \A g, i \in Flushes : g # i => Left(g)' \intersect Left(i)' = {}
    <3> TAKE g, i \in Flushes
    <3>1. Left(g)' \subseteq Left(g) /\ Left(i)' \subseteq Left(i)
      BY <1>2, <1>3
    <3> QED BY <1>0, <3>1 DEF OnePlace
  <2>7. direct' \subseteq recorded'
    BY <1>0 DEF OnePlace
  <2> QED BY <2>1, <2>2, <2>3, <2>4, <2>5, <2>6, <2>7 DEF OnePlace
<1>15. ASSUME NEW x \in Entries, x \in back PROVE Counted(x)'
  <2>1. Waits(x)'
    BY <1>10, <1>15 DEF Waits
  <2>2. ~InFlight(x)'
    <3>1. \A g \in Flushes : Running(g)' => x # Current(g)'
      <4> SUFFICES ASSUME NEW g \in Flushes, Running(g)' PROVE x # Current(g)'
        OBVIOUS
      <4>1. g # f /\ Running(g) /\ Current(g)' = Current(g)
        BY <1>2, <1>3
      <4>2. Current(g) \in Left(g)
        BY <1>0, <4>1, CurrentIsLeft
      <4> QED BY <1>13, <1>15, <4>1, <4>2
    <3> QED BY <1>0, <1>13, <1>15, <3>1 DEF InFlight
  <2>3. rows[x] \in Nat
    BY <1>0 DEF PlacesType
  <2>4. rows[x] = 0 \/ x \in retried'
    BY <1>11, <1>15, <2>3
  <2>5. ~ (0 > 1)
    OBVIOUS
  <2> QED BY <1>0, <1>13, <1>15, <2>1, <2>2, <2>4, <2>5 DEF Counted
<1>16. ASSUME NEW x \in Entries, x \notin back PROVE Counted(x)'
  <2>1. (x \in dropped' <=> x \in dropped) /\ (x \in retried' <=> x \in retried)
    BY <1>11, <1>16
  <2>2. x # Current(f)
    BY <1>0, <1>6, <1>16, CurrentIsLeft
  <2>3. InFlight(x)' <=> InFlight(x)
    BY <1>0, <1>2, <1>3, <2>2 DEF InFlight
  <2>4. \A d \in 1..3 : x \in Queued(d)' <=> x \in Queued(d)
    BY <1>10, <1>16
  <2>5. x \notin Left(f)
    BY <1>6, <1>16
  <2>6. Waits(x)' <=> Waits(x)
    BY <1>2, <1>3, <2>4, <2>5 DEF Waits
  <2> QED BY <1>0, <2>1, <2>3, <2>6, UnmovedCounts
<1> QED BY <1>12, <1>14, <1>15, <1>16 DEF QueueIInv

LEMMA InitQueueIInv == QueueInit => QueueIInv
<1> SUFFICES ASSUME QueueInit PROVE QueueIInv
  OBVIOUS
<1>1. /\ \A c \in 1..3 : pending[c] = <<>> /\ Len(pending[c]) = 0
      /\ \A f \in Flushes : flush[f] = NoFlush
      /\ direct = {} /\ recorded = {} /\ \A e \in Entries : rows[e] = 0
  BY DEF QueueInit
<1>2. 1..0 = {} /\ ~ (0 > 1)
  OBVIOUS
<1>3. \A c \in 1..3 : Queued(c) = {} /\ Distinct(pending[c], 1)
  BY <1>1, <1>2 DEF Queued, Distinct
<1>4. \A f \in Flushes : ~Running(f) /\ Left(f) = {}
  BY <1>1 DEF Running, Left, NoFlush
<1>5. PlacesType
  <2>1. <<>> \in Seq(Entries) /\ NoFlush \in FlushTypes
    BY EmptySeq DEF NoFlush, FlushTypes
  <2>2. pending \in [1..3 -> Seq(Entries)] /\ flush \in [Flushes -> FlushTypes] /\ rows \in [Entries -> Nat]
    BY <2>1 DEF QueueInit
  <2> QED BY <1>1, <1>4, <2>2 DEF PlacesType
<1>6. OnePlace
  BY <1>1, <1>3, <1>4 DEF OnePlace
<1>7. \A e \in Entries : Counted(e)
  BY <1>1, <1>2, <1>3, <1>4 DEF Counted, InFlight, Waits
<1> QED BY <1>5, <1>6, <1>7 DEF QueueIInv

LEMMA StepQueueIInv == QueueIInv /\ [QueueNext]_<<sessionVars, queueVars>> => QueueIInv'
<1> SUFFICES ASSUME QueueIInv, [QueueNext]_<<sessionVars, queueVars>> PROVE QueueIInv'
  OBVIOUS
<1>1. CASE UNCHANGED queueVars
  <2>1. UNCHANGED <<pending, flush, direct, recorded, rows, dropped, retried>>
    BY <1>1 DEF queueVars
  <2>4. \A c \in 1..3 : Queued(c)' = Queued(c)
    BY <2>1 DEF Queued
  <2>5. \A f \in Flushes : (Running(f)' <=> Running(f)) /\ Left(f)' = Left(f)
    BY <2>1, FlushStays
  <2>6. PlacesType'
    BY <2>1, <2>5 DEF QueueIInv, PlacesType
  <2>7. OnePlace'
    BY <2>1, <2>4, <2>5 DEF QueueIInv, OnePlace
  <2>2. PlacesType' /\ OnePlace'
    BY <2>6, <2>7
  <2>3. ASSUME NEW x \in Entries PROVE Counted(x)'
    <3>1. InFlight(x)' <=> InFlight(x)
      BY <2>1 DEF InFlight, Running, Current
    <3>2. Waits(x)' <=> Waits(x)
      BY <2>1 DEF Waits, Running, Current, Left, Batched, Queued
    <3> QED BY <2>1, <3>1, <3>2, UnmovedCounts DEF QueueIInv
  <2> QED BY <2>2, <2>3 DEF QueueIInv
<1>2. CASE StartsFlush
  <2>1. CASE Complete(session'[Writer]) /\ NextCategory(1) # 0
    <3>1. PICK f \in Flushes : ~Running(f) /\ DrainsCategory(f, NextCategory(1))
      BY <1>2, <2>1 DEF StartsFlush
    <3>2. UNCHANGED <<direct, recorded, retried>>
      BY <1>2, <2>1 DEF StartsFlush
    <3>3. NextCategory(1) \in 1..3 /\ pending[NextCategory(1)] # <<>>
      BY <2>1, NextCategoryType DEF QueueIInv
    <3> QED BY <3>1, <3>2, <3>3, DrainStays
  <2>2. CASE ~ (Complete(session'[Writer]) /\ NextCategory(1) # 0)
    BY <1>1, <1>2, <2>2 DEF StartsFlush
  <2> QED BY <2>1, <2>2
<1>3. CASE \E e \in Entries : Record(e) \/ DirectSettles(e)
  BY <1>3, RecordStays, DirectStays
<1>4. CASE \E f \in Flushes : FlushGoesOn(f) \/ FlushFails(f)
  BY <1>4, GoesOnStays, FailureStays
<1>5. CASE UNCHANGED <<sessionVars, queueVars>>
  BY <1>1, <1>5
<1> QED BY <1>1, <1>2, <1>3, <1>4, <1>5 DEF QueueNext, SessionChanges

\* Whatever flushes, stores, failures and changes of the session overlap,
\* for any number of entries and flushes: an entry is stored, and once, as
\* far as the answers and the session let the queue know.
THEOREM EntriesAreStoredOnceHolds == QueueSpec => []EntriesAreStoredOnce
<1>1. ASSUME QueueIInv PROVE EntriesAreStoredOnce
  <2>1. ASSUME NEW e \in recorded PROVE Held(e) \/ rows[e] > 0 \/ e \in dropped
    <3>1. e \in Entries /\ Counted(e)
      BY <1>1 DEF QueueIInv, PlacesType
    <3>2. InFlight(e) => Held(e)
      <4>1. ASSUME NEW f \in Flushes, Running(f), e = Current(f) PROVE Held(e)
        <5>1. e \in Left(f)
          BY <1>1, <4>1, CurrentIsLeft DEF QueueIInv
        <5> QED BY <4>1, <5>1 DEF Held, Left
      <4> QED BY <4>1 DEF InFlight, Held
    <3>3. Waits(e) => Held(e)
      <4>1. \A c \in 1..3 : Queued(c) = ToSet(pending[c])
        <5> TAKE c \in 1..3
        <5>1. pending[c] \in Seq(Entries)
          BY <1>1 DEF QueueIInv, PlacesType
        <5>2. DOMAIN pending[c] = 1..Len(pending[c])
          BY <5>1, LenProperties
        <5> QED BY <5>2 DEF Queued, ToSet
      <4> QED BY <4>1 DEF Waits, Held, Left
    <3> QED BY <3>1, <3>2, <3>3 DEF Counted
  <2>2. \A e \in Entries : rows[e] > 1 => e \in retried
    BY <1>1 DEF QueueIInv, Counted
  <2> QED BY <2>1, <2>2 DEF EntriesAreStoredOnce, NothingIsForgotten, NoRowTwice
<1> QED BY InitQueueIInv, StepQueueIInv, <1>1, PTL DEF QueueSpec
=============================================================================

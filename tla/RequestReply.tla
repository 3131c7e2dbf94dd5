----------------------------- MODULE RequestReply -----------------------------
(***************************************************************************)
(* What Electron main promises of a request to its Python sidecar: it is   *)
(* settled exactly once, and resolved only by the sidecar process it was   *)
(* sent to, while that process is the one in use; when the process goes,   *)
(* everything outstanding is rejected with it.                             *)
(***************************************************************************)
EXTENDS Naturals

CONSTANT Requests

VARIABLES
  peer,     \* the process in use, or 0
  last,     \* no process above this number was ever in use
  outcome,  \* of each request
  sentTo    \* the process a request was sent to

replyVars == <<peer, last, outcome, sentTo>>

Outcomes == {"new", "pending", "resolved", "rejected"}

ReplyTypeOK ==
  /\ peer \in Nat /\ last \in Nat
  /\ outcome \in [Requests -> Outcomes]
  /\ sentTo \in [Requests -> Nat]

ReplyInit ==
  /\ peer = 0 /\ last = 0
  /\ outcome = [r \in Requests |-> "new"]
  /\ sentTo = [r \in Requests |-> 0]

\* A request is sent to the process in use, or refused at once.
Send(r) ==
  /\ outcome[r] = "new"
  /\ \/ /\ peer # 0
        /\ outcome' = [outcome EXCEPT ![r] = "pending"]
        /\ sentTo' = [sentTo EXCEPT ![r] = peer]
     \/ /\ outcome' = [outcome EXCEPT ![r] = "rejected"]
        /\ UNCHANGED sentTo
  /\ UNCHANGED <<peer, last>>

\* The process answers, or the request times out.
Settle(r) ==
  /\ outcome[r] = "pending" /\ sentTo[r] = peer
  /\ \E o \in {"resolved", "rejected"} : outcome' = [outcome EXCEPT ![r] = o]
  /\ UNCHANGED <<peer, last, sentTo>>

PeerComes ==
  /\ peer = 0
  /\ peer' > last /\ last' = peer'
  /\ UNCHANGED <<outcome, sentTo>>

PeerGoes ==
  /\ peer # 0
  /\ peer' = 0 /\ last' >= last
  /\ outcome' = [r \in Requests |->
                   IF outcome[r] = "pending" THEN "rejected" ELSE outcome[r]]
  /\ UNCHANGED sentTo

ReplyNext ==
  \/ \E r \in Requests : Send(r) \/ Settle(r)
  \/ PeerComes \/ PeerGoes

ReplySpec == ReplyInit /\ [][ReplyNext]_replyVars

\* What is outstanding is outstanding at the process in use.
OutstandingAtThePeer ==
  \A r \in Requests : outcome[r] = "pending" => peer # 0 /\ sentTo[r] = peer
=============================================================================

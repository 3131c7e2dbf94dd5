----------------------------- MODULE MCMainParts -----------------------------
(***************************************************************************)
(* Parts of the main process, explored side by side.  "queries" and        *)
(* "kinds" are the query gate with two mixes of callers: renderer queries  *)
(* that race on two sockets; and an automated query, a wakeword, a settings*)
(* update and a plain request that share the gate of one socket.  "worker" *)
(* is VmWorker, which shares no variable with the gate.                    *)
(***************************************************************************)
EXTENDS QueryGate, VmWorker, TLC

VARIABLE part

PartVars == <<vars, vmVars, part>>

PartInit == 
  /\ part \in {"queries", "kinds", "worker"}
  /\ GateInit /\ VmInit
  /\ part = "worker" \/ \A r \in Runs : threadOf[r] = CHOOSE t \in Threads : TRUE

OneSocket == Cardinality({s \in Sockets : readyState'[s] # "unused"}) <= 1

PartNext ==
  /\ part' = part
  /\ \/ /\ part = "queries"
        /\ Callback(Queries, {"streaming-response", "streaming-complete"})
        /\ UNCHANGED vmVars
     \/ /\ part = "kinds"
        /\ Callback(Requests \ Queries, {"tool-call", "token-count"})
        /\ OneSocket
        /\ UNCHANGED vmVars
     \/ part # "worker" /\ Microtask /\ UNCHANGED vmVars
     \/ part = "worker" /\ VmNext /\ UNCHANGED vars

PartSpec == PartInit /\ [][PartNext]_PartVars

Symmetry ==
  Permutations(Sockets) \union Permutations(Queries)
=============================================================================

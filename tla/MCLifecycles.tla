----------------------------- MODULE MCLifecycles -----------------------------
(***************************************************************************)
(* Parts that share no variable and whose liveness is checked, explored    *)
(* side by side: a behaviour belongs to one of them and the others stay at *)
(* rest, where no step their fairness names is enabled.  "link" is         *)
(* BackendConnection, "sidecar" is the start and the stop of               *)
(* SidecarTransport, and "turn" is TurnLifecycle.                          *)
(***************************************************************************)
EXTENDS BackendConnection, SidecarTransport, TurnLifecycle

VARIABLE part

PartVars == <<connectionVars, sidecarVars, lifecycleVars, part>>

\* No report of the link is on its way and the effects have run.
LifecycleAtRest ==
  /\ shown = Quiet /\ machine = Fresh /\ committed = Dependencies
  /\ mail = <<>> /\ linkUp = TRUE
  /\ watchdog = FALSE /\ turnOpen = FALSE /\ orphaned = FALSE
  /\ losses = 0 /\ steps = 0

PartInit ==
  /\ part \in {"link", "sidecar", "turn"}
  /\ Init /\ SidecarInit
  /\ IF part = "turn" THEN LifecycleInit ELSE LifecycleAtRest

PartNext ==
  /\ part' = part
  /\ \/ part = "link" /\ Next /\ UNCHANGED <<sidecarVars, lifecycleVars>>
     \/ part = "sidecar" /\ SidecarNext /\ UNCHANGED <<connectionVars, lifecycleVars>>
     \/ part = "turn" /\ LifecycleNext /\ UNCHANGED <<connectionVars, sidecarVars>>

PartSpec ==
  /\ PartInit /\ [][PartNext]_PartVars
  /\ LinkFairness /\ SidecarFairness /\ LifecycleFairness

=============================================================================

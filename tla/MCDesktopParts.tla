---------------------------- MODULE MCDesktopParts ----------------------------
(***************************************************************************)
(* Four parts that share no variable, explored side by side: a behaviour   *)
(* belongs to one of them and the others stay at rest, so the state space  *)
(* is their sum.  "sidecar" is SidecarTransport, "tools" is ToolSurfaces,  *)
(* "windows" is SurfaceWindows with every handler of its own, and "chat" is*)
(* ChatStream.                                                             *)
(***************************************************************************)
EXTENDS SidecarTransport, ToolSurfaces, ChatStream, TLC

VARIABLE part

PartVars == <<sidecarVars, surfaceVars, toolVars, chatVars, part>>

(* Bound: the tool calls and captures of one behaviour, whichever they are.*)
MaxBegun == 2
FewJobs == Cardinality({j \in Jobs : ~At(j, {"idle"})}) <= MaxBegun

PartInit ==
  /\ part \in {"sidecar", "tools", "windows", "chat"}
  /\ SidecarInit
  /\ ChatInit
  /\ IF part = "windows" THEN SurfaceInit /\ NoToolYet ELSE ToolInit
  /\ part \in {"sidecar", "chat"} => surface.main

PartNext ==
  /\ part' = part
  /\ \/ part = "sidecar" /\ SidecarNext /\ UNCHANGED <<surfaceVars, toolVars, chatVars>>
     \/ part = "tools" /\ ToolNext /\ FewJobs' /\ UNCHANGED <<sidecarVars, chatVars>>
     \/ part = "windows" /\ SurfaceNext /\ UNCHANGED <<sidecarVars, toolVars, chatVars>>
     \/ part = "chat" /\ ChatNext /\ UNCHANGED <<sidecarVars, surfaceVars, toolVars>>

PartSpec == PartInit /\ [][PartNext]_PartVars

Symmetry ==
  Permutations(Conversations) \union Permutations(Turns) \union Permutations(Tools)
=============================================================================

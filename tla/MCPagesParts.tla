---------------------------- MODULE MCPagesParts ----------------------------
(***************************************************************************)
(* Six parts of the desktop around a chat that share no variable, explored *)
(* side by side as in MCRendererParts: "permissions" is Permissions,       *)
(* "folder" WorkspaceBinding, "shortcut" StopShortcut, "composer"          *)
(* Composer, "places" OverlayPlaces and "response" ResponseOverlay.        *)
(***************************************************************************)
EXTENDS Permissions, WorkspaceBinding, StopShortcut, Composer, OverlayPlaces,
        ResponseOverlay

CONSTANTS k1, k2, k3

MCCatalog == <<k1, k2, k3>>

VARIABLE part

PartVars ==
  <<permissionVars, bindingVars, shortcutVars, composerVars, placesVars, overlayVars, part>>

(* The parts at rest begin in one state each.                              *)
PartInit ==
  /\ part \in {"permissions", "folder", "shortcut", "composer", "places", "response"}
  /\ PermissionInit
  /\ part = "permissions" \/ (platform = "other" /\ listed = {"shell"} /\ allowed = {}
                              /\ store.completed = "none")
  /\ BindingInit
  /\ ShortcutInit /\ (part = "shortcut" \/ disk = Catalog[1])
  /\ ComposerInit /\ (part = "composer" \/ surface = "main-window")
  /\ PlacesInit /\ (part = "places" \/ \A m \in Monitors : \A h \in AreaHeights : area[m] >= h)
  /\ OverlayInit /\ (part = "response" \/ ~main.chat)

PartNext ==
  /\ part' = part
  /\ \/ /\ part = "permissions" /\ PermissionNext
        /\ UNCHANGED <<bindingVars, shortcutVars, composerVars, placesVars, overlayVars>>
     \/ /\ part = "folder" /\ BindingNext
        /\ UNCHANGED <<permissionVars, shortcutVars, composerVars, placesVars, overlayVars>>
     \/ /\ part = "shortcut" /\ ShortcutNext
        /\ UNCHANGED <<permissionVars, bindingVars, composerVars, placesVars, overlayVars>>
     \/ /\ part = "composer" /\ ComposerNext
        /\ UNCHANGED <<permissionVars, bindingVars, shortcutVars, placesVars, overlayVars>>
     \/ /\ part = "places" /\ PlacesNext
        /\ UNCHANGED <<permissionVars, bindingVars, shortcutVars, composerVars, overlayVars>>
     \/ /\ part = "response" /\ OverlayNext
        /\ UNCHANGED <<permissionVars, bindingVars, shortcutVars, composerVars, placesVars>>

PartSpec == PartInit /\ [][PartNext]_PartVars
=============================================================================

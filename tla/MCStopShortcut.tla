--------------------------- MODULE MCStopShortcut ---------------------------
(* The stop shortcut with a catalog of three accelerators.                 *)
EXTENDS StopShortcut

CONSTANTS k1, k2, k3

MCCatalog == <<k1, k2, k3>>
=============================================================================

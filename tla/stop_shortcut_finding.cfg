SPECIFICATION ShortcutSpec
INVARIANT ChosenShortcutIsKept
CONSTANTS
 k1 = k1
 k2 = k2
 k3 = k3
 Catalog <- MCCatalog
 NoKey = NoKey
 NoStatus = NoStatus
 MaxShortcutActs = 2
CHECK_DEADLOCK FALSE

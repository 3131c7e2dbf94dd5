SPECIFICATION PartSpec
CONSTANTS
  Requests = {c1, c2}
  Mounts = {1, 2}
  MaxPermissionActs = 4
  Manifests = {{"screen", "microphone"}, {"input", "events"}, {"browser", "folder"}, {"shell"}}
  Dashboard = Dashboard
  Pill = Pill
  Chats = {h1, h2, h3}
  NoChat = NoChat
  Folders = {f, g}
  NoFolder = NoFolder
  Dialogs = {o1, o2}
  MaxFolderActs = 5
  MaxHurriedActs = 2
  k1 = k1
  k2 = k2
  k3 = k3
  Catalog <- MCCatalog
  NoKey = NoKey
  NoStatus = NoStatus
  MaxShortcutActs = 5
  Images = {i1}
  Files = {f1, f2}
  Screen = Screen
  MaxMessages = 2
  MaxToggles = 1
  Monitors = {0, 1}
  ScreenWidth = 6
  AreaHeights = {7, 8}
  PillWidth = 2
  PillHeight = 3
  Margin = 1
  Gap = 2
  HoverOffset = 1
  CompactHeight = 1
  Anchors = {1, 3}
  FrameWidths = {2, 4}
  FrameHeights = {1, 2}
  DragXs = {0, 5, 11}
  DragYs = {2}
  NoAffinity = NoAffinity
  NoManual = NoManual
  MaxOverlayActs = 4
  MaxInFlight = 4
INVARIANTS
  WatchedGrantsAreShown
  RecordedFoldersStay
  ShownShortcutStops
  ComposedMessagesArrive
  OverlaysInPlace
  WindowFollowsTheView
CHECK_DEADLOCK FALSE

CONSTANTS
    Servers <- MCServers
    MaxSessions = 2
    MaxClicks = 3
    MaxLost = 1
    Scripts <- MCScripts
    Chunks = {1, 2, 5, 13}
    RQmax = 60
    Modifiers = {"Ctrl", "Alt", "Shift"}
    Letters = {"a"}
    Thirds = {"a"}
    Specials = {"Enter"}
    CharModifier <- Windows
    Flagged = {"Ctrl", "Alt", "Shift"}
    Buttons = {"left", "right"}
    MaxHeld = 3
    MaxQueue = 4
    MaxTrack = 3
    MaxGaps = 1
    MaxUnseen = 1
SPECIFICATION VncSpec
INVARIANTS
  OneSession
  PageTellsCurrent
  StreamRead
  NobodyWaits
  NeverHungUp
  InputPaired
PROPERTIES
  DisconnectsHold
CHECK_DEADLOCK FALSE

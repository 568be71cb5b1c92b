CONSTANTS
  Cols = 2
  Rows = 2
  Scrollback = 3
  TabWidth = 2
  WideCols = 3
  Sizes <- MCSizes
  MaxParam = 3
  MaxLines = 6
  MaxX = 3
  Families = {"edit", "lines", "screens", "tabs", "modes"}
  Hosts <- MCHosts
  MaxSeq = 4
  MaxText = 1
  MaxReplies = 2
  MaxTimers = 2
  Width = 3
  Height = 2
  Texts <- MCTexts
  Users <- MCUsers
  PromptLen = 1
  Entries <- MCEntries
  MaxColumn = 4
  MaxCopies = 1
  Places <- MCPlaces
  Mods = {0, 4, 16}
  MaxUps = 2
SPECIFICATION TermSpec
INVARIANTS
  ScreenHolds
  Repainted
  SequencesRead
  SelectionHolds
  SearchFinds
  CopiesSelection
  ReportsPaired
PROPERTIES
  MainScreenKept
  BelRecovers
  RepliesSent
  ModesRestore

SPECIFICATION Spec
CONSTANTS
  Session = {"p", "q"}
  Script = {"q"}
  Typing = {"p"}
  Line <- MCLine
  Space = " "
  LineFeed = "lf"
  Return = "cr"
  InitialBuflen = 1
  MaxLine = 2
  HistoryLen = 2
  HistorySearch = 2
  Lengths = {1}
  Backends <- MCBackends
INVARIANTS HistoryIndexSafe FileIsLastSave
PROPERTIES NavigationKeepsEntries EnteredIsSaved

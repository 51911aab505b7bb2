SPECIFICATION Spec
CONSTANTS
  Extending = {"m", "z"}
  Joiner = "z"
  Regional = {"r"}
  NewLine = "lf"
  FoldThreshold = 3
  FoldContext = 1
  MaxFolds = 2
  Marker = "..."
  Space = " "
  Return = "cr"
  Typed <- MCTyped
  Pasted <- MCPasted
  PasteEnd <- MCPasteEnd
  InitialBuflen = 3
  MaxLine = 4
  InitialPaste = 1
  SwapMax = 2
  Recalled <- MCRecalled
  MaxSent = 4
CHECK_DEADLOCK FALSE
INVARIANTS PositionsAreSafe RenderShowsLine CursorStaysOutOfFolds WalksAgree
PROPERTIES NewlinesStayFolded PasteIsTheText ImplementsTextLine

SPECIFICATION Spec
CONSTANTS
  File = {"a", "b", "c"}
  Missing = {"none"}
  Fn = {"read", "again", "count", "show", "defer", "fail", "ypp", "macro",
        "empty", "quiet", "table"}
  Output = {"x", "y"}
  Char = {"@", "#"}
  MainChar = "@"
  Library <- MCLibrary
  Body <- MCBody
  Returns <- MCReturns
  Input <- TwoInputs
  MaxVisits = 4
  MaxDepth = 3
INVARIANTS OutputIsExpansion AtexitOrder DepFileComplete TagsReplaced FailuresLeave
PROPERTIES Termination

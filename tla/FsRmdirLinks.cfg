SPECIFICATION Spec
CONSTANTS
  Top = "top"
  Root = "r"
  Dir = {"top", "r", "a", "b", "o"}
  File = {"e", "f", "g"}
  Link = {"l", "m"}
  Rank <- MCRank
  Nothing = "nothing"
  Trees <- LinkOut
  Fresh = {}
  Doomed = {}
CHECK_DEADLOCK FALSE
INVARIANT RmdirIsExact

SPECIFICATION Spec
CONSTANTS
  Top = "top"
  Root = "r"
  Dir = {"top", "r", "a", "b", "o"}
  File = {"e", "f", "g"}
  Link = {"l", "m"}
  Rank <- MCRank
  Nothing = "nothing"
  Trees <- MCTrees
  Fresh = {"g"}
  Doomed = {"f"}
CHECK_DEADLOCK FALSE
INVARIANTS WalkIsComplete WalkedOnce PlainRmdirIsExact
PROPERTIES WalkEnds

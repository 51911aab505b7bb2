SPECIFICATION Spec
CONSTANTS
  Path <- MCPath
  Parent <- MCParent
  Made = {"."}
  Files = {"e"}
  Proc = {"p", "q", "s", "r"}
  Want <- WantSame
CHECK_DEADLOCK FALSE
INVARIANTS SamePathIsMade
PROPERTIES EveryCallReturns

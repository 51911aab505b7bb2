SPECIFICATION Spec
CONSTANTS
  Path <- MCPath
  Parent <- MCParent
  Made = {"."}
  Files = {}
  Proc = {"p", "q"}
  Want <- WantTwo
CHECK_DEADLOCK FALSE
INVARIANTS DirectoryMade

SPECIFICATION Spec
CONSTANTS
  Word <- MCWord
  Dir <- MCDir
  Fn <- MCFn
  Module <- MCModule
  FlagKey = {"pool"}
  Script <- SectionsScript
  MaxCalls = 3
  Body <- MCBody
  Ident <- MCIdent
  InstallTarget <- MCInstallTarget
  CleanTarget <- MCCleanTarget
  MrproperTarget <- MCMrproperTarget
  DirRank <- MCDirRank
  GitDeps <- MCGitDeps
  Recursive <- MCRecursive
  Input <- MCInput
  Output <- MCOutput
INVARIANT InstallsWithInstallRule

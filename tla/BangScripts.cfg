SPECIFICATION Spec
CONSTANTS
  Word <- MCWord
  Dir <- MCDir
  Fn <- MCFn
  Module <- MCModule
  FlagKey = {"pool"}
  Script <- MCScript
  MaxCalls = 3
  Body <- MCBody
  Ident <- MCIdent
  InstallTarget <- MCInstallTarget
  CleanTarget <- MCCleanTarget
  MrproperTarget <- MCMrproperTarget
  DirRank <- MCDirRank
  GitDeps <- MCGitDeps
  Recursive <- MCRecursive
  Input <- MCInput
  Output <- MCOutput
INVARIANTS TypeOK TablesMatchFile InheritedInputs DefaultExcludesSections DefaultIncludesScript HelpDocumentsSections GenerationFailsOnlyOnNames GeneratorTracksInputs
PROPERTIES ImplementsNinjaFile RulesFrozen Termination

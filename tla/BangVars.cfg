SPECIFICATION Spec
CONSTANTS
  Name = {"a", "b"}
  Word = {"x", ".build"}
  Value <- MCValue
  Query <- MCQuery
  Version <- MCVersion
  DefaultBuilddir <- MCDefaultBuilddir
  DefaultVersion <- MCDefaultVersion
  MaxDefinitions = 2
INVARIANTS ExpandAgreesWithNinja FailsOnlyOnRecursion VersionIsEnough

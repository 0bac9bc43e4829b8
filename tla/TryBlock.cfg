SPECIFICATION Spec
CONSTANTS
  Tools = {"elaborate"}
  Builders = {b1}
  Files = {f1}
  Sources = {s1}
  MaxBuilds = 0
  MaxKills = 0
  Statements <- MCStatements
  Helpers <- MCHelpers
  MaxLength = 1
  AsyncStatements <- MCAsync
  AsyncTails <- MCTails
  MaxAsync = 1
  ElabStatements <- MCElab
  ElabTail <- MCTail
  Documents <- MCDocuments
  MaxElab = 1
  SourceContexts <- MCContexts
  SourceSeeds <- MCSeeds
  MaxNest = 0
  Pieces <- MCPieces
  Settings <- MCSettings
  Lexemes <- MCLexemes
  MaxLexemes = 0
  MaxInside = 0
  Owners = {u1, u2}
  Other = u3
  Users = {u1, u2, u3}
  PackageOf <- MCPackageOf
  FirstManifests <- MCManifests
  Registries <- MCRegistries
  Additions <- MCAdditions
  RegistryKinds = {"file", "http"}
  Patches = {0, 1}
  MaxCommands = 0
  MaxHalts = 0
INVARIANTS TryEndsAtFailure
CHECK_DEADLOCK FALSE

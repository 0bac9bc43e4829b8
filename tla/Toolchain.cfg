SPECIFICATION Spec
CONSTANTS
  Tools = {"cache", "mir", "desugar", "elaborate", "serde", "format", "selfhost", "lexers", "dagon"}
  Builders = {b1, b2}
  Files = {f1, f2}
  Sources = {s1, s2}
  MaxBuilds = 3
  MaxKills = 1
  Statements <- MCStatements
  Helpers <- MCHelpers
  MaxLength = 3
  AsyncStatements <- MCAsync
  AsyncTails <- MCTails
  MaxAsync = 3
  ElabStatements <- MCElab
  ElabTail <- MCTail
  Documents <- MCDocuments
  MaxElab = 3
  SourceContexts <- MCContexts
  SourceSeeds <- MCSeeds
  MaxNest = 2
  Pieces <- MCPieces
  Settings <- MCSettings
  Lexemes <- MCLexemes
  MaxLexemes = 3
  MaxInside = 2
  Owners = {u1, u2}
  Other = u3
  Users = {u1, u2, u3}
  PackageOf <- MCPackageOf
  FirstManifests <- MCManifests
  Registries <- MCRegistries
  Additions <- MCAdditions
  RegistryKinds = {"file", "http"}
  Patches = {0, 1}
  MaxCommands = 3
  MaxHalts = 1
SYMMETRY CacheSymmetry
INVARIANTS
  NeverOldIr CutOnlyByRewrite NeverInterrupts StoredIsFound
  LoweringKeepsMeaning PassesKeepMeaning DesugarKeepsMeaning  SerdeRoundTrip
   SelfHostAgrees  
\* A program that has all its statements is not extended any more.
CHECK_DEADLOCK FALSE

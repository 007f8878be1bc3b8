SPECIFICATION Spec
CONSTANTS
  MaxBacktraceDepth = 2
  StackOverflowThreshold = 4
  GiveUpPoint = 6
  WorkBufferSize = 8
  SignificantDigits = 3
  WordWidth = 8
  NoName = NoName
  Texts <- AllTexts
  Absent = Absent
  app = app
  plugin = plugin
  Image <- AllImages
  Loader = {l1, l2}
  Scarce = {plugin}
  Unnamed = {}
  VmAddr <- Apart
  maxBreadcrumbs = 1
  Writer = {w1, w2}
  MaxNumber = 2
  Situations <- SomeSituations
  Recrashes <- SomeRecrashes
  MaxAppSteps = 9
  MinStringLength = 2
  Symbols <- SomeSymbols
  Machines <- SmallMachines
  SymbolTables <- SmallTables
  Addresses = {0, 1, 2, 3, 4}
  Memories <- SmallMemories
  Strings <- SmallStrings
SYMMETRY ThreadSymmetry
INVARIANTS TypeOK ParsesWhole ImagesExact CrumbsKept ToolsFaithful ValuesFaithful

\* The tree: two collections, two folders, three requests, three levels, four items of the five.
SPECIFICATION ContentSpec
CONSTANTS
  c1 = c1
  c2 = c2
  f1 = f1
  f2 = f2
  r1 = r1
  r2 = r2
  r3 = r3
  n1 = n1
  Collections = {c1, c2}
  Folders = {f1, f2}
  Requests = {r1, r2, r3}
  Names = {n1}
  MaxDepth = 3
  MaxItems = 4
  Alphabet <- MCAlphabet
  MaxTokens = 4
  Samples <- MCSamples
  Characters <- MCCharacters
  MaxText = 4
  QuotedWords <- MCQuoted
  VariableNames <- MCVariableNames
  MaxNesting = 2
  Cases <- MCCases
  PairNames <- MCPairNames
  Jobs <- MCJobs
  PostmanExports <- MCPostmanExports
  MaxFolders = 2
CHECK_DEADLOCK FALSE
INVARIANTS
  TreeStaysWhole
  SilentMeansComplete
  SamplesComeBack
  SentOrRefusedWithReason
  NoUnconfirmedCredential
  SampleReflectsRequest
  ConversionIsFaithful

\* A cache of more bits than the weights of a call without -b.
SPECIFICATION Spec
CONSTANTS
  Calls <- MCSharedCache
  FileName = {"m", "t", "c", "d"}
  NoFile = NoFile
  NoWeights = NoWeights
  DefaultBits = 2
  MaxCalls = 3
  MaxDeaths = 1
  BfgsNode = {"n1", "n2"}
  BfgsJobs <- MCBfgsJobs
  FullStep = 2
  NoBfgs = NoBfgs
  Word = {w1, w2}
  LdaJobs <- MCLdaJobs
  BaseRing = 2
  NodeJobs <- MCNodeJobs
  NodeRing = 2
  IoJobs <- MCIoJobs
  BufSize = 2
  MaxIoFailures = 1
  Width = 9
  Group = 4
  CacheBits = 6
  Namespaces <- MCNamespaces
  MaxLength = 6
  MaxFeatures = 4
  MaxGram = 4
  MaxSkips = 3
  MaskBits = 3
  RandMax = 7
  DrawUnit = 2
  MaxHosts = 8
  Unit = 16
  Numbers <- MCNumbers
  Labels <- MCLabels
  Tau = 2
  Taus = 3
  Etas = {0, 1, 2}
  Ranks = {1, 2, 3}
  Pairs <- MCPairs
  Contents <- MCContents
INVARIANTS
  WeightsFit
CHECK_DEADLOCK FALSE

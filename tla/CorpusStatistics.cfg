SPECIFICATION Spec
CONSTANTS
  Fold <- CaseFold
  Mark <- NoMark
  DefaultWindow = 2
  MaxWindow = 3
  DefaultLimit = 3
  MaxLimit = 4
  DefaultDistributionLimit = 3
  MaxDistributionLimit = 4
  RecordLists <- SmallLists
  Failed = Failed
  MattrWindow = 2
  MtldMinimum = 3
  MtldThreshold = 72
  NoString = NoString
  Stem <- EnglishStem
  Traits <- TraitsOf
  Within <- Substrings
  Heads <- Substrings
  Regex <- RegexMatches
  Stopword <- HiddenWords
  Tag <- AnyTag
  Readings <- SomeReadings
  MaxQueryWindow = 8
  MinExpressions = 2
  MaxExpressions = 3
  CompareDefaultLimit = 2
  FrequentThreshold = 2
  HighDispersion = 50
  LoudMinimum = 2
  QuietFrom = 1
  QuietTo = 3
  QuietDispersion = 40
  SampleLimit = 2
  UniversalLimit = 2
  RosterLimit = 3
  WitnessLimit = 4
  MattrWitnessLimit = 1
  KindLimits <- Kinds
  FloorDocuments = 3
  MattrBins = 3
  PointLimit = 3
  ShowAll = 2
  DocumentLimit = 1
  Buckets <- DocumentBuckets
  Bands <- FrequencyBands
  DfClasses <- Classes
  CoverageRanks <- TopRanks
  Targets <- CoverageTargets
  SeverityLimits <- Limits
  LogOf <- Logarithms
  MinManualBins = 3
  MaxBins = 3
  DefaultPoints = 3
  MinPoints = 2
  MaxPoints = 4
  DefaultEvidence = 2
  MaxEvidence = 4
  ExplorerWitnesses = 1
  Lists <- SomeLists
  AnnotatedLists <- SomeAnnotatedLists
  Comparisons <- SomeComparisons
  Searches <- SomeSearches
  Explorations <- SomeExplorations
  NoAnswer = NoAnswer
INVARIANTS
  GrowthIsThatOfReading
  CountsAreThoseOfTheTexts
  ViewsOfATermAgree
  OverviewAccountsForTheCorpus
  BarsShowTheirDocuments

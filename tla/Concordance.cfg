SPECIFICATION Spec
CONSTANTS
  Fold <- CaseFold
  Mark <- NoMark
  DefaultWindow = 2
  MaxWindow = 3
  DefaultLimit = 3
  MaxLimit = 4
  DefaultDistributionLimit = 3
  MaxDistributionLimit = 4
  Corpora <- SmallCorpora
  ResidentLimits <- Limits
  MaxStagedBytes = 4
  Population = 6
  EnforceEvery = 4
  NoFile = NoFile
  SortDepth = 2
  ArenaFactor = 1
  ArenaSlack = 1
  MaxSortRecords = 4
  Queries <- SomeQueries
  Name <- NamesInReverse
  NoResult = NoResult
  NoQuery = NoQuery
  Requests <- SomeRequests
  Views <- SomeViews
  MaxSpan = 2
  DefaultSpan = 2
  DefaultRows = 2
  MaxRows = 3
  ShownDistances = 1
  SafetyMargin = 16
  CancelEvery = 2
  Stopwords <- HiddenWords
  NoRequest = NoRequest
  NoView = NoView
  NoAggregate = NoAggregate
INVARIANTS
  CollocationsCountTheTexts
  ForeseenSizesHold
  StoreIndexesTheTexts
  ScanFindsThePage
  IndexAgreesWithScan

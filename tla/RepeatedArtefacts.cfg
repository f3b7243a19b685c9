SPECIFICATION Spec
CONSTANTS
  Text <- MCText
  Attr <- MCAttr
  TextOrder <- MCTextOrder
  LN_1P <- MCLn
  SectionHeadings = {"body"}
  PageLabels = {"page #"}
  PASS1_BYTES_PER_KEY = 2
  MATERIALIZED_BASE_BYTES = 3
  EXAMPLE_BYTES = 2
  CANDIDATE_BYTES = 2
  RAW_VARIANT_TRACK_CAP = 1
  COUNT_MAX = 20
  Files = {1, 2}
  Documents <- MCDocuments
  Configs <- MCConfigs
  Requests <- MCRequests
  Rewrites <- MCRewrites
  MaxChanges = 1
INVARIANTS
  ReportMatchesReference
  BudgetCoversCandidates
  PromotionRemovesCandidate

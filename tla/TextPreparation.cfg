SPECIFICATION Spec
CONSTANTS
  Unit <- MCUnit
  Sign <- MCSign
  Composed <- MCComposed
  SECTION_HEADING_KEYS <- MCHeadings
  PAGE_LABEL_KEYS <- MCPageLabels
  TABLE_HEADERS <- MCTableHeaders
  MAX_REMOVED_TEXT_EXAMPLES = 2
  Preparations <- MCPreparations
INVARIANTS
  AuditLeavesTheText
  LayoutIsSettled
  NoiseIsShownAsNoise
  ReportCountsTheTexts

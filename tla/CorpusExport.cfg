SPECIFICATION Spec
CONSTANTS
  Unit <- MCUnit
  Sign <- MCSign
  Composed <- MCComposed
  SECTION_HEADING_KEYS <- MCHeadings
  PAGE_LABEL_KEYS <- MCPageLabels
  TABLE_HEADERS <- MCTableHeaders
  GraphicalMarkers <- MCGraphicalMarkers
  GreekOrMath <- MCGreekOrMath
  NotAscii <- MCNotAscii
  WINDOWS_RESERVED_NAMES <- MCReservedNames
  MAX_REMOVED_TEXT_EXAMPLES = 2
  MaxSuffix = 2
  Cases <- MCCases
  MaxEdits = 1
  MaxExports = 2
INVARIANTS
  TextsAgree
  PagesKeepTheirNumbers
  ZoneRulesApplyOrAreNoticed
  ManifestListsWhatIsThere
PROPERTY SourcesAreKept

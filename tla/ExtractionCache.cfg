SPECIFICATION Spec
CONSTANTS
  Files = {text, scan}
  OcrFiles = {scan}
  ForceOcrFiles = {scan}
  Variants = {v}
  Clients = {c1, c2}
  Sizes = {1, 3}
  MaxSecond = 1
  max_total_bytes = 2
  max_entry_bytes = 2
  NoKey = NoKey
  NoText = NoText
SYMMETRY ClientSymmetry
INVARIANTS
  TotalIsExact
  ExtractionNotOlderThanKey

SPECIFICATION Spec
CONSTANTS
  Pdfs = {p}
  Jobs = {j1, j2}
  NoJob = NoJob
  NoPdf = NoPdf
  Offered = {"ocr", "as_stored"}
INVARIANTS
  RecordedTextIsPersisted
PROPERTIES
  IntakesEnd

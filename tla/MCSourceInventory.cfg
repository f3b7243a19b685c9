SPECIFICATION Spec
CONSTANTS
  scan = scan
  note = note
  Ids = {scan, note}
  KindOf <- MCKindOf
  Outcomes = {"missing", "unreadable", "good", "weak", "undecided"}
  Choices = {"layout_heavy"}
  Commands = {c1, c2}
  MaxWrites = 3
  NoSource = NoSource
  NoCopy = NoCopy
SYMMETRY Symmetry
INVARIANTS
  KeptCopyIsCurrent
  PlansMatchRoutes
  ReasonsExplainStatuses
PROPERTIES
  AnswersAreNotOld
CHECK_DEADLOCK FALSE
CONSTRAINT OneSource

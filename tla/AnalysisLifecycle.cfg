\* Two builds and one other command at a time: a build superseded by clears,
\* reloads and the other build, with room for one more generation after that.
SPECIFICATION Spec
CONSTANTS
  Builds = {b1, b2}
  Loads = {l1}
  NoBuild = NoBuild
  MaxVersion = 2
  MaxGeneration = 3
INVARIANTS
  ProgressIsCurrent
PROPERTIES
  BuildingEnds

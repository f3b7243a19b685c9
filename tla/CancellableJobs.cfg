\* Three concurrent invocations of a command that owns a cancellation slot.
\* No symmetry: liveness is checked.
SPECIFICATION Spec
CONSTANTS
  Jobs = {j1, j2, j3}
  NoJob = NoJob
PROPERTIES
  CancelReachesAll
  PromiseSpec

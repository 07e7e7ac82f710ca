SPECIFICATION Spec
CONSTANTS
  N = 3
  Saves = {a, b}
  Absent = Absent
  Fresh = Fresh
  Faults <- Truthful
  Lifecycle <- OperatorStops
INVARIANTS ServesWholeSet ErrorRestoresPrior
PROPERTIES AtomicReplacement

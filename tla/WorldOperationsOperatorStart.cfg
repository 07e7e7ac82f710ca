SPECIFICATION Spec
CONSTANTS
  Requests = {r1}
  Free = Free
  Faults <- None
  Lifecycle <- OperatorStarts
INVARIANT WholeArchives

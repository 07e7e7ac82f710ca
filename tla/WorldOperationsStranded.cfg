SPECIFICATION Spec
CONSTANTS
  Requests = {r1}
  Free = Free
  Faults <- SaveOffLostOnly
  Lifecycle <- None
INVARIANT SavesResumed

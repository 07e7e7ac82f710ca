SPECIFICATION Spec
CONSTANTS
  N = 2
  Saves = {a, b}
  Absent = Absent
  Fresh = Fresh
  Faults <- AsideReliable
  Lifecycle <- AnyLifecycle
INVARIANTS PriorKept

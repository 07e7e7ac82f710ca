SPECIFICATION Spec
CONSTANTS
  N = 2
  Saves = {a}
  Absent = Absent
  Fresh = Fresh
  Faults <- AsideOnly
  Lifecycle <- None
INVARIANT PriorKept

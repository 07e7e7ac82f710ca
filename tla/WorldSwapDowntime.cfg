SPECIFICATION FairSpec
CONSTANTS
  N = 2
  Saves = {a, b}
  Absent = Absent
  Fresh = Fresh
  Faults <- Recoverable
  Lifecycle <- None
PROPERTIES DowntimeEnds

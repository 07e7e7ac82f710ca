SPECIFICATION MCSpec
CONSTANTS
  Requests = {r1, r2, r3}
  Free = Free
  Faults <- Visible
  Lifecycle <- AnyLifecycle
  Visited = {"overview", "players"}
  MaxVersion = 1
INVARIANTS SavesResumed ConfirmedIsShown
PROPERTIES Answered ViewsCatchUp

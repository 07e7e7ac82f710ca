SPECIFICATION MCSpec
CONSTANTS
  Requests = {r1, r2, r3}
  Free = Free
  Faults <- FaultKinds
  Lifecycle <- None
  MaxIssued = 2
  MaxOpened = 2
  MaxRequests = 2
  Texts = {"a", "b"}
  RowFlags <- SomeRows
  Filters = {"all", "denied"}
  EventIds = {1, 2, 3}
  MaxTime = 1
  MaxLag = 1
  ExportPage = 1
  ExportRows = 2
  TrailPage = 1
  MaxPages = 3
SYMMETRY Symmetric
INVARIANTS WholeArchives SurfacesKeepApart OfferedIsServed LogReadWhole
INVARIANTS ActsAsShown SignedOutStaysOut
PROPERTIES DashboardStays AnswersStayHome

SPECIFICATION MCSpec
CONSTANTS
  Clients = {c1}
  Capacity = 2
  HistoryLimit = 2
  ClientLimit = 2
  Buffer = 1
  TailSize = 2
  MaxWrites = 6
  MaxRestarts = 1
  Slots = {1, 2}
  MaxAttempt = 7
  Commands = {"a", "b", "c"}
  RecallLimit = 2
  MaxActions = 8
INVARIANTS RingHoldsNewest NumbersFollowLog NoLineSkipped StreamAscends ViewIsNewest
INVARIANTS StreamWired RecallInRange
PROPERTIES RevokedStreamEnds LinesArePublished DialsAgain FieldKept

SPECIFICATION Spec
CONSTANTS
  Requests = {r1, r2}
  Ids = {b1}
  Nil = Nil
  Faults <- DeleteRowOnly
PROPERTY RefusedOnlyIfUnlisted

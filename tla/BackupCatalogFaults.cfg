SPECIFICATION MCSpec
CONSTANTS
  Requests = {r1, r2, r3}
  Ids = {b1, b2}
  Nil = Nil
  Faults <- FaultKinds
  Credentials = {"c1", "c2"}
  Environment = "environment's"
  Updates = {"u1", "u2"}
  Builds = {3, 4}
  Width = 4
  SafeTotal = 6
  Held = {0, 1, 3, 5, 7, 20}
  MaxEntries = 4
  Keys = {"k1", "k2"}
  Limit = 2
  MaxKeys = 1
  Window = 3
  MaxLate = 1
  MaxTick = 6
SYMMETRY Symmetric
INVARIANTS ReadsStoredArchive CatalogMatchesDisk
INVARIANTS CredentialsAgree SchemaServed ExtractionHonest AttemptsLimited
PROPERTIES StoredOnce StoredUntilDeleted

SPECIFICATION Spec
CONSTANTS
  Users = {u1, u2}
  Tokens = {t1, t2}
  Requests = {r1, r2}
  Roles = {"administrator"}
  Nobody = Nobody
SYMMETRY Symmetric
INVARIANTS ActiveOwnerExists
PROPERTIES DisabledLockedOut AccountsChangedByOwners NoPromotionOfDisabled

\* A callback while somebody registers, or logs in for the first time.
CONSTANTS
  Workers = {w1, w2}
  Users = {u1, u2}
  Identities = {i1}
  Addresses = {a1}
  BadAnswers = FALSE
  None = None
SPECIFICATION Spec
SYMMETRY Symmetry
INVARIANT CallbackRedirects
CHECK_DEADLOCK FALSE

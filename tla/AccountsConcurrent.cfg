\* Two requests at a time, two identities, two addresses.
CONSTANTS
  Workers = {w1, w2}
  Users = {u1, u2, u3}
  Identities = {i1, i2}
  Addresses = {a1, a2}
  BadAnswers = TRUE
  None = None
SPECIFICATION Spec
SYMMETRY Symmetry
INVARIANTS
  TypeOK
  OneAccountPerAddress
  SameUserEveryTime
  NoStrandedAccount
PROPERTY ImplementsDirectory
CHECK_DEADLOCK FALSE

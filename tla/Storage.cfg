\* Two uploads at a time, up to three photos, four files, on either backend.
CONSTANTS
  Workers = {w1, w2}
  Keys = {k1, k2, k3, k4}
  MaxImages = 3
  None = None
SPECIFICATION Spec
SYMMETRY Symmetry
INVARIANTS
  TypeOK
  GivenAreStored
  CopiesAreTemporary
  RejectedLeaveNothing
CHECK_DEADLOCK FALSE

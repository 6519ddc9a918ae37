\* Two resets with the same link at the same time.
CONSTANTS
  Workers = {w1, w2}
  Tokens = {t1, t2}
  Links = {l1, l2}
  None = None
SPECIFICATION Spec
SYMMETRY Symmetry
INVARIANT LinkForOneUse
CHECK_DEADLOCK FALSE

\* Two requests at a time; some properties speak of behaviours with one at a time.
CONSTANTS
  Workers = {w1, w2}
  Tokens = {t1, t2}
  Links = {l1, l2}
  None = None
SPECIFICATION Spec
SYMMETRY Symmetry
INVARIANTS
  TypeOK
  SessionsEndWithLogout
  SpentLinks
  OneLinkInTurn
  LinkForOneUseInTurn
  SessionsEndWithReset
  ReplacedTokensAreGone
  OnlyRacesFail
PROPERTY ReplacedLinksAreDead
CHECK_DEADLOCK FALSE

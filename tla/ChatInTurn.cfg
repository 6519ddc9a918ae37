\* Bounded identities: once every announcement is deleted, nothing is left to do.
\* Two announcements at work at the same time, each with one request at a time.
CONSTANTS
  Workers = {w1, w2}
  Ids = {a1, a2}
  Pipelines = {p1, p2}
  MaxTurns = 2
  Replies <- MCAllReplies
  Titles = {t1}
  CopyTitle = copy
  Covers = {c1}
  Notices = {n1}
  Requests <- InTurnRequests
  None = None
SPECIFICATION InTurnSpec
SYMMETRY Symmetry
INVARIANTS
  SlotsFollowPipeline
  DraftFollowsSlots
  TitlesAgree
  CoverFollowsPhotos
CHECK_DEADLOCK FALSE

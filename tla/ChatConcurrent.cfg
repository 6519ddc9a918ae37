\* Two handlers in flight: on one announcement, the owner chatting, editing and deleting at
\* once; on an announcement and its duplicate, platform variants against voice and edits.
CONSTANTS
  Workers = {w1, w2}
  Ids = {a1, a2}
  Pipelines = {p1, p2}
  MaxTurns = 2
  Replies <- MCReplies
  Titles = {t1}
  CopyTitle = copy
  Covers = {c1}
  Notices = {n1}
  Requests <- ConcurrentRequests
  None = None
SPECIFICATION Spec
SYMMETRY Symmetry
CONSTRAINT TalkingOrReviewing
INVARIANTS
  TypeOK
  ReferencesHold
  DraftReadyHasDraft
  HandlersConsistent
  RowsReviewed
PROPERTY ImplementsLifecycle
CHECK_DEADLOCK FALSE
\* Bounded identities: once every announcement is deleted, nothing is left to do.

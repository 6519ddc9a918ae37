\* A text answer and a voice memo on the same session at the same time.
CONSTANTS
  Workers = {w1, w2}
  Ids = {a1}
  Pipelines = {p1, p2}
  MaxTurns = 2
  Replies <- MCReplies
  Titles = {}
  CopyTitle = copy
  Covers = {c1, c2}
  Notices = {n1}
  Requests <- TalkRequests
  None = None
SPECIFICATION Spec
INVARIANT DraftFollowsSlots
CHECK_DEADLOCK FALSE

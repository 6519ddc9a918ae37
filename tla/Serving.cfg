\* Three requests of one chat and a pool of three connections, which those of other chats use too.
CONSTANTS
  Requests = {r1, r2, r3}
  PoolSize = 3
  None = None
SPECIFICATION FairSpec
INVARIANTS
  TypeOK
  NoLockCycle
  CallsHoldUpOnlyDeletions
PROPERTY RequestsFinish
CHECK_DEADLOCK FALSE

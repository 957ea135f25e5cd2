\* Two processors; a conversation after two that met in the kernel, or two lists
\* while a tunnel begins or ends.
SPECIFICATION FairSpec
CONSTANTS
  Threads = {w1, w2}
  Cpus = 2
  Rounds = 2
  MaxTalks = 2
  Nobody = Nobody
  Bodies <- MCBodies
  Operators = {o1, o2}
  Users = {1, 2, 3}
  PAGE = 2
  PoolSize = 3
  Tables <- MCTables
  MaxChanges = 1
  MaxEvents = 3
CHECK_DEADLOCK FALSE
INVARIANTS OwnReply ListingRight
PROPERTIES TalksEnd TalkSpec

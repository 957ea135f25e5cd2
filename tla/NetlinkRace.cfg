\* Two processors: a request may enter the kernel while another is handled.
SPECIFICATION Spec
CONSTANTS
  Threads = {w1, w2}
  Cpus = 2
  Rounds = 2
  MaxTalks = 2
  Nobody = Nobody
  Bodies <- MCBodies
  Operators = {o1, o2}
  Users = {1, 2, 3}
  PAGE = 2
  PoolSize = 3
  Tables <- MCTables
  MaxChanges = 0
  MaxEvents = 2
CHECK_DEADLOCK FALSE
INVARIANTS ToEachThread

\* Two workers at most, of three identities; waits may time out and threads may
\* fail to be created.  The system stops when all jobs are done.
SPECIFICATION FairSpec
CONSTANTS
  Threads = {w1, w2, w3}
  thr_max = 2
  MaxJobs = 4
  TimeOuts = TRUE
  CreateFails = TRUE
CHECK_DEADLOCK FALSE
INVARIANTS CountsAgree FreedLast NoLostWakeup
PROPERTIES EveryJobServed DestroyReturns

\* Two workers, two clients with one request at a time each, two blocks, four
\* requests, one end of the daemon.  A lifetime is four periods of the timer.
SPECIFICATION FairBindingSpec
CONSTANTS
  Clients = {c1, c2}
  Blocks = {b1, b2}
  Lives = {}
  SuccessLife = 4
  Quarter = 1
  LifeMod = 8
  MaxSize = 2
  None = None
  Workers = {w1, w2}
  Operators = {}
  Retransmit = FALSE
  MaxRequests = 4
  MaxEnds = 1
INVARIANTS BooksBalance OneTunnelPerClient LifetimesHold AnswerIsBound AnswerAgrees
PROPERTIES EverythingReclaimed

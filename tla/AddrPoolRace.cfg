\* Two threads in the pool at once, as two PCP workers are.
SPECIFICATION Spec
CONSTANTS
  NumAddrs = 1
  NumBits = 6
  PortRange = 2
  Clients = {c1, c2}
  NoLease = NoLease
  Threads = {t1, t2}
INVARIANTS NoSharedPorts

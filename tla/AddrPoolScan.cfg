\* One thread: the loop has the effect AddrPool states, and ends.
SPECIFICATION FairSpec
CONSTANTS
  NumAddrs = 2
  NumBits = 6
  PortRange = 2
  Clients = {c1, c2, c3, c4, c5}
  NoLease = NoLease
  Threads = {t1}
PROPERTIES ImplementsAddrPool AllocReturns

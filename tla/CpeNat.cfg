SPECIFICATION Spec
CONSTANTS
  TcpFlows = {t1, t2}
  UdpFlows = {u1}
  IcmpFlows = {i1}
  Ranges <- MCRanges
  NoSession = NoSession
  MaxEchoes = 2
  MaxFaults = 1
  MaxRenewals = 1
INVARIANTS PortsExclusive PortsInRange BooksBalance NoFalseRefusal
SYMMETRY MCSymmetry

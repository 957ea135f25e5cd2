\* Two addresses of three blocks of two bits: the last block crosses the
\* boundary, so four blocks for five clients: the pool fills up.
SPECIFICATION Spec
CONSTANTS
  NumAddrs = 2
  NumBits = 6
  PortRange = 2
  Clients = {c1, c2, c3, c4, c5}
  NoLease = NoLease
SYMMETRY Symmetry
INVARIANTS NoSharedPorts BitsAgree SecondRefusalMeansFull
PROPERTIES Implements

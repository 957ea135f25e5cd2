\* An operator besides a worker: static tunnels the pool knows nothing of, and
\* requests for one client that overlap; trees that two tunnels fill.
SPECIFICATION BindingSpec
CONSTANTS
  Clients = {c1, c2}
  Blocks = {b1, b2, b3}
  Lives = {2, 3}
  SuccessLife = 4
  Quarter = 2
  LifeMod = 8
  MaxSize = 2
  None = None
  Workers = {w1}
  Operators = {op}
  Retransmit = TRUE
  MaxRequests = 3
  MaxEnds = 1
SYMMETRY Symmetry
INVARIANTS NoDanglingEntry
PROPERTIES NoTakeover ImplementsTable

--------------------------- MODULE AddrPool_proofs ---------------------------
(***************************************************************************)
(* Theorems about AddrPool for every number of addresses, every bitmap     *)
(* size, every block size that divides it and every set of clients.        *)
(***************************************************************************)
EXTENDS AddrPool, Integers, TLAPS

\* Multiples of n keep a distance of n: what makes blocks disjoint or equal.
LEMMA Multiples ==
  ASSUME NEW n \in Nat \ {0}, NEW x \in Nat, NEW m \in Nat,
         x % n = 0, m % n = 0, x < m
  PROVE  x + n <= m
<1>1. x = n * (x \div n) /\ m = n * (m \div n)
  BY SMT
<1>2. x \div n \in Int /\ m \div n \in Int
  BY SMT
<1>3. x \div n < m \div n
  BY <1>1, <1>2, SMT
<1>4. n * (x \div n) + n <= n * (m \div n)
  BY <1>2, <1>3, SMT
<1> QED
  BY <1>1, <1>4

\* A block lies inside the bitmap.
LEMMA BlockFits ==
  ASSUME NEW b \in Starts
  PROVE  b \in Nat /\ b + PortRange <= NumBits /\ Bits(b) \subseteq 0 .. NumBits - 1
<1>1. /\ PortRange \in Nat \ {0} /\ NumBits \in Nat /\ NumBits % PortRange = 0
      /\ b \in Nat /\ b < NumBits /\ b % PortRange = 0
  BY PoolAssumption DEF Starts
<1>2. b + PortRange <= NumBits
  BY <1>1, Multiples
<1> QED
  BY <1>1, <1>2 DEF Bits

\* Two blocks of one address that share a bit are the same block.
LEMMA BlocksDisjoint ==
  ASSUME NEW a \in Starts, NEW b \in Starts, Bits(a) \cap Bits(b) # {}
  PROVE  a = b
<1>1. /\ PortRange \in Nat \ {0}
      /\ a \in Nat /\ a % PortRange = 0
      /\ b \in Nat /\ b % PortRange = 0
  BY PoolAssumption DEF Starts
<1>2. ASSUME a < b
      PROVE  FALSE
  <2>1. a + PortRange <= b
    BY <1>1, <1>2, Multiples
  <2> QED
    BY <1>1, <2>1 DEF Bits
<1>3. ASSUME b < a
      PROVE  FALSE
  <2>1. b + PortRange <= a
    BY <1>1, <1>3, Multiples
  <2> QED
    BY <1>1, <2>1 DEF Bits
<1> QED
  BY <1>1, <1>2, <1>3

\* The last block of an address is a block.
LEMMA LastBlock == NumBits - PortRange \in Starts
<1>1. /\ NumBits \in Nat /\ PortRange \in Nat \ {0} /\ PortRange <= NumBits
      /\ NumBits % PortRange = 0
  BY PoolAssumption
<1>2. (NumBits - PortRange) % PortRange = 0
  <2>1. NumBits = PortRange * (NumBits \div PortRange) /\ NumBits \div PortRange \in Int
    BY <1>1, SMT
  <2>2. PICK k \in Int : NumBits - PortRange = PortRange * k
    <3>1. NumBits - PortRange = PortRange * ((NumBits \div PortRange) - 1)
      BY <1>1, <2>1, SMT
    <3> QED
      BY <2>1, <3>1
  <2>3. (PortRange * k) % PortRange = 0
    BY <1>1, SMT
  <2> QED
    BY <2>2, <2>3
<1> QED
  BY <1>1, <1>2 DEF Starts

\* A block that AllocAddrPort rejects at the boundary is the last one.
LEMMA BoundaryIsLast ==
  ASSUME NEW b \in Starts, OverBoundary(b)
  PROVE  b + PortRange = NumBits
<1>1. b \in Nat /\ b + PortRange <= NumBits
  BY BlockFits
<1>2. CASE b + PortRange < NumBits
  <2>1. StopPort(b) = b + PortRange /\ StartPort(b) = b + 1
    BY <1>1, <1>2, PoolAssumption DEF StopPort, StartPort
  <2> QED
    BY <2>1, <1>1, PoolAssumption DEF OverBoundary
<1> QED
  BY <1>1, <1>2, PoolAssumption

\* Bits burnt at the boundary are among the last PortRange bits of an address.
LEMMA BurntBits ==
  ASSUME NEW i \in Nodes, NEW r
  PROVE  /\ Burnt(i, r) \subseteq NumBits - PortRange .. NumBits - 1
         /\ Burnt(i, r) \cap bitmap[i] = {}
<1> SUFFICES ASSUME NEW x \in Burnt(i, r)
             PROVE  x \in NumBits - PortRange .. NumBits - 1 /\ x \notin bitmap[i]
  OBVIOUS
<1>1. PICK q \in Blocks : /\ x \in Bits(q[2]) /\ q[1] = i
                          /\ portrange_test(q) /\ OverBoundary(q[2])
  BY DEF Burnt
<1>2. q[2] \in Starts
  BY DEF Blocks
<1>3. q[2] + PortRange = NumBits /\ q[2] \in Nat
  BY <1>1, <1>2, BoundaryIsLast, BlockFits
<1>4. x \in NumBits - PortRange .. NumBits - 1
  BY <1>1, <1>3, PoolAssumption DEF Bits
<1>5. x \notin bitmap[i]
  BY <1>1 DEF portrange_test
<1> QED
  BY <1>4, <1>5

\* A release clears bits of the released block only.
LEMMA ReleasedWithin ==
  ASSUME NEW p \in Blocks
  PROVE  ReleasedBits(p) \subseteq Bits(p[2])
<1>1. p[2] \in Starts
  BY DEF Blocks
<1>2. p[2] \in Nat /\ p[2] + PortRange <= NumBits
  BY <1>1, BlockFits
<1>3. CASE p[2] + 1 < NumBits
  BY <1>2, <1>3, PoolAssumption DEF ReleasedBits, StartPort, Bits
<1>4. CASE p[2] + 1 = NumBits
  BY <1>2, <1>4, PoolAssumption DEF ReleasedBits, StartPort
<1> QED
  BY <1>2, <1>3, <1>4, PoolAssumption

-----------------------------------------------------------------------------
\* Spec keeps every variable of the pool in its type: no bit outside the
\* bitmap is set by portrange_set, no cursor passes the end.
THEOREM TypeCorrect == Spec => []TypeOK
<1>1. InitAddrPool => TypeOK
  BY PoolAssumption DEF InitAddrPool, TypeOK
<1>2. TypeOK /\ [Next]_vars => TypeOK'
  <2> SUFFICES ASSUME TypeOK, [Next]_vars
               PROVE  TypeOK'
    OBVIOUS
  <2>1. ASSUME NEW c \in Clients, AllocAddrPort(c)
        PROVE  TypeOK'
    <3>1. PICK p \in Blocks :
            /\ bitmap' = [i \in Nodes |-> bitmap[i] \cup Burnt(i, ScanRank(p))
                                     \cup (IF i = p[1] THEN Bits(p[2]) ELSE {})]
            /\ validbit' = [i \in Nodes |->
                 CASE i = p[1] -> p[2] + PortRange
                   [] i # p[1] /\ (i + 1) * NumBits <= ScanRank(p) -> 0
                   [] OTHER -> validbit[i]]
            /\ lease' = [lease EXCEPT ![c] = p]
      BY <2>1 DEF AllocAddrPort
    <3>2. p[2] \in Starts /\ p[1] \in Nodes
      BY DEF Blocks
    <3>3. bitmap' \in [Nodes -> SUBSET (0 .. NumBits - 1)]
      <4> SUFFICES ASSUME NEW i \in Nodes
                   PROVE  bitmap[i] \cup Burnt(i, ScanRank(p))
                            \cup (IF i = p[1] THEN Bits(p[2]) ELSE {})
                          \subseteq 0 .. NumBits - 1
        BY <3>1
      <4>1. bitmap[i] \subseteq 0 .. NumBits - 1
        BY DEF TypeOK
      <4>2. Burnt(i, ScanRank(p)) \subseteq 0 .. NumBits - 1
        BY BurntBits, PoolAssumption
      <4>3. Bits(p[2]) \subseteq 0 .. NumBits - 1
        BY <3>2, BlockFits
      <4> QED
        BY <4>1, <4>2, <4>3
    <3>4. validbit' \in [Nodes -> 0 .. NumBits]
      <4>1. p[2] + PortRange \in 0 .. NumBits
        BY <3>2, BlockFits, PoolAssumption
      <4> QED
        BY <3>1, <4>1, PoolAssumption DEF TypeOK
    <3> QED
      BY <3>1, <3>3, <3>4, <2>1 DEF TypeOK, AllocAddrPort
  <2>2. ASSUME NEW c \in Clients, AllocFails(c)
        PROVE  TypeOK'
    <3>1. bitmap' \in [Nodes -> SUBSET (0 .. NumBits - 1)]
      <4> SUFFICES ASSUME NEW i \in Nodes
                   PROVE  bitmap[i] \cup Burnt(i, ScanEnd) \subseteq 0 .. NumBits - 1
        BY <2>2 DEF AllocFails
      <4>1. bitmap[i] \subseteq 0 .. NumBits - 1
        BY DEF TypeOK
      <4>2. Burnt(i, ScanEnd) \subseteq 0 .. NumBits - 1
        BY BurntBits, PoolAssumption
      <4> QED
        BY <4>1, <4>2
    <3>2. validbit' \in [Nodes -> 0 .. NumBits]
      BY <2>2, PoolAssumption DEF AllocFails, TypeOK
    <3> QED
      BY <2>2, <3>1, <3>2 DEF AllocFails, TypeOK
  <2>3. ASSUME NEW c \in Clients, DeallocAddrPort(c)
        PROVE  TypeOK'
    <3>1. bitmap' \in [Nodes -> SUBSET (0 .. NumBits - 1)]
      BY <2>3 DEF DeallocAddrPort, TypeOK
    <3>2. lease' \in [Clients -> Blocks \cup {NoLease}]
      BY <2>3 DEF DeallocAddrPort, TypeOK
    <3> QED
      BY <2>3, <3>1, <3>2 DEF DeallocAddrPort, TypeOK
  <2>4. CASE UNCHANGED vars
    BY <2>4 DEF vars, TypeOK
  <2> QED
    BY <2>1, <2>2, <2>3, <2>4 DEF Next
<1> QED
  BY <1>1, <1>2, PTL DEF Spec

-----------------------------------------------------------------------------
\* The two halves of the inductive invariant of the leases: what is leased is
\* marked, and no ports are leased twice.
LeaseInv == TypeOK /\ LeasesMarked /\ NoSharedPorts

LEMMA LeaseStep == LeaseInv /\ TypeOK' /\ [Next]_vars => (LeasesMarked /\ NoSharedPorts)'
<1> SUFFICES ASSUME LeaseInv, TypeOK', [Next]_vars
             PROVE  LeasesMarked' /\ NoSharedPorts'
  OBVIOUS
<1>1. ASSUME NEW c \in Clients, AllocAddrPort(c)
      PROVE  LeasesMarked' /\ NoSharedPorts'
  <2>1. PICK p \in Blocks :
          /\ portrange_test(p)
          /\ bitmap' = [i \in Nodes |-> bitmap[i] \cup Burnt(i, ScanRank(p))
                                     \cup (IF i = p[1] THEN Bits(p[2]) ELSE {})]
          /\ lease' = [lease EXCEPT ![c] = p]
    BY <1>1 DEF AllocAddrPort, FirstFit, Usable
  <2>2. \A i \in Nodes : bitmap[i] \subseteq bitmap'[i]
    BY <2>1
  <2>3. p[1] \in Nodes /\ Bits(p[2]) \subseteq bitmap'[p[1]]
    BY <2>1 DEF Blocks
  <2>4. \A d \in Clients : lease'[d] = IF d = c THEN p ELSE lease[d]
    BY <2>1 DEF LeaseInv, TypeOK
  <2>5. \A d \in Clients : lease[d] # NoLease => lease[d][1] \in Nodes
    BY DEF LeaseInv, TypeOK, Blocks
  <2>6. LeasesMarked'
    BY <2>2, <2>3, <2>4, <2>5 DEF LeaseInv, LeasesMarked
  <2>7. \A d \in Clients : d # c /\ lease[d] # NoLease /\ lease[d][1] = p[1]
                           => Bits(lease[d][2]) \cap Bits(p[2]) = {}
    BY <2>1 DEF LeaseInv, LeasesMarked, portrange_test
  <2>8. NoSharedPorts'
    BY <2>4, <2>7 DEF LeaseInv, NoSharedPorts
  <2> QED
    BY <2>6, <2>8
<1>2. ASSUME NEW c \in Clients, AllocFails(c)
      PROVE  LeasesMarked' /\ NoSharedPorts'
  <2>1. \A i \in Nodes : bitmap[i] \subseteq bitmap'[i]
    BY <1>2 DEF AllocFails
  <2>2. \A d \in Clients : lease[d] # NoLease => lease[d][1] \in Nodes
    BY DEF LeaseInv, TypeOK, Blocks
  <2>3. lease' = lease
    BY <1>2 DEF AllocFails
  <2> QED
    BY <2>1, <2>2, <2>3 DEF LeaseInv, LeasesMarked, NoSharedPorts
<1>3. ASSUME NEW c \in Clients, DeallocAddrPort(c)
      PROVE  LeasesMarked' /\ NoSharedPorts'
  <2>1. \A d \in Clients : lease'[d] = IF d = c THEN NoLease ELSE lease[d]
    BY <1>3 DEF DeallocAddrPort, LeaseInv, TypeOK
  <2>2. lease[c] \in Blocks /\ lease[c][1] \in Nodes
    BY <1>3 DEF DeallocAddrPort, LeaseInv, TypeOK, Blocks
  <2>3. \A i \in Nodes : bitmap'[i] = IF i = lease[c][1]
                                      THEN bitmap[i] \ ReleasedBits(lease[c]) ELSE bitmap[i]
    BY <1>3, <2>2 DEF DeallocAddrPort, LeaseInv, TypeOK
  <2>4. ASSUME NEW d \in Clients, d # c, lease[d] # NoLease
        PROVE  Bits(lease[d][2]) \subseteq bitmap'[lease[d][1]]
    <3>1. lease[d][1] \in Nodes /\ Bits(lease[d][2]) \subseteq bitmap[lease[d][1]]
      BY <2>4 DEF LeaseInv, TypeOK, Blocks, LeasesMarked
    <3>2. CASE lease[d][1] # lease[c][1]
      BY <3>1, <3>2, <2>3
    <3>3. CASE lease[d][1] = lease[c][1]
      <4>1. Bits(lease[d][2]) \cap Bits(lease[c][2]) = {}
        BY <3>3, <2>4, <1>3 DEF LeaseInv, NoSharedPorts, DeallocAddrPort
      <4>2. ReleasedBits(lease[c]) \subseteq Bits(lease[c][2])
        BY <2>2, ReleasedWithin
      <4> QED
        BY <3>1, <3>3, <4>1, <4>2, <2>3
    <3> QED
      BY <3>2, <3>3
  <2>5. LeasesMarked'
    BY <2>1, <2>4 DEF LeasesMarked
  <2>6. NoSharedPorts'
    BY <2>1 DEF LeaseInv, NoSharedPorts
  <2> QED
    BY <2>5, <2>6
<1>4. CASE UNCHANGED vars
  BY <1>4 DEF vars, LeaseInv, LeasesMarked, NoSharedPorts
<1> QED
  BY <1>1, <1>2, <1>3, <1>4 DEF Next

\* No port is leased to two clients, for any pool and any run of allocations
\* and releases (portrange_test, portrange_set and DeallocAddrPort).
THEOREM NoPortLeasedTwice == Spec => []NoSharedPorts
<1>1. InitAddrPool => LeasesMarked /\ NoSharedPorts
  BY DEF InitAddrPool, LeasesMarked, NoSharedPorts
<1>2. (TypeOK /\ LeasesMarked /\ NoSharedPorts) /\ TypeOK' /\ [Next]_vars
      => (LeasesMarked /\ NoSharedPorts)'
  BY LeaseStep DEF LeaseInv
<1> QED
  BY <1>1, <1>2, TypeCorrect, PTL DEF Spec

\* The marks of a lease stay until its holder returns it.
THEOREM LeasesStayMarked == Spec => []LeasesMarked
<1>1. InitAddrPool => LeasesMarked /\ NoSharedPorts
  BY DEF InitAddrPool, LeasesMarked, NoSharedPorts
<1>2. (TypeOK /\ LeasesMarked /\ NoSharedPorts) /\ TypeOK' /\ [Next]_vars
      => (LeasesMarked /\ NoSharedPorts)'
  BY LeaseStep DEF LeaseInv
<1> QED
  BY <1>1, <1>2, TypeCorrect, PTL DEF Spec

-----------------------------------------------------------------------------
\* What a release does not clear is the last bit of its address.
LEMMA ReleaseClears ==
  ASSUME NEW p \in Blocks, NEW x \in Bits(p[2]) \ ReleasedBits(p)
  PROVE  x >= NumBits - PortRange
<1>1. p[2] \in Starts
  BY DEF Blocks
<1>2. p[2] \in Nat /\ p[2] + PortRange <= NumBits /\ PortRange \in Nat \ {0} /\ NumBits \in Nat
  BY <1>1, BlockFits, PoolAssumption
<1>3. CASE p[2] + 1 < NumBits
  BY <1>2, <1>3 DEF ReleasedBits, StartPort, Bits
<1>4. CASE p[2] + 1 = NumBits
  BY <1>2, <1>4 DEF Bits
<1> QED
  BY <1>2, <1>3, <1>4

\* A port is either free, leased, or in the last block of its address: no
\* sequence of calls loses any other port (Burnt, ReleasedBits).
THEOREM NoPortLost == Spec => []NoLostPorts
<1>1. InitAddrPool => NoLostPorts
  BY DEF InitAddrPool, NoLostPorts
<1>2. TypeOK /\ NoLostPorts /\ [Next]_vars => NoLostPorts'
  <2> SUFFICES ASSUME TypeOK, NoLostPorts, [Next]_vars,
                      NEW i \in Nodes, NEW x \in bitmap'[i]
               PROVE  \/ x >= NumBits - PortRange
                      \/ \E c \in Clients : lease'[c] # NoLease /\ lease'[c][1] = i
                                            /\ x \in Bits(lease'[c][2])
    BY DEF NoLostPorts
  <2>1. ASSUME NEW c \in Clients, AllocAddrPort(c)
        PROVE  \/ x >= NumBits - PortRange
               \/ \E d \in Clients : lease'[d] # NoLease /\ lease'[d][1] = i
                                     /\ x \in Bits(lease'[d][2])
    <3>1. PICK p \in Blocks :
            /\ bitmap' = [j \in Nodes |-> bitmap[j] \cup Burnt(j, ScanRank(p))
                                     \cup (IF j = p[1] THEN Bits(p[2]) ELSE {})]
            /\ lease' = [lease EXCEPT ![c] = p]
      BY <2>1 DEF AllocAddrPort
    <3>2. lease[c] = NoLease
      BY <2>1 DEF AllocAddrPort
    <3>3. \A d \in Clients : lease'[d] = IF d = c THEN p ELSE lease[d]
      BY <3>1 DEF TypeOK
    <3>4. x \in bitmap[i] \/ x \in Burnt(i, ScanRank(p)) \/ (i = p[1] /\ x \in Bits(p[2]))
      BY <3>1
    <3>5. CASE x \in bitmap[i]
      BY <3>2, <3>3, <3>5 DEF NoLostPorts
    <3>6. CASE x \in Burnt(i, ScanRank(p))
      BY <3>6, BurntBits, PoolAssumption
    <3>7. CASE i = p[1] /\ x \in Bits(p[2])
      BY <3>3, <3>7, LeaseAssumption
    <3> QED
      BY <3>4, <3>5, <3>6, <3>7
  <2>2. ASSUME NEW c \in Clients, AllocFails(c)
        PROVE  \/ x >= NumBits - PortRange
               \/ \E d \in Clients : lease'[d] # NoLease /\ lease'[d][1] = i
                                     /\ x \in Bits(lease'[d][2])
    <3>1. lease' = lease /\ (x \in bitmap[i] \/ x \in Burnt(i, ScanEnd))
      BY <2>2 DEF AllocFails
    <3>2. CASE x \in bitmap[i]
      BY <3>1, <3>2 DEF NoLostPorts
    <3>3. CASE x \in Burnt(i, ScanEnd)
      BY <3>3, BurntBits, PoolAssumption
    <3> QED
      BY <3>1, <3>2, <3>3
  <2>3. ASSUME NEW c \in Clients, DeallocAddrPort(c)
        PROVE  \/ x >= NumBits - PortRange
               \/ \E d \in Clients : lease'[d] # NoLease /\ lease'[d][1] = i
                                     /\ x \in Bits(lease'[d][2])
    <3>1. lease[c] \in Blocks /\ lease[c][1] \in Nodes
      BY <2>3 DEF DeallocAddrPort, TypeOK, Blocks
    <3>2. \A d \in Clients : lease'[d] = IF d = c THEN NoLease ELSE lease[d]
      BY <2>3 DEF DeallocAddrPort, TypeOK
    <3>3. bitmap'[i] = IF i = lease[c][1] THEN bitmap[i] \ ReleasedBits(lease[c]) ELSE bitmap[i]
      BY <2>3, <3>1 DEF DeallocAddrPort, TypeOK
    <3>4. x \in bitmap[i] /\ (i = lease[c][1] => x \notin ReleasedBits(lease[c]))
      BY <3>3
    <3>5. CASE i = lease[c][1] /\ x \in Bits(lease[c][2])
      BY <3>1, <3>4, <3>5, ReleaseClears
    <3>6. CASE ~(i = lease[c][1] /\ x \in Bits(lease[c][2]))
      BY <3>2, <3>4, <3>6 DEF NoLostPorts
    <3> QED
      BY <3>5, <3>6
  <2>4. CASE UNCHANGED vars
    BY <2>4 DEF vars, NoLostPorts
  <2> QED
    BY <2>1, <2>2, <2>3, <2>4 DEF Next
<1> QED
  BY <1>1, <1>2, TypeCorrect, PTL DEF Spec

\* Bits and leases say the same, for every number of addresses, bits and clients,
\* and every size of a block (portrange_set, DeallocAddrPort).
THEOREM BitsAlwaysAgree == Spec => []BitsAgree
  BY LeasesStayMarked, NoPortLost, PTL DEF BitsAgree

-----------------------------------------------------------------------------
\* A failed call leaves every cursor but the header's at the start.
CursorsReset == fails > 0 => \A i \in Nodes \ {Header} : validbit[i] = 0

LEMMA RefusalStep ==
  TypeOK /\ CursorsReset /\ SecondRefusalMeansFull /\ [Next]_vars
  => (CursorsReset /\ SecondRefusalMeansFull)'
<1> SUFFICES ASSUME TypeOK, CursorsReset, SecondRefusalMeansFull, [Next]_vars
             PROVE  CursorsReset' /\ SecondRefusalMeansFull'
  OBVIOUS
<1>1. ASSUME NEW c \in Clients, AllocAddrPort(c)
      PROVE  CursorsReset' /\ SecondRefusalMeansFull'
  BY <1>1 DEF AllocAddrPort, CursorsReset, SecondRefusalMeansFull
<1>2. ASSUME NEW c \in Clients, AllocFails(c)
      PROVE  CursorsReset' /\ SecondRefusalMeansFull'
  <2>1. CursorsReset'
    BY <1>2 DEF AllocFails, CursorsReset
  <2>2. \A i \in Nodes : bitmap[i] \subseteq bitmap'[i]
    BY <1>2 DEF AllocFails
  <2>3. ASSUME fails > 0, NEW p \in Blocks
        PROVE  OverBoundary(p[2]) \/ ~portrange_test(p)
    <3>1. p[1] \in Nodes /\ p[2] \in Nat
      BY BlockFits DEF Blocks
    <3>2. Scanned(p)
      BY <2>3, <3>1 DEF CursorsReset, Scanned
    <3> QED
      BY <1>2, <3>2 DEF AllocFails, Usable
  <2>4. SecondRefusalMeansFull'
    BY <1>2, <2>2, <2>3 DEF AllocFails, TypeOK, SecondRefusalMeansFull, portrange_test, Blocks
  <2> QED
    BY <2>1, <2>4
<1>3. ASSUME NEW c \in Clients, DeallocAddrPort(c)
      PROVE  CursorsReset' /\ SecondRefusalMeansFull'
  BY <1>3 DEF DeallocAddrPort, CursorsReset, SecondRefusalMeansFull
<1>4. CASE UNCHANGED vars
  BY <1>4 DEF vars, CursorsReset, SecondRefusalMeansFull, portrange_test
<1> QED
  BY <1>1, <1>2, <1>3, <1>4 DEF Next

\* When AllocAddrPort fails twice running, no block of the pool is free,
\* because the first failure left every cursor where the second sees it all.
THEOREM SecondRefusalIsTrue == Spec => []SecondRefusalMeansFull
<1>1. InitAddrPool => CursorsReset /\ SecondRefusalMeansFull
  BY DEF InitAddrPool, CursorsReset, SecondRefusalMeansFull
<1> QED
  BY <1>1, RefusalStep, TypeCorrect, PTL DEF Spec

-----------------------------------------------------------------------------
\* The invariant under which a step of the pool is a step of its contract.
PoolInv == TypeOK /\ LeasesMarked /\ NoLostPorts /\ CursorsReset

LEMMA ContractStep ==
  ASSUME PortRange > 1, PoolInv, [Next]_vars
  PROVE  [Contract!Next]_(Contract!vars)
<1> USE DEF Contract!vars
<1>1. ASSUME NEW c \in Clients, AllocAddrPort(c)
      PROVE  Contract!Grant(c)
  <2>1. PICK p \in Blocks : /\ portrange_test(p) /\ ~OverBoundary(p[2])
                            /\ lease' = [lease EXCEPT ![c] = p]
    BY <1>1 DEF AllocAddrPort, FirstFit, Usable
  <2>2. p[2] \in Bits(p[2])
    <3>1. p[2] \in Starts
      BY DEF Blocks
    <3> QED
      BY <3>1, BlockFits, PoolAssumption DEF Bits
  <2>3. p \notin Contract!Leased
    BY <2>1, <2>2 DEF Contract!Leased, PoolInv, LeasesMarked, portrange_test
  <2> QED
    BY <1>1, <2>1, <2>3 DEF AllocAddrPort, Contract!Grant
<1>2. ASSUME NEW c \in Clients, AllocFails(c)
      PROVE  Contract!Refuse(c)
  <2>1. ASSUME fails > 0, NEW p \in Blocks, ~OverBoundary(p[2])
        PROVE  p \in Contract!Leased
    <3>1. p[1] \in Nodes /\ p[2] \in Starts
      BY DEF Blocks
    <3>2. /\ p[2] \in Nat /\ p[2] + PortRange <= NumBits
          /\ PortRange \in Nat /\ PortRange > 1 /\ NumBits \in Nat
      BY <3>1, BlockFits, PoolAssumption
    <3>3. Scanned(p)
      BY <2>1, <3>1, <3>2 DEF CursorsReset, Scanned, PoolInv
    <3>4. PICK x \in Bits(p[2]) : x \in bitmap[p[1]]
      BY <1>2, <2>1, <3>3 DEF AllocFails, Usable, portrange_test
    <3>5. p[2] + PortRange < NumBits
      <4>1. CASE p[2] + PortRange = NumBits
        <5>1. StopPort(p[2]) = 0 /\ StartPort(p[2]) = p[2] + 1
          BY <4>1, <3>2 DEF StopPort, StartPort
        <5> QED
          BY <5>1, <2>1, <3>2 DEF OverBoundary
      <4> QED
        BY <4>1, <3>2
    <3>6. NumBits - PortRange \in Starts
      BY PoolAssumption, LastBlock
    <3>7. x < NumBits - PortRange
      <4>1. p[2] % PortRange = 0 /\ (NumBits - PortRange) % PortRange = 0
        BY <3>1, <3>6 DEF Starts
      <4>2. p[2] + PortRange <= NumBits - PortRange
        BY <4>1, <3>2, <3>5, <3>6, Multiples DEF Starts
      <4> QED
        BY <4>2, <3>2 DEF Bits
    <3>8. PICK d \in Clients : lease[d] # NoLease /\ lease[d][1] = p[1] /\ x \in Bits(lease[d][2])
      BY <3>1, <3>2, <3>4, <3>7 DEF PoolInv, NoLostPorts, Bits
    <3>9. lease[d] \in Blocks /\ lease[d][2] \in Starts
      BY <3>8 DEF PoolInv, TypeOK, Blocks
    <3>10. lease[d][2] = p[2]
      BY <3>1, <3>4, <3>8, <3>9, BlocksDisjoint
    <3>11. lease[d] = p
      BY <3>8, <3>9, <3>10 DEF Blocks
    <3> QED
      BY <3>8, <3>11 DEF Contract!Leased
  <2> QED
    BY <1>2, <2>1 DEF AllocFails, Contract!Refuse
<1>3. ASSUME NEW c \in Clients, DeallocAddrPort(c)
      PROVE  Contract!Release(c)
  BY <1>3 DEF DeallocAddrPort, Contract!Release
<1>4. CASE UNCHANGED vars
  BY <1>4 DEF vars
<1> QED
  BY <1>1, <1>2, <1>3, <1>4 DEF Next, Contract!Next

\* With blocks of more than MINI_RANGE_VALUE ports the pool keeps its contract:
\* it grants what nobody holds and its second refusal is the truth.
THEOREM PoolKeepsContract == ASSUME PortRange > 1 PROVE Spec => Implements
<1>1. InitAddrPool => Contract!Init
  BY DEF InitAddrPool, Contract!Init
<1>2. PoolInv /\ [Next]_vars => [Contract!Next]_(Contract!vars)
  BY ContractStep
<1>3. InitAddrPool => CursorsReset /\ SecondRefusalMeansFull
  BY DEF InitAddrPool, CursorsReset, SecondRefusalMeansFull
<1>4. Spec => []PoolInv
  BY <1>3, TypeCorrect, LeasesStayMarked, NoPortLost, RefusalStep, SecondRefusalIsTrue, PTL DEF PoolInv, Spec
<1> QED
  BY <1>1, <1>2, <1>4, PTL DEF Spec, Implements, Contract!Spec
=============================================================================

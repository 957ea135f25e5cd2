------------------------- MODULE AddrPoolScan_proofs -------------------------
(***************************************************************************)
(* The loop of AllocAddrPort has, with one thread in it, the effect that   *)
(* AddrPool states in one step, for every number of addresses, every size  *)
(* of the bitmaps and every size of a block that divides it.               *)
(***************************************************************************)
EXTENDS AddrPoolScan, Integers, TLAPS

Starts == Pool!Starts
Blocks == Pool!Blocks
Bits(b) == Pool!Bits(b)
OverBoundary(b) == Pool!OverBoundary(b)

LEMMA Sizes ==
  /\ NumAddrs \in Nat \ {0} /\ NumBits \in Nat \ {0}
  /\ PortRange \in Nat \ {0} /\ PortRange <= NumBits /\ NumBits % PortRange = 0
  /\ Nodes = 0 .. NumAddrs - 1 /\ Header = 0 /\ Header \in Nodes
BY ScanAssumption DEF Nodes, Pool!Nodes, Header, Pool!Header

\* Multiples of n keep a distance of n, and their sums are multiples.
LEMMA Multiples ==
  ASSUME NEW n \in Nat \ {0}, NEW x \in Nat, NEW m \in Nat,
         x % n = 0, m % n = 0, x < m
  PROVE  x + n <= m
<1>1. x = n * (x \div n) /\ m = n * (m \div n)
  BY SMT
<1>2. x \div n \in Int /\ m \div n \in Int
  BY SMT
<1>3. x \div n < m \div n
  BY <1>1, <1>2, SMT
<1>4. n * (x \div n) + n <= n * (m \div n)
  BY <1>2, <1>3, SMT
<1> QED
  BY <1>1, <1>4

LEMMA Multiple ==
  ASSUME NEW n \in Nat \ {0}, NEW k \in Int
  PROVE  (n * k) % n = 0
OBVIOUS

LEMMA Ring ==
  ASSUME NEW n \in Nat \ {0}, NEW i \in 0 .. n - 1
  PROVE  (i + 1) % n = IF i + 1 = n THEN 0 ELSE i + 1
OBVIOUS

LEMMA NextMultiple ==
  ASSUME NEW n \in Nat \ {0}, NEW x \in Nat, x % n = 0
  PROVE  (x + n) % n = 0
<1>1. x = n * (x \div n) /\ x \div n \in Int
  BY SMT
<1>2. PICK k \in Int : k = (x \div n) + 1
  BY <1>1
<1>3. x + n = n * k
  BY <1>1, <1>2, SMT
<1> QED
  BY <1>3, Multiple

\* A block lies inside the bitmap, and two that share a bit are one.
LEMMA BlockFits ==
  ASSUME NEW b \in Starts
  PROVE  /\ b \in Nat /\ b % PortRange = 0 /\ b + PortRange <= NumBits
         /\ Bits(b) \subseteq 0 .. NumBits - 1
<1>1. b \in Nat /\ b < NumBits /\ b % PortRange = 0
  BY Sizes DEF Starts, Pool!Starts
<1>2. b + PortRange <= NumBits
  BY <1>1, Sizes, Multiples
<1> QED
  BY <1>1, <1>2, Sizes DEF Bits, Pool!Bits

LEMMA BlocksDisjoint ==
  ASSUME NEW a \in Starts, NEW b \in Starts, Bits(a) \cap Bits(b) # {}
  PROVE  a = b
<1>1. a \in Nat /\ a % PortRange = 0 /\ b \in Nat /\ b % PortRange = 0
  BY BlockFits
<1>2. ASSUME a < b
      PROVE  FALSE
  <2>1. a + PortRange <= b
    BY <1>1, <1>2, Sizes, Multiples
  <2> QED
    BY <1>1, <2>1, Sizes DEF Bits, Pool!Bits
<1>3. ASSUME b < a
      PROVE  FALSE
  <2>1. b + PortRange <= a
    BY <1>1, <1>3, Sizes, Multiples
  <2> QED
    BY <1>1, <2>1, Sizes DEF Bits, Pool!Bits
<1> QED
  BY <1>1, <1>2, <1>3

\* ScanRank orders by rounds first and by bits then.
LEMMA Lexicographic ==
  ASSUME NEW m \in Nat, NEW n \in Nat, NEW b \in 0 .. NumBits - 1, NEW v \in 0 .. NumBits - 1
  PROVE  /\ m * NumBits + b < n * NumBits + v <=> m < n \/ (m = n /\ b < v)
         /\ (m + 1) * NumBits <= n * NumBits + v <=> m < n
<1>0. NumBits \in Nat \ {0}
  BY Sizes
<1>1. CASE m < n
  <2>1. (m + 1) * NumBits <= n * NumBits
    BY <1>0, <1>1
  <2>2. (m + 1) * NumBits = m * NumBits + NumBits
    BY <1>0
  <2> QED
    BY <1>0, <1>1, <2>1, <2>2
<1>2. CASE m = n
  <2>1. (m + 1) * NumBits = m * NumBits + NumBits
    BY <1>0
  <2> QED
    BY <1>0, <1>2, <2>1
<1>3. CASE m > n
  <2>1. (n + 1) * NumBits <= m * NumBits
    BY <1>0, <1>3
  <2>2. (n + 1) * NumBits = n * NumBits + NumBits /\ (m + 1) * NumBits = m * NumBits + NumBits
    BY <1>0
  <2>3. m * NumBits \in Int /\ n * NumBits \in Int
    BY <1>0
  <2> QED
    BY <1>0, <1>3, <2>1, <2>2, <2>3
<1> QED
  BY <1>1, <1>2, <1>3

-----------------------------------------------------------------------------
(* The scan of one call, over the bitmaps B and the cursors V it began     *)
(* with.  It goes round the addresses; the header's blocks before its      *)
(* cursor come last, in a round of their own.                              *)
Bitmaps == [Nodes -> SUBSET (0 .. NumBits - 1)]
Cursors == {V \in [Nodes -> 0 .. NumBits] : \A i \in Nodes : V[i] % PortRange = 0}

Free(B, q) == Bits(q[2]) \cap B[q[1]] = {}
Seen(V, q) == q[1] = Header \/ q[2] >= V[q[1]]
Lap(V, q)  == IF q[1] = Header /\ q[2] < V[Header] THEN NumAddrs ELSE q[1]

(* The scan has passed block q when it is at bit v in round n.             *)
Past(V, q, n, v) == Lap(V, q) < n \/ (Lap(V, q) = n /\ q[2] < v)

Rejected(B, V, i, n, v) ==
  UNION {Bits(q[2]) : q \in {q \in Blocks :
    q[1] = i /\ Seen(V, q) /\ Free(B, q) /\ OverBoundary(q[2]) /\ Past(V, q, n, v)}}

(* A place in the scan, and the bitmaps bm and cursors vb that fit it: what *)
(* was passed was busy, or crosses the boundary and is marked.  Besides,   *)
(* the bits X of address i are marked.                                     *)
Place(V, i, n, v) ==
  /\ i \in Nodes /\ v \in Nat /\ v % PortRange = 0
  /\ \/ n = i /\ v >= V[i]
     \/ n = NumAddrs /\ i = Header /\ v <= V[Header]

ScanAt(bm, vb, B, V, i, n, v, X) ==
  /\ Place(V, i, n, v)
  /\ bm = [j \in Nodes |-> B[j] \cup Rejected(B, V, j, n, v) \cup (IF j = i THEN X ELSE {})]
  /\ vb = [j \in Nodes |-> IF j = i THEN v ELSE IF j < n THEN 0 ELSE V[j]]
  /\ \A q \in Blocks : Seen(V, q) /\ Free(B, q) /\ Past(V, q, n, v) => OverBoundary(q[2])

LEMMA BlockIs ==
  ASSUME NEW q \in Blocks
  PROVE  q[1] \in Nodes /\ q[2] \in Starts /\ q = <<q[1], q[2]>>
BY DEF Blocks, Pool!Blocks, Nodes, Starts

LEMMA BlockAt ==
  ASSUME NEW i \in Nodes, NEW v \in Nat, v % PortRange = 0, v < NumBits
  PROVE  v \in Starts /\ <<i, v>> \in Blocks
BY Sizes DEF Blocks, Pool!Blocks, Nodes, Starts, Pool!Starts

\* The block the scan is at is seen, has not been passed, and is the next to be.
LEMMA Between ==
  ASSUME NEW V \in Cursors, NEW i, NEW n, NEW v, Place(V, i, n, v),
         v < NumBits, n = NumAddrs => v < V[Header]
  PROVE  /\ Lap(V, <<i, v>>) = n /\ Seen(V, <<i, v>>) /\ ~ Past(V, <<i, v>>, n, v)
         /\ \A q \in Blocks : Past(V, q, n, v + PortRange) <=> Past(V, q, n, v) \/ q = <<i, v>>
<1>0. /\ i \in Nodes /\ v \in Nat /\ n \in Nat /\ V \in [Nodes -> 0 .. NumBits]
      /\ n = NumAddrs \/ (n = i /\ n < NumAddrs)
  BY Sizes DEF Place, Cursors
<1>1. Lap(V, <<i, v>>) = n /\ Seen(V, <<i, v>>)
  BY <1>0, Sizes DEF Place, Lap, Seen
<1>2. ~ Past(V, <<i, v>>, n, v)
  BY <1>0, <1>1 DEF Past
<1>3. ASSUME NEW q \in Blocks
      PROVE  Past(V, q, n, v + PortRange) <=> Past(V, q, n, v) \/ q = <<i, v>>
  <2>1. q[1] \in Nodes /\ q[2] \in Nat /\ q[2] % PortRange = 0 /\ q = <<q[1], q[2]>>
    BY BlockIs, BlockFits
  <2>2. Lap(V, q) = n => q[1] = i
    BY <1>0, <2>1, Sizes DEF Place, Lap
  <2>3. q[2] < v + PortRange => q[2] < v \/ q[2] = v
    <3>1. v \in Nat /\ v % PortRange = 0 /\ PortRange \in Nat \ {0}
      BY Sizes DEF Place
    <3>2. v < q[2] => v + PortRange <= q[2]
      BY <2>1, <3>1, Multiples
    <3> QED
      BY <2>1, <3>1, <3>2
  <2>4. Lap(V, q) \in Nat
    BY <2>1, Sizes DEF Lap
  <2>5. CASE q = <<i, v>>
    BY <1>0, <1>1, <2>5, Sizes DEF Past
  <2>6. CASE q # <<i, v>>
    BY <1>0, <2>1, <2>2, <2>3, <2>4, <2>6, Sizes DEF Past
  <2> QED
    BY <2>5, <2>6
<1> QED
  BY <1>1, <1>2, <1>3

\* The block the scan is at is free in the bitmaps as they are exactly if it was
\* free when the call began: what has been marked since is in other blocks.
LEMMA FreeStill ==
  ASSUME NEW V \in Cursors, NEW B \in Bitmaps, NEW bm, NEW vb, NEW i, NEW n, NEW v,
         ScanAt(bm, vb, B, V, i, n, v, {}), v < NumBits, n = NumAddrs => v < V[Header]
  PROVE  (Bits(v) \cap bm[i] = {}) <=> Free(B, <<i, v>>)
<1>1. i \in Nodes /\ v \in Starts /\ Place(V, i, n, v) /\ <<i, v>> \in Blocks
  BY BlockAt DEF ScanAt, Place
<1>2. bm[i] = B[i] \cup Rejected(B, V, i, n, v)
  BY <1>1 DEF ScanAt
<1>3. ASSUME NEW x \in Bits(v), x \in Rejected(B, V, i, n, v)
      PROVE  FALSE
  <2>1. PICK q \in Blocks : q[1] = i /\ Past(V, q, n, v) /\ x \in Bits(q[2])
    BY <1>3 DEF Rejected
  <2>2. q[2] = v /\ q = <<i, v>>
    BY <1>1, <1>3, <2>1, BlockIs, BlocksDisjoint
  <2> QED
    BY <1>1, <2>1, <2>2, Between
<1> QED
  BY <1>2, <1>3 DEF Free

\* The next bit is a place again, in the same round.
LEMMA PlaceMoves ==
  ASSUME NEW V \in Cursors, NEW i, NEW n, NEW v, Place(V, i, n, v),
         n = NumAddrs => v < V[Header]
  PROVE  Place(V, i, n, v + PortRange)
<1>1. /\ i \in Nodes /\ v \in Nat /\ v % PortRange = 0 /\ PortRange \in Nat \ {0}
      /\ V[i] \in Nat /\ V[Header] \in Nat /\ V[Header] % PortRange = 0
  BY Sizes DEF Place, Cursors
<1>2. (v + PortRange) % PortRange = 0 /\ v + PortRange \in Nat
  BY <1>1, NextMultiple
<1>3. n = NumAddrs => v + PortRange <= V[Header]
  BY <1>1, Multiples
<1>4. n = i /\ v >= V[i] => n = i /\ v + PortRange >= V[i]
  BY <1>1
<1> QED
  BY <1>1, <1>2, <1>3, <1>4 DEF Place

\* The cursor passes a block that is busy.
LEMMA PassBusy ==
  ASSUME NEW V \in Cursors, NEW B \in Bitmaps, NEW bm, NEW vb, NEW i, NEW n, NEW v,
         ScanAt(bm, vb, B, V, i, n, v, {}), v < NumBits, n = NumAddrs => v < V[Header],
         ~ Free(B, <<i, v>>)
  PROVE  ScanAt(bm, [vb EXCEPT ![i] = @ + PortRange], B, V, i, n, v + PortRange, {})
<1>0. Place(V, i, n, v)
  BY DEF ScanAt
<1>1. i \in Nodes /\ Place(V, i, n, v) /\ Place(V, i, n, v + PortRange)
  <2>1. i \in Nodes
    BY <1>0 DEF Place
  <2> QED
    BY <1>0, <2>1, PlaceMoves
<1>2. \A q \in Blocks : Free(B, q) => (Past(V, q, n, v + PortRange) <=> Past(V, q, n, v))
  BY <1>1, Between
<1>3. \A j \in Nodes : Rejected(B, V, j, n, v + PortRange) = Rejected(B, V, j, n, v)
  BY <1>2 DEF Rejected
<1>4. bm = [j \in Nodes |-> B[j] \cup Rejected(B, V, j, n, v + PortRange)
                                \cup (IF j = i THEN {} ELSE {})]
  BY <1>3 DEF ScanAt
<1>5. vb = [j \in Nodes |-> IF j = i THEN v ELSE IF j < n THEN 0 ELSE V[j]]
  BY DEF ScanAt
<1>6. [vb EXCEPT ![i] = @ + PortRange]
        = [j \in Nodes |-> IF j = i THEN v + PortRange ELSE IF j < n THEN 0 ELSE V[j]]
  BY <1>1, <1>5
<1> QED
  BY <1>1, <1>2, <1>4, <1>6 DEF ScanAt

\* The cursor passes a block that is free, marked, and crosses the boundary.
LEMMA PassRejected ==
  ASSUME NEW V \in Cursors, NEW B \in Bitmaps, NEW bm, NEW vb, NEW i, NEW n, NEW v,
         ScanAt(bm, vb, B, V, i, n, v, Bits(v)), v < NumBits, n = NumAddrs => v < V[Header],
         Free(B, <<i, v>>), OverBoundary(v)
  PROVE  ScanAt(bm, [vb EXCEPT ![i] = @ + PortRange], B, V, i, n, v + PortRange, {})
<1>0. Place(V, i, n, v)
  BY DEF ScanAt
<1>1. /\ i \in Nodes /\ Place(V, i, n, v) /\ Place(V, i, n, v + PortRange)
      /\ <<i, v>> \in Blocks
  <2>1. i \in Nodes /\ v \in Nat /\ v % PortRange = 0
    BY <1>0 DEF Place
  <2> QED
    BY <1>0, <2>1, PlaceMoves, BlockAt
<1>2. /\ Seen(V, <<i, v>>)
      /\ \A q \in Blocks : Past(V, q, n, v + PortRange) <=> Past(V, q, n, v) \/ q = <<i, v>>
  BY <1>1, Between
<1>3. ASSUME NEW j \in Nodes
      PROVE  Rejected(B, V, j, n, v + PortRange)
               = Rejected(B, V, j, n, v) \cup (IF j = i THEN Bits(v) ELSE {})
  <2> DEFINE Candidate(q) == q[1] = j /\ Seen(V, q) /\ Free(B, q) /\ OverBoundary(q[2])
  <2>1. {q \in Blocks : Candidate(q) /\ Past(V, q, n, v + PortRange)}
          = {q \in Blocks : Candidate(q) /\ Past(V, q, n, v)} \cup (IF j = i THEN {<<i, v>>} ELSE {})
    BY <1>1, <1>2
  <2>2. Rejected(B, V, j, n, v + PortRange)
          = UNION {Bits(q[2]) : q \in {q \in Blocks : Candidate(q) /\ Past(V, q, n, v + PortRange)}}
    BY DEF Rejected
  <2>3. Rejected(B, V, j, n, v)
          = UNION {Bits(q[2]) : q \in {q \in Blocks : Candidate(q) /\ Past(V, q, n, v)}}
    BY DEF Rejected
  <2> HIDE DEF Candidate
  <2> QED
    BY <2>1, <2>2, <2>3
<1>4. bm = [j \in Nodes |-> B[j] \cup Rejected(B, V, j, n, v + PortRange)
                                \cup (IF j = i THEN {} ELSE {})]
  BY <1>3 DEF ScanAt
<1>5. vb = [j \in Nodes |-> IF j = i THEN v ELSE IF j < n THEN 0 ELSE V[j]]
  BY DEF ScanAt
<1>6. [vb EXCEPT ![i] = @ + PortRange]
        = [j \in Nodes |-> IF j = i THEN v + PortRange ELSE IF j < n THEN 0 ELSE V[j]]
  BY <1>1, <1>5
<1>7. \A q \in Blocks : Seen(V, q) /\ Free(B, q) /\ Past(V, q, n, v + PortRange)
                          => OverBoundary(q[2])
  BY <1>2 DEF ScanAt
<1> QED
  BY <1>1, <1>4, <1>6, <1>7 DEF ScanAt

\* The cursor passes the end: there is nothing there.
LEMMA PassEnd ==
  ASSUME NEW V \in Cursors, NEW B \in Bitmaps, NEW bm, NEW vb, NEW i, NEW n, NEW v,
         ScanAt(bm, vb, B, V, i, n, v, {}), v >= NumBits, n = NumAddrs => v < V[Header]
  PROVE  ScanAt(bm, [vb EXCEPT ![i] = @ + PortRange], B, V, i, n, v + PortRange, {})
<1>0. Place(V, i, n, v)
  BY DEF ScanAt
<1>1. i \in Nodes /\ v \in Nat /\ Place(V, i, n, v + PortRange)
  <2>1. i \in Nodes /\ v \in Nat
    BY <1>0 DEF Place
  <2> QED
    BY <1>0, <2>1, PlaceMoves
<1>2. ASSUME NEW q \in Blocks
      PROVE  Past(V, q, n, v + PortRange) <=> Past(V, q, n, v)
  <2>1. q[2] \in Nat /\ q[2] < NumBits
    BY BlockIs, Sizes DEF Starts, Pool!Starts
  <2>2. q[2] < v /\ q[2] < v + PortRange
    BY <1>1, <2>1, Sizes
  <2> QED
    BY <2>2 DEF Past
<1>3. \A j \in Nodes : Rejected(B, V, j, n, v + PortRange) = Rejected(B, V, j, n, v)
  BY <1>2 DEF Rejected
<1>4. bm = [j \in Nodes |-> B[j] \cup Rejected(B, V, j, n, v + PortRange)
                                \cup (IF j = i THEN {} ELSE {})]
  BY <1>3 DEF ScanAt
<1>5. vb = [j \in Nodes |-> IF j = i THEN v ELSE IF j < n THEN 0 ELSE V[j]]
  BY DEF ScanAt
<1>6. [vb EXCEPT ![i] = @ + PortRange]
        = [j \in Nodes |-> IF j = i THEN v + PortRange ELSE IF j < n THEN 0 ELSE V[j]]
  BY <1>1, <1>5
<1>7. \A q \in Blocks : Seen(V, q) /\ Free(B, q) /\ Past(V, q, n, v + PortRange)
                          => OverBoundary(q[2])
  BY <1>2 DEF ScanAt
<1> QED
  BY <1>1, <1>4, <1>6, <1>7 DEF ScanAt

\* At the end of an address the scan goes to the next, where the cursor is; from
\* the last it comes to the header's first blocks.
LEMMA NextNode ==
  ASSUME NEW V \in Cursors, NEW B \in Bitmaps, NEW bm, NEW vb, NEW i, NEW v,
         ScanAt(bm, vb, B, V, i, i, v, {}), v >= NumBits
  PROVE  LET k == NextOf(i)
             m == i + 1
             w == [vb EXCEPT ![i] = 0]
         IN  ScanAt(bm, w, B, V, k, m, w[k], {}) /\ (m = NumAddrs \/ k # Header)
<1> DEFINE k == NextOf(i)
           m == i + 1
           w == [vb EXCEPT ![i] = 0]
           u == w[k]
<1>1. /\ i \in Nat /\ i < NumAddrs /\ i \in Nodes /\ v \in Nat /\ NumAddrs \in Nat \ {0}
      /\ V \in [Nodes -> 0 .. NumBits] /\ \A j \in Nodes : V[j] % PortRange = 0
      /\ Nodes = 0 .. NumAddrs - 1
  BY Sizes DEF ScanAt, Place, Cursors
<1>2. vb = [j \in Nodes |-> IF j = i THEN v ELSE IF j < i THEN 0 ELSE V[j]]
  BY DEF ScanAt
<1>3. /\ m \in Nat /\ m = i + 1
      /\ \/ m < NumAddrs /\ k = m /\ k # Header /\ k # i
         \/ m = NumAddrs /\ k = Header
  <2>1. k = IF i + 1 = NumAddrs THEN 0 ELSE i + 1
    BY <1>1, Ring DEF NextOf
  <2> QED
    BY <1>1, <2>1, Sizes
<1>4. k \in Nodes
  BY <1>1, <1>3, Sizes
<1>5. w = [j \in Nodes |-> IF j <= i THEN 0 ELSE V[j]]
  <2>1. \A j \in Nodes : j <= i <=> (j = i \/ j < i)
    BY <1>1
  <2>2. w = [j \in Nodes |-> IF j = i THEN 0 ELSE IF j < i THEN 0 ELSE V[j]]
    BY <1>1, <1>2
  <2> QED
    BY <2>1, <2>2
<1>u. u = w[k]
  OBVIOUS
<1> HIDE DEF k, m, w, u
<1>6. /\ m < NumAddrs => u = V[k]
      /\ m = NumAddrs => u = 0
  BY <1>1, <1>3, <1>4, <1>5, <1>u, Sizes
<1>7. Place(V, k, m, u)
  <2>1. V[k] \in Nat /\ V[k] % PortRange = 0 /\ V[Header] \in Nat /\ 0 % PortRange = 0
    BY <1>1, <1>4, Sizes
  <2> QED
    BY <1>3, <1>4, <1>6, <2>1 DEF Place
<1>8. w = [j \in Nodes |-> IF j = k THEN u ELSE IF j < m THEN 0 ELSE V[j]]
  <2>1. ASSUME NEW j \in Nodes
        PROVE  w[j] = IF j = k THEN u ELSE IF j < m THEN 0 ELSE V[j]
    <3>1. (j < m) <=> (j <= i)
      BY <1>1, <1>3
    <3> QED
      BY <1>5, <1>u, <3>1
  <2> QED
    BY <1>5, <2>1
<1>9. ASSUME NEW q \in Blocks, Seen(V, q)
      PROVE  Past(V, q, m, u) <=> Past(V, q, i, v)
  <2>1. q[1] \in Nodes /\ q[2] \in Nat /\ q[2] < NumBits
    BY BlockIs, Sizes DEF Starts, Pool!Starts
  <2>2. Lap(V, q) \in Nat /\ Lap(V, q) <= NumAddrs
    BY <1>1, <2>1 DEF Lap
  <2>3. Past(V, q, i, v) <=> Lap(V, q) <= i
    <3>1. q[2] < v
      BY <1>1, <2>1, Sizes
    <3> QED
      BY <1>1, <2>2, <3>1 DEF Past
  <2>4. Past(V, q, m, u) <=> Lap(V, q) < m
    <3>1. ASSUME Lap(V, q) = m
          PROVE  ~ (q[2] < u)
      <4>1. CASE m < NumAddrs
        <5>1. q[1] = k /\ u = V[k] /\ k # Header
          BY <1>1, <1>3, <1>6, <2>1, <3>1, <4>1 DEF Lap
        <5>2. q[2] >= V[k] /\ V[k] \in Nat
          BY <1>1, <1>4, <1>9, <5>1 DEF Seen
        <5> QED
          BY <2>1, <5>1, <5>2
      <4>2. CASE m = NumAddrs
        BY <1>6, <2>1, <4>2
      <4> QED
        BY <1>3, <4>1, <4>2
    <3> QED
      BY <3>1 DEF Past
  <2> QED
    BY <1>1, <1>3, <2>2, <2>3, <2>4
<1>10. \A j \in Nodes : Rejected(B, V, j, m, u) = Rejected(B, V, j, i, v)
  BY <1>9 DEF Rejected
<1>11. bm = [j \in Nodes |-> B[j] \cup Rejected(B, V, j, m, u) \cup (IF j = k THEN {} ELSE {})]
  BY <1>10 DEF ScanAt
<1>12. \A q \in Blocks : Seen(V, q) /\ Free(B, q) /\ Past(V, q, m, u) => OverBoundary(q[2])
  BY <1>9 DEF ScanAt
<1>13. ScanAt(bm, w, B, V, k, m, u, {})
  BY <1>7, <1>8, <1>11, <1>12 DEF ScanAt
<1> QED
  BY <1>3, <1>13, <1>u DEF k, m, w, u

\* Where the scan begins: the header's cursor.
LEMMA ScanStarts ==
  ASSUME NEW V \in Cursors, NEW B \in Bitmaps
  PROVE  ScanAt(B, V, B, V, Header, Header, V[Header], {})
<1>1. /\ V \in [Nodes -> 0 .. NumBits] /\ V[Header] % PortRange = 0 /\ V[Header] \in Nat
      /\ B \in [Nodes -> SUBSET (0 .. NumBits - 1)]
      /\ \A j \in Nodes : j \in Nat /\ ~ (j < Header)
  BY Sizes DEF Cursors, Bitmaps
<1>2. Place(V, Header, Header, V[Header])
  BY <1>1, Sizes DEF Place
<1>3. ASSUME NEW q \in Blocks
      PROVE  ~ Past(V, q, Header, V[Header])
  <2>1. q[1] \in Nodes /\ q[2] \in Nat
    BY BlockIs, BlockFits
  <2> QED
    BY <1>1, <2>1, Sizes DEF Past, Lap
<1>4. \A j \in Nodes : Rejected(B, V, j, Header, V[Header]) = {}
  BY <1>3 DEF Rejected
<1>5. B = [j \in Nodes |-> B[j] \cup Rejected(B, V, j, Header, V[Header])
                                \cup (IF j = Header THEN {} ELSE {})]
  BY <1>1, <1>4
<1>6. V = [j \in Nodes |-> IF j = Header THEN V[Header] ELSE IF j < Header THEN 0 ELSE V[j]]
  BY <1>1
<1> QED
  BY <1>2, <1>3, <1>5, <1>6 DEF ScanAt

-----------------------------------------------------------------------------
(* AddrPool orders the blocks by their ranks, one number each.             *)
Rank(V, q) == Lap(V, q) * NumBits + q[2]

Fit(B, V, q) == Seen(V, q) /\ Free(B, q) /\ ~ OverBoundary(q[2])

(* The bits that AddrPool has the scan set in address j before rank r.     *)
Marked(B, V, j, r) ==
  UNION {Bits(q[2]) : q \in {q \in Blocks :
    q[1] = j /\ Seen(V, q) /\ Free(B, q) /\ OverBoundary(q[2]) /\ Rank(V, q) < r}}

(* Bitmaps and cursors after the call that was given the block at v of     *)
(* address i, which has rank r.                                            *)
Granted(B, V, i, v, r) ==
  [j \in Nodes |-> B[j] \cup Marked(B, V, j, r) \cup (IF j = i THEN Bits(v) ELSE {})]

Moved(V, i, v, r) ==
  [j \in Nodes |-> CASE j = i -> v + PortRange
                     [] j # i /\ (j + 1) * NumBits <= r -> 0
                     [] OTHER -> V[j]]

(* The cursor of address i moves on by a block.                            *)
Stepped(vb, i) == [vb EXCEPT ![i] = @ + PortRange]

LEMMA RankIsPast ==
  ASSUME NEW V, NEW q \in Blocks, NEW n \in Nat, NEW v \in 0 .. NumBits - 1
  PROVE  /\ Rank(V, q) < n * NumBits + v <=> Past(V, q, n, v)
         /\ Rank(V, q) \in Nat /\ n * NumBits + v \in Nat
<1>1. q[1] \in Nodes /\ q[2] \in 0 .. NumBits - 1 /\ NumBits \in Nat
  BY BlockIs, Sizes DEF Starts, Pool!Starts
<1>2. Lap(V, q) \in Nat
  BY <1>1, Sizes DEF Lap
<1>3. /\ Rank(V, q) < n * NumBits + v <=> Past(V, q, n, v)
  BY <1>1, <1>2, Lexicographic DEF Rank, Past
<1>4. Lap(V, q) * NumBits \in Nat /\ n * NumBits \in Nat
  BY <1>1, <1>2
<1> QED
  BY <1>1, <1>3, <1>4 DEF Rank

\* What the scan finds is the first fit, and what it has done to bitmaps and cursors
\* is what AddrPool says.
LEMMA ScanFinds ==
  ASSUME NEW V \in Cursors, NEW B \in Bitmaps, NEW bm, NEW vb, NEW i, NEW n, NEW v,
         NEW nvb, nvb = Stepped(vb, i),
         ScanAt(bm, vb, B, V, i, n, v, Bits(v)), v < NumBits, n = NumAddrs => v < V[Header],
         Free(B, <<i, v>>), ~ OverBoundary(v)
  PROVE  /\ <<i, v>> \in Blocks /\ Fit(B, V, <<i, v>>)
         /\ \A q \in Blocks : Fit(B, V, q) => Rank(V, <<i, v>>) <= Rank(V, q)
         /\ bm = Granted(B, V, i, v, Rank(V, <<i, v>>)) /\ bm \in Bitmaps
         /\ nvb = Moved(V, i, v, Rank(V, <<i, v>>)) /\ nvb \in Cursors
<1> DEFINE p == <<i, v>>
<1>0. Place(V, i, n, v)
  BY DEF ScanAt
<1>1. i \in Nodes /\ v \in Nat /\ v % PortRange = 0 /\ n \in Nat /\ v \in 0 .. NumBits - 1
  BY <1>0, Sizes DEF Place
<1>2. p \in Blocks /\ v \in Starts
  BY <1>1, BlockAt
<1>3. Lap(V, p) = n /\ Seen(V, p) /\ Rank(V, p) = n * NumBits + v
  BY <1>0, Between DEF Rank
<1>4. \A q \in Blocks : /\ Rank(V, q) < Rank(V, p) <=> Past(V, q, n, v)
                        /\ Rank(V, q) \in Nat
  BY <1>1, <1>3, RankIsPast
<1>5. Fit(B, V, p) /\ \A q \in Blocks : Fit(B, V, q) => Rank(V, p) <= Rank(V, q)
  BY <1>2, <1>3, <1>4 DEF Fit, ScanAt
<1>6. \A j \in Nodes : Rejected(B, V, j, n, v) = Marked(B, V, j, Rank(V, p))
  <2> HIDE DEF p
  <2> QED
    BY <1>4 DEF Rejected, Marked
<1>7. bm = [j \in Nodes |-> B[j] \cup Rejected(B, V, j, n, v) \cup (IF j = i THEN Bits(v) ELSE {})]
  BY DEF ScanAt
<1>8. vb = [j \in Nodes |-> IF j = i THEN v ELSE IF j < n THEN 0 ELSE V[j]]
  BY DEF ScanAt
<1>9. nvb = [j \in Nodes |-> IF j = i THEN v + PortRange ELSE IF j < n THEN 0 ELSE V[j]]
  BY <1>1, <1>8 DEF Stepped
<1>10. \A j \in Nodes : (j + 1) * NumBits <= Rank(V, p) <=> j < n
  <2>1. \A j \in Nodes : j \in Nat
    BY Sizes
  <2> QED
    BY <1>1, <1>3, <2>1, Lexicographic
<1>11. nvb = Moved(V, i, v, Rank(V, p))
  <2> HIDE DEF p
  <2> QED
    BY <1>9, <1>10 DEF Moved
<1>12. bm \in Bitmaps
  <2>1. ASSUME NEW j \in Nodes
        PROVE  Rejected(B, V, j, n, v) \subseteq 0 .. NumBits - 1
    BY BlockIs, BlockFits DEF Rejected
  <2>2. Bits(v) \subseteq 0 .. NumBits - 1
    BY <1>2, BlockFits
  <2> QED
    BY <1>7, <2>1, <2>2 DEF Bitmaps
<1>13. nvb \in Cursors
  <2> DEFINE w == v + PortRange
  <2>1. w \in 0 .. NumBits
    BY <1>1, <1>2, BlockFits, Sizes
  <2>2. w % PortRange = 0
    BY <1>1, NextMultiple, Sizes
  <2>3. 0 \in 0 .. NumBits /\ 0 % PortRange = 0
    BY Sizes
  <2>4. \A j \in Nodes : V[j] \in 0 .. NumBits /\ V[j] % PortRange = 0
    BY DEF Cursors
  <2>5. nvb
          = [j \in Nodes |-> IF j = i THEN w ELSE IF j < n THEN 0 ELSE V[j]]
    BY <1>9
  <2> HIDE DEF w
  <2>6. \A j \in Nodes : nvb[j] \in 0 .. NumBits /\ nvb[j] % PortRange = 0
    BY <2>1, <2>2, <2>3, <2>4, <2>5
  <2>7. nvb \in [Nodes -> 0 .. NumBits]
    BY <2>5, <2>6
  <2>8. nvb \in Cursors
    BY <2>6, <2>7 DEF Cursors
  <2> QED
    BY <2>8
<1>14. bm = Granted(B, V, i, v, Rank(V, p))
  BY <1>6, <1>7 DEF Granted
<1> QED
  BY <1>2, <1>5, <1>11, <1>12, <1>13, <1>14

\* Back at the header's cursor nothing fits, and every other cursor is reset.
LEMMA ScanEnds ==
  ASSUME NEW V \in Cursors, NEW B \in Bitmaps, NEW bm, NEW vb,
         ScanAt(bm, vb, B, V, Header, NumAddrs, V[Header], {})
  PROVE  /\ \A q \in Blocks : ~ Fit(B, V, q)
         /\ bm = [j \in Nodes |->
                    B[j] \cup Marked(B, V, j, (NumAddrs + 1) * NumBits)]
         /\ vb = [j \in Nodes |-> IF j = Header THEN V[j] ELSE 0]
         /\ bm \in Bitmaps /\ vb \in Cursors
<1>1. /\ V \in [Nodes -> 0 .. NumBits] /\ \A j \in Nodes : V[j] % PortRange = 0
      /\ V[Header] \in Nat
  BY Sizes DEF Cursors
<1>2. ASSUME NEW q \in Blocks
      PROVE  Past(V, q, NumAddrs, V[Header]) /\ Rank(V, q) < (NumAddrs + 1) * NumBits
  <2>1. q[1] \in Nodes /\ q[2] \in Nat /\ q[2] < NumBits
    BY BlockIs, Sizes DEF Starts, Pool!Starts
  <2>2. Past(V, q, NumAddrs, V[Header]) /\ Lap(V, q) \in Nat /\ Lap(V, q) < NumAddrs + 1
    BY <1>1, <2>1, Sizes DEF Past, Lap
  <2>3. Past(V, q, NumAddrs + 1, 0)
    BY <2>2 DEF Past
  <2>4. (NumAddrs + 1) * NumBits + 0 = (NumAddrs + 1) * NumBits
    <3>1. (NumAddrs + 1) * NumBits \in Int
      BY Sizes
    <3> QED
      BY <3>1
  <2>5. NumAddrs + 1 \in Nat /\ 0 \in 0 .. NumBits - 1
    BY Sizes
  <2> QED
    BY <2>2, <2>3, <2>4, <2>5, RankIsPast
<1>3. \A q \in Blocks : ~ Fit(B, V, q)
  BY <1>2 DEF ScanAt, Fit
<1>4. \A j \in Nodes : Rejected(B, V, j, NumAddrs, V[Header])
        = Marked(B, V, j, (NumAddrs + 1) * NumBits)
  BY <1>2 DEF Rejected, Marked
<1>5. bm = [j \in Nodes |-> B[j] \cup Rejected(B, V, j, NumAddrs, V[Header])
                                 \cup (IF j = Header THEN {} ELSE {})]
  BY DEF ScanAt
<1>6. vb = [j \in Nodes |-> IF j = Header THEN V[Header] ELSE IF j < NumAddrs THEN 0 ELSE V[j]]
  BY DEF ScanAt
<1>7. vb = [j \in Nodes |-> IF j = Header THEN V[j] ELSE 0]
  <2>1. \A j \in Nodes : j < NumAddrs
    BY Sizes
  <2> QED
    BY <1>6, <2>1
<1>8. bm \in Bitmaps
  <2>1. ASSUME NEW j \in Nodes
        PROVE  Rejected(B, V, j, NumAddrs, V[Header]) \subseteq 0 .. NumBits - 1
    BY BlockIs, BlockFits DEF Rejected
  <2> QED
    BY <1>5, <2>1 DEF Bitmaps
<1>9. vb \in Cursors
  <2>1. 0 \in 0 .. NumBits /\ 0 % PortRange = 0
    BY Sizes
  <2> QED
    BY <1>1, <1>7, <2>1 DEF Cursors
<1> QED
  BY <1>3, <1>4, <1>5, <1>7, <1>8, <1>9

-----------------------------------------------------------------------------
(* The thread in its call.                                                 *)
B0 == before[1]
V0 == before[2]

LocalOK(t) ==
  /\ pc \in [Threads -> {"idle", "first", "loop", "mark", "advance"}]
  /\ for \in [Threads -> Clients \cup {NoLease}]
  /\ pCur \in [Threads -> Nodes]
  /\ pBit \in [Threads -> Nat]
  /\ found \in [Threads -> Nat]

(* What is kept from the call's entry to its end.                          *)
Called(t) ==
  /\ B0 \in Bitmaps /\ V0 \in Cursors /\ before[3] = fails
  /\ for[t] \in Clients /\ lease[for[t]] = NoLease
  /\ pBit[t] = V0[Header]

(* In the loop the header's cursor is where it began in its last round     *)
(* only.                                                                   *)
AtLoop(t) ==
  \E n : /\ ScanAt(bitmap, validbit, B0, V0, pCur[t], n, validbit[pCur[t]], {})
         /\ n = NumAddrs \/ pCur[t] # Header \/ validbit[pCur[t]] # V0[Header]

AtBlock(t, X) ==
  \E n : /\ ScanAt(bitmap, validbit, B0, V0, pCur[t], n, validbit[pCur[t]], X)
         /\ n = NumAddrs => validbit[pCur[t]] < V0[Header]
         /\ validbit[pCur[t]] < NumBits /\ Free(B0, <<pCur[t], validbit[pCur[t]]>>)

CallInv(t) ==
  /\ LocalOK(t)
  /\ pc[t] = "idle" => bitmap \in Bitmaps /\ validbit \in Cursors /\ for[t] = NoLease
  /\ pc[t] # "idle" => Called(t)
  /\ pc[t] = "first" => bitmap = B0 /\ validbit = V0 /\ pCur[t] = Header
  /\ pc[t] = "loop" => AtLoop(t)
  /\ pc[t] = "mark" => AtBlock(t, {})
  /\ pc[t] = "advance" => AtBlock(t, Bits(found[t])) /\ found[t] = validbit[pCur[t]]

\* A step inside the call is nothing to AddrPool.
LEMMA Silent ==
  ASSUME NEW t, Threads = {t}, pc[t] # "idle", pc'[t] # "idle", UNCHANGED <<lease, before>>
  PROVE  UNCHANGED Atomic!vars
<1>1. Running /\ Running'
  BY DEF Running
<1> QED
  BY <1>1 DEF Atomic!vars

LEMMA EnterStep ==
  ASSUME NEW t, Threads = {t}, CallInv(t), NEW c \in Clients, Enter(t, c)
  PROVE  CallInv(t)' /\ UNCHANGED Atomic!vars
<1>1. /\ pc[t] = "idle" /\ LocalOK(t) /\ bitmap \in Bitmaps /\ validbit \in Cursors
  BY DEF Enter, CallInv
<1>2. /\ pc'[t] = "first" /\ for'[t] = c /\ pCur'[t] = Header /\ pBit'[t] = validbit[Header]
      /\ before' = <<bitmap, validbit, fails>> /\ UNCHANGED <<shared, found>>
      /\ lease[c] = NoLease
  BY <1>1 DEF Enter, LocalOK
<1>3. LocalOK(t)'
  <2>1. validbit[Header] \in Nat /\ Header \in Nodes
    BY <1>1, Sizes DEF Cursors
  <2> QED
    BY <1>1, <2>1 DEF Enter, LocalOK
<1>4. Called(t)'
  BY <1>1, <1>2 DEF Called, B0, V0, shared
<1>5. ~ Running /\ Running'
  BY <1>1, <1>2 DEF Running
<1>6. UNCHANGED Atomic!vars
  BY <1>2, <1>5 DEF Atomic!vars, shared
<1> QED
  BY <1>2, <1>3, <1>4, <1>6 DEF CallInv, B0, V0, shared

\* A look at the block the scan has come to.
LEMMA LookStep ==
  ASSUME NEW t, Threads = {t}, NEW i, NEW n, NEW vb,
         LocalOK(t), LocalOK(t)', Called(t), Called(t)', UNCHANGED <<bitmap, before>>, pCur'[t] = i,
         ScanAt(bitmap, vb, B0, V0, i, n, vb[i], {}), n = NumAddrs => vb[i] < V0[Header],
         Look(t, i, vb)
  PROVE  CallInv(t)' /\ pc'[t] # "idle"
<1>1. V0 \in Cursors /\ B0 \in Bitmaps /\ B0' = B0 /\ V0' = V0
  BY DEF Called, B0, V0
<1>2. Place(V0, i, n, vb[i])
  BY DEF ScanAt
<1>3. i \in Nodes /\ vb[i] \in Nat /\ vb[i] % PortRange = 0
  BY <1>2 DEF Place
<1>4. vb[i] < NumBits <=> ~ (vb[i] + PortRange - 1 >= NumBits)
  <2>1. vb[i] < NumBits => vb[i] + PortRange <= NumBits
    BY <1>3, Sizes, Multiples
  <2> QED
    BY <1>3, <2>1, Sizes
<1>5. vb[i] < NumBits => ((Bits(vb[i]) \cap bitmap[i] = {}) <=> Free(B0, <<i, vb[i]>>))
  BY <1>1, FreeStill
<1>6. CASE vb[i] < NumBits /\ Free(B0, <<i, vb[i]>>)
  <2>1. validbit' = vb /\ pc' = [pc EXCEPT ![t] = "mark"]
    BY <1>4, <1>5, <1>6 DEF Look, Bits
  <2>2. pc'[t] = "mark"
    BY <2>1 DEF LocalOK
  <2>3. AtBlock(t, {})'
    BY <1>1, <1>6, <2>1 DEF AtBlock
  <2> QED
    BY <2>2, <2>3 DEF CallInv
<1>7. CASE ~ (vb[i] < NumBits /\ Free(B0, <<i, vb[i]>>))
  <2>1. validbit' = [vb EXCEPT ![i] = @ + PortRange] /\ pc' = [pc EXCEPT ![t] = "loop"]
    BY <1>4, <1>5, <1>7 DEF Look, Bits
  <2>2. pc'[t] = "loop"
    BY <2>1 DEF LocalOK
  <2>3. ScanAt(bitmap, validbit', B0, V0, i, n, vb[i] + PortRange, {})
    <3>1. CASE vb[i] < NumBits
      BY <1>1, <1>7, <2>1, <3>1, PassBusy
    <3>2. CASE ~ (vb[i] < NumBits)
      <4>1. vb[i] >= NumBits
        BY <1>3, <3>2, Sizes
      <4> QED
        BY <1>1, <2>1, <4>1, PassEnd
    <3> QED
      BY <3>1, <3>2
  <2>4. validbit'[i] = vb[i] + PortRange
    BY <1>3, <2>3 DEF ScanAt
  <2>5. n = NumAddrs \/ i # Header \/ validbit'[i] # V0[Header]
    <3>1. V0[Header] \in Nat
      BY <1>1, Sizes DEF Cursors
    <3> QED
      BY <1>2, <1>3, <2>4, <3>1, Sizes DEF Place
  <2>6. AtLoop(t)'
    BY <1>1, <2>3, <2>4, <2>5 DEF AtLoop
  <2> QED
    BY <2>2, <2>6 DEF CallInv
<1> QED
  BY <1>6, <1>7

LEMMA FirstStep ==
  ASSUME NEW t, Threads = {t}, CallInv(t), First(t)
  PROVE  CallInv(t)' /\ UNCHANGED Atomic!vars
<1> DEFINE done == validbit[Header] >= NumBits
           i    == IF done THEN NextOf(Header) ELSE Header
           vb   == IF done THEN [validbit EXCEPT ![Header] = 0] ELSE validbit
<1>1. /\ pc[t] = "first" /\ LocalOK(t) /\ Called(t)
      /\ bitmap = B0 /\ validbit = V0 /\ pCur[t] = Header
      /\ V0 \in Cursors /\ B0 \in Bitmaps
  BY DEF First, CallInv, Called
<1>2. /\ pCur' = [pCur EXCEPT ![t] = i] /\ Look(t, i, vb)
      /\ UNCHANGED <<bitmap, lease, fails, for, pBit, found, before>>
  BY DEF First
<1>3. V0[Header] \in Nat
  BY <1>1, Sizes DEF Cursors
<1>4. ScanAt(bitmap, validbit, B0, V0, Header, Header, validbit[Header], {})
  BY <1>1, ScanStarts
<1>5. PICK n : /\ ScanAt(bitmap, vb, B0, V0, i, n, vb[i], {})
               /\ n = NumAddrs => vb[i] < V0[Header]
  <2>1. CASE done
    <3>1. ScanAt(bitmap, vb, B0, V0, i, Header + 1, vb[i], {})
      BY <1>1, <1>4, <2>1, NextNode
    <3>2. Header + 1 = NumAddrs => vb[i] < V0[Header]
      <4>1. ASSUME Header + 1 = NumAddrs
            PROVE  i = Header
        BY <2>1, <4>1, Ring, Sizes DEF NextOf
      <4>2. i = Header => vb[i] = 0
        BY <1>1, <2>1, Sizes DEF Cursors
      <4> QED
        BY <1>1, <1>3, <2>1, <4>1, <4>2, Sizes
    <3> HIDE DEF vb, i, done
    <3> QED
      BY <3>1, <3>2
  <2>2. CASE ~ done
    <3>1. Header # NumAddrs
      BY Sizes
    <3> QED
      BY <1>4, <2>2, <3>1
  <2> QED
    BY <2>1, <2>2
<1>6. i \in Nodes
  BY <1>5 DEF ScanAt, Place
<1> HIDE DEF vb, i, done
<1>7. pCur'[t] = i /\ LocalOK(t)'
  <2>1. pc' = [pc EXCEPT ![t] = "loop"] \/ pc' = [pc EXCEPT ![t] = "mark"]
    BY <1>2 DEF Look
  <2> QED
    BY <1>1, <1>2, <1>6, <2>1 DEF LocalOK
<1>8. Called(t)'
  BY <1>1, <1>2 DEF Called, B0, V0
<1>9. CallInv(t)' /\ pc'[t] # "idle"
  BY <1>1, <1>2, <1>5, <1>7, <1>8, LookStep
<1> QED
  BY <1>1, <1>2, <1>9, Silent

LEMMA TestStep ==
  ASSUME NEW t, Threads = {t}, CallInv(t), Test(t)
  PROVE  CallInv(t)' /\ UNCHANGED Atomic!vars
<1> DEFINE i == pCur[t]
<1>1. /\ pc[t] = "loop" /\ LocalOK(t) /\ Called(t) /\ AtLoop(t) /\ ~ Around(t)
      /\ validbit[i] < NumBits /\ Look(t, i, validbit)
      /\ UNCHANGED <<bitmap, lease, fails, pCur, for, pBit, found, before>>
  BY DEF Test, CallInv
<1>2. PICK n : ScanAt(bitmap, validbit, B0, V0, i, n, validbit[i], {})
  BY <1>1 DEF AtLoop
<1>3. n = NumAddrs => validbit[i] < V0[Header]
  <2>1. Place(V0, i, n, validbit[i])
    BY <1>2 DEF ScanAt
  <2>2. V0[Header] \in Nat /\ i \in Nodes
    BY <1>1, Sizes DEF Called, Cursors, LocalOK
  <2>3. i = Header => validbit[i] # V0[Header]
    BY <1>1 DEF Around, Called
  <2> QED
    BY <2>1, <2>2, <2>3, Sizes DEF Place
<1>4. LocalOK(t)'
  <2>1. pc' = [pc EXCEPT ![t] = "loop"] \/ pc' = [pc EXCEPT ![t] = "mark"]
    BY <1>1 DEF Look
  <2> QED
    BY <1>1, <2>1 DEF LocalOK
<1>5. Called(t)'
  BY <1>1 DEF Called, B0, V0
<1>6. CallInv(t)' /\ pc'[t] # "idle"
  BY <1>1, <1>2, <1>3, <1>4, <1>5, LookStep
<1> QED
  BY <1>1, <1>6, Silent

LEMMA NextAddrStep ==
  ASSUME NEW t, Threads = {t}, CallInv(t), NextAddr(t)
  PROVE  CallInv(t)' /\ UNCHANGED Atomic!vars
<1> DEFINE i == pCur[t]
<1>1. /\ pc[t] = "loop" /\ LocalOK(t) /\ Called(t) /\ AtLoop(t) /\ ~ Around(t)
      /\ validbit[i] >= NumBits /\ validbit' = [validbit EXCEPT ![i] = 0]
      /\ pCur' = [pCur EXCEPT ![t] = NextOf(i)]
      /\ UNCHANGED <<bitmap, lease, fails, pc, for, pBit, found, before>>
  BY DEF NextAddr, CallInv, LocalOK
<1>2. PICK n : ScanAt(bitmap, validbit, B0, V0, i, n, validbit[i], {})
  BY <1>1 DEF AtLoop
<1>3. V0 \in Cursors /\ B0 \in Bitmaps /\ V0[Header] \in 0 .. NumBits /\ pBit[t] = V0[Header]
  BY <1>1, Sizes DEF Called, Cursors
<1>4. n = i
  <2>1. Place(V0, i, n, validbit[i])
    BY <1>2 DEF ScanAt
  <2>2. ~ (i = Header /\ validbit[Header] = V0[Header])
    BY <1>1, <1>3 DEF Around
  <2> QED
    BY <1>1, <1>3, <2>1, <2>2, Sizes DEF Place
<1> DEFINE k == NextOf(i)
<1>5. /\ ScanAt(bitmap, validbit', B0, V0, k, i + 1, validbit'[k], {})
      /\ i + 1 = NumAddrs \/ k # Header
  BY <1>1, <1>2, <1>3, <1>4, NextNode
<1>6. k \in Nodes
  BY <1>5 DEF ScanAt, Place
<1> HIDE DEF k
<1>7. pCur'[t] = k /\ LocalOK(t)'
  BY <1>1, <1>6 DEF LocalOK, k
<1>8. Called(t)' /\ B0' = B0 /\ V0' = V0
  BY <1>1 DEF Called, B0, V0
<1>9. AtLoop(t)'
  <2> DEFINE m == i + 1
  <2>1. ScanAt(bitmap', validbit', B0', V0', pCur'[t], m, validbit'[pCur'[t]], {})
    BY <1>1, <1>5, <1>7, <1>8
  <2>2. m = NumAddrs \/ pCur'[t] # Header
    BY <1>5, <1>7
  <2> HIDE DEF m
  <2> QED
    BY <2>1, <2>2 DEF AtLoop
<1> QED
  BY <1>1, <1>7, <1>8, <1>9, Silent DEF CallInv

LEMMA MarkStep ==
  ASSUME NEW t, Threads = {t}, CallInv(t), Mark(t)
  PROVE  CallInv(t)' /\ UNCHANGED Atomic!vars
<1> DEFINE i == pCur[t]
           b == validbit[i]
<1>1. /\ pc[t] = "mark" /\ LocalOK(t) /\ Called(t) /\ AtBlock(t, {})
      /\ bitmap' = [bitmap EXCEPT ![i] = @ \cup (Bits(b) \cap 0 .. NumBits - 1)]
      /\ found' = [found EXCEPT ![t] = b]
      /\ pc' = [pc EXCEPT ![t] = "advance"]
      /\ UNCHANGED <<validbit, lease, fails, for, pCur, pBit, before>>
  BY DEF Mark, CallInv, Bits
<1>2. PICK n : /\ ScanAt(bitmap, validbit, B0, V0, i, n, b, {})
               /\ n = NumAddrs => b < V0[Header]
               /\ b < NumBits /\ Free(B0, <<i, b>>)
  BY <1>1 DEF AtBlock
<1>3. i \in Nodes /\ b \in Nat /\ b % PortRange = 0
  BY <1>2 DEF ScanAt, Place
<1>4. Bits(b) \cap 0 .. NumBits - 1 = Bits(b)
  BY <1>2, <1>3, BlockAt, BlockFits
<1>5. ScanAt(bitmap', validbit, B0, V0, i, n, b, Bits(b))
  <2>1. bitmap = [j \in Nodes |-> B0[j] \cup Rejected(B0, V0, j, n, b)
                                        \cup (IF j = i THEN {} ELSE {})]
    BY <1>2 DEF ScanAt
  <2>2. bitmap' = [bitmap EXCEPT ![i] = @ \cup Bits(b)]
    BY <1>1, <1>4
  <2> HIDE DEF b, i
  <2>3. bitmap' = [j \in Nodes |-> B0[j] \cup Rejected(B0, V0, j, n, b)
                                         \cup (IF j = i THEN Bits(b) ELSE {})]
    BY <1>3, <2>1, <2>2
  <2> QED
    BY <1>2, <2>3 DEF ScanAt
<1>6. LocalOK(t)' /\ pc'[t] = "advance" /\ found'[t] = b /\ b = validbit'[pCur'[t]]
  BY <1>1, <1>3 DEF LocalOK
<1>7. Called(t)' /\ B0' = B0 /\ V0' = V0
  BY <1>1 DEF Called, B0, V0
<1>8. AtBlock(t, Bits(found[t]))'
  BY <1>1, <1>2, <1>5, <1>6, <1>7 DEF AtBlock
<1> QED
  BY <1>1, <1>6, <1>7, <1>8, Silent DEF CallInv

-----------------------------------------------------------------------------
(* The end of a call is the action of AddrPool.                            *)
LEMMA AtomicIs ==
  ASSUME NEW t, Threads = {t}, pc[t] # "idle", V0 \in Cursors
  PROVE  /\ Atomic!Blocks = Blocks /\ Atomic!Nodes = Nodes /\ Atomic!Header = Header
         /\ \A q \in Blocks : /\ Atomic!Usable(q) <=> Fit(B0, V0, q)
                              /\ Atomic!ScanRank(q) = Rank(V0, q)
         /\ \A i, r : Atomic!Burnt(i, r) = Marked(B0, V0, i, r)
         /\ Atomic!ScanEnd = (NumAddrs + 1) * NumBits
<1>1. Running
  BY DEF Running
<1>2. /\ Atomic!Blocks = Blocks /\ Atomic!Nodes = Nodes /\ Atomic!Header = Header
      /\ \A b : Atomic!OverBoundary(b) <=> OverBoundary(b)
      /\ \A b : Atomic!Bits(b) = Bits(b)
  BY DEF Atomic!Blocks, Atomic!Nodes, Atomic!Header, Atomic!Starts, Atomic!OverBoundary,
         Atomic!StopPort, Atomic!StartPort, Atomic!Bits, Blocks, Pool!Blocks, Nodes, Pool!Nodes,
         Header, Pool!Header, Pool!Starts, OverBoundary, Pool!OverBoundary, Pool!StopPort,
         Pool!StartPort, Bits, Pool!Bits
<1>3. \A q : /\ Atomic!Scanned(q) <=> Seen(V0, q)
             /\ Atomic!portrange_test(q) <=> Free(B0, q)
  BY <1>1, <1>2 DEF Atomic!Scanned, Atomic!portrange_test, Seen, Free, B0, V0
<1>4. \A q : Atomic!ScanRank(q) = Rank(V0, q)
  BY <1>1, <1>2 DEF Atomic!ScanRank, Rank, Lap, V0
<1>5. \A q : Atomic!Usable(q) <=> Fit(B0, V0, q)
  BY <1>2, <1>3 DEF Atomic!Usable, Fit
<1>6. \A i, r : Atomic!Burnt(i, r) = Marked(B0, V0, i, r)
  BY <1>2, <1>3, <1>4 DEF Atomic!Burnt, Marked
<1> QED
  BY <1>2, <1>4, <1>5, <1>6 DEF Atomic!ScanEnd

LEMMA AdvanceStep ==
  ASSUME NEW t, Threads = {t}, CallInv(t), Advance(t)
  PROVE  CallInv(t)' /\ (Atomic!Next \/ UNCHANGED Atomic!vars)
<1> DEFINE i == pCur[t]
           b == found[t]
           c == for[t]
<1>1. /\ pc[t] = "advance" /\ LocalOK(t) /\ Called(t) /\ AtBlock(t, Bits(b))
      /\ b = validbit[i] /\ c \in Clients /\ lease[c] = NoLease
      /\ V0 \in Cursors /\ B0 \in Bitmaps
      /\ UNCHANGED <<bitmap, pCur, pBit, found, before>>
  BY DEF Advance, CallInv, Called
<1>2. validbit' = [validbit EXCEPT ![i] = @ + PortRange]
  BY DEF Advance
<1>3. PICK n : /\ ScanAt(bitmap, validbit, B0, V0, i, n, b, Bits(b))
               /\ n = NumAddrs => b < V0[Header]
               /\ b < NumBits /\ Free(B0, <<i, b>>)
  BY <1>1 DEF AtBlock
<1>4. i \in Nodes /\ b \in Nat /\ Place(V0, i, n, b)
  BY <1>3 DEF ScanAt, Place
<1>5. CASE OverBoundary(b)
  <2>1. pc' = [pc EXCEPT ![t] = "loop"] /\ UNCHANGED <<lease, fails, for>>
    BY <1>5 DEF Advance, OverBoundary
  <2>2. LocalOK(t)' /\ pc'[t] = "loop"
    BY <1>1, <2>1 DEF LocalOK
  <2>3. ScanAt(bitmap, validbit', B0, V0, i, n, b + PortRange, {})
    BY <1>1, <1>2, <1>3, <1>5, PassRejected
  <2>4. validbit'[i] = b + PortRange
    BY <1>4, <2>3 DEF ScanAt
  <2>5. n = NumAddrs \/ i # Header \/ validbit'[i] # V0[Header]
    <3>1. V0[Header] \in Nat
      BY <1>1, Sizes DEF Cursors
    <3> QED
      BY <1>4, <2>4, <3>1, Sizes DEF Place
  <2>6. Called(t)' /\ B0' = B0 /\ V0' = V0
    BY <1>1, <2>1 DEF Called, B0, V0
  <2>7. AtLoop(t)'
    BY <1>1, <2>3, <2>4, <2>5, <2>6 DEF AtLoop
  <2> QED
    BY <1>1, <2>1, <2>2, <2>6, <2>7, Silent DEF CallInv
<1>6. CASE ~ OverBoundary(b)
  <2>1. /\ pc' = [pc EXCEPT ![t] = "idle"] /\ lease' = [lease EXCEPT ![c] = <<i, b>>]
        /\ for' = [for EXCEPT ![t] = NoLease] /\ fails' = 0
    BY <1>6 DEF Advance, OverBoundary
  <2>2. LocalOK(t)' /\ pc'[t] = "idle" /\ for'[t] = NoLease
    BY <1>1, <2>1 DEF LocalOK
  <2> DEFINE p == <<i, b>>
  <2>3. /\ p \in Blocks /\ Fit(B0, V0, p)
        /\ \A q \in Blocks : Fit(B0, V0, q) => Rank(V0, p) <= Rank(V0, q)
        /\ bitmap = Granted(B0, V0, i, b, Rank(V0, p)) /\ bitmap \in Bitmaps
        /\ validbit' = Moved(V0, i, b, Rank(V0, p)) /\ validbit' \in Cursors
    <3>1. Free(B0, p) /\ b < NumBits /\ ~ OverBoundary(b) /\ (n = NumAddrs => b < V0[Header])
          /\ ScanAt(bitmap, validbit, B0, V0, i, n, b, Bits(b))
      BY <1>3, <1>6
    <3>2. V0 \in Cursors /\ B0 \in Bitmaps /\ validbit' = Stepped(validbit, i)
      BY <1>1, <1>2 DEF Stepped
    <3> HIDE DEF i, b, B0, V0
    <3>3. p \in Blocks /\ Fit(B0, V0, p)
      BY <3>1, <3>2, ScanFinds
    <3>4. ASSUME NEW q \in Blocks, Fit(B0, V0, q)
          PROVE  Rank(V0, p) <= Rank(V0, q)
      BY <3>1, <3>2, <3>4, ScanFinds
    <3>5. bitmap = Granted(B0, V0, i, b, Rank(V0, p)) /\ bitmap \in Bitmaps
      BY <3>1, <3>2, ScanFinds
    <3>6. validbit' = Moved(V0, i, b, Rank(V0, p)) /\ validbit' \in Cursors
      BY <3>1, <3>2, ScanFinds
    <3> QED
      BY <3>3, <3>4, <3>5, <3>6
  <2>4. CallInv(t)'
    BY <1>1, <2>2, <2>3 DEF CallInv
  <2>5. p[1] = i /\ p[2] = b
    OBVIOUS
  <2> HIDE DEF p, i, b, c
  <2>6. Running /\ ~ Running'
    BY <1>1, <2>2 DEF Running
  <2>7. Atomic!FirstFit(p) /\ p \in Atomic!Blocks /\ Atomic!ScanRank(p) = Rank(V0, p)
    BY <1>1, <2>3, AtomicIs DEF Atomic!FirstFit
  <2>8. bitmap' = [j \in Atomic!Nodes |-> B0[j] \cup Atomic!Burnt(j, Atomic!ScanRank(p))
                                    \cup (IF j = p[1] THEN Atomic!Bits(p[2]) ELSE {})]
    <3>1. Atomic!Nodes = Nodes /\ \A j : Atomic!Burnt(j, Rank(V0, p)) = Marked(B0, V0, j, Rank(V0, p))
      BY <1>1, AtomicIs
    <3>2. Atomic!Bits(b) = Bits(b)
      BY DEF Atomic!Bits, Bits, Pool!Bits
    <3> QED
      BY <1>1, <2>3, <2>5, <2>7, <3>1, <3>2 DEF Granted
  <2>9. validbit' = [j \in Atomic!Nodes |->
                       CASE j = p[1] -> p[2] + PortRange
                         [] j # p[1] /\ (j + 1) * NumBits <= Atomic!ScanRank(p) -> 0
                         [] OTHER -> V0[j]]
    <3>1. Atomic!Nodes = Nodes
      BY <1>1, AtomicIs
    <3> QED
      BY <2>3, <2>5, <2>7, <3>1 DEF Moved
  <2>10. Atomic!AllocAddrPort(c)
    BY <1>1, <2>1, <2>6, <2>7, <2>8, <2>9 DEF Atomic!AllocAddrPort, B0, V0, p
  <2> QED
    BY <1>1, <2>4, <2>10 DEF Atomic!Next
<1> QED
  BY <1>5, <1>6

LEMMA GiveUpStep ==
  ASSUME NEW t, Threads = {t}, CallInv(t), GiveUp(t)
  PROVE  CallInv(t)' /\ Atomic!Next
<1> DEFINE c == for[t]
<1>1. /\ pc[t] = "loop" /\ LocalOK(t) /\ Called(t) /\ AtLoop(t)
      /\ pCur[t] = Header /\ validbit[Header] = V0[Header]
      /\ c \in Clients /\ lease[c] = NoLease /\ before[3] = fails
      /\ V0 \in Cursors /\ B0 \in Bitmaps
      /\ pc' = [pc EXCEPT ![t] = "idle"] /\ for' = [for EXCEPT ![t] = NoLease]
      /\ fails' = IF fails = 2 THEN 2 ELSE fails + 1
      /\ UNCHANGED <<bitmap, validbit, lease, pCur, pBit, found, before>>
  BY DEF GiveUp, Around, CallInv, Called
<1>2. ScanAt(bitmap, validbit, B0, V0, Header, NumAddrs, V0[Header], {})
  BY <1>1 DEF AtLoop
<1>3. /\ \A q \in Blocks : ~ Fit(B0, V0, q)
      /\ bitmap = [j \in Nodes |-> B0[j] \cup Marked(B0, V0, j, (NumAddrs + 1) * NumBits)]
      /\ validbit = [j \in Nodes |-> IF j = Header THEN V0[j] ELSE 0]
      /\ bitmap \in Bitmaps /\ validbit \in Cursors
  BY <1>1, <1>2, ScanEnds
<1>4. LocalOK(t)' /\ pc'[t] = "idle" /\ for'[t] = NoLease
  BY <1>1 DEF LocalOK
<1>5. CallInv(t)'
  BY <1>1, <1>3, <1>4 DEF CallInv
<1>6. Running /\ ~ Running'
  BY <1>1, <1>4 DEF Running
<1> HIDE DEF c
<1>7. /\ Atomic!Nodes = Nodes /\ Atomic!Header = Header /\ Atomic!Blocks = Blocks
      /\ \A q \in Blocks : ~ Atomic!Usable(q)
      /\ \A j : Atomic!Burnt(j, Atomic!ScanEnd) = Marked(B0, V0, j, (NumAddrs + 1) * NumBits)
  BY <1>1, <1>3, AtomicIs
<1>8. /\ bitmap' = [j \in Atomic!Nodes |-> B0[j] \cup Atomic!Burnt(j, Atomic!ScanEnd)]
      /\ validbit' = [j \in Atomic!Nodes |-> IF j = Atomic!Header THEN V0[j] ELSE 0]
  BY <1>1, <1>3, <1>7
<1>9. Atomic!AllocFails(c)
  BY <1>1, <1>6, <1>7, <1>8 DEF Atomic!AllocFails, B0, V0
<1> QED
  BY <1>1, <1>5, <1>9 DEF Atomic!Next

LEMMA DeallocStep ==
  ASSUME NEW t, Threads = {t}, CallInv(t), NEW c \in Clients, Dealloc(t, c)
  PROVE  CallInv(t)' /\ Atomic!Next
<1>1. /\ pc[t] = "idle" /\ LocalOK(t) /\ for[t] = NoLease
      /\ bitmap \in Bitmaps /\ validbit \in Cursors
      /\ Pool!DeallocAddrPort(c) /\ UNCHANGED <<pc, for, pCur, pBit, found>>
  BY DEF Dealloc, CallInv
<1>2. ~ Running /\ ~ Running'
  BY <1>1 DEF Running
<1>3. bitmap' \in Bitmaps /\ validbit' = validbit
  BY <1>1 DEF Pool!DeallocAddrPort, Bitmaps
<1>4. Atomic!DeallocAddrPort(c)
  <2>1. Atomic!ReleasedBits(lease[c]) = Pool!ReleasedBits(lease[c])
    BY DEF Atomic!ReleasedBits, Pool!ReleasedBits, Atomic!StartPort, Pool!StartPort,
           Atomic!Bits, Pool!Bits
  <2> QED
    BY <1>1, <1>2, <2>1 DEF Pool!DeallocAddrPort, Atomic!DeallocAddrPort
<1>5. CallInv(t)'
  BY <1>1, <1>3 DEF CallInv, LocalOK
<1> QED
  BY <1>4, <1>5 DEF Atomic!Next

\* With one thread in it the loop of AllocAddrPort has the effect of one action of
\* AddrPool: it takes the first free block from the header's cursor on, marks what it
\* rejects at the boundary and resets the cursors it passes, or refuses when the
\* round is over, for any number and size of the addresses and of the blocks.
THEOREM ScanIsAtomic ==
  ASSUME NEW t, Threads = {t}
  PROVE  Spec => ImplementsAddrPool
<1>1. ASSUME Init
      PROVE  CallInv(t) /\ Atomic!InitAddrPool
  <2>1. pc[t] = "idle" /\ for[t] = NoLease /\ LocalOK(t)
    BY <1>1, Sizes DEF Init, LocalOK
  <2>2. bitmap \in Bitmaps /\ validbit \in Cursors
    <3>1. 0 \in 0 .. NumBits /\ 0 % PortRange = 0
      BY Sizes
    <3> QED
      BY <1>1, <3>1 DEF Init, Pool!InitAddrPool, Bitmaps, Cursors, Nodes
  <2>3. ~ Running
    BY <2>1 DEF Running
  <2>4. Atomic!InitAddrPool
    BY <1>1, <2>3 DEF Init, Pool!InitAddrPool, Atomic!InitAddrPool, Atomic!Nodes, Pool!Nodes
  <2> QED
    BY <2>1, <2>2, <2>4 DEF CallInv
<1>2. ASSUME CallInv(t), [Next]_vars
      PROVE  CallInv(t)' /\ [Atomic!Next]_(Atomic!vars)
  <2>1. CASE Next
    <3>1. CASE \E c \in Clients : Enter(t, c)
      BY <1>2, <3>1, EnterStep
    <3>2. CASE \E c \in Clients : Dealloc(t, c)
      BY <1>2, <3>2, DeallocStep
    <3>3. CASE AllocStep(t)
      BY <1>2, <3>3, FirstStep, GiveUpStep, NextAddrStep, TestStep, MarkStep, AdvanceStep
      DEF AllocStep
    <3> QED
      BY <2>1, <3>1, <3>2, <3>3 DEF Next
  <2>2. CASE UNCHANGED vars
    <3>1. Running' <=> Running
      BY <2>2 DEF vars, Running
    <3>2. UNCHANGED Atomic!vars
      BY <2>2, <3>1 DEF vars, shared, local, Atomic!vars
    <3>3. CallInv(t)'
      BY <1>2, <2>2 DEF vars, shared, local, CallInv, LocalOK, Called, AtLoop, AtBlock, B0, V0
    <3> QED
      BY <3>2, <3>3
  <2> QED
    BY <1>2, <2>1, <2>2
<1> QED
  BY <1>1, <1>2, PTL DEF Spec, ImplementsAddrPool, Atomic!Spec
=============================================================================

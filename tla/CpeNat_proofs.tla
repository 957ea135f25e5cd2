---------------------------- MODULE CpeNat_proofs ----------------------------
(***************************************************************************)
(* Theorems about CpeNat for any flows, any blocks and any bounds.         *)
(***************************************************************************)
EXTENDS CpeNat, FiniteSetTheorems, TLAPS

Protos == {"tcp", "udp"}
Book   == [bits : SUBSET Nat, used : Nat]
Books  == [Protos -> Book]

LEMMA ProtoOfCounted ==
  ASSUME NEW f \in Flows
  PROVE  /\ f \in Counted => Proto(f) \in Protos /\ f \notin IcmpFlows
         /\ f \notin IcmpFlows => f \in Counted
BY NatAssumption DEF Flows, Counted, Proto, Protos

LEMMA GivenType ==
  ASSUME NEW bk \in Books, NEW f \in Flows, NEW p \in Nat, low \in Nat
  PROVE  setportbit(bk, f, p) \in Books
<1>1. CASE f \in IcmpFlows
  BY <1>1 DEF setportbit
<1>2. CASE f \notin IcmpFlows
  <2>1. Proto(f) \in Protos
    BY <1>2, ProtoOfCounted
  <2>2. bk[Proto(f)] \in Book
    BY <2>1 DEF Books
  <2>3. Given(bk[Proto(f)], p) \in Book
    BY <2>2 DEF Given, Book
  <2> QED
    BY <1>2, <2>1, <2>3 DEF setportbit, Books
<1> QED
  BY <1>1, <1>2

\* What a port that has been found for a flow is, and what its books are.
LEMMA PortForType ==
  ASSUME TypeOK, NEW f \in Flows, NEW p \in Numbers, PortFor(f, p)
  PROVE  /\ p \in Nat
         /\ f \in Counted => p \in low .. high + 1
         /\ BookWith(f, p) \in Books
         /\ IcmpStatics(f, p) => icmpId' \in Nat /\ icmpLast' \in Nat
<1>1. low \in Nat /\ high \in Nat /\ book \in Books /\ icmpId \in Nat /\ icmpLast \in Nat
  BY DEF TypeOK, Books, Book, Protos
<1>2. p \in Nat
  BY <1>1 DEF Numbers
<1>3. f \in Counted => p \in low .. high + 1
  BY ProtoOfCounted DEF PortFor, FirstFree
<1>4. CASE f \in IcmpFlows
  BY <1>1, <1>2, <1>3, <1>4 DEF BookWith, IcmpStatics
<1>5. CASE f \notin IcmpFlows
  <2>1. f \in Counted /\ Proto(f) \in Protos
    BY <1>5, ProtoOfCounted
  <2>2. book[Proto(f)] \in Book
    BY <1>1, <2>1 DEF Books
  <2>3. Taken(book[Proto(f)], p) \in Book
    BY <1>1, <1>3, <2>1, <2>2 DEF Taken, Book
  <2> QED
    BY <1>1, <1>2, <1>3, <1>5, <2>1, <2>3 DEF BookWith, IcmpStatics, icmp, Books
<1> QED
  BY <1>4, <1>5

-----------------------------------------------------------------------------
\* The tracking of a packet keeps the types of sessions and books.
LEMMA TrackType ==
  ASSUME TypeOK, NEW f \in Flows, NEW s \in Session, s.seq < MaxEchoes,
         NEW bk \in Books, NEW k, TrackUp(f, s, bk, k)
  PROVE  /\ nat' \in [Flows -> Session \cup {NoSession}]
         /\ book' \in Books
         /\ reset' \in BOOLEAN
<1>1. /\ low \in Nat /\ MaxEchoes \in Nat
      /\ nat \in [Flows -> Session \cup {NoSession}]
      /\ reset \in BOOLEAN
  BY NatAssumption DEF TypeOK
<1>2. s.port \in Nat /\ s.seq \in 0 .. MaxEchoes
  BY DEF Session
<1>3. setportbit(bk, f, s.port) \in Books
  BY <1>1, <1>2, GivenType
<1>4. setportbit(setportbit(bk, f, s.port), f, s.port) \in Books
  BY <1>1, <1>2, <1>3, GivenType
<1>5. [s EXCEPT !.armed = TRUE, !.seq = IF f \in IcmpFlows THEN @ + 1 ELSE @] \in Session
  <2>1. ASSUME NEW n \in 0 .. MaxEchoes
        PROVE  [s EXCEPT !.armed = TRUE, !.seq = n] \in Session
    BY DEF Session
  <2>2. (IF f \in IcmpFlows THEN s.seq + 1 ELSE s.seq) \in 0 .. MaxEchoes
    BY <1>1, <1>2
  <2> QED
    BY <2>1, <2>2
<1> QED
  BY <1>1, <1>3, <1>4, <1>5 DEF TrackUp, Deleted

LEMMA OpenedType ==
  ASSUME NEW p \in Nat
  PROVE  Opened(p) \in Session /\ Opened(p).seq < MaxEchoes /\ Opened(p).port = p
BY NatAssumption DEF Opened, Session

LEMMA TypeStep ==
  ASSUME TypeOK, [Next]_vars
  PROVE  TypeOK'
<1> USE DEF Books, Book, Protos
<1>0. /\ low \in Nat /\ high \in Nat /\ book \in Books
      /\ icmpId \in Nat /\ icmpLast \in Nat
      /\ nat \in [Flows -> Session \cup {NoSession}]
      /\ newRange \in Ranges \cup {<<>>}
      /\ faults \in 0 .. MaxFaults /\ renewals \in 0 .. MaxRenewals
      /\ renewed \in BOOLEAN /\ reset \in BOOLEAN
  BY DEF TypeOK
<1>1. ASSUME NEW f \in Flows, NEW k \in Kinds(f), UpKnown(f, k)
      PROVE  TypeOK'
  <2>1. nat[f] \in Session /\ nat[f].seq < MaxEchoes /\ TrackUp(f, nat[f], book, k)
    BY <1>0, <1>1 DEF UpKnown, FoundUp
  <2>2. /\ nat' \in [Flows -> Session \cup {NoSession}]
        /\ book' \in Books /\ reset' \in BOOLEAN
    BY <1>0, <2>1, TrackType
  <2> QED
    BY <1>0, <1>1, <2>2 DEF UpKnown, TypeOK, laft, icmp, FoundUp
<1>2. ASSUME NEW f \in Flows, NEW k \in Kinds(f), UpNew(f, k)
      PROVE  TypeOK'
  <2>1. PICK p \in Numbers : /\ PortFor(f, p) /\ IcmpStatics(f, p)
                             /\ TrackUp(f, Opened(p), BookWith(f, p), k)
    BY <1>2 DEF UpNew
  <2>2. p \in Nat /\ BookWith(f, p) \in Books /\ icmpId' \in Nat /\ icmpLast' \in Nat
    BY <2>1, PortForType
  <2>3. /\ nat' \in [Flows -> Session \cup {NoSession}]
        /\ book' \in Books /\ reset' \in BOOLEAN
    BY <2>1, <2>2, OpenedType, TrackType
  <2> QED
    BY <1>0, <1>2, <2>2, <2>3 DEF UpNew, TypeOK, laft
<1>3. ASSUME NEW f \in Flows, UpNoMemory(f)
      PROVE  TypeOK'
  <2>1. PICK p \in Numbers :
          /\ PortFor(f, p) /\ IcmpStatics(f, p)
          /\ book' = BookWith(f, p)
          /\ nat' \in {nat, [nat EXCEPT ![f] = Opened(p)],
                            [nat EXCEPT ![f] = [Opened(p) EXCEPT !.linked = FALSE]]}
    BY <1>3 DEF UpNoMemory
  <2>2. p \in Nat /\ BookWith(f, p) \in Books /\ icmpId' \in Nat /\ icmpLast' \in Nat
    BY <2>1, PortForType
  <2>3. Opened(p) \in Session /\ [Opened(p) EXCEPT !.linked = FALSE] \in Session
    <3> DEFINE o == Opened(p)
    <3>1. o \in Session
      BY <2>2, OpenedType
    <3> HIDE DEF o
    <3>2. [o EXCEPT !.linked = FALSE] \in Session
      BY <3>1 DEF Session
    <3> QED
      BY <3>1, <3>2 DEF o
  <2>4. nat' \in [Flows -> Session \cup {NoSession}]
    BY <1>0, <2>1, <2>3
  <2>5. faults' \in 0 .. MaxFaults
    BY <1>0, <1>3, NatAssumption DEF UpNoMemory
  <2> QED
    BY <1>0, <1>3, <2>1, <2>2, <2>4, <2>5 DEF UpNoMemory, TypeOK, laft
<1>4. ASSUME NEW f \in Flows, NEW k \in Kinds(f), Down(f, k)
      PROVE  TypeOK'
  <2> DEFINE s == [nat[f] EXCEPT !.seen = f \in TcpFlows]
  <2>1. nat[f] \in Session
    BY <1>0, <1>4 DEF Down, FoundDown
  <2>2. s \in Session /\ s.port = nat[f].port /\ s.port \in Nat /\ s.seq \in 0 .. MaxEchoes
    <3>1. ASSUME NEW b \in BOOLEAN
          PROVE  /\ [nat[f] EXCEPT !.seen = b] \in Session
                 /\ [nat[f] EXCEPT !.seen = b].port = nat[f].port
      BY <2>1 DEF Session
    <3>2. (f \in TcpFlows) \in BOOLEAN
      OBVIOUS
    <3>3. s \in Session /\ s.port = nat[f].port
      BY <3>1, <3>2, Zenon
    <3> QED
      BY <3>3 DEF Session
  <2>3. setportbit(book, f, s.port) \in Books
    BY <1>0, <2>2, GivenType
  <2>4. CASE f \in Counted
    <3>1. f \notin IcmpFlows
      BY <2>4, ProtoOfCounted
    <3>2. [s EXCEPT !.armed = TRUE] \in Session
      BY <2>2 DEF Session
    <3>3. /\ nat' = [nat EXCEPT ![f] = IF k = "none" THEN s ELSE [s EXCEPT !.armed = TRUE]]
          /\ book' = book
      BY <1>4, <2>4, <3>1 DEF Down, FoundDown
    <3>4. nat' \in [Flows -> Session \cup {NoSession}]
      BY <1>0, <2>2, <3>2, <3>3
    <3> QED
      BY <1>0, <1>4, <3>3, <3>4 DEF Down, TypeOK, laft, icmp, FoundDown
  <2>5. CASE f \notin Counted
    <3>1. CASE s.seq - 1 <= 0
      <4>1. Deleted(f, s, book)
        BY <1>4, <2>5, <3>1 DEF Down, FoundDown
      <4>2. nat' \in [Flows -> Session \cup {NoSession}] /\ book' \in Books
        BY <1>0, <2>3, <4>1 DEF Deleted
      <4> QED
        BY <1>0, <1>4, <4>2 DEF Down, TypeOK, laft, icmp, FoundDown
    <3>2. CASE ~(s.seq - 1 <= 0)
      <4>1. nat' = [nat EXCEPT ![f] = [s EXCEPT !.seq = @ - 1]] /\ book' = book
        BY <1>4, <2>5, <3>2 DEF Down, FoundDown
      <4>2. s.seq - 1 \in 0 .. MaxEchoes
        BY <2>2, <3>2, NatAssumption
      <4>3. [s EXCEPT !.seq = @ - 1] \in Session
        BY <2>2, <4>2 DEF Session
      <4>4. nat' \in [Flows -> Session \cup {NoSession}]
        BY <1>0, <4>1, <4>3
      <4> QED
        BY <1>0, <1>4, <4>1, <4>4 DEF Down, TypeOK, laft, icmp, FoundDown
    <3> QED
      BY <3>1, <3>2
  <2> QED
    BY <2>4, <2>5
<1>5. ASSUME NEW f \in Flows, Expire(f)
      PROVE  TypeOK'
  <2>1. nat[f] \in Session /\ nat[f].port \in Nat
    BY <1>0, <1>5 DEF Expire, Session, TimeOver
  <2>2. setportbit(book, f, nat[f].port) \in Books
    BY <1>0, <2>1, GivenType
  <2>3. nat' \in [Flows -> Session \cup {NoSession}] /\ book' \in Books
    BY <1>0, <1>5, <2>2 DEF Expire, Deleted, TimeOver
  <2> QED
    BY <1>0, <1>5, <2>3 DEF Expire, TypeOK, laft, icmp, TimeOver
<1>6. ASSUME NEW r \in Ranges, SetLow(r)
      PROVE  TypeOK'
  <2>1. r[1] \in Nat
    BY NatAssumption
  <2>2. renewals' \in 0 .. MaxRenewals
    BY <1>0, <1>6, NatAssumption DEF SetLow
  <2> QED
    BY <1>0, <1>6, <2>1, <2>2 DEF SetLow, TypeOK, icmp
<1>7. CASE SetHigh
  <2>1. newRange[2] \in Nat
    BY <1>0, <1>7, NatAssumption DEF SetHigh
  <2> QED
    BY <1>0, <1>7, <2>1 DEF SetHigh, TypeOK, icmp
<1>8. CASE NewMaps
  <2>1. book' \in Books
    BY <1>8 DEF NewMaps
  <2> QED
    BY <1>0, <1>8, <2>1 DEF NewMaps, TypeOK, icmp
<1>9. CASE UNCHANGED vars
  BY <1>0, <1>9 DEF vars, TypeOK, laft, icmp
<1> QED
  BY <1>1, <1>2, <1>3, <1>4, <1>5, <1>6, <1>7, <1>8, <1>9 DEF Next

\* The gateway's state keeps its types (netlink.c, packet.c, tool.c).
THEOREM NatTypeCorrect == Spec => []TypeOK
<1>1. ASSUME Init
      PROVE  TypeOK
  <2>1. low \in Nat /\ high \in Nat
    BY <1>1, NatAssumption DEF Init
  <2>2. book \in [{"tcp", "udp"} -> [bits : SUBSET Nat, used : Nat]]
    BY <1>1 DEF Init
  <2>3. nat \in [Flows -> Session \cup {NoSession}]
    BY <1>1 DEF Init
  <2>4. /\ icmpId = 0 /\ icmpLast = 0 /\ newRange = <<>>
        /\ faults = 0 /\ renewals = 0 /\ renewed = FALSE /\ reset = FALSE
    BY <1>1 DEF Init
  <2>5. faults \in 0 .. MaxFaults /\ renewals \in 0 .. MaxRenewals
    BY <2>4, NatAssumption
  <2> QED
    BY <2>1, <2>2, <2>3, <2>4, <2>5 DEF TypeOK
<1>2. TypeOK /\ [Next]_vars => TypeOK'
  BY TypeStep
<1> QED
  BY <1>1, <1>2, PTL DEF Spec

-----------------------------------------------------------------------------
(***************************************************************************)
(* No port twice.  A table of sessions n fits the books bk when the port of *)
(* every session is set and no two sessions of a protocol share one.  A     *)
(* bit is cleared only for a session that goes, and no other has its port.  *)
(***************************************************************************)
HasPort(n, f) == f \in Counted /\ n[f] # NoSession

Fits(n, bk) ==
  /\ \A f \in Flows : HasPort(n, f) =>
       /\ n[f].port >= low
       /\ n[f].port <= high => n[f].port - low \in bk[Proto(f)].bits
  /\ \A f, g \in Flows :
       (HasPort(n, f) /\ HasPort(n, g) /\ f # g /\ Proto(f) = Proto(g) /\ n[f].port <= high)
         => n[f].port # n[g].port

Table == [Flows -> Session \cup {NoSession}]

\* A port that no session has may be given back.
LEMMA GiveFits ==
  ASSUME low \in Nat, NEW n \in Table, NEW bk \in Books, Fits(n, bk),
         NEW f \in Flows, NEW p \in Nat,
         \A g \in Flows : (HasPort(n, g) /\ Proto(g) = Proto(f) /\ n[g].port <= high)
                            => n[g].port # p
  PROVE  Fits(n, setportbit(bk, f, p))
<1>1. CASE f \in IcmpFlows
  BY <1>1 DEF setportbit
<1>2. CASE f \notin IcmpFlows
  <2> DEFINE new == setportbit(bk, f, p)
  <2>1. Proto(f) \in Protos
    BY <1>2, ProtoOfCounted
  <2>2. new = [bk EXCEPT ![Proto(f)] = Given(bk[Proto(f)], p)]
    BY <1>2 DEF setportbit
  <2>3. /\ new[Proto(f)].bits = bk[Proto(f)].bits \ {p - low}
        /\ \A P \in Protos : P # Proto(f) => new[P] = bk[P]
    BY <2>1, <2>2 DEF Given, Books
  <2>4. ASSUME NEW g \in Flows, HasPort(n, g), n[g].port <= high
        PROVE  n[g].port - low \in new[Proto(g)].bits
    <3>1. n[g].port \in Nat /\ Proto(g) \in Protos
      BY <2>4, ProtoOfCounted DEF HasPort, Table, Session
    <3>2. n[g].port - low \in bk[Proto(g)].bits
      BY <2>4 DEF Fits
    <3>3. Proto(g) = Proto(f) => n[g].port # p
      BY <2>4
    <3>4. Proto(g) = Proto(f) => n[g].port - low # p - low
      BY <3>1, <3>3
    <3> QED
      BY <2>3, <3>1, <3>2, <3>4
  <2> QED
    BY <2>4 DEF Fits
<1> QED
  BY <1>1, <1>2

\* A session may go, and a session may change all but its port.
LEMMA ChangeFits ==
  ASSUME NEW n \in Table, NEW bk, Fits(n, bk), NEW f \in Flows,
         NEW t, t = NoSession \/ (n[f] # NoSession /\ t.port = n[f].port)
  PROVE  Fits([n EXCEPT ![f] = t], bk)
<1> DEFINE new == [n EXCEPT ![f] = t]
<1>1. ASSUME NEW g \in Flows, HasPort(new, g)
      PROVE  HasPort(n, g) /\ new[g].port = n[g].port
  BY <1>1 DEF HasPort, Table
<1> QED
  BY <1>1 DEF Fits

\* A port that has been found is nobody else's.
LEMMA OpenFits ==
  ASSUME TypeOK, Fits(nat, book), NEW f \in Flows, nat[f] = NoSession,
         NEW p \in Numbers, PortFor(f, p)
  PROVE  /\ Fits(nat, BookWith(f, p))
         /\ \A t : t.port = p => Fits([nat EXCEPT ![f] = t], BookWith(f, p))
<1>1. low \in Nat /\ high \in Nat /\ book \in Books /\ nat \in Table
  BY DEF TypeOK, Books, Book, Protos, Table
<1>2. CASE f \in IcmpFlows
  <2>1. f \notin Counted /\ BookWith(f, p) = book
    BY <1>2, ProtoOfCounted DEF BookWith
  <2>2. ASSUME NEW t
        PROVE  Fits([nat EXCEPT ![f] = t], book)
    <3> DEFINE new == [nat EXCEPT ![f] = t]
    <3>1. ASSUME NEW g \in Flows, HasPort(new, g)
          PROVE  HasPort(nat, g) /\ new[g] = nat[g]
      BY <1>1, <2>1, <3>1 DEF HasPort, Table
    <3> QED
      BY <3>1 DEF Fits
  <2> QED
    BY <2>1, <2>2
<1>3. CASE f \notin IcmpFlows
  <2> DEFINE P == Proto(f)
             bk == BookWith(f, p)
  <2>1. f \in Counted /\ P \in Protos /\ p \in Nat /\ p >= low
    BY <1>1, <1>3, ProtoOfCounted, PortForType
  <2>2. bk = [book EXCEPT ![P] = Taken(book[P], p)] /\ FirstFree(P, p)
    BY <1>3 DEF BookWith, PortFor
  <2>3. /\ bk[P].bits = IF p > high THEN book[P].bits ELSE book[P].bits \cup {p - low}
        /\ \A Q \in Protos : Q # P => bk[Q] = book[Q]
    BY <1>1, <2>1, <2>2 DEF Taken, Books
  <2>4. ASSUME NEW g \in Flows, HasPort(nat, g)
        PROVE  /\ nat[g].port \in Nat /\ nat[g].port >= low
               /\ nat[g].port <= high => nat[g].port - low \in bk[Proto(g)].bits
               /\ (Proto(g) = P /\ nat[g].port <= high) => nat[g].port # p
    <3>1. Proto(g) \in Protos /\ nat[g].port \in Nat /\ nat[g].port >= low
      BY <1>1, <2>4, ProtoOfCounted DEF HasPort, Table, Session, Fits
    <3>2. nat[g].port <= high => nat[g].port - low \in book[Proto(g)].bits
      BY <2>4 DEF Fits
    <3>3. p <= high => p - low \notin book[P].bits
      BY <2>2 DEF FirstFree
    <3> QED
      BY <2>3, <3>1, <3>2, <3>3
  <2>5. Fits(nat, bk)
    BY <2>4 DEF Fits
  <2>6. ASSUME NEW t, t.port = p
        PROVE  Fits([nat EXCEPT ![f] = t], bk)
    <3> DEFINE new == [nat EXCEPT ![f] = t]
    <3>1. new[f] = t /\ \A g \in Flows : g # f => new[g] = nat[g]
      BY <1>1 DEF Table
    <3>2. p <= high => p - low \in bk[P].bits
      BY <1>1, <2>1, <2>3
    <3>3. ASSUME NEW g \in Flows, HasPort(new, g)
          PROVE  /\ new[g].port >= low
                 /\ new[g].port <= high => new[g].port - low \in bk[Proto(g)].bits
      BY <2>1, <2>4, <2>6, <3>1, <3>2, <3>3 DEF HasPort
    <3>4. ASSUME NEW g \in Flows, NEW h \in Flows, HasPort(new, g), HasPort(new, h),
                 g # h, Proto(g) = Proto(h), new[g].port <= high
          PROVE  new[g].port # new[h].port
      <4>1. CASE g = f
        BY <1>1, <2>1, <2>4, <2>6, <3>1, <3>4, <4>1 DEF HasPort
      <4>2. CASE h = f
        BY <1>1, <2>1, <2>4, <2>6, <3>1, <3>4, <4>2 DEF HasPort
      <4>3. CASE g # f /\ h # f
        <5>1. HasPort(nat, g) /\ HasPort(nat, h) /\ new[g] = nat[g] /\ new[h] = nat[h]
          BY <3>1, <3>4, <4>3 DEF HasPort
        <5> QED
          BY <3>4, <5>1 DEF Fits
      <4> QED
        BY <4>1, <4>2, <4>3
    <3> QED
      BY <3>3, <3>4 DEF Fits
  <2> QED
    BY <2>5, <2>6
<1> QED
  BY <1>2, <1>3

\* A session that ends, with its port given back beforehand or by the deletion.
LEMMA EndFits ==
  ASSUME low \in Nat, NEW n \in Table, NEW bk \in Books, Fits(n, bk),
         NEW f \in Flows, n[f] \in Session
  PROVE  LET m == [n EXCEPT ![f] = NoSession]
             b == setportbit(bk, f, n[f].port)
         IN Fits(m, bk) /\ Fits(m, b) /\ Fits(m, setportbit(b, f, n[f].port))
<1> DEFINE m == [n EXCEPT ![f] = NoSession]
           b == setportbit(bk, f, n[f].port)
<1>1. n[f].port \in Nat /\ m \in Table
  BY DEF Session, Table
<1>2. Fits(m, bk)
  BY ChangeFits
<1>3. CASE f \in Counted
  <2>1. ASSUME NEW g \in Flows, HasPort(m, g), Proto(g) = Proto(f), m[g].port <= high
        PROVE  m[g].port # n[f].port
    <3>1. HasPort(n, g) /\ g # f /\ m[g] = n[g]
      BY <2>1 DEF HasPort, Table
    <3>2. HasPort(n, f)
      BY <1>3, NatAssumption DEF HasPort
    <3> QED
      BY <2>1, <3>1, <3>2 DEF Fits
  <2>2. b \in Books
    BY <1>1, GivenType
  <2>3. Fits(m, b)
    BY <1>1, <1>2, <2>1, GiveFits
  <2>4. Fits(m, setportbit(b, f, n[f].port))
    BY <1>1, <2>1, <2>2, <2>3, GiveFits
  <2> QED
    BY <1>2, <2>3, <2>4
<1>4. CASE f \notin Counted
  BY <1>2, <1>4, ProtoOfCounted DEF setportbit
<1> QED
  BY <1>3, <1>4

LEMMA TrackFits ==
  ASSUME low \in Nat, nat \in Table, NEW f \in Flows, NEW s \in Session, NEW bk \in Books,
         Fits([nat EXCEPT ![f] = s], bk), NEW k, TrackUp(f, s, bk, k)
  PROVE  Fits(nat', book')
<1> DEFINE n == [nat EXCEPT ![f] = s]
<1>1. n \in Table /\ n[f] = s
  BY DEF Table
<1>2. CASE k = "none"
  BY <1>2 DEF TrackUp
<1>3. CASE k = "rst" /\ ~s.seen
  <2>1. Deleted(f, s, setportbit(bk, f, s.port))
    BY <1>3 DEF TrackUp
  <2>2. nat' = [n EXCEPT ![f] = NoSession]
    BY <2>1 DEF Deleted, Table
  <2>3. book' \in {setportbit(bk, f, s.port),
                   setportbit(setportbit(bk, f, s.port), f, s.port)}
    BY <2>1 DEF Deleted
  <2> QED
    BY <1>1, <2>2, <2>3, EndFits
<1>4. CASE k = "data" \/ (k = "rst" /\ s.seen)
  <2> DEFINE t == [s EXCEPT !.armed = TRUE, !.seq = IF f \in IcmpFlows THEN @ + 1 ELSE @]
  <2>1. nat' = [nat EXCEPT ![f] = t] /\ book' = bk
    BY <1>4 DEF TrackUp
  <2>2. t.port = s.port
    BY DEF Session
  <2>3. nat' = [n EXCEPT ![f] = t]
    BY <2>1 DEF Table
  <2>4. n[f] # NoSession
    BY <1>1, NatAssumption
  <2>5. ASSUME NEW u, u.port = s.port
        PROVE  Fits([n EXCEPT ![f] = u], bk)
    BY <1>1, <2>4, <2>5, ChangeFits
  <2> HIDE DEF t
  <2> QED
    BY <2>1, <2>2, <2>3, <2>5
<1> QED
  BY <1>2, <1>3, <1>4 DEF TrackUp

\* What is invariant: as long as the block has not been replaced under live
\* sessions, the sessions fit the books.
ExclInv == Steady => Fits(nat, book)

LEMMA ExclStep ==
  ASSUME TypeOK, ExclInv, [Next]_vars
  PROVE  ExclInv'
<1>0. low \in Nat /\ nat \in Table /\ book \in Books
  BY DEF TypeOK, Table, Books, Book, Protos
<1> DEFINE Same == low' = low /\ high' = high /\ newRange' = newRange /\ renewed' = renewed
<1>1. ASSUME Same, Steady => Fits(nat', book')
      PROVE  ExclInv'
  BY <1>1 DEF ExclInv, Steady, Fits, HasPort
<1>2. ASSUME NEW f \in Flows, NEW k \in Kinds(f), UpKnown(f, k), Steady
      PROVE  Fits(nat', book')
  <2>1. nat[f] \in Session /\ TrackUp(f, nat[f], book, k) /\ Fits(nat, book)
    BY <1>0, <1>2 DEF UpKnown, ExclInv, Table, FoundUp
  <2>2. [nat EXCEPT ![f] = nat[f]] = nat
    BY <1>0 DEF Table
  <2> QED
    BY <1>0, <2>1, <2>2, TrackFits
<1>3. ASSUME NEW f \in Flows, NEW k \in Kinds(f), UpNew(f, k), Steady
      PROVE  Fits(nat', book')
  <2>1. PICK p \in Numbers : PortFor(f, p) /\ TrackUp(f, Opened(p), BookWith(f, p), k)
    BY <1>3 DEF UpNew
  <2>2. nat[f] = NoSession /\ Fits(nat, book)
    BY <1>3 DEF UpNew, ExclInv
  <2>3. p \in Nat /\ BookWith(f, p) \in Books /\ Opened(p) \in Session /\ Opened(p).port = p
    BY <2>1, PortForType, OpenedType
  <2>4. Fits([nat EXCEPT ![f] = Opened(p)], BookWith(f, p))
    BY <2>1, <2>2, <2>3, OpenFits
  <2> QED
    BY <1>0, <2>1, <2>3, <2>4, TrackFits
<1>4. ASSUME NEW f \in Flows, UpNoMemory(f), Steady
      PROVE  Fits(nat', book')
  <2>1. PICK p \in Numbers :
          /\ PortFor(f, p) /\ book' = BookWith(f, p)
          /\ nat' \in {nat, [nat EXCEPT ![f] = Opened(p)],
                            [nat EXCEPT ![f] = [Opened(p) EXCEPT !.linked = FALSE]]}
    BY <1>4 DEF UpNoMemory
  <2>2. nat[f] = NoSession /\ Fits(nat, book)
    BY <1>4 DEF UpNoMemory, ExclInv
  <2>3. Opened(p).port = p /\ [Opened(p) EXCEPT !.linked = FALSE].port = p
    BY DEF Opened
  <2>4. /\ Fits(nat, BookWith(f, p))
        /\ \A t : t.port = p => Fits([nat EXCEPT ![f] = t], BookWith(f, p))
    BY <2>1, <2>2, OpenFits
  <2>5. /\ Fits([nat EXCEPT ![f] = Opened(p)], BookWith(f, p))
        /\ Fits([nat EXCEPT ![f] = [Opened(p) EXCEPT !.linked = FALSE]], BookWith(f, p))
    BY <2>3, <2>4
  <2> QED
    BY <2>1, <2>4, <2>5
<1>5. ASSUME NEW f \in Flows, NEW k \in Kinds(f), Down(f, k), Steady
      PROVE  Fits(nat', book')
  <2>1. nat[f] \in Session /\ nat[f] # NoSession /\ Fits(nat, book)
    BY <1>0, <1>5 DEF Down, ExclInv, Table, FoundDown
  <2> DEFINE s == [nat[f] EXCEPT !.seen = f \in TcpFlows]
  <2>2. \/ \E t : t.port = nat[f].port /\ nat' = [nat EXCEPT ![f] = t] /\ book' = book
        \/ Deleted(f, s, book)
    <3>1. /\ s.port = nat[f].port
          /\ [s EXCEPT !.armed = TRUE].port = nat[f].port
          /\ [s EXCEPT !.seq = @ - 1].port = nat[f].port
      BY <2>1 DEF Session
    <3> QED
      BY <1>5, <3>1 DEF Down, FoundDown
  <2>3. CASE Deleted(f, s, book)
    <3>1. s.port = nat[f].port
      BY <2>1 DEF Session
    <3> QED
      BY <1>0, <2>1, <2>3, <3>1, EndFits DEF Deleted
  <2>4. CASE \E t : t.port = nat[f].port /\ nat' = [nat EXCEPT ![f] = t] /\ book' = book
    <3>1. PICK t : t.port = nat[f].port /\ nat' = [nat EXCEPT ![f] = t] /\ book' = book
      BY <2>4
    <3>2. Fits([nat EXCEPT ![f] = t], book)
      BY <1>0, <2>1, <3>1, ChangeFits
    <3> QED
      BY <3>1, <3>2
  <2> QED
    BY <2>2, <2>3, <2>4
<1>6. ASSUME NEW f \in Flows, Expire(f), Steady
      PROVE  Fits(nat', book')
  BY <1>0, <1>6, EndFits DEF Expire, Deleted, ExclInv, Table, TimeOver
<1>7. ASSUME NEW r \in Ranges, SetLow(r)
      PROVE  ExclInv'
  <2>1. r \in Nat \X Nat
    BY NatAssumption
  <2>2. r # <<>>
    BY <2>1
  <2>3. newRange' # <<>>
    BY <1>7, <2>2 DEF SetLow
  <2> QED
    BY <2>3 DEF ExclInv, Steady
<1>8. CASE SetHigh
  <2>1. newRange' # <<>>
    BY <1>8 DEF SetHigh
  <2> QED
    BY <2>1 DEF ExclInv, Steady
<1>9. CASE NewMaps
  <2>1. Steady' => Live = {} /\ nat' = nat
    BY <1>9 DEF NewMaps, Steady
  <2>2. Steady' => \A f \in Flows : nat'[f] = NoSession
    BY <2>1 DEF Live
  <2> QED
    BY <2>2 DEF ExclInv, Fits, HasPort
<1>10. CASE UNCHANGED vars
  BY <1>10 DEF vars, laft, ExclInv, Steady, Fits, HasPort
<1>11. ASSUME NEW f \in Flows, NEW k \in Kinds(f), UpKnown(f, k) \/ UpNew(f, k) \/ Down(f, k)
       PROVE  ExclInv'
  <2>1. Same
    BY <1>11 DEF UpKnown, UpNew, Down, laft, FoundUp, FoundDown
  <2> QED
    BY <1>1, <1>2, <1>3, <1>5, <1>11, <2>1
<1>12. ASSUME NEW f \in Flows, UpNoMemory(f) \/ Expire(f)
       PROVE  ExclInv'
  <2>1. Same
    BY <1>12 DEF UpNoMemory, Expire, laft, TimeOver
  <2> QED
    BY <1>1, <1>4, <1>6, <1>12, <2>1
<1> QED
  BY <1>7, <1>8, <1>9, <1>10, <1>11, <1>12 DEF Next

\* No two sessions of a protocol have one port of the block, for any flows and any
\* block (get_tcp_port, get_udp_port, setportbit).
THEOREM NoPortTwice == Spec => []PortsExclusive
<1>1. Init => ExclInv
  BY DEF Init, ExclInv, Fits, HasPort, Flows, Counted
<1>2. TypeOK /\ ExclInv /\ [Next]_vars => ExclInv'
  BY ExclStep
<1>3. ExclInv => PortsExclusive
  BY DEF ExclInv, PortsExclusive, Fits, HasPort, Live
<1> QED
  BY <1>1, <1>2, <1>3, NatTypeCorrect, PTL DEF Spec

-----------------------------------------------------------------------------
(***************************************************************************)
(* The counters.  They never say more than the bits: what is given back    *)
(* twice is counted off twice.                                             *)
(***************************************************************************)
Covered(b)    == IsFiniteSet(b.bits) /\ b.used <= Cardinality(b.bits)
CountInv      == \A P \in Protos : Covered(book[P])

LEMMA GiveCovered ==
  ASSUME NEW b \in Book, NEW p \in Nat, low \in Nat, Covered(b)
  PROVE  Covered(Given(b, p))
<1>1. /\ IsFiniteSet(b.bits \ {p - low})
      /\ Cardinality(b.bits \ {p - low}) =
           IF p - low \in b.bits THEN Cardinality(b.bits) - 1 ELSE Cardinality(b.bits)
  BY FS_RemoveElement DEF Covered
<1>2. Cardinality(b.bits) \in Nat /\ Cardinality(b.bits \ {p - low}) \in Nat
  BY <1>1, FS_CardinalityType DEF Covered
<1>3. b.used \in Nat
  BY DEF Book
<1> QED
  BY <1>1, <1>2, <1>3 DEF Covered, Given

LEMMA SetportbitCovered ==
  ASSUME NEW bk \in Books, NEW f \in Flows, NEW p \in Nat, low \in Nat,
         \A P \in Protos : Covered(bk[P])
  PROVE  \A P \in Protos : Covered(setportbit(bk, f, p)[P])
<1>1. CASE f \in IcmpFlows
  BY <1>1 DEF setportbit
<1>2. CASE f \notin IcmpFlows
  <2>1. Proto(f) \in Protos /\ bk[Proto(f)] \in Book
    BY <1>2, ProtoOfCounted DEF Books
  <2>2. Covered(Given(bk[Proto(f)], p))
    BY <2>1, GiveCovered
  <2> QED
    BY <1>2, <2>1, <2>2 DEF setportbit, Books
<1> QED
  BY <1>1, <1>2

LEMMA BookWithCovered ==
  ASSUME TypeOK, CountInv, NEW f \in Flows, NEW p \in Numbers, PortFor(f, p)
  PROVE  \A P \in Protos : Covered(BookWith(f, p)[P])
<1>1. CASE f \in IcmpFlows
  BY <1>1 DEF BookWith, CountInv
<1>2. CASE f \notin IcmpFlows
  <2> DEFINE b == book[Proto(f)]
  <2>1. Proto(f) \in Protos /\ book \in Books /\ b \in Book /\ Covered(b)
    BY <1>2, ProtoOfCounted DEF Books, Book, Protos, TypeOK, CountInv
  <2>2. p <= high => p - low \notin b.bits
    BY <1>2 DEF PortFor, FirstFree
  <2>3. /\ IsFiniteSet(b.bits \cup {p - low})
        /\ Cardinality(b.bits \cup {p - low}) =
             IF p - low \in b.bits THEN Cardinality(b.bits) ELSE Cardinality(b.bits) + 1
    BY <2>1, FS_AddElement DEF Covered
  <2>4. Cardinality(b.bits) \in Nat /\ b.used \in Nat
    BY <2>1, FS_CardinalityType DEF Covered, Book
  <2>5. p \in Nat /\ high \in Nat
    BY PortForType DEF TypeOK
  <2>6. Covered(Taken(b, p))
    BY <2>1, <2>2, <2>3, <2>4, <2>5 DEF Covered, Taken
  <2> QED
    BY <1>2, <2>1, <2>6 DEF BookWith, Books, CountInv
<1> QED
  BY <1>1, <1>2

LEMMA DeletedCovered ==
  ASSUME low \in Nat, NEW bk \in Books, \A P \in Protos : Covered(bk[P]),
         NEW f \in Flows, NEW s \in Session, Deleted(f, s, bk)
  PROVE  CountInv'
<1>1. s.port \in Nat
  BY DEF Session
<1>2. \A P \in Protos : Covered(book'[P])
  BY <1>1, SetportbitCovered DEF Deleted
<1> QED
  BY <1>2 DEF CountInv, Covered

LEMMA TrackCovered ==
  ASSUME low \in Nat, NEW bk \in Books, \A P \in Protos : Covered(bk[P]),
         NEW f \in Flows, NEW s \in Session, NEW k, TrackUp(f, s, bk, k)
  PROVE  CountInv'
<1>1. CASE book' = bk
  BY <1>1 DEF CountInv, Covered
<1>2. CASE Deleted(f, s, setportbit(bk, f, s.port))
  <2>1. s.port \in Nat
    BY DEF Session
  <2>2. /\ setportbit(bk, f, s.port) \in Books
        /\ \A P \in Protos : Covered(setportbit(bk, f, s.port)[P])
    BY <2>1, GivenType, SetportbitCovered
  <2> QED
    BY <1>2, <2>2, DeletedCovered
<1> QED
  BY <1>1, <1>2 DEF TrackUp

LEMMA CountStep ==
  ASSUME TypeOK, CountInv, [Next]_vars
  PROVE  CountInv'
<1>0. low \in Nat /\ nat \in Table /\ book \in Books
  BY DEF TypeOK, Table, Books, Book, Protos
<1>1. ASSUME NEW f \in Flows, NEW k \in Kinds(f), UpKnown(f, k)
      PROVE  CountInv'
  <2>1. nat[f] \in Session /\ TrackUp(f, nat[f], book, k)
    BY <1>0, <1>1 DEF UpKnown, Table, FoundUp
  <2> QED
    BY <1>0, <2>1, TrackCovered DEF CountInv
<1>2. ASSUME NEW f \in Flows, NEW k \in Kinds(f), UpNew(f, k)
      PROVE  CountInv'
  <2>1. PICK p \in Numbers : PortFor(f, p) /\ TrackUp(f, Opened(p), BookWith(f, p), k)
    BY <1>2 DEF UpNew
  <2>2. BookWith(f, p) \in Books /\ Opened(p) \in Session
    BY <2>1, PortForType, OpenedType
  <2>3. \A P \in Protos : Covered(BookWith(f, p)[P])
    BY <2>1, BookWithCovered
  <2> QED
    BY <1>0, <2>1, <2>2, <2>3, TrackCovered
<1>3. ASSUME NEW f \in Flows, UpNoMemory(f)
      PROVE  CountInv'
  <2>1. PICK p \in Numbers : PortFor(f, p) /\ book' = BookWith(f, p)
    BY <1>3 DEF UpNoMemory
  <2>2. \A P \in Protos : Covered(BookWith(f, p)[P])
    BY <2>1, BookWithCovered
  <2> QED
    BY <2>1, <2>2 DEF CountInv, Covered
<1>4. ASSUME NEW f \in Flows, NEW k \in Kinds(f), Down(f, k)
      PROVE  CountInv'
  <2> DEFINE s == [nat[f] EXCEPT !.seen = f \in TcpFlows]
  <2>1. nat[f] \in Session
    BY <1>0, <1>4 DEF Down, Table, FoundDown
  <2>2. s.port = nat[f].port /\ nat[f].port \in Nat
    BY <2>1 DEF Session
  <2>3. book' \in {book, setportbit(book, f, s.port)}
    BY <1>4 DEF Down, Deleted, FoundDown
  <2>4. \A P \in Protos : Covered(setportbit(book, f, s.port)[P])
    BY <1>0, <2>2, SetportbitCovered DEF CountInv
  <2> QED
    BY <2>3, <2>4 DEF CountInv, Covered
<1>5. ASSUME NEW f \in Flows, Expire(f)
      PROVE  CountInv'
  BY <1>0, <1>5, DeletedCovered DEF Expire, Table, CountInv, TimeOver
<1>6. CASE book' = book
  BY <1>6 DEF CountInv, Covered
<1>7. CASE NewMaps
  <2>1. \A P \in Protos : book'[P].bits = {} /\ book'[P].used = 0
    BY <1>7 DEF NewMaps, Protos
  <2>2. IsFiniteSet({}) /\ Cardinality({}) = 0
    BY FS_EmptySet
  <2>3. ASSUME NEW P \in Protos
        PROVE  IsFiniteSet(book'[P].bits) /\ book'[P].used <= Cardinality(book'[P].bits)
    <3>1. book'[P].used = 0 /\ IsFiniteSet(book'[P].bits) /\ Cardinality(book'[P].bits) = 0
      BY <2>1, <2>2, Zenon
    <3> QED
      BY <3>1
  <2> QED
    BY <2>3 DEF CountInv, Covered
<1> QED
  BY <1>1, <1>2, <1>3, <1>4, <1>5, <1>6, <1>7 DEF Next, SetLow, SetHigh, vars

\* The counter never says more than the bits, so a free port is never refused, for
\* any flows, blocks, failures, resets and changes of the block.
THEOREM FreePortIsFound == Spec => []NoFalseRefusal
<1>1. ASSUME Init
      PROVE  CountInv
  <2>1. \A P \in Protos : book[P].bits = {} /\ book[P].used = 0
    BY <1>1 DEF Init, Protos
  <2>2. IsFiniteSet({}) /\ Cardinality({}) = 0
    BY FS_EmptySet
  <2> QED
    BY <2>1, <2>2 DEF CountInv, Covered
<1>2. TypeOK /\ CountInv /\ [Next]_vars => CountInv'
  BY CountStep
<1>3. CountInv => NoFalseRefusal
  BY DEF CountInv, Covered, NoFalseRefusal, Protos
<1> QED
  BY <1>1, <1>2, <1>3, NatTypeCorrect, PTL DEF Spec

-----------------------------------------------------------------------------
(***************************************************************************)
(* Ports inside the block.  Without a reset the counter is exact: when a   *)
(* port is asked for and the request is not refused, one is free.          *)
(***************************************************************************)
Exact(b) == b.bits \subseteq 0 .. high - low /\ b.used = Cardinality(b.bits)

Within(n) == \A f \in Flows : HasPort(n, f) => n[f].port <= high

RangeInv ==
  (Steady /\ ~reset) => (\A P \in Protos : Exact(book[P])) /\ Within(nat)

LEMMA ExactFinite ==
  ASSUME low \in Nat, high \in Nat, NEW b \in Book, Exact(b)
  PROVE  IsFiniteSet(b.bits) /\ Cardinality(b.bits) \in Nat
<1>1. IsFiniteSet(0 .. high - low)
  BY FS_Interval
<1>2. IsFiniteSet(b.bits)
  BY <1>1, FS_Subset DEF Exact
<1> QED
  BY <1>2, FS_CardinalityType

\* A request that is not refused finds a port of the block.
LEMMA FoundWithin ==
  ASSUME TypeOK, NEW P \in Protos, Exact(book[P]), ~Refused(P),
         NEW p, FirstFree(P, p)
  PROVE  p \in low .. high
<1>0. low \in Nat /\ high \in Nat /\ book[P] \in Book
  BY DEF TypeOK, Book, Protos
<1>1. SUFFICES ASSUME p = high + 1
               PROVE  FALSE
  BY <1>0 DEF FirstFree
<1>2. low <= high + 1
  BY <1>0, <1>1 DEF FirstFree
<1>3. ASSUME NEW i \in 0 .. high - low
      PROVE  i \in book[P].bits
  <2>1. i + low \in low .. p - 1
    BY <1>0, <1>1, <1>3
  <2>2. (i + low) - low \in book[P].bits
    BY <2>1 DEF FirstFree
  <2> QED
    BY <1>0, <2>2
<1>4. book[P].bits = 0 .. high - low
  BY <1>3 DEF Exact
<1>5. Cardinality(0 .. high - low) = high - low + 1
  <2>1. Cardinality(0 .. high - low) = IF 0 > high - low THEN 0 ELSE high - low - 0 + 1
    BY <1>0, FS_Interval
  <2> QED
    BY <1>0, <1>2, <2>1
<1> QED
  BY <1>0, <1>4, <1>5 DEF Exact, Refused

LEMMA TakenExact ==
  ASSUME low \in Nat, high \in Nat, NEW b \in Book, Exact(b),
         NEW p \in low .. high, p - low \notin b.bits
  PROVE  Exact(Taken(b, p))
<1>1. IsFiniteSet(b.bits)
  BY ExactFinite
<1>2. Cardinality(b.bits \cup {p - low}) = Cardinality(b.bits) + 1
  BY <1>1, FS_AddElement
<1> QED
  BY <1>2 DEF Exact, Taken

LEMMA GivenExact ==
  ASSUME low \in Nat, high \in Nat, NEW b \in Book, Exact(b),
         NEW p \in Nat, p - low \in b.bits
  PROVE  Exact(Given(b, p))
<1>1. IsFiniteSet(b.bits) /\ Cardinality(b.bits) \in Nat
  BY ExactFinite
<1>2. /\ Cardinality(b.bits \ {p - low}) = Cardinality(b.bits) - 1
      /\ IsFiniteSet(b.bits \ {p - low})
  BY <1>1, FS_RemoveElement
<1>3. Cardinality(b.bits \ {p - low}) \in Nat
  BY <1>2, FS_CardinalityType
<1> QED
  BY <1>1, <1>2, <1>3 DEF Exact, Given

\* What opening a session leaves: its port is in the block, the counters are exact.
LEMMA OpenExact ==
  ASSUME TypeOK, \A P \in Protos : Exact(book[P]),
         NEW f \in Flows, NEW p \in Numbers, PortFor(f, p)
  PROVE  /\ \A P \in Protos : Exact(BookWith(f, p)[P])
         /\ f \in Counted => p <= high
<1>0. low \in Nat /\ high \in Nat /\ book \in Books
  BY DEF TypeOK, Books, Book, Protos
<1>1. CASE f \in IcmpFlows
  BY <1>1, ProtoOfCounted DEF BookWith
<1>2. CASE f \notin IcmpFlows
  <2> DEFINE b == book[Proto(f)]
  <2>1. Proto(f) \in Protos /\ b \in Book
    BY <1>0, <1>2, ProtoOfCounted DEF Books
  <2>2. ~Refused(Proto(f)) /\ FirstFree(Proto(f), p)
    BY <1>2 DEF PortFor
  <2>3. p \in low .. high
    BY <2>1, <2>2, FoundWithin
  <2>4. p <= high /\ p - low \notin b.bits
    BY <1>0, <2>2, <2>3 DEF FirstFree
  <2>5. Exact(Taken(b, p))
    BY <1>0, <2>1, <2>3, <2>4, TakenExact
  <2> QED
    BY <1>0, <1>2, <2>1, <2>4, <2>5 DEF BookWith, Books
<1> QED
  BY <1>1, <1>2

\* The end of a session gives back a port that is set.
LEMMA DeletedExact ==
  ASSUME TypeOK, Fits(nat, book), Within(nat), \A P \in Protos : Exact(book[P]),
         NEW f \in Flows, nat[f] # NoSession, NEW s \in Session, s.port = nat[f].port,
         Deleted(f, s, book)
  PROVE  (\A P \in Protos : Exact(book'[P])) /\ Within(nat')
<1>0. low \in Nat /\ high \in Nat /\ book \in Books /\ nat \in Table
  BY DEF TypeOK, Books, Book, Protos, Table
<1>1. Within(nat')
  BY <1>0 DEF Deleted, Within, HasPort, Table
<1>2. CASE book' = book
  BY <1>1, <1>2
<1>3. CASE book' # book
  <2> DEFINE b == book[Proto(f)]
  <2>1. f \notin IcmpFlows /\ book' = [book EXCEPT ![Proto(f)] = Given(b, s.port)]
    BY <1>3 DEF Deleted, setportbit
  <2>2. f \in Counted /\ Proto(f) \in Protos /\ b \in Book
    BY <1>0, <2>1, ProtoOfCounted DEF Books
  <2>3. s.port \in Nat /\ s.port - low \in b.bits
    BY <2>2 DEF Fits, Within, HasPort, Session
  <2>4. Exact(Given(b, s.port))
    BY <1>0, <2>2, <2>3, GivenExact
  <2> QED
    BY <1>0, <1>1, <2>1, <2>2, <2>4 DEF Books
<1> QED
  BY <1>2, <1>3

LEMMA TrackExact ==
  ASSUME NEW f \in Flows, NEW s \in Session, NEW bk, NEW k, TrackUp(f, s, bk, k), ~reset'
  PROVE  book' = bk /\ \E t : t.port = s.port /\ nat' = [nat EXCEPT ![f] = t]
<1>1. CASE k = "none" /\ nat' = [nat EXCEPT ![f] = s] /\ book' = bk
  BY <1>1
<1>2. CASE /\ nat' = [nat EXCEPT ![f] =
                [s EXCEPT !.armed = TRUE, !.seq = IF f \in IcmpFlows THEN @ + 1 ELSE @]]
           /\ book' = bk
  <2>1. ASSUME NEW q
        PROVE  [s EXCEPT !.armed = TRUE, !.seq = q].port = s.port
    BY DEF Session
  <2> DEFINE t == [s EXCEPT !.armed = TRUE, !.seq = IF f \in IcmpFlows THEN @ + 1 ELSE @]
  <2>2. t.port = s.port
    BY <2>1
  <2>3. nat' = [nat EXCEPT ![f] = t] /\ book' = bk
    BY <1>2
  <2> HIDE DEF t
  <2> QED
    BY <2>2, <2>3
<1> QED
  BY <1>1, <1>2 DEF TrackUp

LEMMA RangeStep ==
  ASSUME TypeOK, ExclInv, RangeInv, [Next]_vars
  PROVE  RangeInv'
<1> USE DEF RangeInv
<1>0. low \in Nat /\ high \in Nat /\ nat \in Table /\ book \in Books
  BY DEF TypeOK, Table, Books, Book, Protos
<1> DEFINE Same == low' = low /\ high' = high /\ newRange' = newRange /\ renewed' = renewed
           Held == Steady /\ ~reset
           Good == (\A P \in Protos : Exact(book'[P])) /\ Within(nat')
<1>1. ASSUME Same, ~reset' => ~reset, (Held /\ ~reset') => Good
      PROVE  RangeInv'
  BY <1>1 DEF Steady, Exact, Within, HasPort
<1>a. ASSUME Held
      PROVE  Fits(nat, book) /\ (\A P \in Protos : Exact(book[P])) /\ Within(nat)
  BY <1>a DEF ExclInv
<1>2. ASSUME NEW f \in Flows, NEW k \in Kinds(f), UpKnown(f, k), Held, ~reset'
      PROVE  Good
  <2>1. nat[f] \in Session /\ nat[f] # NoSession /\ TrackUp(f, nat[f], book, k)
    BY <1>0, <1>2 DEF UpKnown, Table, FoundUp
  <2>2. PICK t : book' = book /\ t.port = nat[f].port /\ nat' = [nat EXCEPT ![f] = t]
    BY <1>2, <2>1, TrackExact
  <2>3. Within(nat')
    BY <1>0, <1>2, <1>a, <2>1, <2>2 DEF Within, HasPort, Table
  <2> QED
    BY <1>2, <1>a, <2>2, <2>3
<1>3. ASSUME NEW f \in Flows, NEW k \in Kinds(f), UpNew(f, k), Held, ~reset'
      PROVE  Good
  <2>1. PICK p \in Numbers : PortFor(f, p) /\ TrackUp(f, Opened(p), BookWith(f, p), k)
    BY <1>3 DEF UpNew
  <2>2. p \in Nat /\ Opened(p) \in Session /\ Opened(p).port = p
    BY <2>1, PortForType, OpenedType
  <2>3. PICK t : book' = BookWith(f, p) /\ t.port = p /\ nat' = [nat EXCEPT ![f] = t]
    BY <1>3, <2>1, <2>2, TrackExact
  <2>4. (\A P \in Protos : Exact(BookWith(f, p)[P])) /\ (f \in Counted => p <= high)
    BY <1>3, <1>a, <2>1, OpenExact
  <2>5. Within(nat')
    BY <1>0, <1>3, <1>a, <2>3, <2>4 DEF Within, HasPort, Table
  <2> QED
    BY <2>3, <2>4, <2>5
<1>4. ASSUME NEW f \in Flows, UpNoMemory(f), Held
      PROVE  Good
  <2>1. PICK p \in Numbers :
          /\ PortFor(f, p) /\ book' = BookWith(f, p)
          /\ nat' \in {nat, [nat EXCEPT ![f] = Opened(p)],
                            [nat EXCEPT ![f] = [Opened(p) EXCEPT !.linked = FALSE]]}
    BY <1>4 DEF UpNoMemory
  <2>2. Opened(p).port = p /\ [Opened(p) EXCEPT !.linked = FALSE].port = p
    BY DEF Opened
  <2>3. (\A P \in Protos : Exact(BookWith(f, p)[P])) /\ (f \in Counted => p <= high)
    BY <1>4, <1>a, <2>1, OpenExact
  <2>4. nat' = nat \/ \E t : t.port = p /\ nat' = [nat EXCEPT ![f] = t]
    BY <2>1, <2>2
  <2>5. Within(nat')
    BY <1>0, <1>4, <1>a, <2>3, <2>4 DEF Within, HasPort, Table
  <2> QED
    BY <2>1, <2>3, <2>5
<1>5. ASSUME NEW f \in Flows, NEW k \in Kinds(f), Down(f, k), Held
      PROVE  Good
  <2> DEFINE s == [nat[f] EXCEPT !.seen = f \in TcpFlows]
  <2>1. nat[f] \in Session /\ nat[f] # NoSession
    BY <1>0, <1>5 DEF Down, Table, FoundDown
  <2>2. /\ s.port = nat[f].port
        /\ [s EXCEPT !.armed = TRUE].port = nat[f].port
        /\ [s EXCEPT !.seq = @ - 1].port = nat[f].port
    BY <2>1 DEF Session
  <2>3. CASE Deleted(f, s, book)
    <3>1. f \in IcmpFlows => setportbit(book, f, s.port) = book
      BY DEF setportbit
    <3>2. CASE book' = book
      <4>1. Within(nat')
        BY <1>0, <1>5, <1>a, <2>3 DEF Deleted, Within, HasPort, Table
      <4> QED
        BY <1>5, <1>a, <3>2, <4>1
    <3>3. CASE book' # book
      <4>1. f \notin IcmpFlows
        BY <2>3, <3>1, <3>3 DEF Deleted
      <4>2. book' = book
        BY <1>5, <4>1, ProtoOfCounted DEF Down, FoundDown
      <4> QED
        BY <3>3, <4>2
    <3> QED
      BY <3>2, <3>3
  <2>4. CASE \E t : t.port = nat[f].port /\ nat' = [nat EXCEPT ![f] = t] /\ book' = book
    <3>1. Within(nat')
      BY <1>0, <1>5, <1>a, <2>1, <2>4 DEF Within, HasPort, Table
    <3> QED
      BY <1>5, <1>a, <2>4, <3>1
  <2>5. \/ Deleted(f, s, book)
        \/ \E t : t.port = nat[f].port /\ nat' = [nat EXCEPT ![f] = t] /\ book' = book
    BY <1>5, <2>2 DEF Down, FoundDown
  <2> QED
    BY <2>3, <2>4, <2>5
<1>6. ASSUME NEW f \in Flows, Expire(f), Held
      PROVE  Good
  <2>1. nat[f] \in Session /\ nat[f] # NoSession /\ Deleted(f, nat[f], book)
    BY <1>0, <1>6 DEF Expire, Table, TimeOver
  <2> QED
    BY <1>6, <1>a, <2>1, DeletedExact
<1>7. ASSUME NEW f \in Flows, NEW k \in Kinds(f), UpKnown(f, k) \/ UpNew(f, k) \/ Down(f, k)
      PROVE  RangeInv'
  <2>1. Same
    BY <1>7 DEF UpKnown, UpNew, Down, laft, FoundUp, FoundDown
  <2>2. reset \in BOOLEAN
    BY DEF TypeOK
  <2>3. reset' = reset \/ reset' = TRUE
    BY <1>7 DEF UpKnown, UpNew, Down, TrackUp, FoundUp, FoundDown
  <2>4. ~reset' => ~reset
    BY <2>2, <2>3
  <2> QED
    BY <1>1, <1>2, <1>3, <1>5, <1>7, <2>1, <2>4
<1>8. ASSUME NEW f \in Flows, UpNoMemory(f) \/ Expire(f)
      PROVE  RangeInv'
  <2>1. Same /\ (~reset' => ~reset)
    BY <1>8 DEF UpNoMemory, Expire, laft, TimeOver
  <2> QED
    BY <1>1, <1>4, <1>6, <1>8, <2>1
<1>9. ASSUME NEW r \in Ranges, SetLow(r)
      PROVE  RangeInv'
  <2>1. r \in Nat \X Nat
    BY NatAssumption
  <2>2. r # <<>>
    BY <2>1
  <2> QED
    BY <1>9, <2>2 DEF SetLow, Steady
<1>10. CASE SetHigh
  BY <1>10 DEF SetHigh, Steady
<1>11. CASE NewMaps
  <2>1. Steady' => \A f \in Flows : nat'[f] = NoSession
    BY <1>11 DEF NewMaps, Steady, Live
  <2>2. \A P \in Protos : book'[P].bits = {} /\ book'[P].used = 0
    BY <1>11 DEF NewMaps, Protos
  <2>3. Cardinality({}) = 0
    BY FS_EmptySet
  <2>4. ASSUME NEW P \in Protos
        PROVE  book'[P].bits \subseteq 0 .. high' - low' /\ book'[P].used = Cardinality(book'[P].bits)
    BY <2>2, <2>3
  <2> QED
    BY <2>1, <2>4 DEF Exact, Within, HasPort
<1>12. CASE UNCHANGED vars
  BY <1>12 DEF vars, laft, Steady, Exact, Within, HasPort
<1> QED
  BY <1>7, <1>8, <1>9, <1>10, <1>11, <1>12 DEF Next

\* Until an unanswered connection is reset, every TCP or UDP session has a port of
\* the gateway's block, for any flows and blocks (get_tcp_port, reset_tcp_port).
THEOREM PortsStayInRange == Spec => []PortsInRange
<1>1. ASSUME Init
      PROVE  RangeInv /\ ExclInv
  <2>1. \A P \in Protos : book[P].bits = {} /\ book[P].used = 0
    BY <1>1 DEF Init, Protos
  <2>2. Cardinality({}) = 0
    BY FS_EmptySet
  <2>3. \A P \in Protos : Exact(book[P])
    BY <2>1, <2>2 DEF Exact
  <2>4. \A f \in Flows : ~HasPort(nat, f)
    BY <1>1 DEF Init, HasPort
  <2> QED
    BY <2>3, <2>4 DEF RangeInv, ExclInv, Within, Fits
<1>2. TypeOK /\ ExclInv /\ RangeInv /\ [Next]_vars => ExclInv' /\ RangeInv'
  BY ExclStep, RangeStep
<1>3. ASSUME TypeOK, ExclInv, RangeInv
      PROVE  PortsInRange
  <2>1. SUFFICES ASSUME Steady, ~reset, NEW f \in Live \cap Counted
                 PROVE  nat[f].port \in low .. high
    BY DEF PortsInRange
  <2>2. f \in Flows /\ HasPort(nat, f)
    BY DEF Live, HasPort
  <2>3. nat[f].port >= low /\ nat[f].port <= high
    BY <2>1, <2>2, <1>3 DEF ExclInv, RangeInv, Fits, Within
  <2>4. nat[f].port \in Nat /\ low \in Nat /\ high \in Nat
    BY <1>3, <2>2 DEF TypeOK, Session, HasPort
  <2> QED
    BY <2>3, <2>4
<1> QED
  BY <1>1, <1>2, <1>3, NatTypeCorrect, PTL DEF Spec

-----------------------------------------------------------------------------
(***************************************************************************)
(* The books balance.  As long as no memory was short, every session is in *)
(* both buckets, so that its end gives its port back, and every bit that   *)
(* is set is the port of a session; Fits says the converse, Exact what the *)
(* counter is.                                                             *)
(***************************************************************************)
Linked(n) == \A f \in Flows : n[f] # NoSession => n[f].linked

Owned(n, bk) ==
  \A P \in Protos : \A i \in bk[P].bits :
    \E f \in Flows : HasPort(n, f) /\ Proto(f) = P /\ n[f].port - low = i

OwnInv == (Steady /\ ~reset /\ faults = 0) => Linked(nat) /\ Owned(nat, book)

\* A session that changes all but its port keeps it.
LEMMA ChangeOwned ==
  ASSUME NEW n \in Table, NEW bk, Linked(n), Owned(n, bk), NEW f \in Flows,
         n[f] # NoSession, NEW t \in Session, t.port = n[f].port, t.linked = n[f].linked
  PROVE  Linked([n EXCEPT ![f] = t]) /\ Owned([n EXCEPT ![f] = t], bk)
<1> DEFINE new == [n EXCEPT ![f] = t]
<1>1. t # NoSession
  BY NatAssumption
<1>2. new[f] = t /\ \A g \in Flows : g # f => new[g] = n[g]
  BY DEF Table
<1>3. Linked(new)
  BY <1>2 DEF Linked
<1>4. \A g \in Flows : HasPort(n, g) => HasPort(new, g) /\ new[g].port = n[g].port
  BY <1>1, <1>2 DEF HasPort
<1> HIDE DEF new
<1>5. Owned(new, bk)
  BY <1>4 DEF Owned
<1> QED
  BY <1>3, <1>5 DEF new

\* The bit that a new session sets is the port of that session.
LEMMA OpenOwned ==
  ASSUME TypeOK, Linked(nat), Owned(nat, book), NEW f \in Flows, nat[f] = NoSession,
         NEW p \in Numbers, PortFor(f, p), NEW t \in Session, t.port = p, t.linked
  PROVE  Linked([nat EXCEPT ![f] = t]) /\ Owned([nat EXCEPT ![f] = t], BookWith(f, p))
<1> DEFINE new == [nat EXCEPT ![f] = t]
           bk  == BookWith(f, p)
<1>0. nat \in Table /\ book \in Books
  BY DEF TypeOK, Table, Books, Book, Protos
<1>1. t # NoSession
  BY NatAssumption
<1>2. new[f] = t /\ \A g \in Flows : g # f => new[g] = nat[g]
  BY <1>0 DEF Table
<1>3. Linked(new)
  BY <1>2 DEF Linked
<1>4. \A g \in Flows : HasPort(nat, g) => HasPort(new, g) /\ new[g].port = nat[g].port
  BY <1>1, <1>2 DEF HasPort
<1>5. ASSUME NEW P \in Protos, NEW i \in bk[P].bits
      PROVE  \/ i \in book[P].bits
             \/ f \in Counted /\ Proto(f) = P /\ i = p - low
  <2>1. CASE f \in IcmpFlows
    BY <1>5, <2>1 DEF BookWith
  <2>2. CASE f \notin IcmpFlows
    <3>1. f \in Counted /\ Proto(f) \in Protos
      BY <2>2, ProtoOfCounted
    <3>2. bk[P] = IF P = Proto(f) THEN Taken(book[P], p) ELSE book[P]
      BY <1>0, <2>2, <3>1 DEF BookWith, Books
    <3> QED
      BY <1>5, <3>1, <3>2 DEF Taken
  <2> QED
    BY <2>1, <2>2
<1>6. f \in Counted => HasPort(new, f) /\ new[f].port = p
  BY <1>1, <1>2 DEF HasPort
<1> HIDE DEF new, bk
<1>7. Owned(new, bk)
  BY <1>4, <1>5, <1>6 DEF Owned
<1> QED
  BY <1>3, <1>7 DEF new, bk

\* The end of a session in both buckets clears the bit that it had.
LEMMA DeletedOwned ==
  ASSUME TypeOK, Linked(nat), Owned(nat, book), NEW f \in Flows, nat[f] # NoSession,
         NEW s \in Session, s.port = nat[f].port, s.linked = nat[f].linked,
         Deleted(f, s, book)
  PROVE  Linked(nat') /\ Owned(nat', book')
<1>0. nat \in Table /\ book \in Books /\ low \in Nat
  BY DEF TypeOK, Table, Books, Book, Protos
<1>1. nat'[f] = NoSession /\ \A g \in Flows : g # f => nat'[g] = nat[g]
  BY <1>0 DEF Deleted, Table
<1>2. Linked(nat')
  BY <1>1 DEF Linked
<1>3. book' = setportbit(book, f, s.port)
  BY DEF Deleted, Linked
<1>4. ASSUME NEW P \in Protos, NEW i \in book'[P].bits
      PROVE  i \in book[P].bits /\ (f \in Counted /\ Proto(f) = P => i # s.port - low)
  <2>1. CASE f \in IcmpFlows
    BY <1>3, <1>4, <2>1, ProtoOfCounted DEF setportbit
  <2>2. CASE f \notin IcmpFlows
    <3>1. Proto(f) \in Protos
      BY <2>2, ProtoOfCounted
    <3>2. book'[P] = IF P = Proto(f) THEN Given(book[P], s.port) ELSE book[P]
      BY <1>0, <1>3, <2>2, <3>1 DEF setportbit, Books
    <3> QED
      BY <1>4, <3>1, <3>2 DEF Given
  <2> QED
    BY <2>1, <2>2
<1>5. ASSUME NEW P \in Protos, NEW i \in book'[P].bits
      PROVE  \E g \in Flows : HasPort(nat', g) /\ Proto(g) = P /\ nat'[g].port - low = i
  <2>1. PICK g \in Flows : HasPort(nat, g) /\ Proto(g) = P /\ nat[g].port - low = i
    BY <1>4, <1>5 DEF Owned
  <2>2. g # f
    BY <1>4, <1>5, <2>1 DEF HasPort
  <2> QED
    BY <1>1, <2>1, <2>2 DEF HasPort
<1>6. Owned(nat', book')
  BY <1>5 DEF Owned
<1> QED
  BY <1>2, <1>6

\* A tracked packet that resets nothing leaves the session its port and its buckets.
LEMMA TrackKept ==
  ASSUME TypeOK, NEW f \in Flows, NEW s \in Session, s.seq < MaxEchoes, NEW bk, NEW k,
         TrackUp(f, s, bk, k), ~reset'
  PROVE  /\ book' = bk
         /\ \E t \in Session : /\ t.port = s.port /\ t.linked = s.linked
                               /\ nat' = [nat EXCEPT ![f] = t]
<1>1. CASE k = "none" /\ nat' = [nat EXCEPT ![f] = s] /\ book' = bk
  BY <1>1
<1>2. CASE /\ nat' = [nat EXCEPT ![f] =
                [s EXCEPT !.armed = TRUE, !.seq = IF f \in IcmpFlows THEN @ + 1 ELSE @]]
           /\ book' = bk
  <2> DEFINE t == [s EXCEPT !.armed = TRUE, !.seq = IF f \in IcmpFlows THEN @ + 1 ELSE @]
  <2>1. ASSUME NEW n \in 0 .. MaxEchoes
        PROVE  /\ [s EXCEPT !.armed = TRUE, !.seq = n] \in Session
               /\ [s EXCEPT !.armed = TRUE, !.seq = n].port = s.port
               /\ [s EXCEPT !.armed = TRUE, !.seq = n].linked = s.linked
    BY DEF Session
  <2>2. s.seq \in 0 .. MaxEchoes /\ MaxEchoes \in Nat
    BY NatAssumption DEF Session
  <2>3. (IF f \in IcmpFlows THEN s.seq + 1 ELSE s.seq) \in 0 .. MaxEchoes
    BY <2>2
  <2>4. t \in Session /\ t.port = s.port /\ t.linked = s.linked
    BY <2>1, <2>3
  <2>5. nat' = [nat EXCEPT ![f] = t] /\ book' = bk
    BY <1>2
  <2> HIDE DEF t
  <2> QED
    BY <2>4, <2>5
<1> QED
  BY <1>1, <1>2 DEF TrackUp

LEMMA OwnStep ==
  ASSUME TypeOK, OwnInv, [Next]_vars
  PROVE  OwnInv'
<1>0. nat \in Table /\ book \in Books /\ reset \in BOOLEAN /\ faults \in Nat
  BY NatAssumption DEF TypeOK, Table, Books, Book, Protos
<1> DEFINE Same == low' = low /\ newRange' = newRange /\ renewed' = renewed
           Held == Steady /\ ~reset /\ faults = 0
           Good == Linked(nat') /\ Owned(nat', book')
<1>1. ASSUME Same, faults' = faults, ~reset' => ~reset, (Held /\ ~reset') => Good
      PROVE  OwnInv'
  BY <1>1 DEF OwnInv, Steady, Linked, Owned, HasPort
<1>a. ASSUME Held
      PROVE  Linked(nat) /\ Owned(nat, book)
  BY <1>a DEF OwnInv
<1>2. ASSUME NEW f \in Flows, NEW k \in Kinds(f), UpKnown(f, k), Held, ~reset'
      PROVE  Good
  <2>1. /\ nat[f] \in Session /\ nat[f] # NoSession /\ nat[f].seq < MaxEchoes
        /\ TrackUp(f, nat[f], book, k)
    BY <1>0, <1>2 DEF UpKnown, Table, FoundUp
  <2>2. PICK t \in Session : /\ t.port = nat[f].port /\ t.linked = nat[f].linked
                             /\ nat' = [nat EXCEPT ![f] = t]
    BY <1>2, <2>1, TrackKept
  <2>3. book' = book
    BY <1>2, <2>1, TrackKept
  <2> QED
    BY <1>0, <1>2, <1>a, <2>1, <2>2, <2>3, ChangeOwned
<1>3. ASSUME NEW f \in Flows, NEW k \in Kinds(f), UpNew(f, k), Held, ~reset'
      PROVE  Good
  <2>1. PICK p \in Numbers : PortFor(f, p) /\ TrackUp(f, Opened(p), BookWith(f, p), k)
    BY <1>3 DEF UpNew
  <2> DEFINE s == Opened(p)
             bk == BookWith(f, p)
  <2>2. s \in Session /\ s.port = p /\ s.linked /\ s.seq < MaxEchoes
    BY <2>1, PortForType, OpenedType DEF Opened
  <2>a. TrackUp(f, s, bk, k)
    BY <2>1
  <2> HIDE DEF s, bk
  <2>3. PICK t \in Session : /\ t.port = s.port /\ t.linked = s.linked
                             /\ nat' = [nat EXCEPT ![f] = t]
    BY <1>3, <2>2, <2>a, TrackKept
  <2>4. book' = BookWith(f, p)
    BY <1>3, <2>2, <2>a, TrackKept DEF bk
  <2>5. nat[f] = NoSession /\ t.port = p /\ t.linked
    BY <1>3, <2>2, <2>3 DEF UpNew
  <2> QED
    BY <1>3, <1>a, <2>1, <2>3, <2>4, <2>5, OpenOwned
<1>4. ASSUME NEW f \in Flows, NEW k \in Kinds(f), Down(f, k), Held
      PROVE  Good
  <2> DEFINE s == [nat[f] EXCEPT !.seen = f \in TcpFlows]
  <2>1. nat[f] \in Session /\ nat[f] # NoSession
    BY <1>0, <1>4 DEF Down, Table, FoundDown
  <2>2. s \in Session /\ s.port = nat[f].port /\ s.linked = nat[f].linked
    <3>1. ASSUME NEW b \in BOOLEAN
          PROVE  /\ [nat[f] EXCEPT !.seen = b] \in Session
                 /\ [nat[f] EXCEPT !.seen = b].port = nat[f].port
                 /\ [nat[f] EXCEPT !.seen = b].linked = nat[f].linked
      BY <2>1 DEF Session
    <3>2. (f \in TcpFlows) \in BOOLEAN
      OBVIOUS
    <3> QED
      BY <3>1, <3>2, Zenon
  <2>3. CASE Deleted(f, s, book)
    BY <1>4, <1>a, <2>1, <2>2, <2>3, DeletedOwned
  <2>4. CASE ~Deleted(f, s, book)
    <3>1. /\ book' = book
          /\ \/ nat' = [nat EXCEPT ![f] = s]
             \/ nat' = [nat EXCEPT ![f] = [s EXCEPT !.armed = TRUE]]
             \/ ~(s.seq - 1 <= 0) /\ nat' = [nat EXCEPT ![f] = [s EXCEPT !.seq = @ - 1]]
      BY <1>4, <2>4 DEF Down, FoundDown
    <3> HIDE DEF s
    <3>2. /\ [s EXCEPT !.armed = TRUE] \in Session
          /\ [s EXCEPT !.armed = TRUE].port = s.port
          /\ [s EXCEPT !.armed = TRUE].linked = s.linked
      BY <2>2 DEF Session
    <3>3. ~(s.seq - 1 <= 0) => /\ [s EXCEPT !.seq = @ - 1] \in Session
                               /\ [s EXCEPT !.seq = @ - 1].port = s.port
                               /\ [s EXCEPT !.seq = @ - 1].linked = s.linked
      BY <2>2, NatAssumption DEF Session
    <3>4. PICK t \in Session : /\ t.port = nat[f].port /\ t.linked = nat[f].linked
                               /\ nat' = [nat EXCEPT ![f] = t]
      BY <2>2, <3>1, <3>2, <3>3
    <3> QED
      BY <1>0, <1>4, <1>a, <2>1, <3>1, <3>4, ChangeOwned
  <2> QED
    BY <2>3, <2>4
<1>5. ASSUME NEW f \in Flows, Expire(f), Held
      PROVE  Good
  <2>1. nat[f] \in Session /\ nat[f] # NoSession /\ Deleted(f, nat[f], book)
    BY <1>0, <1>5 DEF Expire, Table, TimeOver
  <2> QED
    BY <1>5, <1>a, <2>1, DeletedOwned
<1>6. ASSUME NEW f \in Flows, NEW k \in Kinds(f), UpKnown(f, k) \/ UpNew(f, k) \/ Down(f, k)
      PROVE  OwnInv'
  <2>1. Same /\ faults' = faults
    BY <1>6 DEF UpKnown, UpNew, Down, laft
  <2>2. reset' = reset \/ reset' = TRUE
    BY <1>6 DEF UpKnown, UpNew, Down, TrackUp
  <2>3. ~reset' => ~reset
    BY <1>0, <2>2
  <2> QED
    BY <1>1, <1>2, <1>3, <1>4, <1>6, <2>1, <2>3
<1>7. ASSUME NEW f \in Flows, UpNoMemory(f)
      PROVE  OwnInv'
  <2>1. faults' # 0
    BY <1>0, <1>7 DEF UpNoMemory
  <2> QED
    BY <2>1 DEF OwnInv
<1>8. ASSUME NEW f \in Flows, Expire(f)
      PROVE  OwnInv'
  <2>1. Same /\ faults' = faults /\ reset' = reset
    BY <1>8 DEF Expire, laft
  <2> QED
    BY <1>1, <1>5, <1>8, <2>1
<1>9. ASSUME NEW r \in Ranges, SetLow(r)
      PROVE  OwnInv'
  <2>1. r \in Nat \X Nat
    BY NatAssumption
  <2>2. r # <<>>
    BY <2>1
  <2> QED
    BY <1>9, <2>2 DEF SetLow, OwnInv, Steady
<1>10. CASE SetHigh
  BY <1>10 DEF SetHigh, OwnInv, Steady
<1>11. CASE NewMaps
  <2>1. Steady' => \A f \in Flows : nat'[f] = NoSession
    BY <1>11 DEF NewMaps, Steady, Live
  <2>2. \A P \in Protos : book'[P].bits = {}
    BY <1>11 DEF NewMaps, Protos
  <2> QED
    BY <2>1, <2>2 DEF OwnInv, Linked, Owned
<1>12. CASE UNCHANGED vars
  BY <1>1, <1>12, <1>a DEF vars, laft, Steady, Linked, Owned, HasPort
<1> QED
  BY <1>6, <1>7, <1>8, <1>9, <1>10, <1>11, <1>12 DEF Next

\* A port is set exactly when a session has it, and as many are counted, until
\* memory is short or an unanswered connection is reset, for any flows and blocks
\* (get_tcp_port, reset_tcp_port).
THEOREM PortBooksBalance == Spec => []BooksBalance
<1>1. ASSUME Init
      PROVE  RangeInv /\ ExclInv /\ OwnInv
  <2>1. \A P \in Protos : book[P].bits = {} /\ book[P].used = 0
    BY <1>1 DEF Init, Protos
  <2>2. Cardinality({}) = 0
    BY FS_EmptySet
  <2>3. \A P \in Protos : Exact(book[P])
    BY <2>1, <2>2 DEF Exact
  <2>4. \A f \in Flows : nat[f] = NoSession
    BY <1>1 DEF Init
  <2> QED
    BY <2>1, <2>3, <2>4 DEF RangeInv, ExclInv, OwnInv, Within, Fits, Linked, Owned, HasPort
<1>2. TypeOK /\ ExclInv /\ RangeInv /\ OwnInv /\ [Next]_vars
        => ExclInv' /\ RangeInv' /\ OwnInv'
  BY ExclStep, RangeStep, OwnStep
<1>3. ASSUME TypeOK, ExclInv, RangeInv, OwnInv
      PROVE  BooksBalance
  <2>1. SUFFICES ASSUME Steady, ~reset, faults = 0, NEW P \in Protos
                 PROVE  book[P].bits = PortsOf(P) /\ book[P].used = Cardinality(PortsOf(P))
    BY DEF BooksBalance, Protos
  <2>2. Fits(nat, book) /\ Within(nat) /\ Exact(book[P]) /\ Owned(nat, book)
    BY <1>3, <2>1 DEF ExclInv, RangeInv, OwnInv
  <2>3. PortsOf(P) \subseteq book[P].bits
    BY <2>2 DEF PortsOf, Fits, Within, HasPort, Live
  <2>4. book[P].bits \subseteq PortsOf(P)
    <3>1. \A f \in Flows : HasPort(nat, f) => f \in Live \cap Counted
      BY DEF HasPort, Live
    <3> QED
      BY <2>2, <3>1 DEF Owned, PortsOf
  <2>5. book[P].bits = PortsOf(P)
    BY <2>3, <2>4
  <2> QED
    BY <2>2, <2>5 DEF Exact
<1> QED
  BY <1>1, <1>2, <1>3, NatTypeCorrect, PTL DEF Spec
=============================================================================

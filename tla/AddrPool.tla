------------------------------ MODULE AddrPool ------------------------------
(***************************************************************************)
(* The pool of public addresses and ports of the concentrator daemon       *)
(* (TC/user_module/src/addrpoolentity.c and portmap.c), as one thread      *)
(* drives it: every call is one action.  AddrPoolScan has the loop of      *)
(* AllocAddrPort step by step, with several threads in it.                 *)
(*                                                                         *)
(* Ports are counted in units of MINI_RANGE_VALUE (1024), so that the 16   *)
(* bits of an unsigned short are NumBits units and bit b of a bitmap stands *)
(* for the ports that start at unit b + 1.                                 *)
(***************************************************************************)
EXTENDS Naturals

CONSTANTS
  NumAddrs,   \* length of the cyclic list of addresses
  NumBits,    \* bits in the bitmap of an address, 64 in the code
  PortRange,  \* uiRange: bits in the block of one client, from portMask
  Clients,    \* who asks for blocks
  NoLease     \* a client that holds no block

ASSUME PoolAssumption ==
  /\ NumAddrs \in Nat \ {0}
  /\ NumBits \in Nat \ {0}
  /\ PortRange \in 1..NumBits
  /\ NumBits % PortRange = 0

Nodes  == 0 .. NumAddrs - 1
Header == 0
Starts == {b \in 0 .. NumBits - 1 : b % PortRange = 0}
Blocks == Nodes \X Starts

ASSUME LeaseAssumption == NoLease \notin Blocks

VARIABLES
  bitmap,    \* the bits set in each address
  validbit,  \* the cursor of each address
  lease,     \* the block each client was given and has not returned
  fails      \* failed allocations in a row, at most 2

vars == <<bitmap, validbit, lease, fails>>

-----------------------------------------------------------------------------
\* Bits first .. last of a block, as portrange_test and portrange_set visit them.
Bits(b) == b .. b + PortRange - 1

\* The ports of a block in an unsigned short: its first unit, and its last.
StartPort(b) == (b + 1) % NumBits
StopPort(b)  == (b + PortRange) % NumBits

\* The block that runs over port 65535: the scan marks it and goes on.
OverBoundary(b) == StopPort(b) < StartPort(b)

\* Mistake: the bitmap of the header, whatever the address.
portrange_test_header(p) == Bits(p[2]) \cap bitmap[Header] = {}

portrange_test(p) == Bits(p[2]) \cap bitmap[p[1]] = {}

\* The scan starts at the cursor of the header, goes once round the list, and
\* stops at the header's cursor again.  Of every other address it sees what
\* lies at or after that address's cursor.
Scanned(p) == p[1] = Header \/ p[2] >= validbit[p[1]]

\* The order in which the scan comes to a block.
ScanRank(p) ==
  IF p[1] = Header /\ p[2] < validbit[Header]
  THEN NumAddrs * NumBits + p[2]
  ELSE p[1] * NumBits + p[2]

Usable(p) == Scanned(p) /\ portrange_test(p) /\ ~OverBoundary(p[2])

FirstFit(p) ==
  /\ Usable(p)
  /\ \A q \in Blocks : Usable(q) => ScanRank(p) <= ScanRank(q)

\* Bits of address i that the scan sets, before rank r, for blocks it then
\* rejects at the port boundary.
Burnt(i, r) ==
  UNION {Bits(q[2]) : q \in {q \in Blocks :
           /\ q[1] = i
           /\ Scanned(q)
           /\ portrange_test(q)
           /\ OverBoundary(q[2])
           /\ ScanRank(q) < r}}

\* Rank past the end of the scan.
ScanEnd == (NumAddrs + 1) * NumBits

-----------------------------------------------------------------------------
InitAddrPool ==
  /\ bitmap = [i \in Nodes |-> {}]
  /\ validbit = [i \in Nodes |-> 0]
  /\ lease = [c \in Clients |-> NoLease]
  /\ fails = 0

\* AllocAddrPort returns 1.
AllocAddrPort(c) ==
  /\ lease[c] = NoLease
  /\ \E p \in Blocks :
       /\ FirstFit(p)
       /\ bitmap' = [i \in Nodes |-> bitmap[i] \cup Burnt(i, ScanRank(p))
                                     \cup (IF i = p[1] THEN Bits(p[2]) ELSE {})]
       /\ validbit' = [i \in Nodes |->
            CASE i = p[1] -> p[2] + PortRange
              [] i # p[1] /\ (i + 1) * NumBits <= ScanRank(p) -> 0
              [] OTHER -> validbit[i]]
       /\ lease' = [lease EXCEPT ![c] = p]
  /\ fails' = 0

\* Mistake: the cursors stay where the scan left them.
AllocFailsKeepsCursors(c) ==
  /\ lease[c] = NoLease
  /\ \A p \in Blocks : ~Usable(p)
  /\ fails' = IF fails = 2 THEN 2 ELSE fails + 1
  /\ UNCHANGED <<bitmap, validbit, lease>>

\* AllocAddrPort returns -1: the scan is back at the header's cursor, and has
\* reset every other cursor on its way.
AllocFails(c) ==
  /\ lease[c] = NoLease
  /\ \A p \in Blocks : ~Usable(p)
  /\ bitmap' = [i \in Nodes |-> bitmap[i] \cup Burnt(i, ScanEnd)]
  /\ validbit' = [i \in Nodes |-> IF i = Header THEN validbit[i] ELSE 0]
  /\ fails' = IF fails = 2 THEN 2 ELSE fails + 1
  /\ UNCHANGED lease

\* Mistakes: the bit index without its "- 1"; only the first bit.
ReleasedBitsShifted(p) == Bits(StartPort(p[2]))
ReleasedBitsFirst(p)   == {StartPort(p[2]) - 1}

\* The bits that a release by start port clears: none when the start port is
\* less than MINI_RANGE_VALUE, which the bit index of the code rejects.
ReleasedBits(p) ==
  IF StartPort(p[2]) = 0 THEN {} ELSE Bits(StartPort(p[2]) - 1)

DeallocAddrPort(c) ==
  /\ lease[c] # NoLease
  /\ bitmap' = [bitmap EXCEPT ![lease[c][1]] = @ \ ReleasedBits(lease[c])]
  /\ lease' = [lease EXCEPT ![c] = NoLease]
  /\ fails' = 0
  /\ UNCHANGED validbit

Next ==
  \E c \in Clients : AllocAddrPort(c) \/ AllocFails(c) \/ DeallocAddrPort(c)

Spec == InitAddrPool /\ [][Next]_vars

-----------------------------------------------------------------------------
\* Every variable has its type; a cursor is never past the end of its bitmap.
TypeOK ==
  /\ bitmap \in [Nodes -> SUBSET (0 .. NumBits - 1)]
  /\ validbit \in [Nodes -> 0 .. NumBits]
  /\ lease \in [Clients -> Blocks \cup {NoLease}]
  /\ fails \in 0 .. 2

\* No two clients hold ports in common (portrange_test before portrange_set in
\* AllocAddrPort), whatever was released in between.
NoSharedPorts ==
  \A c, d \in Clients :
    /\ c # d
    /\ lease[c] # NoLease
    /\ lease[d] # NoLease
    /\ lease[c][1] = lease[d][1]
    => Bits(lease[c][2]) \cap Bits(lease[d][2]) = {}

\* Every bit that is set belongs to a lease or to the last block of its
\* address, the one AllocAddrPort gives up at the port boundary: no other
\* port is ever lost to the pool.
NoLostPorts ==
  \A i \in Nodes : \A x \in bitmap[i] :
    \/ x >= NumBits - PortRange
    \/ \E c \in Clients : lease[c] # NoLease /\ lease[c][1] = i /\ x \in Bits(lease[c][2])

\* The ports of a lease stay marked in the bitmap until its holder returns it.
LeasesMarked ==
  \A c \in Clients : lease[c] # NoLease => Bits(lease[c][2]) \subseteq bitmap[lease[c][1]]

\* Bits and leases say the same: what is leased is set, and what is set is leased
\* or lies at the boundary (AllocAddrPort, DeallocAddrPort).
BitsAgree == LeasesMarked /\ NoLostPorts

\* The second failure in a row of AllocAddrPort is the truth: every address's
\* cursor was reset by the first, and no block is free any more.
SecondRefusalMeansFull ==
  fails = 2 => \A p \in Blocks : OverBoundary(p[2]) \/ ~portrange_test(p)

\* The abstract pool over the blocks that do not reach the boundary.
Contract == INSTANCE PortPool WITH Blocks <- {p \in Blocks : ~OverBoundary(p[2])}
Implements == Contract!Spec
=============================================================================

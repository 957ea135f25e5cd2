---------------------------- MODULE AddrPoolScan ----------------------------
(***************************************************************************)
(* AllocAddrPort of TC/user_module/src/addrpoolentity.c with its loop taken *)
(* apart: the bitmaps and the cursors are shared by the two PCP workers    *)
(* and the netlink threads and no lock guards them, so another thread may  *)
(* run between the test of a block, the marking of its bits and the step   *)
(* of the cursor.  With one thread it implements AddrPool.                 *)
(***************************************************************************)
EXTENDS Naturals

CONSTANTS
  NumAddrs,   \* length of the cyclic list of addresses
  NumBits,    \* bits in the bitmap of an address, 64 in the code
  PortRange,  \* uiRange: bits in the block of one client
  Clients,    \* who asks for blocks
  NoLease,    \* a client that holds no block
  Threads     \* the threads that call into the pool

VARIABLES
  bitmap, validbit, lease, fails,   \* as in AddrPool
  pc,         \* where each thread is
  for,        \* the client it allocates for
  pCur,       \* the address it looks at
  pBit,       \* the header's cursor when it entered
  found,      \* the bit its start port was computed from
  before      \* bitmap, validbit and fails when the last call entered (history)

Pool == INSTANCE AddrPool

ASSUME ScanAssumption ==
  /\ NumAddrs \in Nat \ {0}
  /\ NumBits \in Nat \ {0}
  /\ PortRange \in 1..NumBits
  /\ NumBits % PortRange = 0
  /\ NoLease \notin Pool!Blocks /\ NoLease \notin Clients

shared == <<bitmap, validbit, lease, fails>>
local  == <<for, pCur, pBit, found, before>>
vars   == <<shared, pc, local>>

Nodes   == Pool!Nodes
Header  == Pool!Header

\* The next address of the ring.
NextOf(i) == (i + 1) % NumAddrs

-----------------------------------------------------------------------------
Init ==
  /\ Pool!InitAddrPool
  /\ pc = [t \in Threads |-> "idle"]
  /\ for = [t \in Threads |-> NoLease]
  /\ pCur = [t \in Threads |-> Header]
  /\ pBit = [t \in Threads |-> 0]
  /\ found = [t \in Threads |-> 0]
  /\ before = <<bitmap, validbit, fails>>

\* The call: pBegin is the header, pBit its cursor.
Enter(t, c) ==
  /\ pc[t] = "idle"
  /\ lease[c] = NoLease
  /\ \A u \in Threads : for[u] # c
  /\ pc' = [pc EXCEPT ![t] = "first"]
  /\ for' = [for EXCEPT ![t] = c]
  /\ pCur' = [pCur EXCEPT ![t] = Header]
  /\ pBit' = [pBit EXCEPT ![t] = validbit[Header]]
  /\ before' = <<bitmap, validbit, fails>>
  /\ UNCHANGED <<shared, found>>

\* A look at the block at the cursor of address i: over the end or busy, the
\* cursor moves on; free, the thread goes to mark it.
Look(t, i, vb) ==
  IF vb[i] + PortRange - 1 >= NumBits \/ Pool!Bits(vb[i]) \cap bitmap[i] # {}
  THEN /\ validbit' = [vb EXCEPT ![i] = @ + PortRange]
       /\ pc' = [pc EXCEPT ![t] = "loop"]
  ELSE /\ validbit' = vb
       /\ pc' = [pc EXCEPT ![t] = "mark"]

\* Before the loop: a header whose cursor is at the end is left for the next.
First(t) ==
  /\ pc[t] = "first"
  /\ LET done == validbit[Header] >= NumBits
         i    == IF done THEN NextOf(Header) ELSE Header
         vb   == IF done THEN [validbit EXCEPT ![Header] = 0] ELSE validbit
     IN /\ pCur' = [pCur EXCEPT ![t] = i]
        /\ Look(t, i, vb)
  /\ UNCHANGED <<bitmap, lease, fails, for, pBit, found, before>>

\* Mistake: the scan is to stop one block short of where it began.
AroundEarly(t) == pCur[t] = Header /\ pBit[t] = validbit[Header] + PortRange

Around(t) == pCur[t] = Header /\ pBit[t] = validbit[Header]

\* Back at the header's cursor: -1.
GiveUp(t) ==
  /\ pc[t] = "loop"
  /\ Around(t)
  /\ pc' = [pc EXCEPT ![t] = "idle"]
  /\ for' = [for EXCEPT ![t] = NoLease]
  /\ fails' = IF fails = 2 THEN 2 ELSE fails + 1
  /\ UNCHANGED <<bitmap, validbit, lease, pCur, pBit, found, before>>

\* Mistake: the cursor of the address that is left is not reset.
NextAddrKeeps(t) ==
  /\ pc[t] = "loop"
  /\ ~Around(t)
  /\ validbit[pCur[t]] >= NumBits
  /\ pCur' = [pCur EXCEPT ![t] = NextOf(@)]
  /\ UNCHANGED <<shared, pc, for, pBit, found, before>>

\* The cursor of this address is at the end: on to the next address.
NextAddr(t) ==
  /\ pc[t] = "loop"
  /\ ~Around(t)
  /\ validbit[pCur[t]] >= NumBits
  /\ validbit' = [validbit EXCEPT ![pCur[t]] = 0]
  /\ pCur' = [pCur EXCEPT ![t] = NextOf(@)]
  /\ UNCHANGED <<bitmap, lease, fails, pc, for, pBit, found, before>>

Test(t) ==
  /\ pc[t] = "loop"
  /\ ~Around(t)
  /\ validbit[pCur[t]] < NumBits
  /\ Look(t, pCur[t], validbit)
  /\ UNCHANGED <<bitmap, lease, fails, pCur, for, pBit, found, before>>

\* portrange_set and the start port, both from the cursor as it is now.
Mark(t) ==
  /\ pc[t] = "mark"
  /\ LET i == pCur[t]
         b == validbit[i]
     IN /\ bitmap' = [bitmap EXCEPT ![i] = @ \cup (Pool!Bits(b) \cap 0 .. NumBits - 1)]
        /\ found' = [found EXCEPT ![t] = b]
  /\ pc' = [pc EXCEPT ![t] = "advance"]
  /\ UNCHANGED <<validbit, lease, fails, for, pCur, pBit, before>>

\* The cursor moves past the block; one over the port boundary is not given
\* out and the scan goes on.
Advance(t) ==
  /\ pc[t] = "advance"
  /\ validbit' = [validbit EXCEPT ![pCur[t]] = @ + PortRange]
  /\ IF Pool!OverBoundary(found[t])
     THEN /\ pc' = [pc EXCEPT ![t] = "loop"]
          /\ UNCHANGED <<lease, fails, for>>
     ELSE /\ pc' = [pc EXCEPT ![t] = "idle"]
          /\ lease' = [lease EXCEPT ![for[t]] = <<pCur[t], found[t]>>]
          /\ for' = [for EXCEPT ![t] = NoLease]
          /\ fails' = 0
  /\ UNCHANGED <<bitmap, pCur, pBit, found, before>>

\* DeallocAddrPort, by a thread that is not inside AllocAddrPort.
Dealloc(t, c) ==
  /\ pc[t] = "idle"
  /\ Pool!DeallocAddrPort(c)
  /\ before' = <<bitmap', validbit', fails'>>
  /\ UNCHANGED <<pc, for, pCur, pBit, found>>

AllocStep(t) ==
  \/ First(t) \/ GiveUp(t) \/ NextAddr(t) \/ Test(t) \/ Mark(t) \/ Advance(t)

Next ==
  \E t \in Threads :
    \/ \E c \in Clients : Enter(t, c) \/ Dealloc(t, c)
    \/ AllocStep(t)

Spec == Init /\ [][Next]_vars

\* A thread inside the call keeps running: nothing in it blocks.
FairSpec == Spec /\ \A t \in Threads : WF_vars(AllocStep(t))

-----------------------------------------------------------------------------
\* The thread's own variables have their types; a cursor may pass the end of
\* its bitmap, the shared state else is typed as in AddrPool.
TypeOK ==
  /\ pc \in [Threads -> {"idle", "first", "loop", "mark", "advance"}]
  /\ for \in [Threads -> Clients \cup {NoLease}]
  /\ pCur \in [Threads -> Nodes]
  /\ validbit \in [Nodes -> 0 .. NumBits + PortRange]
  /\ bitmap \in [Nodes -> SUBSET (0 .. NumBits - 1)]

\* No two clients hold ports in common, although portrange_test, portrange_set
\* and the step of the cursor are three accesses to shared memory.
NoSharedPorts == Pool!NoSharedPorts

\* A call of AllocAddrPort returns: the scan reaches a free block or the
\* header's cursor again ("while (1)").
AllocReturns == \A t \in Threads : pc[t] # "idle" ~> pc[t] = "idle"

\* With one thread every call has the effect of one action of AddrPool; while
\* the call runs AddrPool is seen as it was when the call entered.
Running == \E t \in Threads : pc[t] # "idle"
Atomic ==
  INSTANCE AddrPool WITH
    bitmap   <- IF Running THEN before[1] ELSE bitmap,
    validbit <- IF Running THEN before[2] ELSE validbit,
    fails    <- IF Running THEN before[3] ELSE fails
ImplementsAddrPool == Atomic!Spec
=============================================================================

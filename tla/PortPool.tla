------------------------------ MODULE PortPool ------------------------------
(***************************************************************************)
(* What the address pool of the concentrator promises to the threads that  *)
(* call it: a lease is a block of ports of one public address, no block is *)
(* leased twice, a released block can be leased again, and a refusal that  *)
(* follows a refusal means that nothing was left.  The first refusal after *)
(* a grant or a release promises nothing (see AddrPool).                   *)
(***************************************************************************)
EXTENDS Naturals

CONSTANTS
  Clients,   \* IPv6 addresses of the CPEs that ask for a port block
  Blocks,    \* the blocks of ports the pool may hand out
  NoLease    \* the client holds no block; not in Blocks

VARIABLES
  lease,     \* the block each client holds
  fails      \* refusals in a row since the last grant or release, at most 2

vars == <<lease, fails>>

Leased == {lease[c] : c \in Clients} \ {NoLease}

Init ==
  /\ lease = [c \in Clients |-> NoLease]
  /\ fails = 0

Grant(c) ==
  /\ lease[c] = NoLease
  /\ \E b \in Blocks \ Leased : lease' = [lease EXCEPT ![c] = b]
  /\ fails' = 0

Refuse(c) ==
  /\ lease[c] = NoLease
  /\ fails > 0 => Blocks \subseteq Leased
  /\ fails' = IF fails = 2 THEN 2 ELSE fails + 1
  /\ UNCHANGED lease

Release(c) ==
  /\ lease[c] # NoLease
  /\ lease' = [lease EXCEPT ![c] = NoLease]
  /\ fails' = 0

Next == \E c \in Clients : Grant(c) \/ Refuse(c) \/ Release(c)

Spec == Init /\ [][Next]_vars
=============================================================================

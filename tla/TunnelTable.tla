----------------------------- MODULE TunnelTable -----------------------------
(***************************************************************************)
(* The tunnel table of the concentrator's kernel module: one tunnel context *)
(* per client, reachable through the IPv4 tree (key: public address and     *)
(* start port) and through the IPv6 tree (key: the client's address).      *)
(* Source: TC/kernel_module/src/packet.c (CreateTunnel, DeleteTunnel,       *)
(* TunnelTimeCheck), storage.c, and the handlers of netlink.c.              *)
(*                                                                         *)
(* A block of ports stands for the key of the IPv4 tree.  An insertion into *)
(* either tree under a key that is there keeps the old entry and reports    *)
(* success (_bpinsert), which is where the two trees can come apart; into a *)
(* tree that is full it fails, whatever the key.                            *)
(***************************************************************************)
EXTENDS Naturals, FiniteSets

CONSTANTS
  Clients,      \* IPv6 addresses of the CPEs
  Blocks,       \* public address and port block of a tunnel
  SuccessLife,  \* uiMaxLifeTime of the configuration
  Quarter,      \* the timer's period, uiMaxLifeTime / 4
  LifeMod,      \* values of an unsigned long, 2^64 in the code
  MaxSize,      \* of a tree, MAXBPSIZE in the code
  None          \* no entry

ASSUME TableAssumption ==
  /\ None \notin Blocks \cup Clients
  /\ LifeMod \in Nat \ {0}
  /\ SuccessLife \in 1 .. LifeMod - 1
  /\ Quarter \in 1 .. LifeMod - 1
  /\ MaxSize \in Nat \ {0}

Lifetimes == 0 .. LifeMod - 1

Tunnel == [client : Clients, left : Lifetimes]

ASSUME NoTunnelAssumption == None \notin Tunnel

VARIABLES
  v4,   \* the IPv4 tree: the tunnel context of each block
  v6    \* the IPv6 tree: the block of the context each client is bound to

table == <<v4, v6>>

Bound == {b \in Blocks : v4[b] # None}

\* bpinsert, bpdelete of either tree: a key that is there keeps its entry.
InsertElement(tree, k, e) == IF tree[k] = None THEN [tree EXCEPT ![k] = e] ELSE tree
DeleteElement(tree, k)    == [tree EXCEPT ![k] = None]

Full(tree) == Cardinality({k \in DOMAIN tree : tree[k] # None}) = MaxSize

-----------------------------------------------------------------------------
InitTable ==
  /\ v4 = [b \in Blocks |-> None]
  /\ v6 = [c \in Clients |-> None]

\* NETLINK_DETECT_MSG: a client that has a tunnel gets its lifetime back, and
\* the answer is NETLINK_UPDATE_MSG; else the answer is NETLINK_ALLOC_ADDR.
Detect(c) ==
  /\ v4' = IF v6[c] = None THEN v4
           ELSE [v4 EXCEPT ![v6[c]].left = SuccessLife]
  /\ UNCHANGED v6

\* Mistake: the start port is not looked up.
CreateTunnelBlindly(c, b, left) ==
  /\ v4' = [v4 EXCEPT ![b] = [client |-> c, left |-> left]]
  /\ v6' = InsertElement(v6, c, b)

\* NETLINK_ALLOC_ADDR with a free start port: both trees get the context, but
\* the IPv6 tree keeps what it has for this client.
CreateTunnel(c, b, left) ==
  /\ v4[b] = None /\ ~Full(v4) /\ ~Full(v6)
  /\ v4' = InsertElement(v4, b, [client |-> c, left |-> left])
  /\ v6' = InsertElement(v6, c, b)

\* NETLINK_ALLOC_ADDR for a start port that has a tunnel, or into a full tree:
\* refused.  When the IPv6 tree is full the IPv4 tree loses the context again.
CreateRefused(b) ==
  /\ v4[b] # None \/ Full(v4) \/ Full(v6)
  /\ UNCHANGED table

\* Mistake: the context stays in the IPv4 tree.
DeleteTunnelHalf(c) ==
  /\ v6[c] # None
  /\ v6' = DeleteElement(v6, c)
  /\ UNCHANGED v4

\* NETLINK_DELETE_NODE: the client's context leaves both trees.
DeleteTunnel(c) ==
  /\ v6[c] # None
  /\ v4' = DeleteElement(v4, v6[c])
  /\ v6' = DeleteElement(v6, c)

DeleteRefused(c) ==
  /\ v6[c] = None
  /\ UNCHANGED table

\* ulLiveTime -= uiMaxLifeTime / 4, in an unsigned long.
LeftAfter(b) == (v4[b].left + LifeMod - Quarter) % LifeMod

\* The test is "<= 0", which an unsigned long passes only at zero.
Expired == {b \in Bound : LeftAfter(b) = 0}

\* Mistake: the entries of the IPv6 tree stay.
TunnelTimeOutHalf ==
  /\ v4' = [b \in Blocks |->
              IF v4[b] = None \/ b \in Expired THEN None
              ELSE [v4[b] EXCEPT !.left = LeftAfter(b)]]
  /\ UNCHANGED v6

\* One pass of the timer over the IPv4 tree: an expired context leaves the
\* IPv4 tree, and the entry of its client leaves the IPv6 tree.
TunnelTimeOut ==
  /\ v4' = [b \in Blocks |->
              IF v4[b] = None \/ b \in Expired THEN None
              ELSE [v4[b] EXCEPT !.left = LeftAfter(b)]]
  /\ v6' = [c \in Clients |->
              IF \E b \in Expired : v4[b].client = c THEN None ELSE v6[c]]

\* ClearStorage on every context of the IPv4 tree.
DestroyStorage ==
  /\ v4' = [b \in Blocks |-> None]
  /\ v6' = [c \in Clients |-> IF \E b \in Bound : v4[b].client = c THEN None ELSE v6[c]]

TableNext ==
  \/ \E c \in Clients : Detect(c) \/ DeleteTunnel(c) \/ DeleteRefused(c)
  \/ \E b \in Blocks : CreateRefused(b)
  \/ \E c \in Clients, b \in Blocks, l \in Lifetimes : CreateTunnel(c, b, l)
  \/ TunnelTimeOut
  \/ DestroyStorage

\* The table under any calls whatever of its callers.
TableSpec == InitTable /\ [][TableNext]_table

-----------------------------------------------------------------------------
\* Each tree maps its keys to values of its kind.
TableTypeOK ==
  /\ v4 \in [Blocks -> Tunnel \cup {None}]
  /\ v6 \in [Clients -> Blocks \cup {None}]

\* What the IPv6 tree refers to is alive: the context is in the IPv4 tree and
\* is this client's own (DeleteTunnel and TunnelTimeCheck free contexts, and an
\* IPv6 entry left behind would be a freed pointer).
NoDanglingEntry ==
  \A c \in Clients : v6[c] # None => v4[v6[c]] # None /\ v4[v6[c]].client = c

\* A block in use is not handed over: between two clients it was unbound
\* (the lookup at the head of CreateTunnel).
NoTakeover ==
  [][\A b \in Blocks : v4[b] # None /\ v4'[b] # None => v4'[b].client = v4[b].client]_table

\* A lifetime does not run below zero: a context whose time is over is
\* removed by the pass that ends it (TunnelTimeCheck).
NoneOverdue == \A b \in Bound : v4[b].left <= SuccessLife
=============================================================================

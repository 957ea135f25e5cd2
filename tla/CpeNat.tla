-------------------------------- MODULE CpeNat --------------------------------
(***************************************************************************)
(* The address translation of the home gateway's kernel module             *)
(* (TI/openwrt_cpe/src): the table of sessions (pktup.c, pktdown.c,         *)
(* packet.c, dbkeyhash.c), the ports of the gateway's block that they take *)
(* (tool.c), the timer that ends them (timerproc.c), and the message of     *)
(* the PCP client that replaces the block (netlink.c).                     *)
(*                                                                         *)
(* Both packet hooks hold hashlock from lookup to end, so a packet is one  *)
(* action; the timer drops it between buckets, so that sessions end one    *)
(* by one; the netlink handler does not take it.  A flow is what finds a   *)
(* session for a packet from inside; a packet from outside is one for the  *)
(* session's port, from the session's peer.  When a timer runs out is      *)
(* left open: an armed one may at any time.                                *)
(***************************************************************************)
EXTENDS Integers, FiniteSets

CONSTANTS
  TcpFlows, UdpFlows, IcmpFlows,  \* (source, port or id, destination) by protocol
  Ranges,        \* the blocks <<LowPort, HighPort>> the gateway may be given
  NoSession,     \* a flow without a session
  MaxEchoes,     \* bound on unanswered echo requests of a session
  MaxFaults,     \* bound on failures of kmalloc
  MaxRenewals    \* bound on changes of the block

Flows   == TcpFlows \cup UdpFlows \cup IcmpFlows
Counted == TcpFlows \cup UdpFlows
Proto(f) == IF f \in TcpFlows THEN "tcp" ELSE IF f \in UdpFlows THEN "udp" ELSE "icmp"

\* What of a TCP header decides more than the next timeout: RST, or no flag at
\* all; other packets are "data".
Kinds(f) == IF f \in TcpFlows THEN {"data", "rst", "none"} ELSE {"data"}

Session ==
  [port : Nat, seen : BOOLEAN, seq : 0 .. MaxEchoes, armed : BOOLEAN, linked : BOOLEAN]

ASSUME NatAssumption ==
  /\ Ranges \subseteq {r \in Nat \X Nat : r[1] \in Nat \ {0} /\ r[1] <= r[2]}
  /\ MaxEchoes \in Nat \ {0}
  /\ MaxFaults \in Nat
  /\ MaxRenewals \in Nat
  /\ NoSession \notin Session
  /\ TcpFlows \cap UdpFlows = {} /\ Counted \cap IcmpFlows = {}

VARIABLES
  low, high,          \* laft_info.LowPort, HighPort
  book,               \* by protocol: the bits set in tcpport, udpport, and *_port_used
  icmpId, icmpLast,   \* the statics of get_icmp_port, 0 before the first call
  nat,                \* the session of each flow
  newRange,           \* the block of a message that the handler is copying, or <<>>
  faults, renewals,   \* failures and changes of the block so far
  renewed,            \* has the block been replaced under live sessions? (history)
  reset               \* has an unanswered connection been reset? (history)

icmp    == <<icmpId, icmpLast>>
laft    == <<low, high, newRange, renewals, renewed>>
vars    == <<laft, book, icmp, nat, faults, reset>>

Live == {f \in Flows : nat[f] # NoSession}

-----------------------------------------------------------------------------
\* Mistake: the bit is tested relative to port 0.
FirstFreeFar(P, p) ==
  /\ p \in low .. high + 1
  /\ p <= high => p \notin book[P].bits
  /\ \A q \in low .. p - 1 : q \in book[P].bits

\* get_tcp_port, get_udp_port: the first port whose bit is not set, or the one
\* past the block when there is none.
FirstFree(P, p) ==
  /\ p \in low .. high + 1
  /\ p <= high => p - low \notin book[P].bits
  /\ \A q \in low .. p - 1 : q - low \in book[P].bits

\* Mistake: one port too many.
RefusedLate(P) == book[P].used > high - low + 1

Refused(P) == book[P].used >= high - low + 1

Taken(b, p) ==
  IF p > high THEN b ELSE [bits |-> b.bits \cup {p - low}, used |-> b.used + 1]

\* Mistake: the bit is cleared relative to port 0.
GivenFar(b, p) ==
  [bits |-> b.bits \ {p}, used |-> IF b.used > 0 THEN b.used - 1 ELSE 0]

\* reset_tcp_port, reset_udp_port.  A port outside the block has a bit outside the
\* map, which nothing here reads.
Given(b, p) ==
  [bits |-> b.bits \ {p - low}, used |-> IF b.used > 0 THEN b.used - 1 ELSE 0]

\* setportbit on the books bk.
setportbit(bk, f, p) ==
  IF f \in IcmpFlows THEN bk ELSE [bk EXCEPT ![Proto(f)] = Given(@, p)]

\* get_icmp_port: the ids of the block in turn, whoever has them.
get_icmp_port ==
  IF icmpId = 0 \/ icmpLast # low THEN low
  ELSE IF icmpId + 1 > high THEN low ELSE icmpId + 1

Numbers == (low .. high + 1) \cup {low}

\* get_hash_data_down: port p for a new session of f, and what it leaves behind.
PortFor(f, p) ==
  IF f \in IcmpFlows
  THEN p = get_icmp_port
  ELSE ~Refused(Proto(f)) /\ FirstFree(Proto(f), p)

BookWith(f, p) ==
  IF f \in IcmpFlows THEN book ELSE [book EXCEPT ![Proto(f)] = Taken(@, p)]

IcmpStatics(f, p) ==
  IF f \in IcmpFlows
  THEN /\ icmpId' = p
       /\ icmpLast' = IF icmpId = 0 THEN low ELSE icmpLast
  ELSE UNCHANGED icmp

-----------------------------------------------------------------------------
\* A session that no packet has been tracked for: its timer is not armed.
\* "linked": it is in the bucket of its outside key too.
Opened(p) ==
  [port |-> p, seen |-> FALSE, seq |-> 0, armed |-> FALSE, linked |-> TRUE]

\* DBKeyHashTableDelete: DataDel gives the port back, for a session that both
\* buckets have.
Deleted(f, s, bk) ==
  /\ nat' = [nat EXCEPT ![f] = NoSession]
  /\ book' = IF s.linked THEN setportbit(bk, f, s.port) ELSE bk

\* The tracking of a packet from inside (tcp_pkt_track, udp_pkt_track,
\* icmp_pkt_track), for session s and books bk.  A TCP packet without flags is
\* dropped; one with RST, before any reply, ends the session, and its port is
\* given back before the deletion and by it.
TrackUp(f, s, bk, k) ==
  \/ /\ k = "none"
     /\ nat' = [nat EXCEPT ![f] = s]
     /\ book' = bk
     /\ UNCHANGED reset
  \/ /\ k = "rst" /\ ~s.seen
     /\ Deleted(f, s, setportbit(bk, f, s.port))
     /\ reset' = TRUE
  \/ /\ k = "data" \/ (k = "rst" /\ s.seen)
     /\ nat' = [nat EXCEPT ![f] =
          [s EXCEPT !.armed = TRUE, !.seq = IF f \in IcmpFlows THEN @ + 1 ELSE @]]
     /\ book' = bk
     /\ UNCHANGED reset

\* DBKeyHashTableFind, by the inside key and by the outside key.
FoundUp(f)   == nat[f] # NoSession
FoundDown(f) == nat[f] # NoSession /\ nat[f].linked

\* stream_up_hook, the flow has a session.
UpKnown(f, k) ==
  /\ FoundUp(f)
  /\ nat[f].seq < MaxEchoes
  /\ TrackUp(f, nat[f], book, k)
  /\ UNCHANGED <<laft, icmp, faults>>

\* stream_up_hook, a session is made.
UpNew(f, k) ==
  /\ nat[f] = NoSession
  /\ \E p \in Numbers :
       /\ PortFor(f, p)
       /\ IcmpStatics(f, p)
       /\ TrackUp(f, Opened(p), BookWith(f, p), k)
  /\ UNCHANGED <<laft, faults>>

\* The same without memory: for the session or its first list node (the port is
\* lost), for its second node (it is in one bucket only), or for the packet.
UpNoMemory(f) ==
  /\ nat[f] = NoSession
  /\ faults < MaxFaults
  /\ faults' = faults + 1
  /\ \E p \in Numbers :
       /\ PortFor(f, p)
       /\ IcmpStatics(f, p)
       /\ book' = BookWith(f, p)
       /\ nat' \in {nat, [nat EXCEPT ![f] = Opened(p)],
                         [nat EXCEPT ![f] = [Opened(p) EXCEPT !.linked = FALSE]]}
  /\ UNCHANGED <<laft, reset>>

\* nathandle: a packet for the port of f's session, from its peer; no two flows
\* of the model have one peer.  Echo replies are counted against the requests;
\* the last one ends the session.  IPS_SEEN_REPLY decides only about TCP.
Down(f, k) ==
  /\ FoundDown(f)
  /\ LET s == [nat[f] EXCEPT !.seen = f \in TcpFlows]
     IN \/ /\ f \in Counted
           /\ nat' = [nat EXCEPT ![f] = IF k = "none" THEN s ELSE [s EXCEPT !.armed = TRUE]]
           /\ UNCHANGED book
        \/ /\ f \in IcmpFlows
           /\ IF s.seq - 1 <= 0
              THEN Deleted(f, s, book)
              ELSE nat' = [nat EXCEPT ![f] = [s EXCEPT !.seq = @ - 1]] /\ UNCHANGED book
  /\ UNCHANGED <<laft, icmp, faults, reset>>

-----------------------------------------------------------------------------
\* sessiontmrhandle, sessiondatproc: the time of a session is over.  A timer
\* that is not armed never ends one.
TimeOver(f) == nat[f] # NoSession /\ nat[f].armed

\* single_link_loop_delete takes it from the bucket at hand and from the other.
Expire(f) ==
  /\ TimeOver(f)
  /\ Deleted(f, nat[f], book)
  /\ UNCHANGED <<laft, icmp, faults, reset>>

\* nl_pcp_data_ready copies the new block, field by field, and empties the books;
\* packets may come in between.
SetLow(r) ==
  /\ newRange = <<>>
  /\ renewals < MaxRenewals
  /\ renewals' = renewals + 1
  /\ newRange' = r
  /\ low' = r[1]
  /\ renewed' = (renewed \/ Live # {})
  /\ UNCHANGED <<high, book, icmp, nat, faults, reset>>

SetHigh ==
  /\ newRange # <<>>
  /\ high' = newRange[2]
  /\ UNCHANGED <<low, newRange, renewals, renewed, book, icmp, nat, faults, reset>>

\* Mistake: the counters are kept.
NewMapsCounted ==
  /\ newRange # <<>>
  /\ high = newRange[2]
  /\ newRange' = <<>>
  /\ book' = [P \in {"tcp", "udp"} |-> [bits |-> {}, used |-> book[P].used]]
  /\ renewed' = (renewed \/ Live # {})
  /\ UNCHANGED <<low, high, renewals, icmp, nat, faults, reset>>

NewMaps ==
  /\ newRange # <<>>
  /\ high = newRange[2]
  /\ newRange' = <<>>
  /\ book' = [P \in {"tcp", "udp"} |-> [bits |-> {}, used |-> 0]]
  /\ renewed' = (renewed \/ Live # {})
  /\ UNCHANGED <<low, high, renewals, icmp, nat, faults, reset>>

Init ==
  /\ \E r \in Ranges : low = r[1] /\ high = r[2]
  /\ book = [P \in {"tcp", "udp"} |-> [bits |-> {}, used |-> 0]]
  /\ icmpId = 0
  /\ icmpLast = 0
  /\ nat = [f \in Flows |-> NoSession]
  /\ newRange = <<>>
  /\ faults = 0
  /\ renewals = 0
  /\ renewed = FALSE
  /\ reset = FALSE

Next ==
  \/ \E f \in Flows :
       \/ \E k \in Kinds(f) : UpKnown(f, k) \/ UpNew(f, k) \/ Down(f, k)
       \/ UpNoMemory(f)
       \/ Expire(f)
  \/ \E r \in Ranges : SetLow(r)
  \/ SetHigh \/ NewMaps

Spec == Init /\ [][Next]_vars

-----------------------------------------------------------------------------
\* Every variable has its type; what a session counts stays in its range.
TypeOK ==
  /\ low \in Nat /\ high \in Nat
  /\ book \in [{"tcp", "udp"} -> [bits : SUBSET Nat, used : Nat]]
  /\ icmpId \in Nat /\ icmpLast \in Nat
  /\ nat \in [Flows -> Session \cup {NoSession}]
  /\ newRange \in Ranges \cup {<<>>}
  /\ faults \in 0 .. MaxFaults
  /\ renewals \in 0 .. MaxRenewals
  /\ renewed \in BOOLEAN /\ reset \in BOOLEAN

\* The block has not been replaced while there were sessions, nor is it now.
Steady == ~renewed /\ newRange = <<>>

\* No two sessions of a protocol have the same port of the block: an answer from
\* outside leads to one host ("if port i not used", tool.c).
PortsExclusive ==
  Steady => \A f, g \in Live \cap Counted :
              (f # g /\ Proto(f) = Proto(g) /\ nat[f].port <= high)
                => nat[f].port # nat[g].port

\* A TCP or UDP session has a port of the gateway's own block, as long as no
\* unanswered connection has been reset (tcp_pkt_track).
PortsInRange == (Steady /\ ~reset) => \A f \in Live \cap Counted : nat[f].port \in low .. high

PortsOf(P) == {nat[f].port - low : f \in {g \in Live \cap Counted : Proto(g) = P}}

\* The bits and the counter say what the sessions have: a port is set exactly
\* when a session has it, and as many are counted, as long as nothing failed and
\* no unanswered connection was reset (reset_tcp_port, get_tcp_port).
BooksBalance ==
  (Steady /\ ~reset /\ faults = 0) =>
    \A P \in {"tcp", "udp"} :
      book[P].bits = PortsOf(P) /\ book[P].used = Cardinality(PortsOf(P))

\* The counter of ports in use never says more than the bits: a port that is
\* free is found ("no tcp port used ?", tool.c).
NoFalseRefusal ==
  newRange = <<>> => \A P \in {"tcp", "udp"} : book[P].used <= Cardinality(book[P].bits)

=============================================================================

------------------------------ MODULE Softwire ------------------------------
(***************************************************************************)
(* The data path from end to end: the Internet, the concentrator           *)
(* (HandleIPv4_skbuf, HandleIPv6_skbuf), the IPv6 network, the gateways    *)
(* (stream_up_hook, stream_down_hook) and their hosts.                     *)
(*                                                                         *)
(* A datagram is sent once, by a host of the Internet (dir "down") or of a *)
(* gateway ("up").  Frames of the network arrive in any order, or never;   *)
(* MaxDups of its fragments may arrive once more.  Every hook runs to its  *)
(* end: the reassembly under fraghashlock, the translation under hashlock. *)
(* Tunnels and sessions stand still here: TcBinding and CpeNat move them.  *)
(***************************************************************************)
EXTENDS Headers, Reassembly

CONSTANTS
  Client,       \* the gateways, by their IPv6 address
  Tc,           \* the concentrator
  Lease,        \* the tunnels: [addr, port] of a block -> its gateway
  Session,      \* the sessions of all gateways
  PubIP,        \* gateway -> its public address
  Prefix,       \* host of the Internet -> the first two octets of its address
  SameNet,      \* <<address of a host, peer>> that agree but in the first octet
  OtherPool,    \* the addresses of the concentrator this one stands in for
  START_PORT, usPortRange,
  TcMtu,        \* the concentrator's GlobalCtx.usMtu
  UpMtu,        \* 1280, which the gateway's code has in several places
  LanMtu,       \* 1500, likewise
  Loads,        \* the sets of datagrams a run may have to carry
  MaxDups

VARIABLES
  load,     \* the datagrams of this run
  sent,     \* those that have been sent
  net,      \* the frames on their way
  tc,       \* reassembly in the concentrator: [tab, buf]
  gw,       \* and in each gateway
  destip,   \* gateway -> frag_nathandle's static destip
  out,      \* what left the tunnel
  dups,     \* the datagrams of which a fragment arrived twice
  mixed,    \* those that met another one with their key, see Meets
  reports,  \* what the kernel modules tell their daemons
  told      \* the reports of which an ICMP error came

errors == <<reports, told>>
vars == <<load, sent, net, tc, gw, destip, out, dups, mixed, errors>>

Pool  == {b.addr : b \in DOMAIN Lease}

(* A header of zeros, which is of a protocol without ports.                *)
NoBuf == [proto |-> "other", addr |-> <<0, 0>>, port |-> 0, peer |-> Tc, rest |-> 0, ck |-> 0,
          mss |-> 0, syn |-> FALSE, data |-> TRUE, opts |-> <<>>, type |-> "echo", sound |-> FALSE,
          quoted |-> [proto |-> "other", addr |-> <<0, 0>>, port |-> 0, peer |-> Tc]]

ASSUME SoftwireAssumption ==
  /\ Lease \in [DOMAIN Lease -> Client] /\ Tc \notin Client
  /\ \A b \in DOMAIN Lease : PubIP[Lease[b]] = b.addr
  /\ LanMtu + HDR6 >= TcMtu /\ UpMtu <= TcMtu
  /\ MaxDups \in Nat
  /\ \A l \in Loads : \A d \in l : d.dir = "up" => d.client \in Client

(* A link takes the headers of the tunnel and two of IPv4.                 *)
ASSUME LinksAssumption ==
  \A mtu \in {TcMtu, UpMtu, LanMtu} : mtu \in Nat /\ mtu >= HDR6 + HDRF + 2 * HDR4

(* Addresses, ports and segment sizes are words.                           *)
ASSUME WordsAssumption ==
  /\ MssFor(UpMtu) \in Words /\ MssFor(TcMtu) \in Words
  /\ \A c \in Client : PubIP[c] \in Words \X Words
  /\ \A s \in Session : /\ s.proto \in {"tcp", "udp", "icmp"} /\ s.client \in Client
                       /\ s.host \in Words \X Words
                       /\ s.oldport \in Words /\ s.newport \in Words

(* Blocks lie side by side from START_PORT on, and sessions have ports of  *)
(* a block.                                                                *)
ASSUME BlocksAssumption ==
  /\ START_PORT \in Nat /\ usPortRange \in Nat \ {0}
  /\ \A b \in DOMAIN Lease :
       /\ b = [addr |-> b.addr, port |-> b.port]
       /\ b.port \in Nat /\ b.port >= START_PORT /\ (b.port - START_PORT) % usPortRange = 0
  /\ \A s \in Session : s.newport >= START_PORT

(* The IPv6 source of the packets that carry a datagram.                   *)
Sender(d) == IF d.dir = "up" THEN d.client ELSE Tc

(* A datagram carries something.  A checksum that covers only zeros stays  *)
(* out: csum_incremental_update gives it the other zero.  Identifications  *)
(* are whatever the hosts choose, the same ones too.                       *)
ASSUME DatagramsAssumption ==
  \A l \in Loads : \A d \in l :
    /\ d.dir \in {"up", "down"} /\ d.len \in Nat /\ d.len > HDR4
    /\ IsHeader(d.h)
    /\ d.h.quoted = [x \in {"proto", "addr", "port", "peer"} |-> d.h.quoted[x]]
    /\ d.h.quoted.port \in Words
    /\ d.h.rest # 0 \/ \A s \in Session : s.oldport # 0 /\ s.newport # 0

-----------------------------------------------------------------------------
(* Concentrator, from the Internet.                                        *)

(* IPFilter: nothing the concentrator sent itself, and of IPv4 only what   *)
(* is for the pool.                                                        *)
IPFilter(protocol, from, to) ==
  IF protocol = "ipv6" THEN from # Tc ELSE to \in Pool

(* A port below START_PORT by less than a range is rounded towards zero,   *)
(* into the first block.                                                   *)
getstartport(p) ==
  LET blocks == IF p >= START_PORT THEN (p - START_PORT) \div usPortRange
                                   ELSE -((START_PORT - p) \div usPortRange)
  IN  blocks * usPortRange + START_PORT

(* OuterICMPErr_get: where the quoted datagram came from.                  *)
OuterICMPErr_get(h) == [addr |-> h.quoted.addr, port |-> h.quoted.port]

(* FetchIPAndPort_skbuf: of other protocols the port is not initialized.   *)
FetchIPAndPort(h) ==
  CASE FilterIcmpErrOuter(h) -> {OuterICMPErr_get(h)}
    [] ~FilterIcmpErrOuter(h) /\ h.proto # "other" -> {[addr |-> h.addr, port |-> h.port]}
    [] h.proto = "other" -> {[addr |-> h.addr, port |-> p] : p \in {0} \cup {b.port : b \in DOMAIN Lease}}

IPv4LenCheck(d, mtu) == ~(d.df /\ d.len + HDR6 > mtu)

(* The block of an address and port, in LookupTunnel_v4.                   *)
BlockOf(at) == [addr |-> at.addr, port |-> getstartport(at.port)]

(* What becomes IPv6 fragments, on either side.                            *)
Link(d)        == IF d.dir = "up" THEN UpMtu ELSE TcMtu
InFragments(d) == d.nonlinear \/ d.len + HDR6 > Link(d)

-----------------------------------------------------------------------------
(* Two datagrams with one key.  The fragments of a datagram have the       *)
(* identification of the datagram and the address of its IPv6 source: for  *)
(* what comes from the Internet that is the concentrator, whoever sent it. *)
Key(d) == [id |-> d.id, from |-> Sender(d)]

Tab(a)  == IF a = Tc THEN tc.tab ELSE gw[a].tab
Waiting == UNION {{Tab(a)[k].frags : k \in DOMAIN Tab(a)} : a \in Client \cup {Tc}}

OnWay(d) == {f \in net : f.of = d}
Live(d)  == OnWay(d) # {} \/ \E frags \in Waiting : \E p \in frags : p.of = d

(* Where a datagram may be put together.                                   *)
Receivers(d) ==
  IF d.dir = "up" THEN {Tc}
  ELSE {Lease[b] : b \in {BlockOf(at) : at \in FetchIPAndPort(d.h)} \cap DOMAIN Lease}

Alike(d, e) == /\ d # e /\ InFragments(d) /\ InFragments(e) /\ Key(d) = Key(e)
               /\ Receivers(d) \cap Receivers(e) # {}

(* Sent while another one with the key is on its way or waits for its      *)
(* fragments, or into a tuple that the timer has not taken yet.            *)
Meets(d) ==
  LET others == {e \in sent : Alike(d, e) /\ Live(e)}
      taken  == InFragments(d) /\ \E r \in Receivers(d) : Key(d) \in DOMAIN Tab(r)
  IN  others \cup IF others # {} \/ taken THEN {d} ELSE {}

Met(d) == mixed' = mixed \cup IF net' = net THEN {} ELSE Meets(d)

-----------------------------------------------------------------------------
(* A message to the daemon at a place, about a datagram, for its sender.   *)
Report(at, msgdef, d, to) == {[at |-> at, msgdef |-> msgdef, of |-> d, to |-> to]}

(* The concentrator makes a message and sends the packet in its stead,     *)
(* whose first octets the daemon will take for the kind of message.        *)
TooLong(d) == Report(Tc, "packet", d, d.h.peer)

(* CreateIPinIP_skbuf, normal_packet_handl: a packet in one frame.         *)
Whole(from, to, d, h) ==
  {[kind |-> "ipip", from |-> from, to |-> to, of |-> d, h |-> h,
    len |-> d.len, off |-> 0, more |-> FALSE]}

(* The fragments of a packet; the first one has the header.                *)
Fragments(from, to, d, h, pieces) ==
  {[kind |-> "frag", from |-> from, to |-> to, of |-> d,
    h |-> IF p.off = 0 THEN h ELSE NoBuf,
    len |-> p.len, off |-> p.off, more |-> p.off + p.len < d.len] : p \in pieces}

IPv4FragandIPinIP(c, d, h) ==
  Fragments(Tc, c, d, h, BigFirst(d.len, TcMtu - (HDR6 + HDRF)))

HandleIPv4_skbuf(d) ==
  /\ d.dir = "down"
  /\ sent' = sent \cup {d}
  /\ \E at \in FetchIPAndPort(d.h) :
       LET h == patch_tcpmss(d.h, TcMtu)
       IN  net' = net \cup
             IF ~(/\ IPFilter("ipv4", d.h.peer, d.h.addr)
                  /\ IPv4LenCheck(d, TcMtu) /\ BlockOf(at) \in DOMAIN Lease) THEN {}
             ELSE IF InFragments(d)
                  THEN IPv4FragandIPinIP(Lease[BlockOf(at)], d, h)
                  ELSE Whole(Tc, Lease[BlockOf(at)], d, h)
  /\ reports' = reports \cup
       IF IPFilter("ipv4", d.h.peer, d.h.addr) /\ ~IPv4LenCheck(d, TcMtu) THEN TooLong(d) ELSE {}
  /\ Met(d)
  /\ UNCHANGED <<load, tc, gw, destip, out, dups, told>>

-----------------------------------------------------------------------------
(* A frame is taken from the network, or arrives and stays to arrive again.*)
Arrives(f) ==
  /\ f \in net
  /\ \/ net' = net \ {f} /\ UNCHANGED dups
     \/ /\ f.kind = "frag" /\ Cardinality(dups) < MaxDups /\ f.of \notin dups
        /\ dups' = dups \cup {f.of}
        /\ UNCHANGED net

(* createfragkey: the receiver is the same for all.                        *)
FragKey(f) == [id |-> f.of.id, from |-> f.from]

(* IPv4 packets that leave the tunnel on side s, of datagram d; dst is the *)
(* host of the gateway a packet is for.                                    *)
Leaving(s, at, d, h, off, len, more) ==
  [side |-> s, at |-> at, of |-> d.of, whole |-> d.whole, h |-> h,
   off |-> off, len |-> len, more |-> more]

Single(s, at, d, h) == Leaving(s, at, d, h, 0, d.len, FALSE)

(* pkt_fraghandle: a new header for every piece of what follows the old.   *)
Refragmented(len, mtu) ==
  {[off |-> p.off, len |-> p.len + HDR4, more |-> p.off + p.len < len - HDR4] :
     p \in BigFirst(len - HDR4, mtu - HDR4)}

-----------------------------------------------------------------------------
(* Concentrator, from a gateway.                                           *)
FromTunnel(f) == f.to = Tc /\ f.from \in {Lease[b] : b \in DOMAIN Lease}

HandleIPinIP_skbuf(f) ==
  /\ f.kind = "ipip" /\ FromTunnel(f)
  /\ out' = out \cup {Single("inet", Tc, [of |-> f.of, len |-> f.len, whole |-> TRUE],
                             patch_tcpmss(f.h, TcMtu))}
  /\ UNCHANGED <<tc, reports>>

(* fragprocess: what fits is sent as it is.                                *)
SentToInternet(d) ==
  IF d.len > TcMtu
  THEN {Leaving("inet", Tc, d, d.h, p.off, p.len, p.more) : p \in Refragmented(d.len, TcMtu)}
  ELSE {Single("inet", Tc, d, d.h)}

HandleFragment(f) ==
  /\ f.kind = "frag" /\ FromTunnel(f)
  /\ LET r == fragnodeinsert(tc.tab, FragKey(f), f)
         d == Assembled(r.frags, tc.buf)
     IN  IF r.done
         THEN tc' = [tab |-> r.tab, buf |-> d.h] /\ out' = out \cup SentToInternet(d)
         ELSE tc' = [tc EXCEPT !.tab = r.tab] /\ UNCHANGED out
  /\ UNCHANGED reports

(* IsCrashIPinPool                                                         *)
IsCrashIPinPool(f) == f.kind = "ipip" /\ f.h.addr \in OtherPool

(* Without a tunnel the frame is dropped.                                  *)
NoTunnel(f) ==
  /\ f.to = Tc /\ ~FromTunnel(f)
  /\ reports' = reports \cup IF IsCrashIPinPool(f) THEN Report(Tc, "crash", f.of, f.from) ELSE {}
  /\ UNCHANGED <<tc, out>>

HandleIPv6_skbuf(f) ==
  /\ Arrives(f)
  /\ f.to = Tc /\ IPFilter("ipv6", f.from, f.to)
  /\ HandleIPinIP_skbuf(f) \/ HandleFragment(f) \/ NoTunnel(f)
  /\ UNCHANGED <<load, sent, gw, destip, mixed, told>>

Handle_skbuf ==
  \/ \E d \in load \ sent : HandleIPv4_skbuf(d)
  \/ \E f \in net : HandleIPv6_skbuf(f)

-----------------------------------------------------------------------------
(* Gateway, towards its hosts.                                             *)
SessionsOf(c, key) ==
  {s \in Session : s.client = c /\ s.proto = key.proto /\ s.peer = key.peer /\ s.newport = key.port}

(* nathandle: the header a host sees, or why there is none.  Of a protocol *)
(* that has no ports the address is written before the packet is refused.  *)
nathandle(c, h) ==
  LET found == SessionsOf(c, DownKey(h))
      s     == CHOOSE x \in found : TRUE
  IN  IF found = {} THEN [ok |-> FALSE, h |-> h]
      ELSE IF IsOutICMPErrPacket(h) THEN [ok |-> TRUE, h |-> Requoted(h, s.host, s.oldport)]
      ELSE IF h.proto = "other" THEN [ok |-> FALSE, h |-> [h EXCEPT !.addr = s.host]]
      ELSE [ok |-> TRUE, h |-> Readdressed(h, s.host, s.oldport)]

ipiphandle(c, f) ==
  /\ f.kind = "ipip"
  /\ LET n == nathandle(c, patch_tcpmss(f.h, UpMtu))
     IN  out' = IF n.ok
                THEN out \cup {Single("lan", c, [of |-> f.of, len |-> f.len, whole |-> TRUE], n.h)}
                ELSE out
  /\ UNCHANGED <<gw, destip>>

(* Mistake: the address is not remembered from piece to piece.             *)
RestTo_public(n, old) == old

(* frag_nathandle: the address of the first piece, if it was translated,   *)
(* or else of the last packet's first piece.                               *)
RestTo(n, old) == IF n.ok THEN n.h.addr ELSE old

(* Every piece is sent, whether or not the first was translated.           *)
frag_nathandle(c, d, n) ==
  {Leaving("lan", c, d, IF p.off = 0 THEN n.h ELSE [d.h EXCEPT !.addr = RestTo(n, destip[c])],
           p.off, p.len, p.more) : p \in Refragmented(d.len, LanMtu)}

(* fragnodeinsert and fragprocess of the gateway.                          *)
GwInserted(c, f)      == fragnodeinsert(gw[c].tab, FragKey(f), f)
GwAssembled(c, frags) == Assembled(frags, gw[c].buf)

GatewayFragment(c, f) ==
  /\ f.kind = "frag"
  /\ LET r == GwInserted(c, f)
         d == GwAssembled(c, r.frags)
         n == nathandle(c, d.h)
     IN  IF r.done
         THEN /\ gw' = [gw EXCEPT ![c] = [tab |-> r.tab, buf |-> d.h]]
              /\ out' = out \cup frag_nathandle(c, d, n)
              /\ destip' = [destip EXCEPT ![c] = RestTo(n, @)]
         ELSE /\ gw' = [gw EXCEPT ![c].tab = r.tab]
              /\ UNCHANGED <<out, destip>>

stream_down_hook(c, f) ==
  /\ Arrives(f)
  /\ f.to = c
  /\ ipiphandle(c, f) \/ GatewayFragment(c, f)
  /\ UNCHANGED <<load, sent, tc, mixed, errors>>

-----------------------------------------------------------------------------
(* Gateway, from its hosts.                                                *)

(* ipdst_filter, on a little-endian gateway: what it leaves to the host's  *)
(* own network.  The first test compares all octets but the first; the     *)
(* last range is 172.16 to 172.31, compared with the second octet in the   *)
(* place of the first.                                                     *)
ipdst_filter(h) ==
  LET a == Prefix[h.peer][1]
      b == Prefix[h.peer][2]
  IN  \/ <<h.addr, h.peer>> \in SameNet
      \/ a >= 224 \/ a = 10
      \/ <<a, b>> \in {<<192, 168>>, <<169, 254>>}
      \/ b * 256 + a \in 16 * 256 + 172 .. 31 * 256 + 172

(* get_hash_data_up, compare_session.                                      *)
SessionFrom(c, h) ==
  {s \in Session : s.client = c /\ s.proto = h.proto /\ s.peer = h.peer
                   /\ s.host = h.addr /\ s.oldport = h.port}

(* ipv6_frag_handl: equal pieces.                                          *)
ipv6_frag_handl(c, d, h) ==
  Fragments(c, Tc, d, h, EqualPieces(d.len, Down8(UpMtu) - (HDR6 + HDRF)))

(* Mistake: the sender is not told, as in the concentrator.                *)
TooLongForTunnel_untold(c, d) == {}

(* stream_len_check                                                        *)
TooLongForTunnel(c, d) ==
  IF ~ipdst_filter(d.h) /\ ~IPv4LenCheck(d, UpMtu) THEN Report(c, "toolong", d, d.h.addr) ELSE {}

stream_up_hook(d) ==
  LET c == d.client
      s == CHOOSE x \in SessionFrom(c, d.h) : TRUE
      h == Readdressed(patch_tcpmss(d.h, UpMtu), PubIP[c], s.newport)
  IN  /\ d.dir = "up"
      /\ sent' = sent \cup {d}
      /\ reports' = reports \cup TooLongForTunnel(c, d)
      /\ net' = net \cup
           IF ipdst_filter(d.h) \/ ~IPv4LenCheck(d, UpMtu) \/ SessionFrom(c, d.h) = {} THEN {}
           ELSE IF InFragments(d) THEN ipv6_frag_handl(c, d, h) ELSE Whole(c, Tc, d, h)
      /\ Met(d)
      /\ UNCHANGED <<load, tc, gw, destip, out, dups, told>>

-----------------------------------------------------------------------------
TcTimer ==
  /\ tc.tab # <<>>
  /\ tc' = [tc EXCEPT !.tab = fragtimeouthandle(@)]
  /\ UNCHANGED <<load, sent, net, gw, destip, out, dups, mixed, errors>>

GwTimer(c) ==
  /\ gw[c].tab # <<>>
  /\ gw' = [gw EXCEPT ![c].tab = fragtimeouthandle(@)]
  /\ UNCHANGED <<load, sent, net, tc, destip, out, dups, mixed, errors>>

-----------------------------------------------------------------------------
(* The daemons send the ICMP errors.                                       *)

(* IcmpErrorSend, Icmpv6ErrorSend                                          *)
IcmpErrorSend(r) == told' = told \cup {r}

(* The concentrator's daemon knows messages by their kind: ICMPv6 for a    *)
(* gateway without a tunnel, ICMP for what is too long.                    *)
HandlAsyncMessage(r) ==
  /\ r.at = Tc
  /\ IF r.msgdef \in {"crash", "toolong"} THEN IcmpErrorSend(r) ELSE UNCHANGED told

handleIcmpv4Error(r) == r.at \in Client /\ IcmpErrorSend(r)

Told(r) ==
  /\ reports' = reports \ {r}
  /\ HandlAsyncMessage(r) \/ handleIcmpv4Error(r)
  /\ UNCHANGED <<load, sent, net, tc, gw, destip, out, dups, mixed>>

-----------------------------------------------------------------------------
initfragmodule == [tab |-> <<>>, buf |-> NoBuf]

Init ==
  /\ load \in Loads
  /\ sent = {} /\ net = {} /\ out = {} /\ dups = {} /\ mixed = {} /\ reports = {} /\ told = {}
  /\ tc = initfragmodule
  /\ gw = [c \in Client |-> initfragmodule]
  /\ destip = [c \in Client |-> <<0, 0>>]

Next ==
  \/ Handle_skbuf
  \/ \E d \in load \ sent : stream_up_hook(d)
  \/ \E f \in net, c \in Client : stream_down_hook(c, f)
  \/ \E r \in reports : Told(r)
  \/ TcTimer \/ \E c \in Client : GwTimer(c)

Spec == Init /\ [][Next]_vars

(* A timer that is armed goes off: each pass arms it again.                *)
Fairness == WF_vars(TcTimer) /\ \A c \in Client : WF_vars(GwTimer(c))

FairSpec == Spec /\ Fairness

-----------------------------------------------------------------------------
(* Properties.                                                             *)

(* Whose block a datagram's port lies in: its own, or the quoted one's.    *)
Own(h)     == IF IsOutICMPErrPacket(h) THEN h.quoted ELSE h
Holders(h) == {Lease[b] : b \in {x \in DOMAIN Lease :
                 /\ x.addr = Own(h).addr
                 /\ Own(h).port \in x.port .. x.port + usPortRange - 1}}

(* The session a datagram to a host belongs to, if there is one.           *)
SessionsFor(d) ==
  {s \in Session : /\ s.client \in Holders(d.h)
                   /\ s.proto = DownKey(d.h).proto /\ s.proto # "other"
                   /\ s.peer = DownKey(d.h).peer /\ s.newport = DownKey(d.h).port}

Of(d) == {o \in out : o.of = d}

(* A datagram of which no fragment arrived twice, and that met no other    *)
(* with its key, leaves the tunnel with all of its bytes, none of          *)
(* another's and each in its place, in IPv4 fragments that fit together;   *)
(* and if it came with a right checksum the receiver finds a right one,    *)
(* after patch_tcpmss and the translation.                                 *)
Tiles(d) ==
  /\ MapThenSumSet(LAMBDA o : o.len - HDR4, Of(d)) = d.len - HDR4
  /\ \E o \in Of(d) : o.off = 0
  /\ \A o \in Of(d) : o.more <=> \E q \in Of(d) : q.off = o.off + o.len - HDR4
  /\ \A o \in Of(d) : o.more => o.off % 8 = 0 /\ (o.len - HDR4) % 8 = 0

NoChecksum(h) == h.proto = "udp" /\ h.ck = 0

Intact ==
  \A d \in {o.of : o \in out} \ (dups \cup mixed) :
    /\ \A o \in Of(d) : o.whole
    /\ Tiles(d)
    /\ \A o \in Of(d) : o.off = 0 /\ ChecksumHolds(d.h) /\ ~NoChecksum(d.h) => ChecksumHolds(o.h)

(* A datagram from the Internet with a session reaches that session's host *)
(* behind the gateway that holds the port, in every piece, and an ICMP     *)
(* error quotes what the host sent; without a session it gets through only *)
(* in pieces (frag_nathandle).  A datagram to the Internet has the public  *)
(* address of its sender's tunnel and the port of its session.  All this   *)
(* for those that were not mixed with others, nor arrived twice.           *)
ReachedHost(o) ==
  LET s == CHOOSE x \in SessionsFor(o.of) : TRUE
  IN  /\ o.at = s.client /\ o.h.addr = s.host
      /\ o.off = 0 => IF IsOutICMPErrPacket(o.of.h)
                      THEN o.h.quoted.addr = s.host /\ o.h.quoted.port = s.oldport
                      ELSE o.h.port = s.oldport

RightHost ==
  \A o \in {x \in out : x.of \notin dups \cup mixed} :
    IF o.side = "lan"
    THEN IF SessionsFor(o.of) # {} THEN ReachedHost(o) ELSE InFragments(o.of)
    ELSE o.off = 0 =>
           \E s \in SessionFrom(o.of.client, o.of.h) :
             /\ o.h.addr = PubIP[s.client] /\ o.h.port = s.newport
             /\ s.client \in {Lease[b] : b \in DOMAIN Lease}

(* What it takes: an ICMP error that the concentrator does not know for    *)
(* one is not taken for an echo, whose identifier lies in a block, either. *)
ErrorsKnown ==
  \A l \in Loads : \A d \in l :
    d.dir = "down" /\ IsOutICMPErrPacket(d.h) /\ ~FilterIcmpErrOuter(d.h) =>
      [addr |-> d.h.addr, port |-> getstartport(d.h.port)] \notin DOMAIN Lease

(* Nothing is larger than the link it is sent on, fragments are cut at     *)
(* multiples of eight, and a datagram that must not be fragmented leaves   *)
(* in one piece.  A host is offered no segment size whose segments the     *)
(* gateway would have to cut on their way up; unless the SYN came in IPv6  *)
(* fragments: frag_nathandle does not clamp, and the host is offered what  *)
(* the concentrator's link takes.  What was put together from several      *)
(* datagrams has the segment size of one of them, and may be of any length.*)
OfferedMtu(o) == IF o.side = "lan" /\ InFragments(o.of) THEN TcMtu ELSE UpMtu

FramesFit ==
  /\ \A f \in net :
       /\ f.len + HDR6 + (IF f.kind = "frag" THEN HDRF ELSE 0) <= IF f.from = Tc THEN TcMtu ELSE UpMtu
       /\ f.more => f.len % 8 = 0
  /\ \A o \in out :
       /\ o.of \notin mixed => o.len <= IF o.side = "inet" THEN TcMtu ELSE LanMtu
       /\ o.of.df /\ o.of \notin dups \cup mixed => o.off = 0 /\ ~o.more
       /\ o.off = 0 /\ Clampable(o.h) => o.h.mss + MinimalSyn + HDR6 <= OfferedMtu(o)

(* A host of a gateway whose datagram must not be fragmented and does not  *)
(* fit is told; and only he, and gateways that have no tunnel, so that     *)
(* they ask for one (PcpSession).                                          *)
SendersTold ==
  /\ \A d \in sent :
       d.dir = "up" /\ ~ipdst_filter(d.h) /\ ~IPv4LenCheck(d, UpMtu) =>
         \E r \in reports \cup told : r.of = d /\ r.to = d.h.addr
  /\ \A r \in told :
       IF r.msgdef = "crash" THEN r.to \in Client \ {Lease[b] : b \in DOMAIN Lease}
       ELSE Of(r.of) = {} /\ \A f \in net : f.of # r.of

(* In whatever order the fragments arrive, the last one to come completes  *)
(* the packet: none that is all there waits for the timer, unless it was   *)
(* mixed with another, or one of its fragments came twice.                 *)
CompleteIsSent ==
  \A frags \in Waiting : \A p \in frags :
    p.of \notin dups \cup mixed => PacketLen({q \in frags : q.of = p.of}) < p.of.len

(* Fragments whose others never come, and the tuples of packets that were  *)
(* completed, do not stay: both tables become empty again and again.       *)
NothingStays == /\ []<>(tc.tab = <<>>)
                /\ \A c \in Client : []<>(gw[c].tab = <<>>)
=============================================================================

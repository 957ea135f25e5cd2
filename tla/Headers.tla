------------------------------ MODULE Headers ------------------------------
(***************************************************************************)
(* What the data path does to headers: the incremental checksums, the      *)
(* clamping of the TCP maximum segment size, and the addresses and ports.  *)
(*                                                                         *)
(* A header is seen from the gateway's side: addr and port (for ICMP the   *)
(* echo identifier) are the host's own, peer is the other end.  The        *)
(* checksum is over words below Word, which stands for 2^16; an address    *)
(* has two, and rest is the sum of all that no step changes.               *)
(***************************************************************************)
EXTENDS Integers, Sequences, FiniteSetsExt, FragmentMath

CONSTANT Word

ASSUME WordAssumption == Word \in Nat /\ Word > 1

HDRT == 20      \* sizeof(struct tcphdr)

-----------------------------------------------------------------------------
(* One's complement arithmetic as the code does it: two foldings, of which *)
(* the second is cut off at the width of a word.                           *)
Neg(x)  == Word - 1 - x
Fold(s) == LET a == s \div Word + (s % Word) IN (a + a \div Word) % Word

csum_incremental_update(ck, old, new) == Neg(Fold(Neg(ck) + Neg(old) + new))

UpdatedAddr(ck, old, new) ==
  csum_incremental_update(csum_incremental_update(ck, old[1], new[1]), old[2], new[2])

(* The words the transport checksum covers.                                *)
SumOf(h) ==
  CASE h.proto \in {"tcp", "udp"} -> h.addr[1] + h.addr[2] + h.port + h.mss + h.rest
    [] h.proto = "icmp"           -> h.port + h.rest
    [] OTHER                      -> h.rest

ip_checksum(h) == Neg(Fold(SumOf(h)))

(* What a receiver tests.                                                  *)
ChecksumHolds(h) == Fold(SumOf(h) + h.ck) = Word - 1

Words  == 0 .. Word - 1
Fields == {"proto", "addr", "port", "peer", "rest", "ck", "mss", "syn", "data", "opts",
           "type", "sound", "quoted"}

(* Words where words are, and a sum that is not zero.                      *)
IsHeader(h) ==
  /\ h = [x \in Fields |-> h[x]]
  /\ h.proto \in {"tcp", "udp", "icmp", "other"}
  /\ h.addr \in Words \X Words
  /\ h.port \in Words /\ h.mss \in Words /\ h.ck \in Words /\ h.rest \in Words
  /\ h.rest # 0 \/ (h.port # 0 /\ h.proto # "other")

-----------------------------------------------------------------------------
(* patch_tcpmss: of a SYN without data whose options are well formed up to *)
(* their end and carry no MD5 signature, the first MSS option is lowered   *)
(* to what fits into the tunnel.                                           *)
MinimalSyn == HDR4 + HDRT

OptionsEnd(opts) ==
  IF \E i \in DOMAIN opts : opts[i] = "EOL"
  THEN Min({i \in DOMAIN opts : opts[i] = "EOL"}) - 1 ELSE Len(opts)

Clampable(h) ==
  /\ h.proto = "tcp" /\ h.syn /\ ~h.data
  /\ \A i \in 1 .. OptionsEnd(h.opts) : h.opts[i] \notin {"malformed", "MD5"}
  /\ \E i \in 1 .. OptionsEnd(h.opts) :
       /\ h.opts[i] = "MSS"
       /\ \A j \in 1 .. i - 1 : h.opts[j] # "MSS of a wrong length"

MssFor(mtu) == mtu - (HDR6 + HDR4 + HDRT)

fix_msscksum(h, newmss) ==
  [h EXCEPT !.mss = newmss, !.ck = csum_incremental_update(h.ck, h.mss, newmss)]

patch_tcpmss(h, mtu) ==
  IF Clampable(h) /\ h.mss + MinimalSyn > mtu - HDR6
  THEN fix_msscksum(h, MssFor(mtu)) ELSE h

-----------------------------------------------------------------------------
(* The gateway's sessions and the headers it writes.                       *)

(* An ICMP error is about the datagram it quotes.  The concentrator takes  *)
(* three types for errors, if the quoted header is sound; the gateway all  *)
(* but the echo.                                                           *)
FilterIcmpErrOuter(h) == h.proto = "icmp" /\ h.type = "unreachable" /\ h.sound
IsOutICMPErrPacket(h) == h.proto = "icmp" /\ h.type # "echo"

(* OuterICMPErr_get: the session of the quoted datagram, which a host sent.*)
QuotedKey(h) == [proto |-> h.quoted.proto, peer |-> h.quoted.peer, port |-> h.quoted.port]

(* createpktdownkey: what identifies the session of a packet to the host.  *)
DownKey(h) ==
  IF IsOutICMPErrPacket(h) THEN QuotedKey(h)
  ELSE [proto |-> h.proto, peer |-> h.peer, port |-> IF h.proto = "other" THEN 0 ELSE h.port]

(* pktchecksum: the checksum of an echo does not cover the addresses.      *)
pktchecksum(h, addr, port) ==
  csum_incremental_update(
    IF h.proto \in {"tcp", "udp"} THEN UpdatedAddr(h.ck, h.addr, addr) ELSE h.ck, h.port, port)

(* update_tcp_header, update_udp_header, update_icmp_header.               *)
Readdressed(h, addr, port) ==
  [h EXCEPT !.addr = addr, !.port = port, !.ck = pktchecksum(h, addr, port)]

(* OuterICMPErr_set, OutICMPErrCheckSum: the quotation gets the host's     *)
(* address and port, the checksums are made anew.                          *)
Requoted(h, addr, port) ==
  LET moved == [h EXCEPT !.addr = addr, !.quoted.addr = addr, !.quoted.port = port]
  IN  [moved EXCEPT !.ck = ip_checksum(moved)]
=============================================================================

---------------------------- MODULE FragmentMath ----------------------------
(***************************************************************************)
(* How the two kernel modules cut a packet into fragments.  The same code  *)
(* stands three times: IPv4FragandIPinIP of the concentrator cuts IPv4     *)
(* packets into IPv6 fragments, and pkt_fraghandle of both sides cuts      *)
(* reassembled packets into IPv4 fragments, biggest first.  The gateway's  *)
(* ipv6_frag_handl cuts equal pieces.                                      *)
(***************************************************************************)
EXTENDS Integers

HDR4 == 20      \* sizeof(struct iphdr)
HDR6 == 40      \* sizeof(struct ipv6hdr)
HDRF == 8       \* sizeof(struct frag_hdr)

Down8(n) == n - (n % 8)             \* & ~7
Up8(n)   == Down8(n + 7)

(* Mistake: a remainder too large for one fragment is not noticed.         *)
MediumSizeLow(len, nfrag, fmtu) == Down8(len \div nfrag)

(* fleno: the size of all fragments but the first and the last.            *)
MediumSize(len, nfrag, fmtu) ==
  LET low == Down8(len \div nfrag)
  IN  IF Up8(len - low * (nfrag - 1)) > fmtu THEN low + 8 ELSE low

(* Cuts len bytes so that no piece is larger than room, the biggest first. *)
BigFirst(len, room) ==
  LET fmtu  == Down8(room)
      nfrag == (len + fmtu - 1) \div fmtu
      fleno == MediumSize(len, nfrag, fmtu)
      rest  == Up8(len - fleno * (nfrag - 1))
      flen0 == IF rest < fleno THEN fleno ELSE rest
      flen(off) == IF len - off <= room THEN len - off
                   ELSE IF off = 0 THEN flen0 ELSE fleno
      from[off \in 0 .. len] ==
        IF off = len THEN {}
        ELSE {[off |-> off, len |-> flen(off)]} \cup from[off + flen(off)]
  IN  from[0]

(* Cuts len bytes into pieces of max bytes and what is left.               *)
EqualPieces(len, max) ==
  {[off |-> i * max, len |-> IF len - i * max > max THEN max ELSE len - i * max] :
     i \in 0 .. (len - 1) \div max}
=============================================================================

----------------------------- MODULE MCSoftwire -----------------------------
EXTENDS Softwire, TLC

CONSTANTS c1, c2, c3, c4, p1, p2, p3, p4, p5

(* Two gateways share the address A; the third has a lease of the other    *)
(* concentrator, and the fourth has lost its tunnel.                       *)
A == <<7, 1>>
B == <<7, 2>>
McOtherPool == {B}
McLease == [b \in {[addr |-> A, port |-> 16], [addr |-> A, port |-> 24]} |->
              IF b.port = 16 THEN c1 ELSE c2]
McPubIP == [c \in {c1, c2, c3, c4} |-> IF c = c3 THEN B ELSE A]

(* Two on the Internet, a neighbour, and two ipdst_filter takes for one:   *)
(* the last differs from a host in nothing but the first octet.            *)
McPrefix == (p1 :> <<8, 8>>) @@ (p2 :> <<172, 32>>) @@ (p3 :> <<192, 168>>) @@ (p4 :> <<5, 17>>)
            @@ (p5 :> <<100, 168>>)
McSameNet == {<<<<192, 2>>, p5>>}

Sess(c, proto, peer, newport, host, oldport) ==
  [client |-> c, proto |-> proto, peer |-> peer, newport |-> newport,
   host |-> <<192, host>>, oldport |-> oldport]

McSession ==
  {Sess(c1, "tcp", p1, 16, 2, 200), Sess(c1, "tcp", p1, 23, 3, 5), Sess(c1, "udp", p1, 17, 2, 200),
   Sess(c1, "icmp", p1, 18, 3, 9), Sess(c2, "tcp", p1, 24, 2, 200), Sess(c3, "tcp", p1, 32, 4, 7),
   Sess(c4, "tcp", p1, 32, 4, 7)}

(* Headers: plain ones, errors, and SYNs; with the checksum that is right. *)
Right(h) == [h EXCEPT !.ck = ip_checksum(h)]

Header(proto, addr, port, peer, rest) ==
  [proto |-> proto, addr |-> addr, port |-> port, peer |-> peer, rest |-> rest, ck |-> 0, mss |-> 0,
   syn |-> FALSE, data |-> TRUE, opts |-> <<>>, type |-> "echo", sound |-> TRUE,
   quoted |-> [proto |-> "tcp", addr |-> <<0, 0>>, port |-> 0, peer |-> peer]]

Syn(h, opts, mss) == Right([h EXCEPT !.syn = TRUE, !.data = FALSE, !.opts = opts, !.mss = mss])

Error(type, sound, proto, port) ==
  Right([Header("icmp", A, 40, p2, 1) EXCEPT !.type = type, !.sound = sound,
           !.quoted = [proto |-> proto, addr |-> A, port |-> port, peer |-> p1]])

Down(h, len, id) == [dir |-> "down", client |-> Tc, h |-> h, len |-> len, id |-> id,
                     df |-> FALSE, nonlinear |-> FALSE]
Up(c, h, len, id) == [Down(h, len, id) EXCEPT !.dir = "up", !.client = c]

To(proto, port, rest) == Right(Header(proto, A, port, p1, rest))
From(proto, host, port, rest) == Right(Header(proto, <<192, host>>, port, p1, rest))

DontCut(d)   == [d EXCEPT !.df = TRUE]
Nonlinear(d) == [d EXCEPT !.nonlinear = TRUE]

(* The same identification: to two hosts of one gateway, where one of them *)
(* may meet the other or come after it, and to two gateways.               *)
SameId ==
  {{Down(To("tcp", 16, 1), 120, 1), Down(To("tcp", 23, 1), 120, 1)},
   {Down(To("tcp", 16, 1), 120, 1), Down(To("tcp", 24, 1), 120, 1)},
   {Up(c1, From("udp", 2, 200, 1), 120, 1), Up(c1, From("tcp", 2, 200, 1), 104, 1)}}

(* Two large datagrams on their way at once: to two hosts of one gateway,  *)
(* to one with a session and one without, in both directions, from two     *)
(* gateways, and through the gateway without a tunnel.                     *)
Crossing ==
  {{Down(To("tcp", 16, 1), 150, 1), Down(To("tcp", 23, 1), 120, 2)},
   {Down(To("tcp", 16, 1), 150, 1), Down(To("tcp", 20, 1), 120, 2)},
   {Down(To("tcp", 23, 1), 120, 1), Down(To("other", 0, 1), 120, 2)},
   {Down(To("udp", 17, 1), 120, 1), Up(c1, From("tcp", 2, 200, 1), 140, 2)},
   {Up(c1, From("udp", 2, 200, 1), 120, 1), Up(c2, From("tcp", 2, 200, 1), 120, 1)},
   {Up(c1, From("icmp", 3, 9, 1), 104, 1), Up(c3, From("tcp", 4, 7, 1), 104, 2)}}

(* Every length up to that of three fragments.                             *)
Lengths ==
  {{d} : d \in UNION {{Down(To("tcp", 16, 1), n, 1), Up(c1, From("tcp", 2, 200, 1), n, 1)} : n \in 48 .. 150}}
  \cup {{DontCut(d)} : d \in UNION {{Down(To("tcp", 16, 1), n, 1), Up(c1, From("tcp", 2, 200, 1), n, 1)} : n \in {56, 57, 64, 65}}}
  \cup {{Nonlinear(Down(To("tcp", 16, 1), 50, 1))}, {Nonlinear(Up(c1, From("tcp", 2, 200, 1), 50, 1))}}

(* Every value of the rest of a checksum, with segment sizes on both sides *)
(* of the limits; and the ways options are read.                           *)
Sums ==
  {{Down(Syn(To("tcp", 16, r), <<"MSS">>, m), 44, 1)} : r \in 0 .. Word - 1, m \in {16, 17, 24, 25}}
  \cup {{Up(c1, Syn(From("tcp", 2, 200, r), <<"MSS">>, m), 44, 1)} : r \in 0 .. Word - 1, m \in {16, 17}}
  \cup {{Nonlinear(Down(Syn(To("tcp", 16, r), <<"MSS">>, m), 44, 1))} : r \in {0, 1}, m \in {17, 24, 25}}
  \cup {{Nonlinear(Up(c1, Syn(From("tcp", 2, 200, r), <<"MSS">>, m), 44, 1))} : r \in {0, 1}, m \in {16, 17}}
  \cup {{Down(To(p, IF p = "udp" THEN 17 ELSE 18, r), 50, 1)} : r \in 0 .. Word - 1, p \in {"udp", "icmp"}}
  \cup {{Up(c1, From("icmp", 3, 9, r), 50, 1)} : r \in 0 .. Word - 1}

Options ==
  {{Down(Syn(To("tcp", 16, 1), o, 99), 44, 1)} :
     o \in {<<"NOP", "MSS">>, <<"EOL", "MSS">>, <<"MSS", "MD5">>, <<"MSS", "malformed">>,
            <<"MSS of a wrong length", "MSS">>, <<"MSS", "EOL", "malformed">>, <<"NOP">>}}

(* Errors about each kind of datagram, ports in no block, next to a block, *)
(* and below all blocks, protocols without ports.                          *)
Strange ==
  {{Down(Error(t, s, p, n), 60, 1)} : t \in {"unreachable", "redirect"}, s \in BOOLEAN,
      p \in {"tcp", "udp", "icmp"}, n \in {16, 17, 18, 24}}
  \cup {{Down(To("tcp", n, 1), 50, 1)} : n \in {0, 8, 9, 15, 31, 32, 40}}
  \cup {{Down(To("other", 0, 1), 50, 1)}, {Up(c1, From("other", 2, 0, 1), 50, 1)}}
  \cup {{Up(c1, [From("tcp", 2, 200, 1) EXCEPT !.peer = p], 50, 1)} : p \in {p2, p3, p4, p5}}
  \cup {{DontCut(Up(c1, [From("tcp", 2, 200, 1) EXCEPT !.peer = p], 90, 1))} : p \in {p2, p3, p5}}
  \cup {{Up(c, From("tcp", 4, 7, 1), n, 1)} : c \in {c3, c4}, n \in {50, 90}}

McLoads == SameId \cup Crossing \cup Lengths \cup Sums \cup Options \cup Strange

ASSUME McErrors == ErrorsKnown
=============================================================================

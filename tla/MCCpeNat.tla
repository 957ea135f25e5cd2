------------------------------- MODULE MCCpeNat -------------------------------
(* Model values of CpeNat for TLC: two blocks that overlap; flows of one        *)
(* protocol can be swapped.                                                     *)
EXTENDS CpeNat, TLC

MCRanges == {<<2, 3>>, <<3, 4>>}
MCSymmetry == Permutations(TcpFlows) \cup Permutations(UdpFlows)
=============================================================================

------------------------------ MODULE MCBPlus ------------------------------
EXTENDS BPlus

Upwards(n)   == [i \in 1 .. n |-> i]
Downwards(n) == [i \in 1 .. n |-> n + 1 - i]
Without6(s)  == SelectSeq(s, LAMBDA k : k # 6)

(* An empty tree, and trees of three levels built in both directions, full *)
(* but for the key 6 that finds no room.                                   *)
McKey    == 1 .. 14
McBusy   == 4 .. 8
McExpiring == {{}, 1 .. 14, {4, 6}, 5 .. 8}
McStarts == {<<>>, Without6(Upwards(14)), Without6(Downwards(14))}
=============================================================================

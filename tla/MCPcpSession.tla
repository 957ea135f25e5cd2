---------------------------- MODULE MCPcpSession ----------------------------
EXTENDS PcpSession

CONSTANTS b1, b2, c1, d1, home, away

MCPool    == <<{b1, b2}, {c1}, {d1}>>
MCAddress == <<home, home, away>>

Nothing ==
  [losses |-> 1, late |-> 0, restarts |-> 0, refusals |-> 0, senderrors |-> 0, signals |-> 0]

(* What goes wrong in a run.                                               *)
MCBudgets ==
  {[Nothing EXCEPT !.losses = 6],
   [Nothing EXCEPT !.losses = 2, !.late = 1, !.refusals = 1],
   [Nothing EXCEPT !.late = 1, !.restarts = 1],
   [Nothing EXCEPT !.late = 2],
   [Nothing EXCEPT !.refusals = 1, !.restarts = 1],
   [Nothing EXCEPT !.losses = 0, !.restarts = 2],
   [Nothing EXCEPT !.senderrors = 1, !.restarts = 1],
   [Nothing EXCEPT !.senderrors = 1, !.signals = 1]}
=============================================================================

----------------------------- MODULE PcpSession -----------------------------
(***************************************************************************)
(* The PCP client of the home gateway (TI/mess-handle) and its server.     *)
(* Three threads make requests over one socket and one context: the worker *)
(* that renews the lease, the one that reads ICMPv6 errors, and main, which*)
(* gives the lease back at the end.  An answer goes to whoever reads first.*)
(*                                                                         *)
(* Time is in seconds; what a thread or the server computes takes none.    *)
(* The clocks time(NULL) and programStartTime appear only as differences:  *)
(* ctx.pre and ctx.last and the age of an answer count up, and the latter  *)
(* two fall by the server's uptime when the server starts anew.            *)
(*                                                                         *)
(* The gateway's packets go to the address gwipv6 of its configuration, so *)
(* to the server that stands there, srv; its answers and errors come from  *)
(* an address of its own (neither socket is bound to one).                 *)
(***************************************************************************)
EXTENDS Integers, Sequences, FiniteSets, SequencesExt

CONSTANTS
  Pool,             \* server -> its blocks of ports
  Address,          \* server -> the address its answers and errors come from
  gwipv6,           \* the address the gateway is configured with
  Zero,             \* the context's block before any
  Other,            \* what the worker's natinfo holds before it is set
  None,
  RCV_TIMEOUT, INIT_RETRANSITME, MAX_RETRANSTIME,
  SUCCESS_LIFETIME, ERROR_LIFETIME,
  Passes,           \* when the first pass of the server's timer may come
  Delays,           \* how late an answer may be
  MaxLost,          \* exchanges in a row that bring no answer in time
  Budgets,          \* what may go wrong in a run, and how often
  Uptime,           \* of a server that starts anew or is taken over
  Quiet,            \* in so much time some host of the gateway sends
  Grain             \* at most so much time passes at once

VARIABLES
  thr,      \* thread -> [pc, wait, t]
  ctx,      \* PCPPORTSET_CTX_T: [left, block, pre, last]
  addr,     \* of the server: "ctx" -> aucSrvIPv6, thread -> AddrSrv of its request
  nat,      \* thread -> natinfo: the block it told the kernel module of, or will
  kernel,   \* the block the kernel module has
  inbox,    \* the answers in the socket's buffer
  flying,   \* answers that are late
  srv,      \* the server the gateway reaches
  lease,    \* its tunnel: a block or None
  life,     \* and the quarters of a lifetime it has left
  pass,     \* the time to the next pass of the timer
  young,    \* the server is in its first second
  lost,     \* exchanges lost in a row
  budget,   \* what may still go wrong
  seen,     \* what there was so far: "trouble" (a request that failed, the end),
            \* "restart" and "again" (a second one), "astray" (a request to a
            \* server that is not there), "silent" (see Silent), "zero" (an epoch
            \* of zero) and what Doubts names
  past      \* the age now of the answer the client accepted last, and whether it
            \* rejected the one it read last

client == <<thr, ctx, addr, nat, kernel, inbox>>
server == <<srv, lease, life, pass, young>>
vars == <<client, flying, server, lost, budget, seen, past>>

Blocks  == UNION {Pool[s] : s \in DOMAIN Pool}
Threads == {"worker", "icmp", "main"}
Exited  == thr["main"].pc = "exited"
Quarter == SUCCESS_LIFETIME \div 4

ASSUME PcpAssumption ==
  /\ \A s, t \in DOMAIN Pool : s # t => Pool[s] \cap Pool[t] = {}
  /\ Zero \notin Blocks /\ Other \notin Blocks /\ None \notin Blocks
  /\ {RCV_TIMEOUT, INIT_RETRANSITME, MAX_RETRANSTIME, SUCCESS_LIFETIME, ERROR_LIFETIME} \subseteq Nat \ {0}
  /\ DOMAIN Address = DOMAIN Pool /\ \E s \in DOMAIN Pool : Address[s] = gwipv6
  /\ SUCCESS_LIFETIME % 4 = 0 /\ Passes \subseteq 1 .. Quarter
  /\ {MaxLost, Grain} \subseteq Nat
  /\ Budgets \subseteq [losses : Nat, late : Nat, restarts : Nat, refusals : Nat,
                         senderrors : Nat, signals : Nat]

Goto(th, pc, wait) == [thr EXCEPT ![th].pc = pc, ![th].wait = wait]

-----------------------------------------------------------------------------
(* The server renews the lease or takes a block (updateTunnelTree) or, with *)
(* a lifetime of zero, gives the block back (delTunnel).  Either is answered*)
(* with a success; without a lease there is no block in the latter.         *)
Answer(block, lifetime, delay) ==
  [block |-> block, left |-> lifetime, from |-> Address[srv], age |-> 0, since |-> 0,
   zero |-> young, due |-> delay]

Success(block, delay) == Answer(block, SUCCESS_LIFETIME, delay)

Renewed(b) ==
  /\ IF lease = None THEN b \in Pool[srv] ELSE b = lease
  /\ lease' = b /\ life' = 4

Spend(what) ==
  /\ budget[what] > 0
  /\ budget' = [budget EXCEPT ![what] = @ - 1]

(* What comes of an exchange: it is lost, or the answer arrives in time, or *)
(* late, or both.                                                          *)
Lost == lost < MaxLost /\ lost' = lost + 1 /\ Spend("losses") /\ UNCHANGED <<inbox, flying>>

Fate(block) ==
  \/ inbox' = Append(inbox, Success(block, 0)) /\ lost' = 0 /\ UNCHANGED <<flying, budget>>
  \/ Lost
  \/ /\ Spend("late")
     /\ \E d \in Delays : flying' = Append(flying, Success(block, d))
     /\ \/ inbox' = Append(inbox, Success(block, 0)) /\ lost' = 0
        \/ lost < MaxLost /\ lost' = lost + 1 /\ UNCHANGED inbox

RequestLost == Lost /\ UNCHANGED <<lease, life>>

Granted ==
  \E b \in Blocks :
    /\ Renewed(b)
    /\ Fate(b)

Refused ==
  /\ lease = None /\ Spend("refusals")
  /\ inbox' = Append(inbox, Answer(None, ERROR_LIFETIME, 0))
  /\ lost' = 0
  /\ UNCHANGED <<flying, lease, life>>

Deleted ==
  /\ lease' = None /\ life' = 0
  /\ Fate(IF lease = None THEN Zero ELSE lease)

(* Main asks for a lifetime of zero.                                       *)
handlePcpRequest(th) == IF th = "main" THEN Deleted ELSE Granted \/ Refused

(* sendto.  (A server that another stands in for is not there.)            *)
Reaches(a) == a \in {gwipv6, Address[srv]}

Send(th) ==
  /\ thr[th].pc = "send"
  /\ IF Reaches(addr[th]) THEN (RequestLost \/ handlePcpRequest(th)) /\ UNCHANGED seen
     ELSE seen' = seen \cup {"astray"} /\ UNCHANGED <<inbox, flying, lease, life, lost, budget>>
  /\ thr' = Goto(th, "recv", RCV_TIMEOUT)
  /\ UNCHANGED <<ctx, addr, nat, kernel, srv, pass, young, past>>

(* With main every thread ends.                                            *)
AllEnd == [th \in Threads |-> [thr[th] EXCEPT !.pc = "exited"]]

(* PCPRequestHandle returns -1.                                            *)
Fails(th) ==
  /\ thr' = CASE th = "worker" -> Goto(th, "ended", 0)
              [] th = "icmp" -> Goto(th, "idle", 0)
              [] th = "main" -> AllEnd
  /\ seen' = seen \cup {"trouble"}

SendFails(th) ==
  /\ thr[th].pc = "send" /\ Spend("senderrors")
  /\ Fails(th)
  /\ UNCHANGED <<ctx, addr, nat, kernel, inbox, flying, server, lost, past>>

-----------------------------------------------------------------------------
(* PCPResponseHandle.                                                      *)

(* An answer must come from the address that the context names now.        *)
Mismatch(th) ==
  /\ thr[th].pc = "recv" /\ inbox # <<>> /\ Head(inbox).from # addr["ctx"]
  /\ inbox' = Tail(inbox)
  /\ Fails(th)
  /\ UNCHANGED <<ctx, addr, nat, kernel, flying, server, lost, budget, past>>


(* The server's clock must not go backwards, nor run at another speed than *)
(* the client's.                                                           *)
EpochInvalid(dc, ds) ==
  \/ ds < 0
  \/ dc + 2 < ds - (ds \div 16)
  \/ ds + 2 < dc - (dc \div 16)

(* An epoch of zero looks like one that was never set.                     *)
Checked(m) ==
  LET epoch == IF m.zero THEN None ELSE m.age
  IN  IF ctx.last = None
      THEN [valid |-> TRUE, pre |-> IF ctx.pre = None THEN 0 ELSE ctx.pre, last |-> epoch]
      ELSE [valid |-> ~EpochInvalid(ctx.pre, ctx.last - m.age), pre |-> 0, last |-> epoch]

(* What is wrong with an answer that is accepted: it is older than the     *)
(* clocks may differ, or was given before one that was accepted already.   *)
(* Nothing tells if no epoch is known, at first or after one of zero; and  *)
(* the epoch of an answer that is rejected is what the next is compared    *)
(* with.                                                                   *)
Doubts(m) ==
  LET gap == IF ctx.pre = None THEN 0 ELSE ctx.pre
  IN  IF /\ m.since <= 2 + gap \div 16
         /\ past.accepted # None => m.since <= past.accepted THEN {}
      ELSE IF ctx.last = None THEN {IF ctx.block = Zero THEN "first" ELSE "unchecked"}
      ELSE {IF past.rejected THEN "misjudged" ELSE "stale"}

Receive(th) ==
  /\ thr[th].pc = "recv" /\ inbox # <<>> /\ Head(inbox).from = addr["ctx"]
  /\ inbox' = Tail(inbox)
  /\ addr' = [addr EXCEPT ![th] = addr["ctx"]]
  /\ LET m  == Head(inbox)
         ck == Checked(m)
         ok == ck.valid /\ m.block # None
     IN  /\ ctx' = [left |-> m.left, block |-> IF ok THEN m.block ELSE ctx.block,
                    pre |-> ck.pre, last |-> ck.last]
         /\ past' = [accepted |-> IF ok THEN m.since ELSE past.accepted, rejected |-> ~ck.valid]
         /\ seen' = seen \cup (IF ok THEN Doubts(m) ELSE {}) \cup (IF m.zero THEN {"zero"} ELSE {})
         /\ thr' = IF th = "main" /\ ck.valid THEN AllEnd
                   ELSE [thr EXCEPT ![th].t = INIT_RETRANSITME,
                                    ![th].pc = IF ck.valid THEN "done" ELSE "send"]
  /\ UNCHANGED <<nat, kernel, flying, server, lost, budget>>

(* recvfrom has timed out; then the thread sleeps before it sends again.   *)
ReceiveTimesOut(th) ==
  /\ thr[th].pc = "recv" /\ inbox = <<>> /\ thr[th].wait = 0
  /\ LET t == IF 2 * thr[th].t > MAX_RETRANSTIME THEN MAX_RETRANSTIME ELSE 2 * thr[th].t
     IN  thr' = [thr EXCEPT ![th] = [pc |-> "back", wait |-> t, t |-> t]]
  /\ UNCHANGED <<ctx, addr, nat, kernel, inbox, flying, server, lost, budget, seen, past>>

(* A request begins, or goes out once more.                                *)
SendAgain(th) ==
  /\ thr[th].pc \in {"back", "asleep"} /\ thr[th].wait = 0
  /\ thr' = [thr EXCEPT ![th].pc = "send",
                        ![th].t = IF thr[th].pc = "asleep" THEN INIT_RETRANSITME ELSE @]
  /\ addr' = IF thr[th].pc = "asleep" THEN [addr EXCEPT ![th] = addr["ctx"]] ELSE addr
  /\ UNCHANGED <<ctx, nat, kernel, inbox, flying, server, lost, budget, seen, past>>

(* Mistake: the lease is renewed when it has run out.                      *)
RenewAfter_whole(left) == left

RenewAfter(left) == left \div 2

(* The worker sleeps, the other waits for the next ICMPv6 error.           *)
Rest(th) ==
  IF th = "worker" THEN Goto(th, "asleep", RenewAfter(ctx.left)) ELSE Goto(th, "idle", 0)

(* Mistake: the kernel module is told of the first block.                  *)
WorkerDone_once ==
  /\ thr["worker"].pc = "done"
  /\ nat' = [nat EXCEPT !["worker"] = ctx.block]
  /\ thr' = IF nat["worker"] \in Blocks THEN Rest("worker") ELSE Goto("worker", "bind", 0)
  /\ UNCHANGED <<ctx, addr, kernel, inbox, flying, server, lost, budget, seen, past>>

(* The worker takes the block for the one the kernel module has; but the   *)
(* other thread has told it another since.                                 *)
Silent == nat["worker"] = ctx.block /\ kernel # ctx.block

(* PCPWorkThread: the kernel module is told if the block is another one.   *)
WorkerDone ==
  /\ thr["worker"].pc = "done"
  /\ nat' = [nat EXCEPT !["worker"] = ctx.block]
  /\ thr' = IF nat["worker"] = ctx.block THEN Rest("worker") ELSE Goto("worker", "bind", 0)
  /\ seen' = IF Silent THEN seen \cup {"silent"} ELSE seen
  /\ UNCHANGED <<ctx, addr, kernel, inbox, flying, server, lost, budget, past>>

(* newPcpRequest: the kernel module is told in any case.                   *)
IcmpDone ==
  /\ thr["icmp"].pc = "done"
  /\ nat' = [nat EXCEPT !["icmp"] = ctx.block]
  /\ thr' = Goto("icmp", "bind", 0)
  /\ UNCHANGED <<ctx, addr, kernel, inbox, flying, server, lost, budget, seen, past>>

(* SendMessage: either thread binds its socket to the pid of the process.  *)
(* While the other's is bound, bind fails and nothing is told.             *)
Bind(th) ==
  /\ thr[th].pc = "bind"
  /\ thr' = IF \E x \in Threads : thr[x].pc = "commit" THEN Rest(th) ELSE Goto(th, "commit", 0)
  /\ UNCHANGED <<ctx, addr, nat, kernel, inbox, flying, server, lost, budget, seen, past>>

Commit(th) ==
  /\ thr[th].pc = "commit"
  /\ kernel' = nat[th]
  /\ thr' = Rest(th)
  /\ UNCHANGED <<ctx, addr, nat, inbox, flying, server, lost, budget, seen, past>>

-----------------------------------------------------------------------------
(* A packet of the gateway reached a server that has no tunnel for it; if  *)
(* its address is of the pool of another server, for which this one stands *)
(* in (Softwire), an ICMPv6 error starts a request (handleIcmp6Error).     *)
Unknown == thr["icmp"].pc = "idle" /\ lease = None /\ kernel \in Blocks \ Pool[srv]

IcmpError ==
  /\ Unknown
  /\ thr' = [thr EXCEPT !["icmp"] = [pc |-> "send", wait |-> 0, t |-> INIT_RETRANSITME]]
  /\ addr' = [addr EXCEPT !["ctx"] = Address[srv], !["icmp"] = Address[srv]]
  /\ UNCHANGED <<ctx, nat, kernel, inbox, flying, server, lost, budget, seen, past>>

(* SIGINT: main gives the lease back while the others go on.               *)
Signal ==
  /\ thr["main"].pc = "idle" /\ Spend("signals")
  /\ thr' = Goto("main", "send", 0)
  /\ addr' = [addr EXCEPT !["main"] = addr["ctx"]]
  /\ seen' = seen \cup {"trouble"}
  /\ UNCHANGED <<ctx, nat, kernel, inbox, flying, server, lost, past>>

(* The server, or one that takes its place, starts anew, with an empty     *)
(* table and another clock.                                                *)
Restart(s) ==
  /\ ~Exited /\ Spend("restarts")
  /\ srv' = s /\ lease' = None /\ life' = 0 /\ young' = TRUE /\ pass' = Quarter
  /\ LET older(m) == [m EXCEPT !.age = @ - Uptime]
     IN  /\ inbox'  = [i \in DOMAIN inbox |-> older(inbox[i])]
         /\ flying' = [i \in DOMAIN flying |-> older(flying[i])]
  /\ ctx' = [ctx EXCEPT !.last = IF @ = None THEN None ELSE @ - Uptime]
  /\ seen' = seen \cup {IF "restart" \in seen THEN "again" ELSE "restart"}
  /\ UNCHANGED <<thr, addr, nat, kernel, lost, past>>

-----------------------------------------------------------------------------
(* What keeps the gateway from recovering for good.  The requests of the   *)
(* worker end if sendto fails, or if the context names another server than *)
(* the one that answers.  A request to a server that is no longer there,   *)
(* which takes two takeovers, is sent again for ever.  And the worker is   *)
(* silent after two takeovers, there and back, within half a lifetime; or  *)
(* if its bind failed while the other thread told the kernel module what   *)
(* was the block before, which takes an answer with an epoch of zero.      *)
Stranded ==
  \/ thr["worker"].pc = "ended"
  \/ "astray" \in seen
  \/ "silent" \in seen /\ seen \cap {"again", "zero"} # {}

Due == {i \in DOMAIN flying : flying[i].due = 0}

LateArrives ==
  \E i \in Due :
    /\ ~Exited
    /\ inbox' = Append(inbox, flying[i])
    /\ flying' = RemoveAt(flying, i)
    /\ UNCHANGED <<thr, ctx, addr, nat, kernel, server, lost, budget, seen, past>>

(* Nobody has anything to do.                                              *)
Waits(th) ==
  \/ thr[th].pc \in {"idle", "ended"}
  \/ thr[th].pc \in {"back", "asleep"} /\ thr[th].wait > 0
  \/ thr[th].pc = "recv" /\ thr[th].wait > 0 /\ inbox = <<>>

(* Time passes, at most until the next of them has.  It stops for Unknown, *)
(* after Quiet at the latest, and when no answer will come any more.       *)
Later(n, d) == IF n < d THEN 0 ELSE n - d

Passing ==
  Min({Grain, pass} \cup {flying[i].due : i \in DOMAIN flying}
      \cup {thr[th].wait : th \in {x \in Threads : thr[x].wait > 0}})

Tick ==
  /\ \A th \in Threads : Waits(th)
  /\ Due = {}
  /\ Unknown \/ Stranded => ctx.pre # None /\ ctx.pre < Quiet
  /\ LET d        == Passing
         older(m) == [m EXCEPT !.age = @ + d, !.since = @ + d, !.due = Later(@, d)]
         since(x) == IF x = None THEN None ELSE x + d
     IN  /\ inbox'  = [i \in DOMAIN inbox |-> older(inbox[i])]
         /\ flying' = [i \in DOMAIN flying |-> older(flying[i])]
         /\ thr' = [th \in Threads |-> [thr[th] EXCEPT !.wait = Later(@, d)]]
         /\ ctx' = [ctx EXCEPT !.pre = since(@), !.last = since(@)]
         /\ pass' = IF pass = d THEN Quarter ELSE pass - d
         /\ life' = IF pass = d /\ lease # None THEN life - 1 ELSE life
         /\ lease' = IF pass = d /\ life <= 1 THEN None ELSE lease
         /\ past' = [past EXCEPT !.accepted = since(@)]
  /\ young' = FALSE
  /\ UNCHANGED <<addr, nat, kernel, srv, lost, budget, seen>>

Init ==
  /\ thr = [th \in Threads |-> [pc |-> IF th = "worker" THEN "send" ELSE "idle",
                                wait |-> 0, t |-> INIT_RETRANSITME]]
  /\ ctx = [left |-> 0, block |-> Zero, pre |-> None, last |-> None]
  /\ addr = [x \in Threads \cup {"ctx"} |-> gwipv6]
  /\ nat \in [{"worker", "icmp"} -> {Zero, Other}] /\ nat["icmp"] = Zero
  /\ kernel = Zero
  /\ inbox = <<>> /\ flying = <<>>
  /\ srv \in DOMAIN Pool /\ Address[srv] = gwipv6
  /\ lease = None /\ life = 0 /\ pass \in Passes /\ young \in BOOLEAN
  /\ lost = 0 /\ past = [accepted |-> None, rejected |-> FALSE]
  /\ budget \in Budgets /\ seen = {}

Step(th) ==
  Send(th) \/ Mismatch(th) \/ Receive(th) \/ ReceiveTimesOut(th) \/ SendAgain(th) \/ Bind(th) \/ Commit(th)

Next ==
  \/ \E th \in Threads : Step(th) \/ SendFails(th)
  \/ \E s \in DOMAIN Pool : Restart(s)
  \/ WorkerDone \/ IcmpDone \/ IcmpError \/ Signal \/ LateArrives \/ Tick

Spec == Init /\ [][Next]_vars

(* The threads go on, time passes, and the hosts keep sending.             *)
Fairness ==
  /\ \A th \in Threads : WF_vars(Step(th))
  /\ WF_vars(WorkerDone \/ IcmpDone \/ LateArrives) /\ WF_vars(IcmpError) /\ WF_vars(Tick)

FairSpec == Spec /\ Fairness

-----------------------------------------------------------------------------
(* Properties.                                                             *)

(* Renewing after half a lifetime, with the timeouts and pauses of         *)
(* PCPRequestHandle, is soon enough: although the server's timer counts in *)
(* quarters and MaxLost exchanges in a row fail, a client that was given a *)
(* block keeps its tunnel.                                                 *)
LeaseSurvives ==
  (seen \subseteq {"first", "stale", "zero"} /\ ctx.block # Zero) => lease = ctx.block


(* Whatever was lost, refused or late, after a restart of the server or    *)
(* with another in its place, of the same address or another: once the     *)
(* kernel module of the gateway has had a block, it gets that of the       *)
(* gateway's tunnel again and again, unless it is Stranded.                *)
Recovers ==
  kernel # Zero ~> Exited \/ Stranded \/ (lease # None /\ kernel = lease)
=============================================================================

------------------------------ MODULE TcBinding ------------------------------
(***************************************************************************)
(* A binding of a client to a block of ports, as the concentrator makes,   *)
(* renews, deletes and expires it: the PCP workers and the operator thread *)
(* of the daemon (pcpmsg.c, nlmessage.c, ipcmsg.c), the kernel's tunnel     *)
(* table and timer (TunnelTable), the thread that reads the kernel's       *)
(* notices (netlink_async.c), and the end and restart of the daemon        *)
(* (entry.c).                                                              *)
(*                                                                         *)
(* A netlink request runs its kernel handler to the end inside sendmsg, so *)
(* sending a request and the kernel's part of it are one action; the reply *)
(* waits in the thread's own socket.  NetlinkReply has what happens when   *)
(* two requests are in the kernel at once.  Of the address pool the module *)
(* takes what PortPool promises: an allocation returns an unmarked block   *)
(* or refuses.                                                             *)
(***************************************************************************)
EXTENDS TunnelTable, Sequences, SequencesExt

CONSTANTS
  Workers,       \* PCP threads, at most 2 in the code
  Operators,     \* IPC threads that add static tunnels
  Lives,         \* lifetimes of static tunnels an operator may ask for
  Retransmit,    \* may a client's request be taken up while one is served?
  MaxRequests,   \* bound on the requests of a behaviour
  MaxEnds        \* bound on the ends of the daemon

Threads == Workers \cup Operators

ASSUME BindingAssumption ==
  /\ Workers \cap Operators = {}
  /\ IsFiniteSet(Blocks)
  /\ Lives \subseteq Lifetimes
  /\ Retransmit \in BOOLEAN
  /\ MaxRequests \in Nat
  /\ MaxEnds \in Nat

VARIABLES
  pool,       \* the blocks the daemon's pool has marked
  async,      \* NETLINK_DELETE_NODE notices on their way to the daemon
  pc,         \* where each thread is in its request
  cli,        \* the client it serves
  reply,      \* the message in its netlink socket
  cfg,        \* tcconfig: the block and lifetime it will ask for
  late,       \* did the timer fire during its request?
  answer,     \* the last answer to each client: its block, or None
  tunState,   \* uiTunState of the kernel module
  up,         \* is the daemon running?
  exiting,    \* is it in the handler of SIGINT or SIGTERM?
  stray,      \* has a tunnel been made while the kernel module was shut? (history)
  reqs, ends  \* requests taken up and ends of the daemon so far

user == <<pool, pc, cli, reply, cfg, late, answer>>
life == <<tunState, up, exiting, stray>>
vars == <<table, user, async, life, reqs, ends>>

NoCfg == [block |-> None, left |-> 0]

-----------------------------------------------------------------------------
Init ==
  /\ InitTable
  /\ pool = {}
  /\ async = <<>>
  /\ pc = [t \in Threads |-> "idle"]
  /\ cli = [t \in Threads |-> None]
  /\ reply = [t \in Threads |-> None]
  /\ cfg = [t \in Threads |-> NoCfg]
  /\ late = [t \in Threads |-> FALSE]
  /\ answer = [c \in Clients |-> None]
  /\ tunState = 1
  /\ up = TRUE
  /\ exiting = FALSE
  /\ stray = FALSE
  /\ reqs = 0
  /\ ends = 0

\* Thread t takes up a request of client c.
TakeUp(t, c) ==
  /\ up
  /\ pc[t] = "idle"
  /\ Retransmit \/ \A u \in Threads : cli[u] # c
  /\ reqs < MaxRequests
  /\ reqs' = reqs + 1
  /\ cli' = [cli EXCEPT ![t] = c]
  /\ late' = [late EXCEPT ![t] = FALSE]
  /\ UNCHANGED <<pool, answer, async, life, ends>>

\* Thread t is done; its netlink socket is closed.
Finish(t) ==
  /\ pc' = [pc EXCEPT ![t] = "idle"]
  /\ cli' = [cli EXCEPT ![t] = None]
  /\ reply' = [reply EXCEPT ![t] = None]
  /\ cfg' = [cfg EXCEPT ![t] = NoCfg]
  /\ UNCHANGED <<late, async, life, reqs, ends>>

\* What the kernel answers to NETLINK_DETECT_MSG.
DetectReply(c) == IF v6[c] = None THEN "alloc_addr" ELSE "update"

\* updateTunnelTree: NETLINK_DETECT_MSG for the client of a PCP request.
SendDetect(w, c) ==
  /\ TakeUp(w, c)
  /\ Detect(c)
  /\ pc' = [pc EXCEPT ![w] = "detected"]
  /\ reply' = [reply EXCEPT ![w] = DetectReply(c)]
  /\ cfg' = [cfg EXCEPT ![w] = [block |-> v6[c], left |-> 0]]

\* Mistakes: the configuration has no lifetime; a block in use is not skipped.
AllocBlockTimeless(w) ==
  /\ pc[w] = "detected"
  /\ reply[w] = "alloc_addr"
  /\ \E b \in Blocks \ pool :
       /\ pool' = pool \cup {b}
       /\ cfg' = [cfg EXCEPT ![w] = [block |-> b, left |-> 0]]
  /\ pc' = [pc EXCEPT ![w] = "config"]
  /\ UNCHANGED <<table, cli, reply, late, answer, async, life, reqs, ends>>

AllocBlockInUse(w) ==
  /\ pc[w] = "detected"
  /\ reply[w] = "alloc_addr"
  /\ \E b \in Blocks :
       /\ pool' = pool \cup {b}
       /\ cfg' = [cfg EXCEPT ![w] = [block |-> b, left |-> SuccessLife]]
  /\ pc' = [pc EXCEPT ![w] = "config"]
  /\ UNCHANGED <<table, cli, reply, late, answer, async, life, reqs, ends>>

\* HandlMessage of NETLINK_ALLOC_ADDR: a block from the pool.
AllocBlock(w) ==
  /\ pc[w] = "detected"
  /\ reply[w] = "alloc_addr"
  /\ \E b \in Blocks \ pool :
       /\ pool' = pool \cup {b}
       /\ cfg' = [cfg EXCEPT ![w] = [block |-> b, left |-> SuccessLife]]
  /\ pc' = [pc EXCEPT ![w] = "config"]
  /\ UNCHANGED <<table, cli, reply, late, answer, async, life, reqs, ends>>

\* The pool refuses: the client gets an error.
AllocRefused(w) ==
  /\ pc[w] = "detected"
  /\ reply[w] = "alloc_addr"
  /\ Finish(w)
  /\ answer' = [answer EXCEPT ![cli[w]] = None]
  /\ UNCHANGED <<table, pool>>

\* HandlMessage of NETLINK_UPDATE_MSG: the configuration is the message, whose
\* lifetime field is zero.
TakeUpdate(w) ==
  /\ pc[w] = "detected"
  /\ reply[w] = "update"
  /\ pc' = [pc EXCEPT ![w] = "config"]
  /\ UNCHANGED <<table, pool, cli, reply, cfg, late, answer, async, life, reqs, ends>>

\* NETLINK_ALLOC_ADDR with the configuration, sent after an update as well.  The
\* kernel module serves it whatever its state.
SendAlloc(t) ==
  /\ pc[t] = "config"
  /\ \/ /\ CreateTunnel(cli[t], cfg[t].block, cfg[t].left)
        /\ reply' = [reply EXCEPT ![t] = "result0"]
        /\ stray' = (stray \/ tunState = 0)
     \/ /\ CreateRefused(cfg[t].block)
        /\ reply' = [reply EXCEPT ![t] = "result1"]
        /\ UNCHANGED stray
  /\ pc' = [pc EXCEPT ![t] = "created"]
  /\ UNCHANGED <<pool, cli, cfg, late, answer, async, tunState, up, exiting, reqs, ends>>

\* HandlMessage of NETLINK_RESULT: only result 2 is an error.
ResultAccepted(r) == r \in {"result0", "result1"}

\* Mistake: the configuration is shared by the threads.
AnswerShared(w) ==
  /\ w \in Workers
  /\ pc[w] = "created"
  /\ ResultAccepted(reply[w])
  /\ Finish(w)
  /\ \E t \in Threads : answer' = [answer EXCEPT ![cli[w]] = cfg[t].block]
  /\ UNCHANGED <<table, pool>>

\* The client gets the block of the configuration.
Answer(w) ==
  /\ w \in Workers
  /\ pc[w] = "created"
  /\ ResultAccepted(reply[w])
  /\ Finish(w)
  /\ answer' = [answer EXCEPT ![cli[w]] = cfg[w].block]
  /\ UNCHANGED <<table, pool>>

\* delTunnel: NETLINK_DELETE_NODE for the client of a PCP request.
SendDelete(w, c) ==
  /\ TakeUp(w, c)
  /\ \/ DeleteTunnel(c) /\ reply' = [reply EXCEPT ![w] = "delete_node"]
     \/ DeleteRefused(c) /\ reply' = [reply EXCEPT ![w] = "result1"]
  /\ pc' = [pc EXCEPT ![w] = "deleted"]
  /\ cfg' = [cfg EXCEPT ![w] = [block |-> v6[c], left |-> 0]]

\* Mistake: the block is not given back.
HandleDeleteKeeps(w) ==
  /\ pc[w] = "deleted"
  /\ Finish(w)
  /\ answer' = [answer EXCEPT ![cli[w]] = None]
  /\ UNCHANGED <<table, pool>>

\* HandlMessage of NETLINK_DELETE_NODE: the block of a deleted tunnel goes back
\* to the pool.
Recycled(w) == IF reply[w] = "delete_node" THEN pool \ {cfg[w].block} ELSE pool

HandleDelete(w) ==
  /\ pc[w] = "deleted"
  /\ pool' = Recycled(w)
  /\ Finish(w)
  /\ answer' = [answer EXCEPT ![cli[w]] = None]
  /\ UNCHANGED table

\* AddStaticTunnel: the operator names the client, the block and the lifetime;
\* the pool is not asked.  A client with a tunnel ends the call.
StaticDetect(o, c, b, l) ==
  /\ TakeUp(o, c)
  /\ Detect(c)
  /\ IF v6[c] = None
     THEN /\ pc' = [pc EXCEPT ![o] = "config"]
          /\ cfg' = [cfg EXCEPT ![o] = [block |-> b, left |-> l]]
          /\ reply' = [reply EXCEPT ![o] = "alloc_addr"]
     ELSE /\ pc' = [pc EXCEPT ![o] = "exists"]
          /\ UNCHANGED <<cfg, reply>>

StaticExists(o) ==
  /\ pc[o] = "exists"
  /\ Finish(o)
  /\ UNCHANGED <<table, pool, answer>>

\* The operator is told 0, success.
StaticAnswer(o) ==
  /\ o \in Operators
  /\ pc[o] = "created"
  /\ ResultAccepted(reply[o])
  /\ Finish(o)
  /\ answer' = [answer EXCEPT ![cli[o]] = cfg[o].block]
  /\ UNCHANGED <<table, pool>>

-----------------------------------------------------------------------------
\* Mistake: there is no notice.
TickSilent ==
  /\ tunState = 1
  /\ \A t \in Threads : pc[t] # "idle" => ~late[t]
  /\ TunnelTimeOut
  /\ late' = [t \in Threads |-> pc[t] # "idle"]
  /\ UNCHANGED <<pool, pc, cli, reply, cfg, answer, async, life, reqs, ends>>

\* The kernel's timer.  It fires at most once while a request is served: the
\* period is 30 seconds.  Without a daemon the notices go nowhere.
Tick ==
  /\ tunState = 1
  /\ \A t \in Threads : pc[t] # "idle" => ~late[t]
  /\ TunnelTimeOut
  /\ async' = IF up THEN async \o SetToSeq(Expired) ELSE async
  /\ late' = [t \in Threads |-> pc[t] # "idle"]
  /\ UNCHANGED <<pool, pc, cli, reply, cfg, answer, life, reqs, ends>>

\* HandlAsyncMessage: the block of an expired tunnel goes back to the pool.
HandlAsyncMessage(b) == pool' = pool \ {b}

\* The thread that reads the notices.
RecvAsync ==
  /\ up
  /\ async # <<>>
  /\ HandlAsyncMessage(Head(async))
  /\ async' = Tail(async)
  /\ UNCHANGED <<table, pc, cli, reply, cfg, late, answer, life, reqs, ends>>

\* The daemon's memory and sockets are gone.
ProcessGone ==
  /\ up' = FALSE
  /\ exiting' = FALSE
  /\ pool' = {}
  /\ async' = <<>>
  /\ pc' = [t \in Threads |-> "idle"]
  /\ cli' = [t \in Threads |-> None]
  /\ reply' = [t \in Threads |-> None]
  /\ cfg' = [t \in Threads |-> NoCfg]
  /\ UNCHANGED <<table, late, answer, tunState, stray, reqs>>

\* SIGKILL: the kernel module keeps its table and its timer.
Crash ==
  /\ up
  /\ ends < MaxEnds
  /\ ends' = ends + 1
  /\ ProcessGone

\* Mistake: the contexts are freed, the IPv6 tree is left.
UnInitTcHalf ==
  /\ up
  /\ ~exiting
  /\ ends < MaxEnds
  /\ ends' = ends + 1
  /\ v4' = [b \in Blocks |-> None]
  /\ tunState' = 0
  /\ exiting' = TRUE
  /\ UNCHANGED <<v6, user, async, up, stray, reqs>>

\* SIGINT, SIGTERM: NETLINK_UNINIT_CONFIG empties the table and stops the timer.
\* The threads run on until exit.
UnInitTc ==
  /\ up
  /\ ~exiting
  /\ ends < MaxEnds
  /\ ends' = ends + 1
  /\ DestroyStorage
  /\ tunState' = 0
  /\ exiting' = TRUE
  /\ UNCHANGED <<user, async, up, stray, reqs>>

Exit ==
  /\ exiting
  /\ ProcessGone
  /\ UNCHANGED ends

\* Start: an empty pool, then NETLINK_INIT_CONFIG, which empties the table if
\* the last daemon did not.
InitTc ==
  /\ ~up
  /\ up' = TRUE
  /\ IF tunState = 1 THEN DestroyStorage ELSE UNCHANGED table
  /\ tunState' = 1
  /\ UNCHANGED <<user, async, exiting, stray, reqs, ends>>

-----------------------------------------------------------------------------
ServeStep(w) ==
  \/ AllocBlock(w) \/ AllocRefused(w) \/ TakeUpdate(w)
  \/ SendAlloc(w) \/ Answer(w) \/ HandleDelete(w)

OperatorStep(o) == StaticExists(o) \/ SendAlloc(o) \/ StaticAnswer(o)

BindingNext ==
  \/ \E w \in Workers :
       \/ \E c \in Clients : SendDetect(w, c) \/ SendDelete(w, c)
       \/ ServeStep(w)
  \/ \E o \in Operators :
       \/ \E c \in Clients, b \in Blocks, l \in Lives : StaticDetect(o, c, b, l)
       \/ OperatorStep(o)
  \/ Tick \/ RecvAsync
  \/ Crash \/ UnInitTc \/ Exit \/ InitTc

BindingSpec == Init /\ [][BindingNext]_vars

\* Threads run, the timer is re-armed by every pass (TunnelTimeOut), and the
\* notice reader sits in a loop of its own.  Requests need not come.
Fairness ==
  /\ \A w \in Workers : WF_vars(ServeStep(w))
  /\ \A o \in Operators : WF_vars(OperatorStep(o))
  /\ WF_vars(Tick)
  /\ WF_vars(RecvAsync)
  /\ WF_vars(Exit)
  /\ WF_vars(InitTc)

FairBindingSpec == BindingSpec /\ Fairness

-----------------------------------------------------------------------------
BindingTypeOK ==
  /\ TableTypeOK
  /\ pool \in SUBSET Blocks
  /\ async \in Seq(Blocks)
  /\ pc \in [Threads -> {"idle", "detected", "config", "created", "deleted", "exists"}]
  /\ cli \in [Threads -> Clients \cup {None}]
  /\ reply \in [Threads -> {None, "alloc_addr", "update", "result0", "result1", "delete_node"}]
  /\ cfg \in [Threads -> [block : Blocks \cup {None}, left : Lifetimes]]
  /\ late \in [Threads -> BOOLEAN]
  /\ answer \in [Clients -> Blocks \cup {None}]
  /\ tunState \in {0, 1}
  /\ up \in BOOLEAN
  /\ exiting \in BOOLEAN
  /\ stray \in BOOLEAN

\* A thread that took a block from the pool and has not yet a tunnel for it.
Holds(t, b) ==
  /\ cfg[t].block = b
  /\ \/ pc[t] = "config" /\ reply[t] = "alloc_addr" /\ t \in Workers
     \/ pc[t] = "deleted" /\ reply[t] = "delete_node"

\* The daemon runs, is not about to exit, and no tunnel was made behind its
\* back: between NETLINK_UNINIT_CONFIG and exit the threads still bind clients,
\* and the next daemon finds those tunnels in a table it takes for empty.
Orderly == up /\ ~exiting /\ ~stray

\* The pool's books: a block is marked exactly when one party answers for it,
\* its tunnel, a thread between the pool and the kernel, or one notice of its
\* expiry (AllocAddrPort, DeallocAddrPort against CreateTunnel, DeleteTunnel,
\* TunnelTimeCheck).
Parties(b) ==
  (IF v4[b] # None THEN 1 ELSE 0)
  + Cardinality({t \in Threads : Holds(t, b)})
  + Cardinality({i \in DOMAIN async : async[i] = b})

BooksBalance ==
  Orderly => \A b \in Blocks : Parties(b) = (IF b \in pool THEN 1 ELSE 0)

\* Threads, timer, end and restart use the table by its calls only.
ImplementsTable == TableSpec

\* A client has one tunnel: every context of the IPv4 tree is the one its
\* client's IPv6 entry leads to.
OneTunnelPerClient == \A b \in Bound : v6[v4[b].client] = b

\* A success answer is the truth when it is given: the kernel has the tunnel
\* that the client is told of, for that client (updateTunnelTree).
AnswerIsBound ==
  Orderly => \A w \in Workers : pc[w] = "created" =>
               /\ v6[cli[w]] = cfg[w].block
               /\ v4[cfg[w].block] # None
               /\ v4[cfg[w].block].client = cli[w]

\* A client that has a tunnel and no request under way was last told of that
\* tunnel's block, or of an error: no client translates to a block that went
\* to another one while the kernel keeps a tunnel for it.
AnswerAgrees ==
  Orderly => \A c \in Clients :
          (v6[c] # None /\ answer[c] # None /\ \A t \in Threads : cli[t] # c)
             => v6[c] = answer[c]

\* When requests cease every binding runs out and every block comes back:
\* tunnel contexts are not immortal and no block is lost.
EverythingReclaimed == <>[](stray \/ (up => Bound = {} /\ pool = {}))

\* A lifetime does not run below zero (TunnelTimeCheck): what expires is removed.
LifetimesHold == stray \/ NoneOverdue
=============================================================================

--------------------------- MODULE TcBinding_proofs ---------------------------
(***************************************************************************)
(* Proofs about the binding's life cycle: the daemon and the timer use the *)
(* tunnel table within its contract, and a client has one tunnel as long   *)
(* as no two threads serve it at the same time; pool, table, threads and   *)
(* notices agree on every block, and a client is told the truth.           *)
(***************************************************************************)
EXTENDS TcBinding, FiniteSetTheorems, SequenceTheorems, TLAPS

-----------------------------------------------------------------------------
(***************************************************************************)
(* The kernel module's tunnel table, under any calls of its callers: types,*)
(* no dangling entry, no takeover of a block in use.                       *)
(***************************************************************************)

\* The remainder of the lifetime stays in the range of its type.
LEMMA Remainder ==
  ASSUME NEW m \in Nat \ {0}, NEW n \in Nat
  PROVE  n % m \in 0 .. m - 1
  OBVIOUS

\* A tunnel context is not "no entry".
LEMMA TunnelIsEntry ==
  ASSUME NEW t \in Tunnel
  PROVE  t # None
  BY NoTunnelAssumption

\* What one pass of the timer leaves of a context is a context.
LEMMA LeftIsLife ==
  ASSUME TableTypeOK, NEW b \in Blocks, v4[b] # None
  PROVE  /\ LeftAfter(b) \in Lifetimes
         /\ [v4[b] EXCEPT !.left = LeftAfter(b)] \in Tunnel
         /\ [v4[b] EXCEPT !.left = LeftAfter(b)].client = v4[b].client
  <1>1. v4[b] \in Tunnel
    BY DEF TableTypeOK
  <1>2. v4[b].left + LifeMod - Quarter \in Nat
    BY <1>1, TableAssumption DEF Tunnel, Lifetimes
  <1>3. LeftAfter(b) \in Lifetimes
    BY <1>2, Remainder, TableAssumption DEF LeftAfter, Lifetimes
  <1>. QED
    BY <1>1, <1>3 DEF Tunnel

\* The types hold only together with the absence of dangling entries: a call of
\* Detect writes to the context that the IPv6 tree leads to.
TableInv == TableTypeOK /\ NoDanglingEntry

\* NETLINK_DETECT_MSG writes to a context of this client.
LEMMA DetectStep ==
  ASSUME TableInv, NEW c \in Clients, Detect(c)
  PROVE  TableInv'
  <1>. USE DEF TableInv, TableTypeOK, NoDanglingEntry
  <1>1. CASE v6[c] = None
    BY <1>1 DEF Detect
  <1>2. CASE v6[c] # None
    <2>1. v6[c] \in Blocks /\ v4[v6[c]] \in Tunnel
      BY <1>2
    <2>2. [v4[v6[c]] EXCEPT !.left = SuccessLife] \in Tunnel
      BY <2>1, TableAssumption DEF Tunnel, Lifetimes
    <2>3. [v4[v6[c]] EXCEPT !.left = SuccessLife].client = v4[v6[c]].client
      BY <2>1 DEF Tunnel
    <2>4. [v4[v6[c]] EXCEPT !.left = SuccessLife] # None
      BY <2>2, TunnelIsEntry
    <2>5. /\ v4' = [v4 EXCEPT ![v6[c]] = [v4[v6[c]] EXCEPT !.left = SuccessLife]]
          /\ v6' = v6
      BY <1>2 DEF Detect
    <2>. QED
      BY <2>1, <2>2, <2>3, <2>4, <2>5
  <1>. QED
    BY <1>1, <1>2

\* CreateTunnel binds a free block, so no entry led to it before.
LEMMA CreateStep ==
  ASSUME TableInv, NEW c \in Clients, NEW b \in Blocks, NEW l \in Lifetimes,
         CreateTunnel(c, b, l)
  PROVE  TableInv'
  <1>. USE DEF TableInv, TableTypeOK, NoDanglingEntry
  <1>1. [client |-> c, left |-> l] \in Tunnel
    BY TableAssumption DEF Tunnel, Lifetimes
  <1>2. [client |-> c, left |-> l] # None
    BY <1>1, TunnelIsEntry
  <1>3. TableTypeOK'
    BY <1>1 DEF CreateTunnel, InsertElement
  <1>4. ASSUME NEW d \in Clients, v6'[d] # None
        PROVE  v4'[v6'[d]] # None /\ v4'[v6'[d]].client = d
    <2>1. CASE v6[d] # None
      BY <2>1 DEF CreateTunnel, InsertElement
    <2>2. CASE v6[d] = None
      BY <1>2, <1>4, <2>2 DEF CreateTunnel, InsertElement
    <2>. QED
      BY <2>1, <2>2
  <1>. QED
    BY <1>3, <1>4

\* DeleteTunnel takes out the client's context, to which no other client's
\* entry leads, for it would be the context of both.
LEMMA DeleteStep ==
  ASSUME TableInv, NEW c \in Clients, DeleteTunnel(c)
  PROVE  TableInv'
  BY DEF TableInv, TableTypeOK, NoDanglingEntry, DeleteTunnel, DeleteElement

\* The timer takes an expired context out of both trees.
LEMMA TimeOutStep ==
  ASSUME TableInv, TunnelTimeOut
  PROVE  TableInv'
  <1>. USE DEF TableInv
  <1>1. TableTypeOK'
    BY LeftIsLife DEF TunnelTimeOut, TableTypeOK
  <1>2. ASSUME NEW d \in Clients, v6'[d] # None
        PROVE  v4'[v6'[d]] # None /\ v4'[v6'[d]].client = d
    <2>1. /\ v6[d] # None
          /\ v6'[d] = v6[d]
          /\ \A b \in Expired : v4[b].client # d
      BY <1>2 DEF TunnelTimeOut
    <2>2. /\ v6[d] \in Blocks
          /\ v4[v6[d]] # None
          /\ v4[v6[d]].client = d
      BY <2>1 DEF TableTypeOK, NoDanglingEntry
    <2>3. v6[d] \notin Expired
      BY <2>1, <2>2
    <2>4. v4'[v6[d]] = [v4[v6[d]] EXCEPT !.left = LeftAfter(v6[d])]
      BY <2>2, <2>3 DEF TunnelTimeOut
    <2>5. v4'[v6[d]] \in Tunnel /\ v4'[v6[d]].client = d
      BY <2>2, <2>4, LeftIsLife
    <2>. QED
      BY <2>1, <2>5, TunnelIsEntry
  <1>. QED
    BY <1>1, <1>2 DEF NoDanglingEntry

\* ClearStorage on every context empties both trees.
LEMMA DestroyStep ==
  ASSUME TableInv, DestroyStorage
  PROVE  TableInv'
  <1>1. \A d \in Clients : v6'[d] = None
    BY DEF TableInv, TableTypeOK, NoDanglingEntry, DestroyStorage, Bound
  <1>. QED
    BY <1>1 DEF TableInv, TableTypeOK, NoDanglingEntry, DestroyStorage

\* Every step of the table keeps the invariant.
LEMMA TableStep ==
  ASSUME TableInv, [TableNext]_table
  PROVE  TableInv'
  <1>1. ASSUME NEW c \in Clients, DeleteRefused(c)
        PROVE  TableInv'
    BY <1>1 DEF DeleteRefused, table, TableInv, TableTypeOK, NoDanglingEntry
  <1>2. ASSUME NEW b \in Blocks, CreateRefused(b)
        PROVE  TableInv'
    BY <1>2 DEF CreateRefused, table, TableInv, TableTypeOK, NoDanglingEntry
  <1>3. CASE UNCHANGED table
    BY <1>3 DEF table, TableInv, TableTypeOK, NoDanglingEntry
  <1>. QED
    BY <1>1, <1>2, <1>3, DetectStep, CreateStep, DeleteStep, TimeOutStep, DestroyStep
    DEF TableNext

LEMMA TableStart ==
  ASSUME InitTable
  PROVE  TableInv
  BY DEF InitTable, TableInv, TableTypeOK, NoDanglingEntry

-----------------------------------------------------------------------------
\* Each tree keeps its types, whatever its callers do.
THEOREM TableTypeCorrect == TableSpec => []TableTypeOK
  <1>1. TableInv => TableTypeOK
    BY DEF TableInv
  <1>. QED
    BY <1>1, TableStart, TableStep, PTL DEF TableSpec

\* No entry of the IPv6 tree leads to a freed context or to another client's:
\* DeleteTunnel, TunnelTimeCheck and ClearStorage leave none behind.
THEOREM NothingDangles == TableSpec => []NoDanglingEntry
  <1>1. TableInv => NoDanglingEntry
    BY DEF TableInv
  <1>. QED
    BY <1>1, TableStart, TableStep, PTL DEF TableSpec

\* A block is unbound between two clients: no call moves it from one to another.
THEOREM NobodyTakesOver == TableSpec => NoTakeover
  <1>1. ASSUME TableInv, [TableNext]_table,
               NEW b \in Blocks, v4[b] # None, v4'[b] # None
        PROVE  v4'[b].client = v4[b].client
    <2>. USE DEF TableInv, TableTypeOK
    <2>1. v4[b] \in Tunnel
      BY <1>1
    <2>2. ASSUME NEW c \in Clients, Detect(c)
          PROVE  v4'[b].client = v4[b].client
      BY <1>1, <2>1, <2>2 DEF Detect, Tunnel
    <2>3. ASSUME NEW c \in Clients, DeleteTunnel(c) \/ DeleteRefused(c)
          PROVE  v4'[b].client = v4[b].client
      BY <1>1, <2>3 DEF DeleteTunnel, DeleteRefused, table, DeleteElement
    <2>4. ASSUME NEW a \in Blocks, CreateRefused(a)
          PROVE  v4'[b].client = v4[b].client
      BY <2>4 DEF CreateRefused, table
    <2>5. ASSUME NEW c \in Clients, NEW a \in Blocks, NEW l \in Lifetimes, CreateTunnel(c, a, l)
          PROVE  v4'[b].client = v4[b].client
      BY <1>1, <2>5 DEF CreateTunnel, InsertElement
    <2>6. CASE TunnelTimeOut
      BY <1>1, <2>6, LeftIsLife DEF TunnelTimeOut
    <2>7. CASE DestroyStorage
      BY <1>1, <2>7 DEF DestroyStorage
    <2>8. CASE UNCHANGED table
      BY <2>8 DEF table
    <2>. QED
      BY <1>1, <2>2, <2>3, <2>4, <2>5, <2>6, <2>7, <2>8 DEF TableNext
  <1>2. TableInv /\ [TableNext]_table
          => [\A b \in Blocks : v4[b] # None /\ v4'[b] # None
                                  => v4'[b].client = v4[b].client]_table
    BY <1>1
  <1>. QED
    BY <1>2, TableStart, TableStep, PTL DEF TableSpec, NoTakeover

-----------------------------------------------------------------------------

Places  == {"idle", "detected", "config", "created", "deleted", "exists"}
Replies == {None, "alloc_addr", "update", "result0", "result1", "delete_node"}
Config  == [block : Blocks \cup {None}, left : Lifetimes]

\* What a thread knows at each place of its request.
Knows(p, c, r, g) ==
  /\ p # "idle" => c \in Clients
  /\ p = "detected" /\ r = "update" => g.block \in Blocks
  /\ p = "config" => g.block \in Blocks

ThreadsOK ==
  /\ pc \in [Threads -> Places]
  /\ cli \in [Threads -> Clients \cup {None}]
  /\ reply \in [Threads -> Replies]
  /\ cfg \in [Threads -> Config]
  /\ \A t \in Threads : Knows(pc[t], cli[t], reply[t], cfg[t])

BindingInv == TableInv /\ ThreadsOK

\* The lifetimes the daemon works with.
LEMMA LifetimesUsed == SuccessLife \in Lifetimes /\ 0 \in Lifetimes
  BY TableAssumption DEF Lifetimes

\* The configurations of the steps.
LEMMA Configs ==
  ASSUME NEW b \in Blocks \cup {None}, NEW l \in Lifetimes
  PROVE  /\ [block |-> b, left |-> l] \in Config
         /\ [block |-> b, left |-> l].block = b
         /\ NoCfg \in Config
  BY LifetimesUsed DEF Config, NoCfg

\* All threads are idle at the start, and after the end of the daemon.
LEMMA AllIdle ==
  ASSUME pc' = [t \in Threads |-> "idle"],
         cli' = [t \in Threads |-> None],
         reply' = [t \in Threads |-> None],
         cfg' = [t \in Threads |-> NoCfg]
  PROVE  ThreadsOK'
  <1>1. NoCfg \in Config
    BY LifetimesUsed DEF Config, NoCfg
  <1>. QED
    BY <1>1 DEF ThreadsOK, Knows, Places, Replies

\* A step of one thread.
LEMMA OneThread ==
  ASSUME ThreadsOK, NEW t \in Threads,
         NEW p \in Places, pc' = [pc EXCEPT ![t] = p],
         NEW c \in Clients \cup {None}, cli' = [cli EXCEPT ![t] = c],
         NEW r \in Replies, reply' = [reply EXCEPT ![t] = r],
         NEW g \in Config, cfg' = [cfg EXCEPT ![t] = g],
         Knows(p, c, r, g)
  PROVE  ThreadsOK'
  <1>1. /\ pc' \in [Threads -> Places]
        /\ cli' \in [Threads -> Clients \cup {None}]
        /\ reply' \in [Threads -> Replies]
        /\ cfg' \in [Threads -> Config]
    BY DEF ThreadsOK
  <1>2. ASSUME NEW u \in Threads
        PROVE  Knows(pc'[u], cli'[u], reply'[u], cfg'[u])
    <2>1. CASE u = t
      <3>1. pc'[u] = p /\ cli'[u] = c /\ reply'[u] = r /\ cfg'[u] = g
        BY <2>1 DEF ThreadsOK
      <3>. QED
        BY <3>1
    <2>2. CASE u # t
      <3>1. pc'[u] = pc[u] /\ cli'[u] = cli[u] /\ reply'[u] = reply[u] /\ cfg'[u] = cfg[u]
        BY <2>2 DEF ThreadsOK
      <3>. QED
        BY <3>1 DEF ThreadsOK
    <2>. QED
      BY <2>1, <2>2
  <1>. QED
    BY <1>1, <1>2 DEF ThreadsOK

\* A thread's values, written as an update that changes nothing.
LEMMA SameThread ==
  ASSUME ThreadsOK, NEW t \in Threads
  PROVE  /\ pc[t] \in Places
         /\ cli[t] \in Clients \cup {None} /\ cli = [cli EXCEPT ![t] = cli[t]]
         /\ reply[t] \in Replies /\ reply = [reply EXCEPT ![t] = reply[t]]
         /\ cfg[t] \in Config /\ cfg = [cfg EXCEPT ![t] = cfg[t]]
         /\ Knows(pc[t], cli[t], reply[t], cfg[t])
  BY DEF ThreadsOK

LEMMA BindingStart ==
  ASSUME Init
  PROVE  BindingInv
  <1>1. NoCfg \in Config
    BY LifetimesUsed DEF Config, NoCfg
  <1>2. ThreadsOK
    BY <1>1 DEF Init, ThreadsOK, Knows, Places, Replies
  <1>. QED
    BY <1>2, TableStart DEF Init, BindingInv

-----------------------------------------------------------------------------
\* Every action of the binding is a call of the table, or leaves it alone.
LEMMA CallsOfTable ==
  ASSUME BindingInv, [BindingNext]_vars
  PROVE  [TableNext]_table
  <1>1. ASSUME NEW t \in Threads, SendAlloc(t)
        PROVE  [TableNext]_table
    <2>1. pc[t] = "config" /\ Knows(pc[t], cli[t], reply[t], cfg[t]) /\ cfg[t] \in Config
      BY <1>1, SameThread DEF SendAlloc, BindingInv
    <2>2. cli[t] \in Clients /\ cfg[t].block \in Blocks /\ cfg[t].left \in Lifetimes
      BY <2>1 DEF Knows, Config
    <2>. QED
      BY <1>1, <2>2 DEF SendAlloc, TableNext
  <1>2. ASSUME NEW w \in Workers, NEW c \in Clients, SendDetect(w, c) \/ SendDelete(w, c)
        PROVE  [TableNext]_table
    BY <1>2 DEF SendDetect, SendDelete, TableNext
  <1>3. ASSUME NEW w \in Workers, ServeStep(w)
        PROVE  [TableNext]_table
    BY <1>1, <1>3 DEF ServeStep, AllocBlock, AllocRefused, TakeUpdate, Answer, HandleDelete, Threads, Recycled
  <1>4. ASSUME NEW o \in Operators, NEW c \in Clients, NEW b \in Blocks, NEW l \in Lives,
               StaticDetect(o, c, b, l)
        PROVE  [TableNext]_table
    BY <1>4 DEF StaticDetect, TableNext
  <1>5. ASSUME NEW o \in Operators, OperatorStep(o)
        PROVE  [TableNext]_table
    BY <1>1, <1>5 DEF OperatorStep, StaticExists, StaticAnswer, Threads
  <1>6. CASE Tick \/ RecvAsync
    BY <1>6 DEF Tick, RecvAsync, TableNext, HandlAsyncMessage
  <1>7. CASE Crash \/ UnInitTc \/ Exit \/ InitTc
    BY <1>7 DEF Crash, UnInitTc, Exit, ProcessGone, InitTc, TableNext
  <1>8. CASE UNCHANGED vars
    BY <1>8 DEF vars
  <1>. QED
    BY <1>2, <1>3, <1>4, <1>5, <1>6, <1>7, <1>8 DEF BindingNext

\* A request of a worker: DETECT or DELETE.
LEMMA SendStep ==
  ASSUME BindingInv, NEW w \in Threads, NEW c \in Clients,
         SendDetect(w, c) \/ SendDelete(w, c)
  PROVE  ThreadsOK'
  <1>1. v6[c] \in Blocks \cup {None}
    BY DEF BindingInv, TableInv, TableTypeOK
  <1>2. /\ cli' = [cli EXCEPT ![w] = c]
        /\ cfg' = [cfg EXCEPT ![w] = [block |-> v6[c], left |-> 0]]
    BY DEF SendDetect, SendDelete, TakeUp
  <1>3. [block |-> v6[c], left |-> 0] \in Config /\ [block |-> v6[c], left |-> 0].block = v6[c]
    BY <1>1, Configs, LifetimesUsed
  <1>4. CASE SendDetect(w, c)
    <2>1. DetectReply(c) \in Replies /\ (DetectReply(c) = "update" => v6[c] \in Blocks)
      BY <1>1 DEF DetectReply, Replies
    <2>2. Knows("detected", c, DetectReply(c), [block |-> v6[c], left |-> 0])
      BY <1>3, <2>1 DEF Knows
    <2>. QED
      BY <1>2, <1>3, <1>4, <2>1, <2>2, OneThread DEF SendDetect, BindingInv, Places
  <1>5. CASE SendDelete(w, c)
    <2>1. PICK r \in {"delete_node", "result1"} : reply' = [reply EXCEPT ![w] = r]
      BY <1>5 DEF SendDelete
    <2>2. Knows("deleted", c, r, [block |-> v6[c], left |-> 0])
      BY DEF Knows
    <2>3. r \in Replies /\ "deleted" \in Places
      BY DEF Replies, Places
    <2>4. pc' = [pc EXCEPT ![w] = "deleted"]
      BY <1>5 DEF SendDelete
    <2>. QED
      BY <1>2, <1>3, <2>1, <2>2, <2>3, <2>4, OneThread DEF BindingInv
  <1>. QED
    BY <1>4, <1>5

\* What a thread does between its requests and at their end.
LEMMA ServeThread ==
  ASSUME BindingInv, NEW t \in Threads,
         \/ AllocBlock(t) \/ TakeUpdate(t) \/ SendAlloc(t)
         \/ AllocRefused(t) \/ Answer(t) \/ HandleDelete(t) \/ StaticExists(t) \/ StaticAnswer(t)
  PROVE  ThreadsOK'
  <1>. USE SameThread DEF BindingInv
  <1>1. CASE AllocBlock(t)
    <2>1. PICK b \in Blocks : cfg' = [cfg EXCEPT ![t] = [block |-> b, left |-> SuccessLife]]
      BY <1>1 DEF AllocBlock
    <2>2. /\ [block |-> b, left |-> SuccessLife] \in Config
          /\ [block |-> b, left |-> SuccessLife].block = b
      BY Configs, LifetimesUsed
    <2>3. Knows("config", cli[t], reply[t], [block |-> b, left |-> SuccessLife])
      BY <1>1, <2>2 DEF AllocBlock, Knows
    <2>. QED
      BY <1>1, <2>1, <2>2, <2>3, OneThread DEF AllocBlock, Places
  <1>2. CASE TakeUpdate(t)
    <2>1. Knows("config", cli[t], reply[t], cfg[t])
      BY <1>2 DEF TakeUpdate, Knows
    <2>. QED
      BY <1>2, <2>1, OneThread DEF TakeUpdate, Places
  <1>3. CASE SendAlloc(t)
    <2>1. PICK r \in {"result0", "result1"} : reply' = [reply EXCEPT ![t] = r]
      BY <1>3 DEF SendAlloc
    <2>2. Knows("created", cli[t], r, cfg[t])
      BY <1>3 DEF SendAlloc, Knows
    <2>3. pc' = [pc EXCEPT ![t] = "created"] /\ UNCHANGED <<cli, cfg>>
      BY <1>3 DEF SendAlloc
    <2>4. "created" \in Places /\ r \in Replies
      BY DEF Places, Replies
    <2>. QED
      BY <2>1, <2>2, <2>3, <2>4, OneThread
  <1>4. CASE AllocRefused(t) \/ Answer(t) \/ HandleDelete(t) \/ StaticExists(t) \/ StaticAnswer(t)
    <2>1. Finish(t)
      BY <1>4 DEF AllocRefused, Answer, HandleDelete, StaticExists, StaticAnswer, Recycled
    <2>2. NoCfg \in Config
      BY LifetimesUsed DEF Config, NoCfg
    <2>3. Knows("idle", None, None, NoCfg)
      BY DEF Knows
    <2>4. "idle" \in Places /\ None \in Replies
      BY DEF Places, Replies
    <2>. QED
      BY <2>1, <2>2, <2>3, <2>4, OneThread DEF Finish
  <1>. QED
    BY <1>1, <1>2, <1>3, <1>4

\* An operator's request.
LEMMA StaticStep ==
  ASSUME BindingInv, NEW o \in Threads, NEW c \in Clients, NEW b \in Blocks, NEW l \in Lives,
         StaticDetect(o, c, b, l)
  PROVE  ThreadsOK'
  <1>. USE SameThread DEF BindingInv
  <1>1. /\ [block |-> b, left |-> l] \in Config
        /\ [block |-> b, left |-> l].block = b
    BY Configs, BindingAssumption
  <1>2. cli' = [cli EXCEPT ![o] = c]
    BY DEF StaticDetect, TakeUp
  <1>3. CASE v6[c] = None
    <2>1. Knows("config", c, "alloc_addr", [block |-> b, left |-> l])
      BY <1>1 DEF Knows
    <2>2. /\ pc' = [pc EXCEPT ![o] = "config"]
          /\ cfg' = [cfg EXCEPT ![o] = [block |-> b, left |-> l]]
          /\ reply' = [reply EXCEPT ![o] = "alloc_addr"]
      BY <1>3 DEF StaticDetect
    <2>3. "config" \in Places /\ "alloc_addr" \in Replies
      BY DEF Places, Replies
    <2>. QED
      BY <1>1, <1>2, <2>1, <2>2, <2>3, OneThread
  <1>4. CASE v6[c] # None
    <2>1. Knows("exists", c, reply[o], cfg[o])
      BY DEF Knows
    <2>2. pc' = [pc EXCEPT ![o] = "exists"] /\ UNCHANGED <<cfg, reply>>
      BY <1>4 DEF StaticDetect
    <2>3. "exists" \in Places
      BY DEF Places
    <2>. QED
      BY <1>2, <2>1, <2>2, <2>3, OneThread
  <1>. QED
    BY <1>3, <1>4

\* Every step keeps what the threads know.
LEMMA ThreadsStep ==
  ASSUME BindingInv, [BindingNext]_vars
  PROVE  ThreadsOK'
  <1>1. CASE Tick \/ RecvAsync \/ UnInitTc \/ InitTc \/ UNCHANGED vars
    <2>1. UNCHANGED <<pc, cli, reply, cfg>>
      BY <1>1 DEF Tick, RecvAsync, UnInitTc, InitTc, user, vars, HandlAsyncMessage
    <2>. QED
      BY <2>1 DEF BindingInv, ThreadsOK
  <1>2. CASE Crash \/ Exit
    BY <1>2, AllIdle DEF Crash, Exit, ProcessGone
  <1>. QED
    BY <1>1, <1>2, SendStep, ServeThread, StaticStep
    DEF BindingNext, ServeStep, OperatorStep, Threads

LEMMA BindingStep ==
  ASSUME BindingInv, [BindingNext]_vars
  PROVE  BindingInv'
  BY CallsOfTable, TableStep, ThreadsStep DEF BindingInv

\* The daemon's threads, its end and restart, and the timer drive the table by
\* its calls only, with arguments of the right kind: what is proved of the
\* table under any calls holds of the running system.
THEOREM TableIsUsed == BindingSpec => ImplementsTable
  <1>1. Init => InitTable
    BY DEF Init
  <1>. QED
    BY <1>1, BindingStart, BindingStep, CallsOfTable, PTL DEF BindingSpec, TableSpec, ImplementsTable

\* So no entry of the IPv6 tree ever leads to a freed context.
THEOREM NothingDanglesInUse == BindingSpec => []NoDanglingEntry
  BY TableIsUsed, NothingDangles, PTL DEF ImplementsTable

-----------------------------------------------------------------------------
\* The rest is about a daemon that never serves a client twice at a time.
\* No two threads serve the same client.
ThreadsApart == \A t, u \in Threads : t # u /\ cli[t] # None => cli[t] # cli[u]

\* Between DETECT and ALLOC nobody but its thread binds the client: it is still
\* without a tunnel, or it has the one that was found, or lost it.
Expects(t) ==
  pc[t] \in {"detected", "config"} =>
    \/ v6[cli[t]] = None
    \/ reply[t] = "update" /\ v6[cli[t]] = cfg[t].block

Expected == \A t \in Threads : Expects(t)

SingleInv == BindingInv /\ ThreadsApart /\ Expected /\ OneTunnelPerClient

\* The calls that bind nobody: entries of the IPv6 tree stay or go.
Unbinding ==
  \/ \E c \in Clients : Detect(c) \/ DeleteTunnel(c)
  \/ TunnelTimeOut \/ DestroyStorage \/ UNCHANGED table

LEMMA UnbindingStep ==
  ASSUME TableInv, OneTunnelPerClient, Unbinding
  PROVE  /\ OneTunnelPerClient'
         /\ \A c \in Clients : v6'[c] \in {v6[c], None}
  <1>. USE DEF TableInv, OneTunnelPerClient, Bound
  <1>1. ASSUME NEW c \in Clients, Detect(c)
        PROVE  OneTunnelPerClient' /\ v6' = v6
    <2>1. ASSUME NEW b \in Blocks, v4'[b] # None
          PROVE  v4[b] # None /\ v4'[b].client = v4[b].client
      BY <1>1, <2>1 DEF Detect, TableTypeOK, Tunnel, NoDanglingEntry
    <2>. QED
      BY <1>1, <2>1 DEF Detect
  <1>2. ASSUME NEW c \in Clients, DeleteTunnel(c)
        PROVE  OneTunnelPerClient' /\ \A d \in Clients : v6'[d] \in {v6[d], None}
    <2>1. ASSUME NEW b \in Blocks, v4'[b] # None
          PROVE  v4[b] # None /\ v4'[b] = v4[b] /\ v6[c] # b
      BY <1>2, <2>1 DEF DeleteTunnel, TableTypeOK, DeleteElement
    <2>. QED
      BY <1>2, <2>1 DEF DeleteTunnel, TableTypeOK, Tunnel, DeleteElement
  <1>3. ASSUME TunnelTimeOut
        PROVE  OneTunnelPerClient' /\ \A d \in Clients : v6'[d] \in {v6[d], None}
    <2>1. ASSUME NEW b \in Blocks, v4'[b] # None
          PROVE  v6'[v4'[b].client] = b
      <3>1. v4[b] # None /\ b \notin Expired
        BY <1>3, <2>1 DEF TunnelTimeOut
      <3>2. v4'[b] = [v4[b] EXCEPT !.left = LeftAfter(b)]
        BY <1>3, <3>1 DEF TunnelTimeOut
      <3>3. v4'[b].client = v4[b].client /\ v4[b].client \in Clients /\ v6[v4[b].client] = b
        BY <3>1, <3>2, LeftIsLife DEF TableTypeOK, Tunnel
      <3>4. \A a \in Expired : v4[a].client # v4[b].client
        BY <3>1, <3>3 DEF Expired
      <3>. QED
        BY <1>3, <3>3, <3>4 DEF TunnelTimeOut
    <2>. QED
      BY <1>3, <2>1 DEF TunnelTimeOut
  <1>4. ASSUME DestroyStorage
        PROVE  OneTunnelPerClient' /\ \A d \in Clients : v6'[d] \in {v6[d], None}
    BY <1>4 DEF DestroyStorage
  <1>5. CASE UNCHANGED table
    BY <1>5 DEF table
  <1>. QED
    BY <1>1, <1>2, <1>3, <1>4, <1>5 DEF Unbinding

\* A binding of a client that has no tunnel.
LEMMA BindStep ==
  ASSUME TableInv, OneTunnelPerClient,
         NEW c \in Clients, NEW b \in Blocks, NEW l \in Lifetimes,
         v6[c] = None, CreateTunnel(c, b, l)
  PROVE  /\ OneTunnelPerClient'
         /\ \A d \in Clients \ {c} : v6'[d] = v6[d]
  <1>. USE DEF TableInv, TableTypeOK
  <1>1. v6' = [v6 EXCEPT ![c] = b] /\ v4' = [v4 EXCEPT ![b] = [client |-> c, left |-> l]]
    BY DEF CreateTunnel, InsertElement
  <1>2. ASSUME NEW a \in Blocks, v4'[a] # None
        PROVE  v6'[v4'[a].client] = a
    <2>1. CASE a = b
      BY <1>1, <2>1
    <2>2. CASE a # b
      <3>1. v4'[a] = v4[a] /\ v4[a] \in Tunnel
        BY <1>1, <1>2, <2>2
      <3>2. v6[v4[a].client] = a
        BY <1>2, <3>1 DEF OneTunnelPerClient, Bound
      <3>3. v4[a].client # c
        BY <3>2, TableAssumption
      <3>. QED
        BY <1>1, <3>1, <3>2, <3>3 DEF Tunnel
    <2>. QED
      BY <2>1, <2>2
  <1>. QED
    BY <1>1, <1>2 DEF OneTunnelPerClient, Bound

\* A step of thread t and of nobody else.
Moves(t, p, c, r, g) ==
  /\ pc' = [pc EXCEPT ![t] = p]
  /\ cli' = [cli EXCEPT ![t] = c]
  /\ reply' = [reply EXCEPT ![t] = r]
  /\ cfg' = [cfg EXCEPT ![t] = g]

\* The clients of the other threads keep what they have, or lose it.
OthersKeep(t) ==
  \A u \in Threads \ {t} : cli[u] \in Clients => v6'[cli[u]] \in {v6[cli[u]], None}

LEMMA MoveStep ==
  ASSUME SingleInv, NEW t \in Threads, NEW p, NEW c, NEW r, NEW g, Moves(t, p, c, r, g),
         OthersKeep(t),
         p \in {"detected", "config"} =>
           v6'[c] = None \/ (r = "update" /\ v6'[c] = g.block),
         \A u \in Threads \ {t} : cli[u] # None => cli[u] # c
  PROVE  ThreadsApart' /\ Expected'
  <1>. USE DEF SingleInv, BindingInv, ThreadsOK
  <1>1. pc'[t] = p /\ cli'[t] = c /\ reply'[t] = r /\ cfg'[t] = g
    BY DEF Moves
  <1>2. ASSUME NEW u \in Threads \ {t}
        PROVE  pc'[u] = pc[u] /\ cli'[u] = cli[u] /\ reply'[u] = reply[u] /\ cfg'[u] = cfg[u]
    BY DEF Moves
  <1>3. ThreadsApart'
    BY <1>1, <1>2 DEF ThreadsApart
  <1>4. ASSUME NEW u \in Threads
        PROVE  Expects(u)'
    <2>1. CASE u = t
      BY <1>1, <2>1 DEF Expects
    <2>2. CASE u # t /\ pc[u] \in {"detected", "config"}
      <3>1. cli[u] \in Clients
        BY <2>2 DEF Knows
      <3>2. v6'[cli[u]] \in {v6[cli[u]], None}
        BY <2>2, <3>1 DEF OthersKeep
      <3>. QED
        BY <1>2, <2>2, <3>2 DEF Expected, Expects
    <2>3. CASE u # t /\ pc[u] \notin {"detected", "config"}
      BY <1>2, <2>3 DEF Expects
    <2>. QED
      BY <2>1, <2>2, <2>3
  <1>. QED
    BY <1>3, <1>4 DEF Expected

\* A request that begins: the client has no other thread.
LEMMA BeginStep ==
  ASSUME SingleInv, Retransmit = FALSE, NEW t \in Threads, NEW c \in Clients,
         \/ SendDetect(t, c) \/ SendDelete(t, c)
         \/ \E b \in Blocks, l \in Lives : StaticDetect(t, c, b, l)
  PROVE  OneTunnelPerClient' /\ ThreadsApart' /\ Expected'
  <1>1. TakeUp(t, c)
    BY DEF SendDetect, SendDelete, StaticDetect
  <1>2. (\A u \in Threads : cli[u] # c) /\ cli' = [cli EXCEPT ![t] = c]
    BY <1>1 DEF TakeUp
  <1>3. Unbinding
    BY DEF SendDetect, SendDelete, StaticDetect, Unbinding, DeleteRefused
  <1>4. OneTunnelPerClient' /\ OthersKeep(t)
    BY <1>3, UnbindingStep DEF SingleInv, BindingInv, OthersKeep
  <1>5. CASE SendDetect(t, c)
    <2>1. v6' = v6
      BY <1>5 DEF SendDetect, Detect
    <2>2. v6[c] = None \/ DetectReply(c) = "update"
      BY DEF DetectReply
    <2>3. Moves(t, "detected", c, DetectReply(c), [block |-> v6[c], left |-> 0])
      BY <1>2, <1>5 DEF SendDetect, Moves
    <2>4. [block |-> v6[c], left |-> 0].block = v6[c]
      OBVIOUS
    <2>. QED
      BY <1>2, <1>4, <2>1, <2>2, <2>3, <2>4, MoveStep
  <1>6. CASE SendDelete(t, c)
    <2>1. PICK r : Moves(t, "deleted", c, r, [block |-> v6[c], left |-> 0])
      BY <1>2, <1>6 DEF SendDelete, Moves
    <2>. QED
      BY <1>2, <1>4, <2>1, MoveStep
  <1>7. ASSUME NEW b \in Blocks, NEW l \in Lives, StaticDetect(t, c, b, l)
        PROVE  ThreadsApart' /\ Expected'
    <2>1. v6' = v6
      BY <1>7 DEF StaticDetect, Detect
    <2>2. CASE v6[c] = None
      <3>1. Moves(t, "config", c, "alloc_addr", [block |-> b, left |-> l])
        BY <1>2, <1>7, <2>2 DEF StaticDetect, Moves
      <3>. QED
        BY <1>2, <1>4, <2>1, <2>2, <3>1, MoveStep
    <2>3. CASE v6[c] # None
      <3>1. reply' = [reply EXCEPT ![t] = reply[t]] /\ cfg' = [cfg EXCEPT ![t] = cfg[t]]
        BY <1>7, <2>3, SameThread DEF StaticDetect, SingleInv, BindingInv
      <3>2. Moves(t, "exists", c, reply[t], cfg[t])
        BY <1>2, <1>7, <2>3, <3>1 DEF StaticDetect, Moves
      <3>. QED
        BY <1>2, <1>4, <3>2, MoveStep
    <2>. QED
      BY <2>2, <2>3
  <1>. QED
    BY <1>4, <1>5, <1>6, <1>7

\* A request that goes on, up to the answer.
LEMMA GoOnStep ==
  ASSUME SingleInv, NEW t \in Threads,
         \/ AllocBlock(t) \/ TakeUpdate(t) \/ SendAlloc(t)
         \/ AllocRefused(t) \/ Answer(t) \/ HandleDelete(t) \/ StaticExists(t) \/ StaticAnswer(t)
  PROVE  OneTunnelPerClient' /\ ThreadsApart' /\ Expected'
  <1>. USE SameThread DEF SingleInv, BindingInv
  <1>1. ASSUME UNCHANGED table
        PROVE  OneTunnelPerClient' /\ OthersKeep(t) /\ v6' = v6
    BY <1>1 DEF table, OneTunnelPerClient, Bound, OthersKeep
  <1>2. \A u \in Threads \ {t} : cli[u] # None => cli[u] # cli[t]
    BY DEF ThreadsApart
  <1>3. Expects(t)
    BY DEF Expected
  <1>4. CASE AllocBlock(t)
    <2>1. PICK g : Moves(t, "config", cli[t], reply[t], g)
      BY <1>4 DEF AllocBlock, Moves
    <2>2. v6[cli[t]] = None
      BY <1>3, <1>4 DEF AllocBlock, Expects
    <2>3. UNCHANGED table
      BY <1>4 DEF AllocBlock
    <2>. QED
      BY <1>1, <1>2, <2>1, <2>2, <2>3, MoveStep
  <1>5. CASE TakeUpdate(t)
    <2>1. Moves(t, "config", cli[t], reply[t], cfg[t])
      BY <1>5 DEF TakeUpdate, Moves
    <2>2. v6[cli[t]] = None \/ (reply[t] = "update" /\ v6[cli[t]] = cfg[t].block)
      BY <1>3, <1>5 DEF TakeUpdate, Expects
    <2>3. UNCHANGED table
      BY <1>5 DEF TakeUpdate
    <2>. QED
      BY <1>1, <1>2, <2>1, <2>2, <2>3, MoveStep
  <1>6. CASE SendAlloc(t)
    <2>1. PICK r : Moves(t, "created", cli[t], r, cfg[t])
      BY <1>6 DEF SendAlloc, Moves
    <2>2. /\ cli[t] \in Clients
          /\ cfg[t].block \in Blocks
          /\ cfg[t].left \in Lifetimes
          /\ v6[cli[t]] = None \/ v6[cli[t]] = cfg[t].block
      BY <1>3, <1>6 DEF SendAlloc, Knows, Config, Expects
    <2>3. CASE CreateRefused(cfg[t].block)
      <3>1. UNCHANGED table
        BY <2>3 DEF CreateRefused
      <3>. QED
        BY <1>1, <1>2, <2>1, <3>1, MoveStep
    <2>4. CASE CreateTunnel(cli[t], cfg[t].block, cfg[t].left)
      <3>1. v4[cfg[t].block] = None
        BY <2>4 DEF CreateTunnel, InsertElement
      <3>2. v6[cli[t]] = None
        <4>1. v6[cli[t]] # None => v4[v6[cli[t]]] # None
          BY <2>2 DEF TableInv, NoDanglingEntry
        <4>. QED
          BY <2>2, <3>1, <4>1
      <3>3. OneTunnelPerClient' /\ \A d \in Clients \ {cli[t]} : v6'[d] = v6[d]
        BY <2>2, <2>4, <3>2, BindStep
      <3>4. OthersKeep(t)
        BY <1>2, <3>3, TableAssumption DEF OthersKeep, ThreadsOK
      <3>. QED
        BY <1>2, <2>1, <3>3, <3>4, MoveStep
    <2>. QED
      BY <1>6, <2>3, <2>4 DEF SendAlloc
  <1>7. CASE AllocRefused(t) \/ Answer(t) \/ HandleDelete(t) \/ StaticExists(t) \/ StaticAnswer(t)
    <2>1. Finish(t) /\ UNCHANGED table
      BY <1>7 DEF AllocRefused, Answer, HandleDelete, StaticExists, StaticAnswer, Recycled
    <2>2. Moves(t, "idle", None, None, NoCfg)
      BY <2>1 DEF Finish, Moves
    <2>. QED
      BY <1>1, <2>1, <2>2, MoveStep
  <1>. QED
    BY <1>4, <1>5, <1>6, <1>7

\* The timer, the notices, and the end and start of the daemon.
LEMMA SystemStep ==
  ASSUME SingleInv,
         Tick \/ RecvAsync \/ Crash \/ UnInitTc \/ Exit \/ InitTc \/ UNCHANGED vars
  PROVE  OneTunnelPerClient' /\ ThreadsApart' /\ Expected'
  <1>. USE DEF SingleInv, BindingInv, ThreadsOK
  <1>1. Unbinding
    BY DEF Tick, RecvAsync, InitTc, Crash, UnInitTc, Exit, ProcessGone, vars, Unbinding, HandlAsyncMessage
  <1>2. OneTunnelPerClient' /\ \A c \in Clients : v6'[c] \in {v6[c], None}
    BY <1>1, UnbindingStep
  <1>3. CASE Tick \/ RecvAsync \/ UnInitTc \/ InitTc \/ UNCHANGED vars
    <2>1. UNCHANGED <<pc, cli, reply, cfg>>
      BY <1>3 DEF Tick, RecvAsync, UnInitTc, InitTc, user, vars, HandlAsyncMessage
    <2>2. ThreadsApart'
      BY <2>1 DEF ThreadsApart
    <2>3. ASSUME NEW t \in Threads, pc[t] \in {"detected", "config"}
          PROVE  Expects(t)'
      <3>1. cli[t] \in Clients
        BY <2>3 DEF Knows
      <3>. QED
        BY <1>2, <2>1, <2>3, <3>1 DEF Expected, Expects
    <2>. QED
      BY <1>2, <2>1, <2>2, <2>3 DEF Expected, Expects
  <1>4. CASE Crash \/ Exit
    <2>1. \A t \in Threads : pc'[t] = "idle" /\ cli'[t] = None
      BY <1>4 DEF Crash, Exit, ProcessGone
    <2>. QED
      BY <1>2, <2>1 DEF ThreadsApart, Expected, Expects
  <1>. QED
    BY <1>3, <1>4

LEMMA SingleStep ==
  ASSUME SingleInv, Retransmit = FALSE, [BindingNext]_vars
  PROVE  SingleInv'
  <1>1. OneTunnelPerClient' /\ ThreadsApart' /\ Expected'
    BY BeginStep, GoOnStep, SystemStep DEF BindingNext, ServeStep, OperatorStep, Threads
  <1>. QED
    BY <1>1, BindingStep DEF SingleInv

LEMMA SingleStart ==
  ASSUME Init
  PROVE  SingleInv
  BY BindingStart
  DEF Init, InitTable, SingleInv, ThreadsApart, Expected, Expects, OneTunnelPerClient, Bound

\* As long as no two threads serve the same client, a client has one tunnel,
\* in spite of the gap between the DETECT and the ALLOC of updateTunnelTree and
\* AddStaticTunnel, of the timer, and of the daemon's restarts.
THEOREM ClientHasOneTunnel ==
  ASSUME Retransmit = FALSE
  PROVE  BindingSpec => []OneTunnelPerClient
  <1>1. SingleInv /\ [BindingNext]_vars => SingleInv'
    BY SingleStep
  <1>2. SingleInv => OneTunnelPerClient
    BY DEF SingleInv
  <1>. QED
    BY <1>1, <1>2, SingleStart, PTL DEF BindingSpec

-----------------------------------------------------------------------------
(* The pool's books: what the daemon's pool has marked, what the kernel    *)
(* module has bound, what the threads hold between the two and the notices *)
(* that are on their way agree, through the timer, the end and the restart *)
(* of the daemon; and what a client is told is so.                         *)

(* The notices of one pass name every block that expires, and each once.   *)
LEMMA Listed ==
  ASSUME NEW S, IsFiniteSet(S)
  PROVE  LET s == SetToSeq(S)
         IN  /\ s \in Seq(S)
             /\ \A i, j \in 1 .. Len(s) : s[i] = s[j] => i = j
             /\ \A x \in S : \E i \in 1 .. Len(s) : s[i] = x
  <1>. DEFINE n == Cardinality(S)
              s == SetToSeq(S)
  <1>1. n \in Nat /\ ExistsBijection(1 .. n, S)
    BY FS_CardinalityType
  <1>2. \E f \in [1 .. n -> S] : IsInjective(f)
    BY <1>1 DEF ExistsBijection, Bijection, Injection, IsInjective
  <1>3. s \in [1 .. n -> S] /\ IsInjective(s)
    BY <1>2 DEF SetToSeq
  <1>. HIDE DEF n, s
  <1>4. s \in Seq(S) /\ Len(s) = n
    BY <1>1, <1>3
  <1>5. s \in Surjection(1 .. n, S)
    <2>1. s \in Injection(1 .. n, S)
      BY <1>3 DEF Injection
    <2>2. IsFiniteSet(1 .. n) /\ Cardinality(1 .. n) = n
      BY <1>1, FS_Interval
    <2>. QED
      BY <2>1, <2>2, FS_Injection DEF n
  <1>6. \A x \in S : \E i \in 1 .. n : s[i] = x
    BY <1>5 DEF Surjection
  <1>. QED
    BY <1>3, <1>4, <1>6 DEF IsInjective, s

-----------------------------------------------------------------------------
(* The types of what BindingInv does not have.                             *)
RestOK ==
  /\ pool \in SUBSET Blocks
  /\ async \in Seq(Blocks)
  /\ late \in [Threads -> BOOLEAN]
  /\ answer \in [Clients -> Blocks \cup {None}]
  /\ tunState \in {0, 1}
  /\ up \in BOOLEAN
  /\ exiting \in BOOLEAN
  /\ stray \in BOOLEAN

LEMMA TypesSplit == (BindingInv /\ RestOK) => BindingTypeOK
  BY DEF BindingInv, TableInv, ThreadsOK, RestOK, BindingTypeOK, Places, Replies, Config

(* A request that begins or ends, with its answer.                         *)
LEMMA RestTakeUp ==
  ASSUME RestOK, NEW t \in Threads, NEW c, TakeUp(t, c)
  PROVE  RestOK'
  BY DEF RestOK, TakeUp, life

LEMMA RestFinish ==
  ASSUME RestOK, NEW t \in Threads, Finish(t),
         pool' \in SUBSET pool,
         \/ answer' = answer
         \/ \E b \in Blocks \cup {None} : answer' = [answer EXCEPT ![cli[t]] = b]
  PROVE  RestOK'
  BY DEF RestOK, Finish, life

LEMMA RestServe ==
  ASSUME BindingInv, RestOK, NEW t \in Threads,
         \/ AllocBlock(t) \/ TakeUpdate(t) \/ SendAlloc(t)
         \/ AllocRefused(t) \/ Answer(t) \/ HandleDelete(t) \/ StaticExists(t) \/ StaticAnswer(t)
  PROVE  RestOK'
  <1>1. cfg[t].block \in Blocks \cup {None}
    BY SameThread DEF BindingInv, Config
  <1>2. CASE AllocBlock(t)
    BY <1>2 DEF AllocBlock, RestOK, life
  <1>3. CASE TakeUpdate(t)
    BY <1>3 DEF TakeUpdate, RestOK, life
  <1>4. CASE SendAlloc(t)
    <2>1. stray' \in BOOLEAN
      BY <1>4 DEF SendAlloc, RestOK
    <2>. QED
      BY <1>4, <2>1 DEF SendAlloc, RestOK
  <1>5. CASE AllocRefused(t) \/ StaticExists(t)
    BY <1>5, RestFinish DEF AllocRefused, StaticExists
  <1>6. CASE Answer(t) \/ StaticAnswer(t)
    BY <1>1, <1>6, RestFinish DEF Answer, StaticAnswer
  <1>7. CASE HandleDelete(t)
    BY <1>7, RestFinish DEF HandleDelete, Recycled
  <1>. QED
    BY <1>2, <1>3, <1>4, <1>5, <1>6, <1>7

(* The timer's notices are of blocks; the rest is reset, or taken away.    *)
LEMMA RestSystem ==
  ASSUME RestOK,
         Tick \/ RecvAsync \/ Crash \/ UnInitTc \/ Exit \/ InitTc \/ UNCHANGED vars
  PROVE  RestOK'
  <1>1. CASE Tick
    <2>1. Expired \in SUBSET Blocks /\ IsFiniteSet(Expired)
      BY FS_Subset, BindingAssumption DEF Expired, Bound
    <2>2. SetToSeq(Expired) \in Seq(Blocks)
      BY <2>1, Listed
    <2>3. async' \in Seq(Blocks)
      BY <1>1, <2>2 DEF Tick, RestOK
    <2>4. late' \in [Threads -> BOOLEAN]
      BY <1>1 DEF Tick
    <2>. QED
      BY <1>1, <2>3, <2>4 DEF Tick, RestOK, life
  <1>2. CASE RecvAsync
    <2>1. Tail(async) \in Seq(Blocks)
      <3>1. async \in Seq(Blocks) /\ async # <<>>
        BY <1>2 DEF RecvAsync, RestOK
      <3>. QED
        BY <3>1, HeadTailProperties
    <2>. QED
      BY <1>2, <2>1 DEF RecvAsync, HandlAsyncMessage, RestOK, life
  <1>3. CASE Crash \/ Exit
    <2>1. <<>> \in Seq(Blocks)
      OBVIOUS
    <2>. QED
      BY <1>3, <2>1 DEF Crash, Exit, ProcessGone, RestOK
  <1>4. CASE UnInitTc
    BY <1>4 DEF UnInitTc, RestOK, user
  <1>5. CASE InitTc
    BY <1>5 DEF InitTc, RestOK, user
  <1>6. CASE UNCHANGED vars
    BY <1>6 DEF vars, RestOK, user, life
  <1>. QED
    BY <1>1, <1>2, <1>3, <1>4, <1>5, <1>6

LEMMA RestStep ==
  ASSUME BindingInv, RestOK, [BindingNext]_vars
  PROVE  RestOK'
  <1>1. ASSUME NEW t \in Threads, NEW c \in Clients,
               \/ SendDetect(t, c) \/ SendDelete(t, c)
               \/ \E b \in Blocks, l \in Lives : StaticDetect(t, c, b, l)
        PROVE  RestOK'
    BY <1>1, RestTakeUp DEF SendDetect, SendDelete, StaticDetect
  <1>. QED
    BY <1>1, RestServe, RestSystem DEF BindingNext, ServeStep, OperatorStep, Threads

LEMMA RestStart ==
  ASSUME Init
  PROVE  RestOK
  <1>1. <<>> \in Seq(Blocks)
    OBVIOUS
  <1>. QED
    BY <1>1 DEF Init, RestOK

(* Every variable of the binding keeps its type.                           *)
THEOREM BindingTypeCorrect == BindingSpec => []BindingTypeOK
  <1>1. Init => BindingInv /\ RestOK
    BY BindingStart, RestStart
  <1>2. BindingInv /\ RestOK /\ [BindingNext]_vars => (BindingInv /\ RestOK)'
    BY BindingStep, RestStep
  <1>. QED
    BY <1>1, <1>2, TypesSplit, PTL DEF BindingSpec

-----------------------------------------------------------------------------
(* What the calls of the table do to the blocks in use and their lifetimes.*)
LEMMA BoundDetect ==
  ASSUME TableInv, NEW c \in Clients, Detect(c)
  PROVE  /\ Bound' = Bound
         /\ \A b \in Bound : v4'[b] = v4[b] \/ v4'[b].left = SuccessLife
         /\ v6[c] # None => v4'[v6[c]].left = SuccessLife
         /\ v6' = v6
  <1>. USE DEF TableInv, TableTypeOK, NoDanglingEntry
  <1>1. CASE v6[c] = None
    BY <1>1 DEF Detect, Bound
  <1>2. CASE v6[c] # None
    <2>1. v6[c] \in Blocks /\ v4[v6[c]] \in Tunnel
      BY <1>2
    <2>2. [v4[v6[c]] EXCEPT !.left = SuccessLife] \in Tunnel
      BY <2>1, TableAssumption DEF Tunnel, Lifetimes
    <2>3. [v4[v6[c]] EXCEPT !.left = SuccessLife].left = SuccessLife
      BY <2>1 DEF Tunnel
    <2>4. v4' = [v4 EXCEPT ![v6[c]] = [v4[v6[c]] EXCEPT !.left = SuccessLife]] /\ v6' = v6
      BY <1>2 DEF Detect
    <2>5. [v4[v6[c]] EXCEPT !.left = SuccessLife] # None /\ v4[v6[c]] # None
      BY <2>1, <2>2, TunnelIsEntry
    <2>. QED
      BY <1>2, <2>1, <2>3, <2>4, <2>5 DEF Bound
  <1>. QED
    BY <1>1, <1>2

LEMMA BoundDelete ==
  ASSUME TableInv, NEW c \in Clients, DeleteTunnel(c)
  PROVE  /\ v6[c] \in Bound /\ Bound' = Bound \ {v6[c]}
         /\ \A b \in Bound' : v4'[b] = v4[b]
         /\ v6' = [v6 EXCEPT ![c] = None]
  BY DEF TableInv, TableTypeOK, NoDanglingEntry, DeleteTunnel, DeleteElement, Bound

LEMMA BoundCreate ==
  ASSUME TableInv, NEW c \in Clients, NEW b \in Blocks, NEW l \in Lifetimes,
         CreateTunnel(c, b, l)
  PROVE  /\ b \notin Bound /\ Bound' = Bound \cup {b}
         /\ v4'[b].left = l
         /\ \A a \in Bound : v4'[a] = v4[a]
  <1>1. [client |-> c, left |-> l] \in Tunnel
    BY TableAssumption DEF Tunnel, Lifetimes
  <1>2. [client |-> c, left |-> l] # None
    BY <1>1, TunnelIsEntry
  <1>3. v4[b] = None /\ v4' = [v4 EXCEPT ![b] = [client |-> c, left |-> l]]
    BY DEF CreateTunnel, InsertElement
  <1>. QED
    BY <1>2, <1>3 DEF TableInv, TableTypeOK, Bound

LEMMA BoundTimeOut ==
  ASSUME TableInv, TunnelTimeOut
  PROVE  /\ Bound' = Bound \ Expired
         /\ \A b \in Bound' : v4'[b].left = LeftAfter(b)
  <1>. USE DEF TableInv, TableTypeOK
  <1>1. ASSUME NEW b \in Bound \ Expired
        PROVE  v4'[b] # None /\ v4'[b].left = LeftAfter(b)
    <2>1. b \in Blocks /\ v4[b] # None /\ v4[b] \in Tunnel
      BY DEF Bound
    <2>2. v4'[b] = [v4[b] EXCEPT !.left = LeftAfter(b)]
      BY <2>1 DEF TunnelTimeOut
    <2>3. v4'[b] \in Tunnel
      BY <2>1, <2>2, LeftIsLife
    <2>. QED
      BY <2>1, <2>2, <2>3, TunnelIsEntry DEF Tunnel
  <1>2. \A b \in Blocks : b \notin Bound \ Expired => v4'[b] = None
    BY DEF TunnelTimeOut, Bound
  <1>. QED
    BY <1>1, <1>2 DEF Bound

LEMMA BoundDestroy ==
  ASSUME DestroyStorage
  PROVE  Bound' = {}
  BY DEF DestroyStorage, Bound

(* A client keeps its tunnel as it is when another one is detected, bound  *)
(* or deleted.                                                             *)
LEMMA OthersTunnel ==
  ASSUME TableInv, NEW c \in Clients, NEW d \in Clients, c # d, v6[d] # None,
         \/ Detect(c) \/ DeleteTunnel(c)
         \/ \E b \in Blocks, l \in Lifetimes : CreateTunnel(c, b, l)
  PROVE  v6'[d] = v6[d] /\ v4'[v6[d]] = v4[v6[d]]
  <1>. USE DEF TableInv, TableTypeOK, NoDanglingEntry
  <1>1. v6[c] # None => v6[c] # v6[d]
    OBVIOUS
  <1>2. CASE Detect(c)
    BY <1>1, <1>2 DEF Detect
  <1>3. CASE DeleteTunnel(c)
    BY <1>1, <1>3 DEF DeleteTunnel, DeleteElement
  <1>4. ASSUME NEW b \in Blocks, NEW l \in Lifetimes, CreateTunnel(c, b, l)
        PROVE  v6'[d] = v6[d] /\ v4'[v6[d]] = v4[v6[d]]
    BY <1>4 DEF CreateTunnel, InsertElement
  <1>. QED
    BY <1>2, <1>3, <1>4

-----------------------------------------------------------------------------
(* What an action of thread t is: a request that begins, or one that goes  *)
(* on.                                                                     *)
Begins(t, c) ==
  \/ SendDetect(t, c) \/ SendDelete(t, c)
  \/ t \in Operators /\ \E b \in Blocks, l \in Lives : StaticDetect(t, c, b, l)

GoesOn(t) ==
  \/ AllocBlock(t) \/ TakeUpdate(t) \/ SendAlloc(t)
  \/ AllocRefused(t) \/ Answer(t) \/ HandleDelete(t)
  \/ t \in Operators /\ (StaticExists(t) \/ StaticAnswer(t))

SystemActs == Tick \/ RecvAsync \/ Crash \/ UnInitTc \/ Exit \/ InitTc \/ UNCHANGED vars

LEMMA ActionsAre ==
  ASSUME [BindingNext]_vars
  PROVE  \/ \E t \in Threads, c \in Clients : Begins(t, c)
         \/ \E t \in Threads : GoesOn(t)
         \/ SystemActs
  BY DEF BindingNext, ServeStep, OperatorStep, Threads, Begins, GoesOn, SystemActs

(* The phases of the daemon.  Dead it has neither books nor notices nor    *)
(* requests; the kernel module is shut exactly while the daemon is on its  *)
(* way out; and what is bound while it is shut is known as stray.          *)
PhasesOK ==
  /\ ~up => /\ ~exiting /\ pool = {} /\ async = <<>>
            /\ \A t \in Threads : pc[t] = "idle" /\ cli[t] = None
  /\ up => (exiting <=> tunState = 0)
  /\ (tunState = 0 /\ ~stray) => Bound = {}

LEMMA PhasesBegin ==
  ASSUME BindingInv, PhasesOK, NEW t \in Threads, NEW c \in Clients, Begins(t, c)
  PROVE  PhasesOK'
  <1>1. up /\ UNCHANGED life /\ (Detect(c) \/ DeleteTunnel(c) \/ DeleteRefused(c))
    BY DEF Begins, SendDetect, SendDelete, StaticDetect, TakeUp
  <1>2. Bound' \subseteq Bound
    BY <1>1, BoundDetect, BoundDelete DEF BindingInv, DeleteRefused, table, Bound
  <1>. QED
    BY <1>1, <1>2 DEF PhasesOK, life

LEMMA PhasesGoOn ==
  ASSUME BindingInv, PhasesOK, NEW t \in Threads, GoesOn(t)
  PROVE  PhasesOK'
  <1>1. up
    <2>1. pc[t] # "idle"
      BY DEF GoesOn, AllocBlock, TakeUpdate, SendAlloc, AllocRefused, Answer, HandleDelete,
             StaticExists, StaticAnswer
    <2>. QED
      BY <2>1 DEF PhasesOK
  <1>2. CASE SendAlloc(t)
    <2>1. UNCHANGED <<tunState, up, exiting>>
      BY <1>2 DEF SendAlloc
    <2>2. (tunState = 0 /\ ~stray') => ~stray /\ UNCHANGED table
      BY <1>2 DEF SendAlloc, CreateRefused
    <2>. QED
      BY <1>1, <2>1, <2>2 DEF PhasesOK, table, Bound
  <1>3. CASE ~SendAlloc(t)
    <2>1. UNCHANGED <<table, life>>
      BY <1>3 DEF GoesOn, AllocBlock, TakeUpdate, AllocRefused, Answer, HandleDelete,
                  StaticExists, StaticAnswer, Finish, Recycled
    <2>. QED
      BY <1>1, <2>1 DEF PhasesOK, table, life, Bound
  <1>. QED
    BY <1>2, <1>3

LEMMA PhasesSystem ==
  ASSUME RestOK, PhasesOK, SystemActs
  PROVE  PhasesOK'
  <1>1. CASE Tick
    BY <1>1 DEF Tick, PhasesOK, life
  <1>2. CASE RecvAsync
    BY <1>2 DEF RecvAsync, PhasesOK, life, table, Bound
  <1>3. CASE Crash \/ Exit
    BY <1>3 DEF Crash, Exit, ProcessGone, PhasesOK, table, Bound
  <1>4. CASE UnInitTc
    BY <1>4, BoundDestroy DEF UnInitTc, PhasesOK
  <1>5. CASE InitTc
    BY <1>5, BoundDestroy DEF InitTc, PhasesOK
  <1>6. CASE UNCHANGED vars
    BY <1>6 DEF vars, user, life, table, PhasesOK, Bound
  <1>. QED
    BY <1>1, <1>2, <1>3, <1>4, <1>5, <1>6 DEF SystemActs

-----------------------------------------------------------------------------
(* The rest is about a daemon as it is deployed without static tunnels: no *)
(* operator adds one, no client has two requests under way, the timer      *)
(* takes a quarter of a lifetime that has four of them, and the trees hold *)
(* all the blocks there are.                                               *)
Usual == /\ Retransmit = FALSE /\ Operators = {} /\ SuccessLife = 4 * Quarter
         /\ Cardinality(Blocks) <= MaxSize

(* Then the trees have room for a block that is not in them.               *)
LEMMA RoomLeft ==
  ASSUME TableInv, Usual, NEW b \in Blocks, v4[b] = None
  PROVE  ~Full(v4) /\ ~Full(v6)
  <1>. DEFINE Others == Blocks \ {b}
              Bs == {x \in DOMAIN v4 : v4[x] # None}
              Cs == {c \in DOMAIN v6 : v6[c] # None}
  <1>1. IsFiniteSet(Others) /\ Cardinality(Others) = Cardinality(Blocks) - 1 /\ Cardinality(Blocks) \in Nat
    BY BindingAssumption, FS_RemoveElement, FS_CardinalityType
  <1>2. Bs \in SUBSET Others
    BY DEF TableInv, TableTypeOK
  <1>3. Cardinality(Bs) <= Cardinality(Others) /\ Cardinality(Bs) \in Nat
    BY <1>1, <1>2, FS_Subset, FS_CardinalityType
  <1>4. [c \in Cs |-> v6[c]] \in Injection(Cs, Others)
    <2>1. Cs \subseteq Clients /\ \A c \in Cs : v6[c] \in Others /\ v4[v6[c]].client = c
      BY DEF TableInv, TableTypeOK, NoDanglingEntry
    <2>. HIDE DEF Cs, Others
    <2>. QED
      BY <2>1 DEF Injection, IsInjective
  <1>5. Cardinality(Cs) <= Cardinality(Others) /\ IsFiniteSet(Cs)
    BY <1>1, <1>4, FS_Injection
  <1>6. Cardinality(Cs) \in Nat
    BY <1>5, FS_CardinalityType
  <1>. HIDE DEF Others, Bs, Cs
  <1>7. MaxSize \in Nat /\ Cardinality(Blocks) <= MaxSize
    BY TableAssumption DEF Usual
  <1>8. Cardinality(Bs) # MaxSize /\ Cardinality(Cs) # MaxSize
    BY <1>1, <1>3, <1>5, <1>6, <1>7
  <1>. QED
    BY <1>8 DEF Full, Bs, Cs

Quarters == {Quarter, 2 * Quarter, 3 * Quarter, 4 * Quarter}

(* The client of thread t has the tunnel of t's configuration, and the     *)
(* timer has come by at most once since it was made or renewed.            *)
Has(t) ==
  /\ v6[cli[t]] # None
  /\ v6[cli[t]] = cfg[t].block
  /\ \/ v4[v6[cli[t]]].left = SuccessLife
     \/ late[t] /\ v4[v6[cli[t]]].left = 3 * Quarter

(* What a worker relies on between its steps.                              *)
WorkerOK(t) ==
  /\ pc[t] = "idle" => cli[t] = None
  /\ pc[t] \in {"detected", "config"} =>
       \/ reply[t] = "update" /\ Has(t)
       \/ reply[t] = "alloc_addr" /\ (pc[t] = "config" => cfg[t].left = SuccessLife)
  /\ pc[t] = "created" => Has(t)

WorkersOK == \A t \in Threads : WorkerOK(t)

(* Every lifetime is some quarters.                                        *)
LivesOK == stray \/ \A b \in Bound : v4[b].left \in Quarters

(* The books: nothing is in two of the parties, or twice in one, and the   *)
(* pool has marked what is in one of them.                                 *)
Noticed(b) == \E i \in 1 .. Len(async) : async[i] = b
Held(b)    == \E t \in Threads : Holds(t, b)

OneParty(b) ==
  /\ b \in pool <=> (b \in Bound \/ Noticed(b) \/ Held(b))
  /\ ~ (b \in Bound /\ Noticed(b))
  /\ ~ (b \in Bound /\ Held(b))
  /\ ~ (Noticed(b) /\ Held(b))

Books ==
  /\ \A i, j \in 1 .. Len(async) : async[i] = async[j] => i = j
  /\ \A t, u \in Threads, b \in Blocks : Holds(t, b) /\ Holds(u, b) => t = u
  /\ \A b \in Blocks : OneParty(b)

(* A block passes from one party to the next when thread t moves: from the *)
(* pool to t, from t to the table, from the table to t, or back to the     *)
(* pool.                                                                   *)
Passes(t, b) ==
  \/ /\ b \in pool' <=> b \in pool
     /\ b \in Bound' <=> b \in Bound
     /\ Holds(t, b)' <=> Holds(t, b)
  \/ b \notin pool /\ b \in pool' /\ b \notin Bound' /\ Holds(t, b)'
  \/ b \in pool' /\ Holds(t, b) /\ b \in Bound' /\ ~ Holds(t, b)'
  \/ b \in pool' /\ b \in Bound /\ b \notin Bound' /\ Holds(t, b)'
  \/ b \notin pool' /\ Holds(t, b) /\ b \notin Bound' /\ ~ Holds(t, b)'

LEMMA BooksPass ==
  ASSUME Books, NEW t \in Threads, UNCHANGED async,
         \A u \in Threads \ {t}, b \in Blocks : Holds(u, b)' <=> Holds(u, b),
         \A b \in Blocks : Passes(t, b)
  PROVE  Books'
  <1>1. ASSUME NEW b \in Blocks
        PROVE  /\ OneParty(b)'
               /\ Holds(t, b)' => \A u \in Threads \ {t} : ~ Holds(u, b)
    <2>1. OneParty(b) /\ Passes(t, b) /\ (Noticed(b)' <=> Noticed(b))
      BY DEF Books, Noticed
    <2>2. Held(b) <=> (Holds(t, b) \/ \E u \in Threads \ {t} : Holds(u, b))
      BY DEF Held
    <2>3. Held(b)' <=> (Holds(t, b)' \/ \E u \in Threads \ {t} : Holds(u, b))
      BY DEF Held
    <2>4. Holds(t, b) => ~ \E u \in Threads \ {t} : Holds(u, b)
      BY DEF Books
    <2>. QED
      BY <2>1, <2>2, <2>3, <2>4 DEF Passes, OneParty
  <1>2. ASSUME NEW u \in Threads, NEW v \in Threads, NEW b \in Blocks,
               Holds(u, b)', Holds(v, b)'
        PROVE  u = v
    <2>1. CASE u # t /\ v # t
      BY <1>2, <2>1 DEF Books
    <2>2. CASE u = t \/ v = t
      BY <1>1, <1>2, <2>2
    <2>. QED
      BY <2>1, <2>2
  <1>. QED
    BY <1>1, <1>2 DEF Books

-----------------------------------------------------------------------------
UsualInv ==
  /\ SingleInv /\ RestOK /\ PhasesOK /\ LivesOK /\ AnswerAgrees
  /\ Orderly => WorkersOK /\ Books

(* Thread u is as it was.                                                  *)
Same(u) ==
  /\ pc'[u] = pc[u] /\ cli'[u] = cli[u] /\ reply'[u] = reply[u]
  /\ cfg'[u] = cfg[u] /\ late'[u] = late[u]

LEMMA SameHolds ==
  ASSUME NEW u \in Threads, Same(u), NEW b
  PROVE  Holds(u, b)' <=> Holds(u, b)
  BY DEF Same, Holds

(* A worker that does nothing keeps what it relies on if its client keeps  *)
(* its tunnel.                                                             *)
LEMMA SameWorker ==
  ASSUME BindingInv, NEW u \in Threads, Same(u), WorkerOK(u),
         pc[u] # "idle" /\ v6[cli[u]] # None =>
           v6'[cli[u]] = v6[cli[u]] /\ v4'[v6[cli[u]]] = v4[v6[cli[u]]]
  PROVE  WorkerOK(u)'
  <1>1. Has(u) /\ pc[u] # "idle" => Has(u)'
    BY DEF Has, Same
  <1>. QED
    BY <1>1 DEF WorkerOK, Same

(* What the beginning of a request is, without operators.                  *)
LEMMA Beginning ==
  ASSUME SingleInv, RestOK, Usual, NEW t \in Threads, NEW c \in Clients, Begins(t, c)
  PROVE  /\ pc[t] = "idle" /\ \A u \in Threads : cli[u] # c
         /\ \A u \in Threads \ {t} : Same(u)
         /\ cli'[t] = c /\ cfg'[t].block = v6[c]
         /\ UNCHANGED <<pool, answer, async, life>>
         /\ \/ Detect(c) /\ pc'[t] = "detected" /\ reply'[t] = DetectReply(c)
            \/ DeleteTunnel(c) /\ pc'[t] = "deleted" /\ reply'[t] = "delete_node"
            \/ DeleteRefused(c) /\ pc'[t] = "deleted" /\ reply'[t] = "result1"
  <1>. USE DEF SingleInv, BindingInv, ThreadsOK, RestOK
  <1>1. SendDetect(t, c) \/ SendDelete(t, c)
    BY DEF Begins, Usual
  <1>2. TakeUp(t, c)
    BY <1>1 DEF SendDetect, SendDelete
  <1>3. [block |-> v6[c], left |-> 0].block = v6[c]
    OBVIOUS
  <1>4. pc[t] = "idle" /\ \A u \in Threads : cli[u] # c
    BY <1>2 DEF TakeUp, Usual
  <1>5. /\ \A u \in Threads \ {t} : cli'[u] = cli[u] /\ late'[u] = late[u]
        /\ cli'[t] = c
        /\ UNCHANGED <<pool, answer, async, life>>
    BY <1>2 DEF TakeUp
  <1>6. cfg' = [cfg EXCEPT ![t] = [block |-> v6[c], left |-> 0]]
    BY <1>1 DEF SendDetect, SendDelete
  <1>7. /\ \A u \in Threads \ {t} : cfg'[u] = cfg[u]
        /\ cfg'[t].block = v6[c]
    BY <1>3, <1>6
  <1>8. \A u \in Threads \ {t} : pc'[u] = pc[u] /\ reply'[u] = reply[u]
    BY <1>1 DEF SendDetect, SendDelete
  <1>9. \/ Detect(c) /\ pc'[t] = "detected" /\ reply'[t] = DetectReply(c)
        \/ DeleteTunnel(c) /\ pc'[t] = "deleted" /\ reply'[t] = "delete_node"
        \/ DeleteRefused(c) /\ pc'[t] = "deleted" /\ reply'[t] = "result1"
    BY <1>1 DEF SendDetect, SendDelete
  <1>. QED
    BY <1>4, <1>5, <1>7, <1>8, <1>9 DEF Same

(* A request that begins: the client's tunnel gets its lifetime back, or   *)
(* its block passes from the table to the thread.                          *)
LEMMA BooksBegin ==
  ASSUME UsualInv, Usual, NEW t \in Threads, NEW c \in Clients, Begins(t, c), Orderly
  PROVE  Books' /\ WorkersOK'
  <1>. DEFINE Facts ==
         /\ pc[t] = "idle" /\ \A u \in Threads : cli[u] # c
         /\ \A u \in Threads \ {t} : Same(u)
         /\ cli'[t] = c /\ cfg'[t].block = v6[c]
         /\ UNCHANGED <<pool, answer, async, life>>
         /\ \/ Detect(c) /\ pc'[t] = "detected" /\ reply'[t] = DetectReply(c)
            \/ DeleteTunnel(c) /\ pc'[t] = "deleted" /\ reply'[t] = "delete_node"
            \/ DeleteRefused(c) /\ pc'[t] = "deleted" /\ reply'[t] = "result1"
  <1>1. Facts
    BY Beginning DEF UsualInv
  <1>2. TableInv /\ BindingInv /\ Books /\ WorkersOK
    BY DEF UsualInv, SingleInv, BindingInv
  <1>3. Books'
    <2>1. \A b : ~ Holds(t, b)
      BY <1>1 DEF Holds
    <2>2. ASSUME NEW b \in Blocks
          PROVE  Passes(t, b)
      <3>1. CASE Detect(c) /\ pc'[t] = "detected"
        <4>1. Bound' = Bound /\ ~ Holds(t, b)'
          BY <1>2, <3>1, BoundDetect DEF Holds
        <4>. QED
          BY <1>1, <2>1, <4>1 DEF Passes
      <3>2. CASE DeleteTunnel(c) /\ pc'[t] = "deleted" /\ reply'[t] = "delete_node"
        <4>1. v6[c] \in Bound /\ Bound' = Bound \ {v6[c]}
          BY <1>2, <3>2, BoundDelete
        <4>2. Holds(t, b)' <=> b = v6[c]
          BY <1>1, <3>2 DEF Holds
        <4>3. b \in Bound => b \in pool
          BY <1>2 DEF Books, OneParty
        <4>. QED
          BY <1>1, <2>1, <4>1, <4>2, <4>3 DEF Passes
      <3>3. CASE DeleteRefused(c) /\ pc'[t] = "deleted" /\ reply'[t] = "result1"
        <4>1. Bound' = Bound /\ ~ Holds(t, b)'
          BY <3>3 DEF DeleteRefused, table, Bound, Holds
        <4>. QED
          BY <1>1, <2>1, <4>1 DEF Passes
      <3>. QED
        BY <1>1, <3>1, <3>2, <3>3
    <2>3. \A u \in Threads \ {t}, b \in Blocks : Holds(u, b)' <=> Holds(u, b)
      BY <1>1, SameHolds
    <2>. QED
      BY <1>1, <1>2, <2>2, <2>3, BooksPass
  <1>4. WorkersOK'
    <2>1. ASSUME NEW u \in Threads \ {t}
          PROVE  WorkerOK(u)'
      <3>1. pc[u] # "idle" => cli[u] \in Clients /\ cli[u] # c
        BY <1>1, <1>2 DEF BindingInv, ThreadsOK, Knows
      <3>2. ASSUME pc[u] # "idle", v6[cli[u]] # None
            PROVE  v6'[cli[u]] = v6[cli[u]] /\ v4'[v6[cli[u]]] = v4[v6[cli[u]]]
        BY <1>1, <1>2, <3>1, <3>2, OthersTunnel DEF DeleteRefused, table
      <3>. QED
        BY <1>1, <1>2, <3>2, SameWorker DEF WorkersOK
    <2>2. WorkerOK(t)'
      <3>1. CASE Detect(c) /\ pc'[t] = "detected" /\ reply'[t] = DetectReply(c)
        <4>1. CASE v6[c] = None
          BY <3>1, <4>1 DEF WorkerOK, DetectReply
        <4>2. CASE v6[c] # None
          <5>1. v6' = v6 /\ v4'[v6[c]].left = SuccessLife
            BY <1>2, <3>1, <4>2, BoundDetect
          <5>2. Has(t)'
            BY <1>1, <4>2, <5>1 DEF Has
          <5>. QED
            BY <3>1, <4>2, <5>2 DEF WorkerOK, DetectReply
        <4>. QED
          BY <4>1, <4>2
      <3>2. CASE pc'[t] = "deleted"
        BY <3>2 DEF WorkerOK
      <3>. QED
        BY <1>1, <3>1, <3>2
    <2>. QED
      BY <2>1, <2>2 DEF WorkersOK
  <1>. QED
    BY <1>3, <1>4

(* What a request that goes on leaves alone.                               *)
LEMMA GoingOn ==
  ASSUME SingleInv, RestOK, NEW t \in Threads, GoesOn(t)
  PROVE  /\ \A u \in Threads \ {t} : Same(u)
         /\ UNCHANGED <<late, async, tunState, up, exiting>>
         /\ pc[t] # "idle"
  <1>. USE DEF SingleInv, BindingInv, ThreadsOK, RestOK, Same
  <1>1. CASE AllocBlock(t)
    BY <1>1 DEF AllocBlock, life
  <1>2. CASE TakeUpdate(t)
    BY <1>2 DEF TakeUpdate, life
  <1>3. CASE SendAlloc(t)
    <2>1. pc' = [pc EXCEPT ![t] = "created"] /\ UNCHANGED <<cli, cfg, late>>
      BY <1>3 DEF SendAlloc
    <2>2. \E r : reply' = [reply EXCEPT ![t] = r]
      BY <1>3 DEF SendAlloc
    <2>3. UNCHANGED <<late, async, tunState, up, exiting>> /\ pc[t] # "idle"
      BY <1>3 DEF SendAlloc
    <2>. QED
      BY <2>1, <2>2, <2>3
  <1>4. CASE AllocRefused(t) \/ Answer(t) \/ HandleDelete(t) \/ StaticExists(t) \/ StaticAnswer(t)
    <2>1. Finish(t) /\ pc[t] # "idle"
      BY <1>4 DEF AllocRefused, Answer, HandleDelete, StaticExists, StaticAnswer
    <2>. QED
      BY <2>1 DEF Finish, life
  <1>. QED
    BY <1>1, <1>2, <1>3, <1>4 DEF GoesOn

(* The thread's own step: how a block passes, and what it relies on next.  *)
LEMMA OwnAlloc ==
  ASSUME UsualInv, Usual, NEW t \in Threads, AllocBlock(t), Orderly
  PROVE  WorkerOK(t)' /\ \A b \in Blocks : Passes(t, b)
  <1>. USE DEF UsualInv, SingleInv, BindingInv, ThreadsOK
  <1>1. PICK b0 \in Blocks \ pool :
          /\ pool' = pool \cup {b0}
          /\ cfg' = [cfg EXCEPT ![t] = [block |-> b0, left |-> SuccessLife]]
    BY DEF AllocBlock
  <1>2. cfg'[t].block = b0 /\ cfg'[t].left = SuccessLife
    BY <1>1
  <1>3. /\ pc[t] = "detected" /\ pc'[t] = "config" /\ reply[t] = "alloc_addr"
        /\ reply'[t] = "alloc_addr" /\ Bound' = Bound
    BY DEF AllocBlock, table, Bound
  <1>4. t \in Workers
    BY DEF Usual, Threads
  <1>5. ASSUME NEW b \in Blocks
        PROVE  Passes(t, b)
    <2>1. ~ Holds(t, b) /\ (Holds(t, b)' <=> b = b0)
      BY <1>2, <1>3, <1>4 DEF Holds
    <2>2. b0 \notin Bound
      BY DEF Books, OneParty
    <2>. QED
      BY <1>1, <1>3, <2>1, <2>2 DEF Passes
  <1>. QED
    BY <1>2, <1>3, <1>5 DEF WorkerOK

(* NETLINK_ALLOC_ADDR makes the tunnel of a block from the pool and is     *)
(* refused after an update, whose tunnel is still there: in both cases the *)
(* client has the block of the configuration.                              *)
LEMMA OwnSend ==
  ASSUME UsualInv, Usual, NEW t \in Threads, SendAlloc(t), Orderly
  PROVE  WorkerOK(t)' /\ \A b \in Blocks : Passes(t, b)
  <1>. DEFINE b0 == cfg[t].block
              c == cli[t]
  <1>1. TableInv /\ WorkersOK /\ Books /\ Expects(t) /\ ThreadsOK /\ Knows(pc[t], c, reply[t], cfg[t])
    BY DEF UsualInv, SingleInv, BindingInv, Expected, ThreadsOK
  <1>2. /\ pc[t] = "config" /\ pc'[t] = "created"
        /\ UNCHANGED <<pool, cli, cfg, late>>
        /\ reply'[t] # "delete_node"
        /\ CreateTunnel(c, b0, cfg[t].left) \/ CreateRefused(b0)
    BY <1>1 DEF SendAlloc, ThreadsOK
  <1>3. c \in Clients /\ b0 \in Blocks /\ cfg[t].left \in Lifetimes
    BY <1>1, <1>2 DEF Knows, ThreadsOK, Config
  <1>4. \A b \in Blocks : ~ Holds(t, b)'
    BY <1>2 DEF Holds
  <1>5. CASE reply[t] = "update" /\ Has(t)
    <2>1. v4[b0] # None
      BY <1>1, <1>3, <1>5 DEF Has, TableInv, NoDanglingEntry
    <2>2. UNCHANGED table
      BY <1>2, <2>1 DEF CreateTunnel, CreateRefused
    <2>3. Has(t)'
      BY <1>2, <1>5, <2>2 DEF Has, table
    <2>4. \A b \in Blocks : ~ Holds(t, b)
      BY <1>2, <1>5 DEF Holds
    <2>5. Bound' = Bound
      BY <2>2 DEF table, Bound
    <2>. QED
      BY <1>2, <1>4, <2>3, <2>4, <2>5 DEF WorkerOK, Passes
  <1>6. CASE reply[t] = "alloc_addr" /\ cfg[t].left = SuccessLife
    <2>1. t \in Workers
      BY DEF Usual, Threads
    <2>2. \A b : Holds(t, b) <=> b = b0
      BY <1>2, <1>6, <2>1 DEF Holds
    <2>3. b0 \notin Bound /\ b0 \in pool
      BY <1>1, <1>3, <2>2 DEF Books, OneParty, Held
    <2>4. CreateTunnel(c, b0, cfg[t].left)
      <3>1. v4[b0] = None
        BY <1>3, <2>3 DEF Bound
      <3>. QED
        BY <1>1, <1>2, <1>3, <3>1, RoomLeft DEF CreateRefused
    <2>5. v6[c] = None
      BY <1>1, <1>2, <1>6 DEF Expects
    <2>6. v6'[c] = b0
      BY <1>1, <1>3, <2>4, <2>5 DEF CreateTunnel, InsertElement, TableInv, TableTypeOK
    <2>7. Bound' = Bound \cup {b0} /\ v4'[b0].left = SuccessLife
      BY <1>1, <1>3, <1>6, <2>4, BoundCreate
    <2>8. Has(t)'
      BY <1>2, <1>3, <2>6, <2>7, TableAssumption DEF Has
    <2>9. ASSUME NEW b \in Blocks
          PROVE  Passes(t, b)
      BY <1>2, <1>4, <2>2, <2>3, <2>7 DEF Passes
    <2>. QED
      BY <1>2, <2>8, <2>9 DEF WorkerOK
  <1>. QED
    BY <1>1, <1>2, <1>5, <1>6 DEF WorkersOK, WorkerOK

(* The end of a request: only HandleDelete gives a block back.             *)
LEMMA OwnEnd ==
  ASSUME UsualInv, Usual, NEW t \in Threads, Orderly,
         AllocRefused(t) \/ Answer(t) \/ HandleDelete(t) \/ StaticExists(t) \/ StaticAnswer(t)
  PROVE  WorkerOK(t)' /\ \A b \in Blocks : Passes(t, b)
  <1>1. pc'[t] = "idle" /\ cli'[t] = None /\ Bound' = Bound
    BY DEF UsualInv, SingleInv, BindingInv, ThreadsOK, AllocRefused, Answer, HandleDelete,
           StaticExists, StaticAnswer, Finish, table, Bound
  <1>2. ASSUME NEW b \in Blocks
        PROVE  Passes(t, b)
    <2>1. ~ Holds(t, b)'
      BY <1>1 DEF Holds
    <2>2. CASE HandleDelete(t)
      <3>1. pool' = IF reply[t] = "delete_node" THEN pool \ {cfg[t].block} ELSE pool
        BY <2>2 DEF HandleDelete, Recycled
      <3>2. Holds(t, b) <=> (reply[t] = "delete_node" /\ cfg[t].block = b)
        BY <2>2 DEF HandleDelete, Holds
      <3>3. Holds(t, b) => b \notin Bound
        BY DEF UsualInv, Books, OneParty, Held
      <3>. QED
        BY <1>1, <2>1, <3>1, <3>2, <3>3 DEF Passes
    <2>3. CASE AllocRefused(t) \/ Answer(t) \/ StaticExists(t) \/ StaticAnswer(t)
      <3>1. pc[t] \in {"detected", "created", "exists"} /\ pool' = pool
        BY <2>3 DEF AllocRefused, Answer, StaticExists, StaticAnswer
      <3>2. ~ Holds(t, b)
        BY <3>1 DEF Holds
      <3>. QED
        BY <1>1, <2>1, <3>1, <3>2 DEF Passes
    <2>. QED
      BY <2>2, <2>3
  <1>. QED
    BY <1>1, <1>2 DEF WorkerOK

LEMMA OwnUpdate ==
  ASSUME UsualInv, NEW t \in Threads, Orderly, TakeUpdate(t)
  PROVE  WorkerOK(t)' /\ \A b \in Blocks : Passes(t, b)
  <1>1. /\ pc[t] = "detected" /\ pc'[t] = "config" /\ reply[t] = "update" /\ reply'[t] = "update"
        /\ UNCHANGED <<table, pool, cli, cfg, late>>
    BY DEF UsualInv, SingleInv, BindingInv, ThreadsOK, TakeUpdate
  <1>2. Has(t)'
    BY <1>1 DEF UsualInv, WorkersOK, WorkerOK, Has, table
  <1>. QED
    BY <1>1, <1>2 DEF WorkerOK, Passes, Holds, table, Bound

LEMMA BooksGoOn ==
  ASSUME UsualInv, Usual, NEW t \in Threads, GoesOn(t), Orderly
  PROVE  Books' /\ WorkersOK'
  <1>1. WorkerOK(t)' /\ \A b \in Blocks : Passes(t, b)
    BY OwnAlloc, OwnSend, OwnEnd, OwnUpdate DEF GoesOn
  <1>2. \A u \in Threads \ {t} : Same(u)
    BY GoingOn DEF UsualInv
  <1>3. Books'
    <2>1. UNCHANGED async /\ Books
      BY GoingOn DEF UsualInv
    <2>2. \A u \in Threads \ {t}, b \in Blocks : Holds(u, b)' <=> Holds(u, b)
      BY <1>2, SameHolds
    <2>. QED
      BY <1>1, <2>1, <2>2, BooksPass
  <1>4. ASSUME NEW u \in Threads \ {t}
        PROVE  WorkerOK(u)'
    <2>1. pc[u] # "idle" => cli[u] \in Clients
      BY DEF UsualInv, SingleInv, BindingInv, ThreadsOK, Knows
    <2>2. ASSUME pc[u] # "idle", v6[cli[u]] # None
          PROVE  v6'[cli[u]] = v6[cli[u]] /\ v4'[v6[cli[u]]] = v4[v6[cli[u]]]
      <3>1. CASE SendAlloc(t)
        <4>1. /\ pc[t] = "config" /\ Knows(pc[t], cli[t], reply[t], cfg[t]) /\ cfg[t] \in Config
          BY <3>1 DEF SendAlloc, UsualInv, SingleInv, BindingInv, ThreadsOK
        <4>2. cli[t] \in Clients /\ cfg[t].block \in Blocks /\ cfg[t].left \in Lifetimes
          BY <4>1 DEF Knows, Config
        <4>3. cli[t] # cli[u]
          BY <2>1, <2>2, TableAssumption DEF UsualInv, SingleInv, ThreadsApart
        <4>. QED
          BY <2>1, <2>2, <3>1, <4>2, <4>3, OthersTunnel
             DEF SendAlloc, CreateRefused, table, UsualInv, SingleInv, BindingInv
      <3>2. CASE ~SendAlloc(t)
        BY <3>2 DEF GoesOn, AllocBlock, TakeUpdate, AllocRefused, Answer, HandleDelete,
                    StaticExists, StaticAnswer, Recycled, table
      <3>. QED
        BY <3>1, <3>2
    <2>3. BindingInv /\ WorkerOK(u)
      BY DEF UsualInv, SingleInv, WorkersOK
    <2>. QED
      BY <1>2, <2>2, <2>3, SameWorker
  <1>. QED
    BY <1>1, <1>3, <1>4 DEF WorkersOK

(* One pass of the timer takes a quarter; what was at its last goes.       *)
LEMMA OneQuarter ==
  ASSUME Usual, TableInv, NEW b \in Bound, v4[b].left \in Quarters
  PROVE  /\ LeftAfter(b) = v4[b].left - Quarter
         /\ b \in Expired <=> v4[b].left = Quarter
         /\ b \notin Expired => LeftAfter(b) \in Quarters
  <1>. DEFINE l == v4[b].left
  <1>1. /\ Quarter \in Nat \ {0} /\ LifeMod \in Nat \ {0} /\ 4 * Quarter < LifeMod
        /\ l \in {Quarter, 2 * Quarter, 3 * Quarter, 4 * Quarter}
    BY TableAssumption DEF Usual, Quarters
  <1>. HIDE DEF l
  <1>2. l - Quarter \in 0 .. LifeMod - 1 /\ l \in Nat
    BY <1>1
  <1>3. (l + LifeMod - Quarter) % LifeMod = l - Quarter
    <2>1. \A m \in Nat \ {0} : \A n \in 0 .. m - 1 : (n + m) % m = n
      OBVIOUS
    <2>2. ((l - Quarter) + LifeMod) % LifeMod = l - Quarter
      BY <1>1, <1>2, <2>1
    <2>3. l + LifeMod - Quarter = (l - Quarter) + LifeMod
      BY <1>1, <1>2
    <2>. QED
      BY <2>2, <2>3
  <1>4. LeftAfter(b) = l - Quarter
    BY <1>3 DEF LeftAfter, l
  <1>5. l - Quarter = 0 <=> l = Quarter
    BY <1>1, <1>2
  <1>6. l # Quarter => l - Quarter \in {Quarter, 2 * Quarter, 3 * Quarter, 4 * Quarter}
    BY <1>1
  <1>. QED
    BY <1>4, <1>5, <1>6 DEF Expired, Quarters, l

(* The timer: the tunnels of the requests under way survive its pass, and  *)
(* every block that expires passes from the table to one notice.           *)
LEMMA BooksTick ==
  ASSUME UsualInv, Usual, Tick, Orderly
  PROVE  Books' /\ WorkersOK'
  <1>1. TableInv /\ Books /\ WorkersOK /\ RestOK /\ BindingInv /\ OneTunnelPerClient
    BY DEF UsualInv, SingleInv, BindingInv
  <1>2. /\ TunnelTimeOut /\ async' = async \o SetToSeq(Expired)
        /\ \A t \in Threads : pc[t] # "idle" => ~ late[t]
        /\ late' = [t \in Threads |-> pc[t] # "idle"]
        /\ UNCHANGED <<pool, pc, cli, reply, cfg>>
    BY DEF Tick, Orderly
  <1>3. Bound' = Bound \ Expired /\ Expired \in SUBSET Bound /\ Bound \in SUBSET Blocks
    BY <1>1, <1>2, BoundTimeOut DEF Expired, Bound
  <1>4. /\ SetToSeq(Expired) \in Seq(Expired)
        /\ \A i, j \in 1 .. Len(SetToSeq(Expired)) :
             SetToSeq(Expired)[i] = SetToSeq(Expired)[j] => i = j
        /\ \A x \in Expired : \E i \in 1 .. Len(SetToSeq(Expired)) : SetToSeq(Expired)[i] = x
    <2>1. IsFiniteSet(Expired)
      BY <1>3, FS_Subset, BindingAssumption
    <2>. QED
      BY <2>1, Listed
  <1>5. /\ \A i, j \in 1 .. Len(async') : async'[i] = async'[j] => i = j
        /\ \A b \in Blocks : Noticed(b)' <=> (Noticed(b) \/ b \in Expired)
    <2>. DEFINE new == SetToSeq(Expired)
    <2>. HIDE DEF new
    <2>1. /\ new \in Seq(Expired) /\ async \in Seq(Blocks) /\ async' = async \o new
          /\ \A i, j \in 1 .. Len(new) : new[i] = new[j] => i = j
          /\ \A x \in Expired : \E i \in 1 .. Len(new) : new[i] = x
      BY <1>1, <1>2, <1>4 DEF new, RestOK
    <2>2. /\ Len(async) \in Nat /\ Len(new) \in Nat /\ Len(async') = Len(async) + Len(new)
          /\ \A i \in 1 .. Len(async) : async'[i] = async[i] /\ async[i] \in Blocks
          /\ \A i \in Len(async) + 1 .. Len(async) + Len(new) :
               async'[i] = new[i - Len(async)]
          /\ \A i \in 1 .. Len(new) : new[i] \in Expired
      BY <1>3, <2>1
    <2>3. \A i \in 1 .. Len(async) : async[i] \notin Expired
      BY <1>1, <1>3, <2>2 DEF Books, OneParty, Noticed
    <2>4. \A i \in 1 .. Len(async') :
            \/ i \in 1 .. Len(async) /\ async'[i] = async[i]
            \/ /\ i - Len(async) \in 1 .. Len(new)
               /\ async'[i] = new[i - Len(async)]
               /\ i \notin 1 .. Len(async)
      BY <2>2
    <2>5. ASSUME NEW i \in 1 .. Len(async'), NEW j \in 1 .. Len(async'), async'[i] = async'[j]
          PROVE  i = j
      <3>1. CASE i \in 1 .. Len(async) /\ j \in 1 .. Len(async)
        BY <1>1, <2>2, <2>5, <3>1 DEF Books
      <3>2. CASE i \notin 1 .. Len(async) /\ j \notin 1 .. Len(async)
        <4>1. new[i - Len(async)] = new[j - Len(async)]
          BY <2>4, <2>5, <3>2
        <4>2. i - Len(async) = j - Len(async)
          BY <2>1, <2>4, <3>2, <4>1
        <4>. QED
          BY <2>2, <4>2
      <3>3. CASE i \in 1 .. Len(async) /\ j \notin 1 .. Len(async)
        BY <2>2, <2>3, <2>4, <2>5, <3>3
      <3>4. CASE i \notin 1 .. Len(async) /\ j \in 1 .. Len(async)
        BY <2>2, <2>3, <2>4, <2>5, <3>4
      <3>. QED
        BY <3>1, <3>2, <3>3, <3>4
    <2>6. ASSUME NEW b \in Blocks
          PROVE  Noticed(b)' <=> (Noticed(b) \/ b \in Expired)
      <3>1. ASSUME Noticed(b)' PROVE Noticed(b) \/ b \in Expired
        BY <2>2, <2>4, <3>1 DEF Noticed
      <3>2. ASSUME Noticed(b) PROVE Noticed(b)'
        BY <2>2, <3>2 DEF Noticed
      <3>3. ASSUME b \in Expired PROVE Noticed(b)'
        <4>1. PICK k \in 1 .. Len(new) : new[k] = b
          BY <2>1, <3>3
        <4>2. k + Len(async) \in Len(async) + 1 .. Len(async) + Len(new)
              /\ (k + Len(async)) - Len(async) = k
          BY <2>2
        <4>3. async'[k + Len(async)] = b /\ k + Len(async) \in 1 .. Len(async')
          BY <2>2, <4>1, <4>2
        <4>. QED
          BY <4>3 DEF Noticed
      <3>. QED
        BY <3>1, <3>2, <3>3
    <2>. QED
      BY <2>5, <2>6
  <1>6. Books'
    <2>1. \A t \in Threads, b \in Blocks : Holds(t, b)' <=> Holds(t, b)
      BY <1>2 DEF Holds
    <2>2. ASSUME NEW b \in Blocks PROVE OneParty(b)'
      <3>1. OneParty(b) /\ (Held(b)' <=> Held(b)) /\ pool' = pool
        BY <1>1, <1>2, <2>1 DEF Books, Held
      <3>. QED
        BY <1>3, <1>5, <3>1 DEF OneParty
    <2>. QED
      BY <1>1, <1>5, <2>1, <2>2 DEF Books
  <1>7. ASSUME NEW t \in Threads
        PROVE  WorkerOK(t)'
    <2>1. ASSUME pc[t] # "idle", Has(t)
          PROVE  Has(t)'
      <3>1. cli[t] \in Clients /\ ~ late[t] /\ late'[t]
        BY <1>1, <1>2, <2>1 DEF BindingInv, ThreadsOK, Knows
      <3>2. v6[cli[t]] \in Bound /\ v4[v6[cli[t]]].left = SuccessLife
        BY <1>1, <2>1, <3>1 DEF Has, TableInv, TableTypeOK, NoDanglingEntry, Bound
      <3>3. /\ LeftAfter(v6[cli[t]]) = SuccessLife - Quarter
            /\ v6[cli[t]] \notin Expired
        <4>1. SuccessLife \in Quarters /\ SuccessLife # Quarter
          BY TableAssumption DEF Usual, Quarters
        <4>. QED
          BY <1>1, <3>2, <4>1, OneQuarter
      <3>4. v6'[cli[t]] = v6[cli[t]]
        <4>1. \A b \in Expired : v4[b].client # cli[t]
          BY <1>1, <1>3, <3>3 DEF OneTunnelPerClient
        <4>. QED
          BY <1>2, <3>1, <4>1 DEF TunnelTimeOut
      <3>5. v4'[v6[cli[t]]].left = 3 * Quarter
        <4>1. SuccessLife - Quarter = 3 * Quarter
          BY TableAssumption DEF Usual
        <4>. QED
          BY <1>1, <1>2, <1>3, <3>2, <3>3, <4>1, BoundTimeOut
      <3>. QED
        BY <1>2, <2>1, <3>1, <3>4, <3>5 DEF Has
    <2>2. WorkerOK(t)
      BY <1>1 DEF WorkersOK
    <2>. QED
      BY <1>2, <2>1, <2>2 DEF WorkerOK
  <1>. QED
    BY <1>6, <1>7 DEF WorkersOK

(* The reader of the notices gives the block of the first one back.        *)
LEMMA BooksNotice ==
  ASSUME UsualInv, RecvAsync, Orderly
  PROVE  Books' /\ WorkersOK'
  <1>1. /\ async \in Seq(Blocks) /\ async # <<>> /\ async' = Tail(async)
        /\ pool' = pool \ {Head(async)}
        /\ UNCHANGED <<table, pc, cli, reply, cfg, late>>
    BY DEF UsualInv, RestOK, RecvAsync, HandlAsyncMessage
  <1>2. /\ Len(async) \in Nat /\ Len(async) >= 1 /\ Head(async) = async[1]
        /\ Len(Tail(async)) = Len(async) - 1
        /\ \A k \in 1 .. Len(Tail(async)) : Tail(async)[k] = async[k + 1]
    BY <1>1, HeadTailProperties, EmptySeq
  <1>3. Books /\ WorkersOK
    BY DEF UsualInv
  <1>4. \A i, j \in 1 .. Len(async') : async'[i] = async'[j] => i = j
    <2>. SUFFICES ASSUME NEW i \in 1 .. Len(async'), NEW j \in 1 .. Len(async'),
                         async'[i] = async'[j]
                  PROVE  i = j
      OBVIOUS
    <2>1. i + 1 \in 1 .. Len(async) /\ j + 1 \in 1 .. Len(async) /\ async[i + 1] = async[j + 1]
      BY <1>1, <1>2
    <2>. QED
      BY <1>3, <2>1 DEF Books
  <1>5. ASSUME NEW b \in Blocks
        PROVE  Noticed(b)' <=> (Noticed(b) /\ b # Head(async))
    <2>1. ASSUME Noticed(b)' PROVE Noticed(b) /\ b # Head(async)
      <3>1. PICK k \in 1 .. Len(async') : async'[k] = b
        BY <2>1 DEF Noticed
      <3>2. k + 1 \in 1 .. Len(async) /\ async[k + 1] = b /\ k + 1 # 1 /\ 1 \in 1 .. Len(async)
        BY <1>1, <1>2, <3>1
      <3>. QED
        BY <1>2, <1>3, <3>2 DEF Noticed, Books
    <2>2. ASSUME Noticed(b), b # Head(async) PROVE Noticed(b)'
      <3>1. PICK k \in 1 .. Len(async) : async[k] = b
        BY <2>2 DEF Noticed
      <3>2. k - 1 \in 1 .. Len(async') /\ async'[k - 1] = async[(k - 1) + 1] /\ (k - 1) + 1 = k
        BY <1>1, <1>2, <2>2, <3>1
      <3>. QED
        BY <3>1, <3>2 DEF Noticed
    <2>. QED
      BY <2>1, <2>2
  <1>6. Bound' = Bound /\ \A t \in Threads, b \in Blocks : Holds(t, b)' <=> Holds(t, b)
    BY <1>1 DEF table, Bound, Holds
  <1>7. ASSUME NEW b \in Blocks PROVE OneParty(b)'
    <2>1. OneParty(b) /\ (Held(b)' <=> Held(b))
      BY <1>3, <1>6 DEF Books, Held
    <2>2. Noticed(Head(async))
      BY <1>2 DEF Noticed
    <2>. QED
      BY <1>1, <1>5, <1>6, <2>1, <2>2 DEF OneParty
  <1>8. WorkersOK'
    BY <1>1, <1>3 DEF WorkersOK, WorkerOK, Has, table
  <1>. QED
    BY <1>3, <1>4, <1>6, <1>7, <1>8 DEF Books

Fresh ==
  /\ pool = {} /\ async = <<>> /\ Bound = {}
  /\ \A t \in Threads : pc[t] = "idle" /\ cli[t] = None

(* The daemon starts with nothing in its books and an empty table.         *)
LEMMA EmptyBooks ==
  ASSUME Fresh
  PROVE  Books /\ WorkersOK
  <1>. USE DEF Fresh
  <1>1. \A t \in Threads, b \in Blocks : ~ Holds(t, b)
    BY DEF Holds
  <1>2. Len(async) = 0
    OBVIOUS
  <1>3. \A i \in 1 .. Len(async) : FALSE
    BY <1>2
  <1>4. Books
    BY <1>1, <1>3 DEF Books, OneParty, Noticed, Held
  <1>. QED
    BY <1>4 DEF WorkersOK, WorkerOK

LEMMA BooksStart ==
  ASSUME RestOK, PhasesOK, InitTc, ~ stray
  PROVE  Fresh'
  <1>1. ~ up /\ UNCHANGED user /\ async' = async
    BY DEF InitTc
  <1>2. Bound' = {}
    <2>1. CASE tunState = 1
      BY <2>1, BoundDestroy DEF InitTc
    <2>2. CASE tunState # 1
      <3>1. UNCHANGED table
        BY <2>2 DEF InitTc
      <3>2. Bound = {}
        BY <2>2 DEF PhasesOK, RestOK
      <3>. QED
        BY <2>2, <3>1, <3>2 DEF table, Bound
    <2>. QED
      BY <2>1, <2>2
  <1>. QED
    BY <1>1, <1>2 DEF user, PhasesOK, Fresh

-----------------------------------------------------------------------------
(* Orderly is the daemon's state between its start and its end: a step     *)
(* within it, or the start.                                                *)
LEMMA OrderlyStep ==
  ASSUME UsualInv, Usual, [BindingNext]_vars, Orderly'
  PROVE  Books' /\ WorkersOK'
  <1>1. ASSUME NEW t \in Threads, NEW c \in Clients, Begins(t, c)
        PROVE  Books' /\ WorkersOK'
    <2>1. Orderly
      BY <1>1, Beginning DEF UsualInv, Orderly, life
    <2>. QED
      BY <1>1, <2>1, BooksBegin
  <1>2. ASSUME NEW t \in Threads, GoesOn(t)
        PROVE  Books' /\ WorkersOK'
    <2>1. up /\ ~ exiting
      BY <1>2, GoingOn DEF UsualInv, Orderly
    <2>2. ~ stray
      <3>1. stray => stray'
        BY <1>2 DEF GoesOn, AllocBlock, TakeUpdate, SendAlloc, AllocRefused, Answer,
                    HandleDelete, StaticExists, StaticAnswer, Finish, life
      <3>. QED
        BY <3>1 DEF Orderly
    <2>3. Orderly
      BY <2>1, <2>2 DEF Orderly
    <2>. QED
      BY <1>2, <2>3, BooksGoOn
  <1>3. CASE Tick
    <2>1. Orderly
      BY <1>3 DEF Tick, Orderly, life
    <2>. QED
      BY <1>3, <2>1, BooksTick
  <1>4. CASE RecvAsync
    <2>1. Orderly
      BY <1>4 DEF RecvAsync, Orderly, life
    <2>. QED
      BY <1>4, <2>1, BooksNotice
  <1>5. CASE Crash \/ UnInitTc \/ Exit
    BY <1>5 DEF Crash, UnInitTc, Exit, ProcessGone, Orderly
  <1>6. CASE InitTc
    <2>1. ~ stray
      BY <1>6 DEF InitTc, Orderly
    <2>2. Fresh'
      BY <1>6, <2>1, BooksStart DEF UsualInv
    <2>3. Fresh'
            => (Books /\ WorkersOK)'
      BY EmptyBooks, PTL
    <2>. QED
      BY <2>2, <2>3
  <1>7. CASE UNCHANGED vars
    <2>1. UNCHANGED <<table, pool, pc, cli, reply, cfg, late, async, life>>
      BY <1>7 DEF vars, user
    <2>2. /\ Bound' = Bound
          /\ \A b : Noticed(b)' <=> Noticed(b)
          /\ \A t, b : Holds(t, b)' <=> Holds(t, b)
      BY <2>1 DEF table, Bound, Noticed, Holds
    <2>3. Books /\ WorkersOK
      BY <2>1 DEF UsualInv, Orderly, life
    <2>4. \A b : OneParty(b)' <=> OneParty(b)
      BY <2>1, <2>2 DEF OneParty, Held
    <2>5. Books'
      BY <2>1, <2>2, <2>3, <2>4 DEF Books
    <2>. QED
      BY <2>1, <2>3, <2>5 DEF WorkersOK, WorkerOK, Has, table
  <1>. QED
    BY <1>1, <1>2, <1>3, <1>4, <1>5, <1>6, <1>7, ActionsAre DEF SystemActs

-----------------------------------------------------------------------------
(* Lifetimes: made and renewed with four quarters, and a quarter less at   *)
(* each pass.                                                              *)
LEMMA LivesBegin ==
  ASSUME UsualInv, Usual, NEW t \in Threads, NEW c \in Clients, Begins(t, c)
  PROVE  LivesOK'
  <1>1. TableInv /\ stray' = stray /\ (Detect(c) \/ DeleteTunnel(c) \/ DeleteRefused(c))
    BY Beginning DEF UsualInv, SingleInv, BindingInv, life
  <1>2. SuccessLife \in Quarters
    BY DEF Usual, Quarters
  <1>3. CASE Detect(c)
    BY <1>1, <1>2, <1>3, BoundDetect DEF UsualInv, LivesOK
  <1>4. CASE DeleteTunnel(c)
    BY <1>1, <1>4, BoundDelete DEF UsualInv, LivesOK
  <1>5. CASE DeleteRefused(c)
    BY <1>1, <1>5 DEF UsualInv, LivesOK, DeleteRefused, table, Bound
  <1>. QED
    BY <1>1, <1>3, <1>4, <1>5

LEMMA LivesGoOn ==
  ASSUME UsualInv, Usual, NEW t \in Threads, GoesOn(t)
  PROVE  LivesOK'
  <1>1. TableInv /\ LivesOK
    BY DEF UsualInv, SingleInv, BindingInv
  <1>2. CASE SendAlloc(t) /\ ~ stray' /\ CreateTunnel(cli[t], cfg[t].block, cfg[t].left)
    <2>1. pc[t] = "config" /\ ThreadsOK /\ Knows(pc[t], cli[t], reply[t], cfg[t])
      BY <1>2 DEF SendAlloc, UsualInv, SingleInv, BindingInv, ThreadsOK
    <2>2. cli[t] \in Clients /\ cfg[t].block \in Blocks /\ cfg[t].left \in Lifetimes
      BY <2>1 DEF Knows, ThreadsOK, Config
    <2>3. v4[cfg[t].block] = None /\ ~Full(v4) /\ ~Full(v6)
      BY <1>2 DEF CreateTunnel
    <2>4. ~ stray /\ tunState # 0
      BY <1>2, <2>3 DEF SendAlloc, CreateRefused
    <2>5. Orderly
      BY <2>1, <2>4 DEF Orderly, UsualInv, PhasesOK
    <2>6. WorkerOK(t)
      BY <2>5 DEF UsualInv, WorkersOK
    <2>7. ~ Has(t)
      BY <1>1, <2>2, <2>3 DEF Has, TableInv, NoDanglingEntry
    <2>8. cfg[t].left \in Quarters
      BY <2>1, <2>6, <2>7 DEF WorkerOK, Usual, Quarters
    <2>9. /\ Bound' = Bound \cup {cfg[t].block}
          /\ v4'[cfg[t].block].left = cfg[t].left
          /\ \A a \in Bound : v4'[a] = v4[a]
      BY <1>1, <1>2, <2>2, BoundCreate
    <2>. QED
      BY <1>1, <2>4, <2>8, <2>9 DEF LivesOK
  <1>3. CASE stray'
    BY <1>3 DEF LivesOK
  <1>4. CASE ~ stray' /\ ~ (SendAlloc(t) /\ CreateTunnel(cli[t], cfg[t].block, cfg[t].left))
    <2>1. UNCHANGED table /\ ~ stray
      BY <1>4 DEF GoesOn, AllocBlock, TakeUpdate, SendAlloc, CreateRefused, AllocRefused, Answer,
                  HandleDelete, StaticExists, StaticAnswer, Finish, Recycled, life
    <2>. QED
      BY <1>1, <2>1 DEF LivesOK, table, Bound
  <1>. QED
    BY <1>2, <1>3, <1>4

LEMMA LivesSystem ==
  ASSUME UsualInv, Usual, SystemActs
  PROVE  LivesOK'
  <1>1. TableInv /\ LivesOK
    BY DEF UsualInv, SingleInv, BindingInv
  <1>2. stray' = stray
    BY DEF SystemActs, Tick, RecvAsync, Crash, UnInitTc, Exit, InitTc, ProcessGone, vars, life
  <1>3. CASE Tick
    <2>1. Bound' = Bound \ Expired /\ \A b \in Bound' : v4'[b].left = LeftAfter(b)
      BY <1>1, <1>3, BoundTimeOut DEF Tick
    <2>2. ASSUME NEW b \in Bound \ Expired, ~ stray
          PROVE  LeftAfter(b) \in Quarters
      BY <1>1, <2>2, OneQuarter DEF LivesOK
    <2>. QED
      BY <1>2, <2>1, <2>2 DEF LivesOK
  <1>4. CASE DestroyStorage
    BY <1>4, BoundDestroy DEF LivesOK
  <1>5. CASE UNCHANGED table
    BY <1>1, <1>2, <1>5 DEF LivesOK, table, Bound
  <1>. QED
    BY <1>3, <1>4, <1>5
       DEF SystemActs, RecvAsync, Crash, UnInitTc, Exit, InitTc, ProcessGone, vars, HandlAsyncMessage

LEMMA LivesHold ==
  ASSUME UsualInv, Usual
  PROVE  LifetimesHold
  BY TableAssumption DEF UsualInv, SingleInv, BindingInv, TableInv, TableTypeOK, LivesOK,
     Quarters, Usual, LifetimesHold, NoneOverdue, Bound

-----------------------------------------------------------------------------
(* What a client was told last, if nobody serves it.                       *)
Unserved(c) == \A t \in Threads : cli[t] # c

Agrees(c) == (v6[c] # None /\ answer[c] # None /\ Unserved(c)) => v6[c] = answer[c]

LEMMA AgreesIs == AnswerAgrees <=> (Orderly => \A c \in Clients : Agrees(c))
  BY DEF AnswerAgrees, Agrees, Unserved

(* A client that is not served keeps its tunnel or loses it.               *)
LEMMA StillAgrees ==
  ASSUME NEW c \in Clients, Agrees(c), Unserved(c),
         v6'[c] \in {v6[c], None}, answer'[c] = answer[c]
  PROVE  Agrees(c)'
  BY DEF Agrees

LEMMA AgreesBegin ==
  ASSUME UsualInv, Usual, NEW t \in Threads, NEW c0 \in Clients, Begins(t, c0), Orderly,
         NEW c \in Clients
  PROVE  Agrees(c)'
  <1>1. TableInv /\ WorkerOK(t) /\ Agrees(c)
    BY AgreesIs DEF UsualInv, SingleInv, BindingInv, WorkersOK
  <1>2. SingleInv /\ RestOK
    BY DEF UsualInv
  <1>3. /\ pc[t] = "idle" /\ \A u \in Threads \ {t} : Same(u)
        /\ cli'[t] = c0 /\ answer' = answer
        /\ Detect(c0) \/ DeleteTunnel(c0) \/ DeleteRefused(c0)
    BY <1>2, Beginning
  <1>4. CASE c = c0
    BY <1>3, <1>4 DEF Agrees, Unserved
  <1>5. CASE c # c0 /\ Unserved(c)
    <2>1. v6'[c] = v6[c]
      BY <1>1, <1>3, <1>5, BoundDetect, BoundDelete DEF DeleteRefused, table, TableInv, TableTypeOK
    <2>. QED
      BY <1>1, <1>3, <1>5, <2>1, StillAgrees
  <1>6. CASE c # c0 /\ ~ Unserved(c)
    <2>1. PICK u \in Threads : cli[u] = c
      BY <1>6 DEF Unserved
    <2>2. u # t
      BY <1>1, <1>3, <2>1, TableAssumption DEF WorkerOK
    <2>. QED
      BY <1>3, <2>1, <2>2 DEF Agrees, Unserved, Same
  <1>. QED
    BY <1>4, <1>5, <1>6

LEMMA AgreesGoOn ==
  ASSUME UsualInv, Usual, NEW t \in Threads, GoesOn(t), Orderly, NEW c \in Clients
  PROVE  Agrees(c)'
  <1>1. TableInv /\ WorkerOK(t) /\ Agrees(c) /\ ThreadsOK /\ RestOK
    BY AgreesIs DEF UsualInv, SingleInv, BindingInv, WorkersOK
  <1>2. /\ \A u \in Threads \ {t} : Same(u)
        /\ pc[t] # "idle"
    BY GoingOn DEF UsualInv
  <1>3. cli[t] \in Clients
    BY <1>1, <1>2 DEF ThreadsOK, Knows
  <1>4. CASE AllocBlock(t) \/ TakeUpdate(t) \/ SendAlloc(t)
    <2>1. cli' = cli /\ answer' = answer
      BY <1>4 DEF AllocBlock, TakeUpdate, SendAlloc
    <2>2. CASE Unserved(c)
      <3>1. v6'[c] = v6[c]
        BY <1>1, <1>3, <1>4, <2>2
           DEF AllocBlock, TakeUpdate, SendAlloc, CreateTunnel, CreateRefused, InsertElement, table,
               TableInv, TableTypeOK, Unserved
      <3>. QED
        BY <1>1, <2>1, <2>2, <3>1, StillAgrees
    <2>3. CASE ~ Unserved(c)
      BY <2>1, <2>3 DEF Agrees, Unserved
    <2>. QED
      BY <2>2, <2>3
  <1>5. CASE AllocRefused(t) \/ Answer(t) \/ HandleDelete(t)
    <2>1. v6' = v6
      BY <1>5 DEF AllocRefused, Answer, HandleDelete, table
    <2>2. CASE c = cli[t]
      <3>1. CASE AllocRefused(t) \/ HandleDelete(t)
        <4>1. answer'[c] = None
          BY <1>1, <2>2, <3>1 DEF AllocRefused, HandleDelete, RestOK
        <4>. QED
          BY <4>1 DEF Agrees
      <3>2. CASE Answer(t)
        <4>1. answer'[c] = cfg[t].block /\ pc[t] = "created"
          BY <1>1, <2>2, <3>2 DEF Answer, RestOK
        <4>2. v6[c] = cfg[t].block
          BY <1>1, <2>2, <4>1 DEF WorkerOK, Has
        <4>. QED
          BY <2>1, <4>1, <4>2 DEF Agrees
      <3>. QED
        BY <1>5, <3>1, <3>2
    <2>3. CASE c # cli[t]
      <3>1. answer'[c] = answer[c]
        BY <1>1, <1>3, <1>5, <2>3 DEF AllocRefused, Answer, HandleDelete, RestOK
      <3>2. CASE Unserved(c)
        BY <1>1, <2>1, <3>1, <3>2, StillAgrees
      <3>3. CASE ~ Unserved(c)
        BY <1>2, <2>3, <3>3 DEF Agrees, Unserved, Same
      <3>. QED
        BY <3>2, <3>3
    <2>. QED
      BY <2>2, <2>3
  <1>. QED
    BY <1>4, <1>5 DEF GoesOn, Usual

LEMMA AgreesStep ==
  ASSUME UsualInv, Usual, SingleInv', [BindingNext]_vars
  PROVE  AnswerAgrees'
  <1>. SUFFICES ASSUME Orderly', NEW c \in Clients
                PROVE  Agrees(c)'
    BY DEF AnswerAgrees, Agrees, Unserved
  <1>1. ASSUME NEW t \in Threads, NEW c0 \in Clients, Begins(t, c0)
        PROVE  Agrees(c)'
    <2>1. Orderly
      BY <1>1, Beginning DEF UsualInv, Orderly, life
    <2>. QED
      BY <1>1, <2>1, AgreesBegin
  <1>2. ASSUME NEW t \in Threads, GoesOn(t)
        PROVE  Agrees(c)'
    <2>1. up /\ ~ exiting
      BY <1>2, GoingOn DEF UsualInv, Orderly
    <2>2. stray => stray'
      BY <1>2 DEF GoesOn, AllocBlock, TakeUpdate, SendAlloc, AllocRefused, Answer,
                  HandleDelete, StaticExists, StaticAnswer, Finish, life
    <2>3. Orderly
      BY <2>1, <2>2 DEF Orderly
    <2>. QED
      BY <1>2, <2>3, AgreesGoOn
  <1>3. CASE Tick \/ RecvAsync \/ UNCHANGED vars
    <2>1. UNCHANGED <<life, cli, answer>>
      BY <1>3 DEF Tick, RecvAsync, vars, user
    <2>2. v6'[c] \in {v6[c], None}
      BY <1>3 DEF Tick, TunnelTimeOut, RecvAsync, vars, table
    <2>3. Agrees(c)
      BY <2>1, AgreesIs DEF UsualInv, Orderly, life
    <2>4. CASE Unserved(c)
      BY <2>1, <2>2, <2>3, <2>4, StillAgrees
    <2>5. CASE ~ Unserved(c)
      BY <2>1, <2>5 DEF Agrees, Unserved
    <2>. QED
      BY <2>4, <2>5
  <1>4. CASE Crash \/ UnInitTc \/ Exit
    BY <1>4 DEF Crash, UnInitTc, Exit, ProcessGone, Orderly
  <1>5. CASE InitTc
    <2>1. Bound' = {}
      BY <1>5, BooksStart DEF InitTc, Orderly, UsualInv, Fresh
    <2>2. v6'[c] # None => v6'[c] \in Bound'
      BY DEF SingleInv, BindingInv, TableInv, TableTypeOK, NoDanglingEntry, Bound
    <2>. QED
      BY <2>1, <2>2 DEF Agrees
  <1>. QED
    BY <1>1, <1>2, <1>3, <1>4, <1>5, ActionsAre DEF SystemActs

-----------------------------------------------------------------------------
(* The count of the parties, from who they are.                            *)
LEMMA PartiesOf ==
  ASSUME RestOK, Books, NEW b \in Blocks
  PROVE  Parties(b) = IF b \in pool THEN 1 ELSE 0
  <1>. DEFINE T == {t \in Threads : Holds(t, b)}
              I == {i \in DOMAIN async : async[i] = b}
  <1>1. OneParty(b) /\ async \in Seq(Blocks)
    BY DEF Books, RestOK
  <1>2. DOMAIN async = 1 .. Len(async)
    BY <1>1
  <1>3. Cardinality(T) = IF Held(b) THEN 1 ELSE 0
    <2>1. CASE ~ Held(b)
      <3>1. T = {}
        BY <2>1 DEF Held
      <3>. QED
        BY <2>1, <3>1, FS_EmptySet
    <2>2. ASSUME NEW t \in Threads, Holds(t, b) PROVE Cardinality(T) = 1
      <3>1. T = {t}
        BY <2>2 DEF Books
      <3>. QED
        BY <3>1, FS_Singleton
    <2>. QED
      BY <2>1, <2>2 DEF Held
  <1>4. Cardinality(I) = IF Noticed(b) THEN 1 ELSE 0
    <2>1. CASE ~ Noticed(b)
      <3>1. I = {}
        BY <1>2, <2>1 DEF Noticed
      <3>. QED
        BY <2>1, <3>1, FS_EmptySet
    <2>2. ASSUME NEW i \in 1 .. Len(async), async[i] = b PROVE Cardinality(I) = 1
      <3>1. I = {i}
        BY <1>2, <2>2 DEF Books
      <3>. QED
        BY <3>1, FS_Singleton
    <2>. QED
      BY <2>1, <2>2 DEF Noticed
  <1>5. v4[b] # None <=> b \in Bound
    BY DEF Bound
  <1>6. Parties(b) = (IF v4[b] # None THEN 1 ELSE 0) + Cardinality(T) + Cardinality(I)
    BY DEF Parties
  <1>. HIDE DEF T, I
  <1>. QED
    BY <1>1, <1>3, <1>4, <1>5, <1>6 DEF OneParty

LEMMA UsualStart ==
  ASSUME Init
  PROVE  UsualInv
  <1>1. Bound = {} /\ Fresh
    BY DEF Init, InitTable, Bound, Fresh
  <1>2. PhasesOK /\ LivesOK /\ AnswerAgrees
    BY <1>1 DEF Init, InitTable, PhasesOK, LivesOK, AnswerAgrees
  <1>. QED
    BY <1>1, <1>2, EmptyBooks, SingleStart, RestStart DEF UsualInv

LEMMA UsualStep ==
  ASSUME UsualInv, Usual, [BindingNext]_vars
  PROVE  UsualInv'
  <1>1. SingleInv' /\ RestOK'
    BY SingleStep, RestStep DEF UsualInv, Usual, SingleInv
  <1>2. PhasesOK'
    BY ActionsAre, PhasesBegin, PhasesGoOn, PhasesSystem DEF UsualInv, SingleInv
  <1>3. LivesOK'
    BY ActionsAre, LivesBegin, LivesGoOn, LivesSystem
  <1>4. AnswerAgrees'
    BY <1>1, AgreesStep
  <1>5. Orderly' => Books' /\ WorkersOK'
    BY OrderlyStep
  <1>. QED
    BY <1>1, <1>2, <1>3, <1>4, <1>5 DEF UsualInv

(* What every state of such a daemon and its kernel module satisfies.      *)
THEOREM UsualInvariant == ASSUME Usual PROVE BindingSpec => []UsualInv
  <1>1. Init => UsualInv
    BY UsualStart
  <1>2. UsualInv /\ [BindingNext]_vars => UsualInv'
    BY UsualStep
  <1>. QED
    BY <1>1, <1>2, PTL DEF BindingSpec

(* The pool has marked a block exactly when one party answers for it: its  *)
(* tunnel, a thread between the pool and the kernel, or one notice.        *)
THEOREM BooksAlwaysBalance == ASSUME Usual PROVE BindingSpec => []BooksBalance
  <1>1. UsualInv => BooksBalance
    BY PartiesOf DEF UsualInv, BooksBalance
  <1>. QED
    BY <1>1, UsualInvariant, PTL

(* A success answer is the truth when it is given, although the DETECT and *)
(* the ALLOC of a request are two calls with the timer between them.       *)
THEOREM AnswersAreBound == ASSUME Usual PROVE BindingSpec => []AnswerIsBound
  <1>1. UsualInv => AnswerIsBound
    <2>. SUFFICES ASSUME UsualInv, Orderly, NEW w \in Workers, pc[w] = "created"
                  PROVE  /\ v6[cli[w]] = cfg[w].block
                         /\ v4[cfg[w].block] # None
                         /\ v4[cfg[w].block].client = cli[w]
      BY DEF AnswerIsBound
    <2>1. w \in Threads /\ Has(w) /\ TableInv /\ ThreadsOK
      BY DEF UsualInv, WorkersOK, WorkerOK, Threads, SingleInv, BindingInv
    <2>2. cli[w] \in Clients
      BY <2>1 DEF ThreadsOK, Knows
    <2>. QED
      BY <2>1, <2>2 DEF Has, TableInv, NoDanglingEntry
  <1>. QED
    BY <1>1, UsualInvariant, PTL

(* A client with a tunnel was last told of that tunnel's block, or of an   *)
(* error.                                                                  *)
THEOREM AnswersStayTrue == ASSUME Usual PROVE BindingSpec => []AnswerAgrees
  BY UsualInvariant, PTL DEF UsualInv

(* No lifetime runs below zero, where an unsigned long would start over:   *)
(* a context ends with the pass that takes its last quarter.               *)
THEOREM LifetimesAlwaysHold == ASSUME Usual PROVE BindingSpec => []LifetimesHold
  <1>1. Usual /\ UsualInv => LifetimesHold
    BY LivesHold
  <1>. QED
    BY <1>1, UsualInvariant, PTL
=============================================================================

------------------------------ MODULE UserList ------------------------------
(***************************************************************************)
(* The list of the users as the operators see it.  An operator's client    *)
(* (tcstatedisplay) asks for the number of users, then for one page after  *)
(* the other.  On the first question a worker of the IPC server has the    *)
(* kernel module count and list its tunnels over NETLINK_USER, which fills *)
(* the globals UserPool and total_user; the pages are read from these.     *)
(* Meanwhile tunnels begin and end.                                        *)
(*                                                                         *)
(* The list is that of the tree of IPv4 keys, whose order the numbers of   *)
(* the users stand for.                                                    *)
(***************************************************************************)
EXTENDS NetlinkReply, FiniteSetsExt

CONSTANTS
  Operators,
  Users,      \* users who may have a tunnel, in the order of the list
  PAGE,       \* entries in a message (50)
  PoolSize,   \* of UserPool (500000)
  Tables,     \* who may have a tunnel at first
  MaxChanges, \* bound on the tunnels that begin or end
  MaxEvents   \* bound on these and the lists that are loaded, together

ASSUME ListAssumption ==
  /\ Users \subseteq Nat \ {0} /\ PAGE \in Nat \ {0}
  /\ Tables \subseteq SUBSET Users /\ Nobody \notin Operators
  /\ Rounds = 2
  /\ IsFiniteSet(Users) /\ PoolSize \in Nat /\ Cardinality(Users) <= PoolSize

VARIABLES
  table,    \* users with a tunnel
  changes,  \* how many have begun or ended
  page,     \* msg.user of the kernel module
  i,        \* the next entry of it to fill
  flag,     \* the next list starts at the first
  nelem,    \* the number of users told last
  trav,     \* a thread's traversal: [next |-> record to visit, stage]
  UserPool, recved, total_user,  \* the daemon's globals
  serves,   \* the operator a worker loads the list for
  nuser,    \* the number it has been told
  op,       \* the client of an operator: [pc, max, offset, seen]
  truth,    \* the list when its traversal began for an operator
  alone,    \* operators nobody else has asked since whose first question
  even      \* every list was that of the number told, and made undisturbed

statics == <<page, i, flag, nelem>>
kernel  == <<statics, trav>>
daemon  == <<UserPool, recved, total_user>>
served  == <<serves, nuser>>
list    == <<table, changes, kernel, daemon, served, op, truth, alone, even>>
uvars   == <<vars, list>>

(* Users in the order of the list: before the n-th there are n - 1.        *)
InOrder(S) == [n \in 1 .. Cardinality(S) |->
                 CHOOSE u \in S : Cardinality({v \in S : v < u}) = n - 1]

-----------------------------------------------------------------------------
(* Lists loaded and tunnels changed so far.                                *)
Events == MapThenSumSet(LAMBDA t : talks[t], Threads) + changes

(* The kernel module.  A traversal is taken from one unicast to the next:  *)
(* it holds no lock, so tunnels begin and end and other processors run the *)
(* handler between two pages.                                              *)

(* A traversal that has not begun: at the header of the list.              *)
Start == [next |-> 0, stage |-> "list"]

(* The records still to come.  The next one may have been freed since the  *)
(* last page: then the traversal reads freed memory, and they are any from *)
(* there on.                                                               *)
Rests(t) ==
  IF trav[t].stage # "list" THEN {{}}
  ELSE IF trav[t].next \in table \cup {0} THEN {{u \in table : u >= trav[t].next}}
  ELSE SUBSET {u \in Users : u >= trav[t].next}

(* Mistake: a list goes on where the one before has stopped.               *)
Fresh_never(n) == i

(* The static i of send_user_info: a new list starts at 0 if flag says so. *)
Fresh(n) == IF flag /\ n > 0 THEN 0 ELSE i

Page(n, entries) == [kind |-> "page", n |-> n, users |-> entries]

Result == [kind |-> "result"]

(* send_user_info of the first records of rest, as many as the page takes. *)
Room(rest) == PAGE - Fresh(Len(rest))

Filled(rest) ==
  LET from == Fresh(Len(rest))
  IN  [p \in 1 .. PAGE |->
         IF p > from /\ p - from <= Len(rest) THEN rest[p - from] ELSE page[p]]

(* What the messages say.                                                  *)
ListBodies ==
  [kind : {"page"}, n : Nat, users : [1 .. PAGE -> Nat]]
    \cup [kind : {"total"}, n : Nat] \cup [kind : {"result"}]

(* The truth is taken when a traversal begins.                             *)
Observed(t) ==
  IF trav[t] = Start
  THEN /\ truth' = [truth EXCEPT ![serves[t]] = InOrder(table)]
       /\ even' = (even /\ nelem = Cardinality(table))
  ELSE UNCHANGED <<truth, even>>

(* Mistake: the number of users is told as a page of none.                 *)
NumberToldAsPage(t) ==
  /\ pc[t] = "handled" /\ round[t] = 1
  /\ nelem' = Cardinality(table)
  /\ sock' = [sock EXCEPT ![pid] = Append(@, Message(t, Page(0, page)))]
  /\ pc' = [pc EXCEPT ![t] = "receive"]
  /\ UNCHANGED <<pid, round, got, talks, crossed>>
  /\ UNCHANGED <<table, changes, page, i, flag, trav, daemon, served, op, truth, alone, even>>

(* process_user_info, of a first request.                                  *)
NumberTold(t) ==
  /\ pc[t] = "handled" /\ round[t] = 1
  /\ nelem' = Cardinality(table)
  /\ send_nlmsg(t, [kind |-> "total", n |-> Cardinality(table)])
  /\ UNCHANGED <<table, changes, page, i, flag, trav, daemon, served, op, truth, alone, even>>

(* Of a second: BPTravUserInfo up to the next full page, which goes out.   *)
PageMade(t) ==
  /\ pc[t] = "handled" /\ round[t] = 2 /\ trav[t].stage # "end"
  /\ \E S \in Rests(t) :
       LET rest == InOrder(S)
           room == Room(rest)
       IN  /\ Len(rest) >= room
           /\ page' = Filled(rest) /\ i' = 0 /\ flag' = FALSE
           /\ trav' = [trav EXCEPT ![t] = IF Len(rest) > room
                                          THEN [next |-> rest[room + 1], stage |-> "list"]
                                          ELSE [next |-> 0, stage |-> "left"]]
           /\ send_nlmsg(t, Page(PAGE, Filled(rest)))
  /\ Observed(t)
  /\ UNCHANGED <<table, changes, nelem, daemon, served, op, alone>>

(* The list ends inside a page.  What is left of it, by the number told and*)
(* not by what is in the page, goes out, or else the result.               *)
ListMade(t) ==
  /\ pc[t] = "handled" /\ round[t] = 2 /\ trav[t].stage # "end"
  /\ \E S \in Rests(t) :
       LET rest == InOrder(S)
           left == nelem % PAGE
       IN  /\ Len(rest) < Room(rest)
           /\ page' = Filled(rest) /\ i' = Fresh(Len(rest)) + Len(rest)
           /\ flag' = (flag /\ rest = <<>>)
           /\ trav' = [trav EXCEPT ![t] = IF left > 0 THEN [next |-> 0, stage |-> "end"]
                                          ELSE Start]
           /\ send_nlmsg(t, IF left > 0 THEN Page(left, Filled(rest)) ELSE Result)
  /\ Observed(t)
  /\ UNCHANGED <<table, changes, nelem, daemon, served, op, alone>>

(* The result after what was left.                                         *)
ListEnds(t) ==
  /\ pc[t] = "handled" /\ round[t] = 2 /\ trav[t].stage = "end"
  /\ flag' = TRUE
  /\ trav' = [trav EXCEPT ![t] = Start]
  /\ send_nlmsg(t, Result)
  /\ UNCHANGED <<table, changes, page, i, nelem, daemon, served, op, truth, alone, even>>

process_user_info(t) == NumberTold(t) \/ PageMade(t) \/ ListMade(t) \/ ListEnds(t)

TunnelChanges ==
  /\ changes < MaxChanges /\ Events < MaxEvents
  /\ \E u \in Users : table' = IF u \in table THEN table \ {u} ELSE table \cup {u}
  /\ changes' = changes + 1
  /\ even' = (even /\ \A t \in Threads : trav[t] = Start)
  /\ UNCHANGED <<vars, kernel, daemon, served, op, truth, alone>>

-----------------------------------------------------------------------------
(* The daemon: ipc_msg_handle in a worker of the IPC server.               *)

(* A first question: the list is loaded (GetTcUserNumber, GetTcUserData).  *)
NumRequest(t, o) ==
  /\ op[o].pc = "num" /\ \A x \in Threads : serves[x] # o
  /\ Events < MaxEvents
  /\ InitNetLinkSocket(t)
  /\ serves' = [serves EXCEPT ![t] = o]
  /\ alone' = IF \E x \in Threads : serves[x] # Nobody THEN {} ELSE {o}
  /\ UNCHANGED <<table, changes, kernel, daemon, nuser, op, truth, even>>

AddUserInfoToPool(p) ==
  /\ UserPool' = [k \in 0 .. PoolSize - 1 |->
       IF k \in recved .. recved + p.n - 1 THEN p.users[k - recved + 1] ELSE UserPool[k]]
  /\ recved' = recved + p.n
  /\ UNCHANGED total_user

(* Of any message the second word: of a page it is zero, and a result has  *)
(* none, so that it is what the kernel's buffer held before.               *)
Totals(body) == CASE body.kind = "total" -> {body.n}
                  [] body.kind = "page" -> {0}
                  [] OTHER -> 0 .. PoolSize

GetTcUserNumber(t, body) ==
  /\ \E n \in Totals(body) : total_user' = n /\ nuser' = [nuser EXCEPT ![t] = n]
  /\ UNCHANGED <<UserPool, recved>>

(* ProcessNLMessage: a page is stored, a total is passed over.             *)
GetTcUserData(body) ==
  /\ IF body.kind = "page" THEN AddUserInfoToPool(body) ELSE UNCHANGED daemon
  /\ UNCHANGED nuser

(* The first answer is one message, of whatever kind; the second goes up to*)
(* a result.                                                               *)
Receives(t) ==
  /\ pc[t] = "receive" /\ sock[t] # <<>>
  /\ LET body == Head(sock[t]).body
     IN  \/ round[t] = 1 /\ RecvMessage(t, TRUE) /\ GetTcUserNumber(t, body)
         \/ round[t] = 2 /\ RecvMessage(t, body.kind = "result") /\ GetTcUserData(body)
  /\ UNCHANGED <<table, changes, kernel, serves, op, truth, alone, even>>

(* The answer goes to the client, if that still waits.                     *)
Answered(o, max, entries) ==
  op' = [op EXCEPT ![o] =
    LET offset == @.offset + Len(entries)
    IN  [pc |-> IF offset < max THEN "map" ELSE "done",
         max |-> max, offset |-> offset, seen |-> @.seen \o entries]]

NumAnswer(t) ==
  LET o == serves[t]
  IN  /\ CloseNetLinkSocket(t)
      /\ recved' = 0
      /\ serves' = [serves EXCEPT ![t] = Nobody]
      /\ IF o # Nobody /\ op[o].pc = "num" THEN Answered(o, nuser[t], <<>>) ELSE UNCHANGED op
      /\ UNCHANGED <<table, changes, kernel, UserPool, total_user, nuser, truth, alone, even>>

(* SendUserMapRsp: one page, by a worker that has nothing else to do.      *)
MapRequest(o) ==
  LET offset == op[o].offset
      left   == total_user - offset
      n      == IF left >= PAGE THEN PAGE ELSE left
  IN  /\ op[o].pc = "map" /\ offset <= total_user
      /\ \E t \in Threads : pc[t] = "closed"
      /\ Answered(o, op[o].max, [k \in 1 .. n |-> UserPool[offset + k - 1]])
      /\ UNCHANGED <<vars, table, changes, kernel, daemon, served, truth, alone, even>>

-----------------------------------------------------------------------------
(* The client: it asks, and ends without an answer after three seconds.    *)
Idle == [pc |-> "idle", max |-> 0, offset |-> 0, seen |-> <<>>]

Asks(o) ==
  /\ op[o].pc \in {"idle", "done"} /\ \A x \in Threads : serves[x] # o
  /\ op' = [op EXCEPT ![o] = [Idle EXCEPT !.pc = "num"]]
  /\ truth' = [truth EXCEPT ![o] = <<>>]
  /\ UNCHANGED <<vars, table, changes, kernel, daemon, served, alone, even>>

TimesOut(o) ==
  /\ op[o].pc \in {"num", "map"}
  /\ op' = [op EXCEPT ![o] = Idle]
  /\ UNCHANGED <<vars, table, changes, kernel, daemon, served, truth, alone, even>>

-----------------------------------------------------------------------------
Init ==
  /\ NetlinkInit
  /\ table \in Tables /\ changes = 0
  /\ page = [k \in 1 .. PAGE |-> 0] /\ i = 0 /\ flag = FALSE /\ nelem = 0
  /\ trav = [t \in Threads |-> Start]
  /\ UserPool = [k \in 0 .. PoolSize - 1 |-> 0] /\ recved = 0 /\ total_user = 0
  /\ serves = [t \in Threads |-> Nobody] /\ nuser = [t \in Threads |-> 0]
  /\ op = [o \in Operators |-> Idle]
  /\ truth = [o \in Operators |-> <<>>] /\ alone = {} /\ even = TRUE

Enters(t) ==
  /\ SendMessage(t)
  /\ even' = (even /\ InKernel = {})
  /\ UNCHANGED <<table, changes, kernel, daemon, served, op, truth, alone>>

Goes(t) == NextRound(t) /\ UNCHANGED list

Converse(t) ==
  Enters(t) \/ process_user_info(t) \/ Receives(t) \/ Goes(t) \/ NumAnswer(t)

Next ==
  \/ \E t \in Threads : Converse(t) \/ \E o \in Operators : NumRequest(t, o)
  \/ \E o \in Operators : MapRequest(o) \/ Asks(o) \/ TimesOut(o)
  \/ TunnelChanges

Spec == Init /\ [][Next]_uvars

(* A thread that can run does; it need not begin a conversation.  The      *)
(* kernel lets every thread in at some time.                               *)
FairSpec == Spec /\ \A t \in Threads : WF_uvars(Converse(t)) /\ SF_uvars(Enters(t))

-----------------------------------------------------------------------------
(* Properties.                                                             *)

(* What an operator has been shown at the end is the list as it was when   *)
(* the kernel module began to make it, each user once and in order, if no  *)
(* other operator asked meanwhile and every list so far was that of the    *)
(* number told, with nothing else in the handler and no tunnel beginning or*)
(* ending between its pages: pages (send_user_info), UserPool and the      *)
(* offsets of the client agree, whatever earlier lists have left in the    *)
(* statics and the globals.                                                *)
ListingRight ==
  \A o \in alone : (op[o].pc = "done" /\ even) => op[o].seen = truth[o]
=============================================================================

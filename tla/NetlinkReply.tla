----------------------------- MODULE NetlinkReply -----------------------------
(***************************************************************************)
(* The conversations of the daemon's threads with the kernel module over   *)
(* one of its protocols, NETLINK_TEST (tunnels) or NETLINK_USER (the user  *)
(* list).  A thread opens a socket of its own and sends a request;         *)
(* nl_data_ready, or tc_user_data_ready, runs in its sendmsg, stores the   *)
(* sender in the protocol's global, handles the request and unicasts what  *)
(* it answers, message by message, to whomever the global names by then;   *)
(* the thread receives with no timeout.  Nothing keeps another processor   *)
(* out of the handler meanwhile.  Source:                                  *)
(* TC/user_module/src/netlink_user.c and TC/kernel_module/src/netlink.c.   *)
(*                                                                         *)
(* What is said in the conversations is in TcBinding, which takes the order*)
(* of sending, handling and replying for granted, and in UserList.         *)
(***************************************************************************)
EXTENDS Naturals, Sequences, FiniteSets

CONSTANTS
  Threads,   \* threads of the daemon that talk to the kernel
  Cpus,      \* how many of them can be inside the kernel at once
  Rounds,    \* requests of a conversation: two for an allocation, two for a list
  MaxTalks,  \* bound on the conversations of a thread
  Nobody,    \* pid before the first request
  Bodies     \* what a message of an answer may say

ASSUME NetlinkAssumption ==
  /\ Nobody \notin Threads
  /\ Cpus \in Nat \ {0}
  /\ Rounds \in Nat \ {0}
  /\ MaxTalks \in Nat

VARIABLES
  pid,      \* the global pid, or user_info_pid, of netlink.c
  pc,       \* where each thread is
  round,    \* the request of its conversation it is at
  sock,     \* messages in its socket: [to |-> the request it answers, body]
  got,      \* what it received last: <<>> or <<a message>>
  talks,    \* conversations begun
  crossed   \* threads whose conversation met a request of another in the kernel

vars == <<pid, pc, round, sock, got, talks, crossed>>

Request(t) == <<t, talks[t], round[t]>>
InKernel   == {t \in Threads : pc[t] = "handled"}

NetlinkInit ==
  /\ pid = Nobody
  /\ pc = [t \in Threads |-> "closed"]
  /\ round = [t \in Threads |-> 1]
  /\ sock = [t \in Threads |-> <<>>]
  /\ got = [t \in Threads |-> <<>>]
  /\ talks = [t \in Threads |-> 0]
  /\ crossed = {}

\* A handler that was crossed may still send to whoever has this pid now.
InitNetLinkSocket(t) ==
  /\ pc[t] = "closed"
  /\ talks[t] < MaxTalks
  /\ talks' = [talks EXCEPT ![t] = @ + 1]
  /\ round' = [round EXCEPT ![t] = 1]
  /\ pc' = [pc EXCEPT ![t] = "send"]
  /\ crossed' = IF InKernel \cap crossed = {} THEN crossed \ {t} ELSE crossed \cup {t}
  /\ UNCHANGED <<pid, sock, got>>

\* Mistake: the first sender stays the receiver of every reply.
nl_data_ready_first(t) == pid' = IF pid = Nobody THEN t ELSE pid

\* The sender of the request is the receiver of the replies, from now on.
nl_data_ready(t) == pid' = t

\* SendMessage, as far as pid = nlh->nlmsg_pid.
SendMessage(t) ==
  /\ pc[t] = "send"
  /\ Cardinality(InKernel) < Cpus
  /\ nl_data_ready(t)
  /\ pc' = [pc EXCEPT ![t] = "handled"]
  /\ got' = [got EXCEPT ![t] = <<>>]
  /\ crossed' = IF InKernel = {} THEN crossed ELSE crossed \cup InKernel \cup {t}
  /\ UNCHANGED <<round, sock, talks>>

Message(t, body) == [to |-> Request(t), body |-> body]

\* A result or a total is all of an answer or the last of it.
Ends(body) == body.kind # "page"

\* Mistake: what ends an answer may be left out.
send_nlmsg_or_not(t, body) ==
  /\ pc[t] = "handled"
  /\ sock' \in {sock, [sock EXCEPT ![pid] = Append(@, Message(t, body))]}
  /\ pc' = IF Ends(body) THEN [pc EXCEPT ![t] = "receive"] ELSE pc
  /\ UNCHANGED <<pid, round, got, talks, crossed>>

\* send_nlmsg (send_tc_info_nlmsg): one message of an answer to whoever pid names
\* now, dropped when that thread has no socket any more; after the last of them
\* the return from sendmsg.
send_nlmsg(t, body) ==
  /\ pc[t] = "handled"
  /\ sock' = IF pc[pid] = "closed" THEN sock
             ELSE [sock EXCEPT ![pid] = Append(@, Message(t, body))]
  /\ pc' = IF Ends(body) THEN [pc EXCEPT ![t] = "receive"] ELSE pc
  /\ UNCHANGED <<pid, round, got, talks, crossed>>

\* Whether the thread goes on after this message is for its caller to say.
RecvMessage(t, done) ==
  /\ pc[t] = "receive"
  /\ sock[t] # <<>>
  /\ got' = [got EXCEPT ![t] = <<Head(sock[t])>>]
  /\ sock' = [sock EXCEPT ![t] = Tail(@)]
  /\ pc' = IF done THEN [pc EXCEPT ![t] = "received"] ELSE pc
  /\ UNCHANGED <<pid, round, talks, crossed>>

NextRound(t) ==
  /\ pc[t] = "received"
  /\ round[t] < Rounds
  /\ round' = [round EXCEPT ![t] = @ + 1]
  /\ got' = [got EXCEPT ![t] = <<>>]
  /\ pc' = [pc EXCEPT ![t] = "send"]
  /\ UNCHANGED <<pid, sock, talks, crossed>>

CloseNetLinkSocket(t) ==
  /\ pc[t] = "received"
  /\ round[t] = Rounds
  /\ sock' = [sock EXCEPT ![t] = <<>>]
  /\ got' = [got EXCEPT ![t] = <<>>]
  /\ pc' = [pc EXCEPT ![t] = "closed"]
  /\ UNCHANGED <<pid, round, talks, crossed>>

-----------------------------------------------------------------------------
\* The conversations, whatever is said in them.  A handler sends messages until
\* one is an answer's end, and a thread takes its own answer to that end; what a
\* message of somebody else's answer means to it is left open.
Replies(t) ==
  /\ pc[t] = "handled"
  /\ IF pc[pid] = "closed"
     THEN pc' \in {pc, [pc EXCEPT ![t] = "receive"]} /\ UNCHANGED <<sock, pid, round, got, talks, crossed>>
     ELSE LET body == sock'[pid][Len(sock'[pid])].body
          IN  Len(sock'[pid]) > 0 /\ body \in Bodies /\ send_nlmsg(t, body)

Receiving(t) ==
  \E done \in BOOLEAN :
    /\ RecvMessage(t, done)
    /\ Head(sock[t]).to = Request(t) => (done <=> Ends(Head(sock[t]).body))

Talk(t) ==
  \/ InitNetLinkSocket(t) \/ SendMessage(t) \/ Replies(t)
  \/ Receiving(t) \/ NextRound(t) \/ CloseNetLinkSocket(t)

TalkSpec == NetlinkInit /\ [][\E t \in Threads : Talk(t)]_vars

-----------------------------------------------------------------------------
Messages == [to : Threads \X Nat \X Nat, body : Bodies]

ReplyTypeOK ==
  /\ pid \in Threads \cup {Nobody}
  /\ pc \in [Threads -> {"closed", "send", "handled", "receive", "received"}]
  /\ round \in [Threads -> Nat]
  /\ talks \in [Threads -> Nat]
  /\ sock \in [Threads -> Seq(Messages)]
  /\ got \in [Threads -> Seq(Messages)]
  /\ crossed \in SUBSET Threads

\* "netlink pid for each thread" (InitNetLinkSocket): each thread takes for the
\* answer to its request only the answer to its request.  Two requests in the
\* kernel at once violate it, because netlink.c:427 has one pid for all of them.
ToEachThread == \A t \in Threads : got[t] # <<>> => got[t][1].to = Request(t)

\* The damage of two requests in the kernel at once stays with the threads that
\* met there, until their conversations end: any other thread, also one that
\* talks at the same time or afterwards, takes only the answers to its own
\* requests, although they all go by one global pid (nl_data_ready, send_nlmsg).
OwnReply ==
  \A t \in Threads \ crossed : got[t] # <<>> => got[t][1].to = Request(t)

\* Nor does such a thread wait in recvmsg for an answer that is not there: it has
\* no timeout.
AnswerIsThere == \A t \in Threads \ crossed : pc[t] = "receive" => sock[t] # <<>>

\* No thread stays in recvmsg for ever unless it met another in the kernel: every
\* other conversation ends.
TalksEnd == \A t \in Threads : (pc[t] = "send") ~> (pc[t] = "closed" \/ t \in crossed)
=============================================================================

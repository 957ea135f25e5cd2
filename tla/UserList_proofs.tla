--------------------------- MODULE UserList_proofs ---------------------------
(***************************************************************************)
(* Proofs about the conversations of the daemon with the kernel module:    *)
(* the single pid of a protocol mixes up only the answers of the threads   *)
(* that meet in the kernel, however many processors and threads there are  *)
(* and whatever they ask; the questions for the list of the users are such *)
(* conversations, page by page; and an operator whom nobody disturbs is    *)
(* shown the list as it was.                                               *)
(***************************************************************************)
EXTENDS UserList, FiniteSetTheorems, SequenceTheorems, TLAPS

-----------------------------------------------------------------------------
(***************************************************************************)
(* Conversations, whatever is said in them.                                *)
(***************************************************************************)
(* A handler that met no other is alone and pid names its caller; one that *)
(* was crossed sends to a thread that was, or to none.                     *)
PidIsCaller ==
  \A t \in Threads : pc[t] = "handled" =>
    /\ pid \in Threads
    /\ t \notin crossed => pid = t /\ \A u \in Threads : pc[u] = "handled" => u = t
    /\ t \in crossed => pid \in crossed \/ pc[pid] = "closed"

(* Who was not crossed has only its own answer in its socket, from when it *)
(* is being made until it is taken, and waits for no more than is there.   *)
SocketIsAnswer ==
  \A t \in Threads \ crossed :
    /\ \A k \in 1 .. Len(sock[t]) :
         /\ sock[t][k].to = Request(t)
         /\ Ends(sock[t][k].body) => k = Len(sock[t]) /\ pc[t] = "receive"
    /\ sock[t] # <<>> => pc[t] \in {"handled", "receive"}
    /\ pc[t] = "receive" => sock[t] # <<>> /\ Ends(sock[t][Len(sock[t])].body)

(* A conversation begins with a socket in which there is nothing.          *)
ClosedIsEmpty == \A t \in Threads : pc[t] = "closed" => sock[t] = <<>>

(* Nothing received is left from an earlier request.                       *)
GotIsNew == \A t \in Threads : pc[t] \in {"closed", "send", "handled"} => got[t] = <<>>

ReplyInv ==
  ReplyTypeOK /\ PidIsCaller /\ SocketIsAnswer /\ ClosedIsEmpty /\ GotIsNew /\ OwnReply

-----------------------------------------------------------------------------
LEMMA InitTalks ==
  ASSUME NetlinkInit
  PROVE  ReplyInv
  BY DEF NetlinkInit, ReplyInv, ReplyTypeOK, PidIsCaller, SocketIsAnswer, ClosedIsEmpty,
         GotIsNew, OwnReply

(* A conversation begins, with nothing in the socket.  Its thread counts as*)
(* crossed if a handler that was may still send to it.                     *)
LEMMA BeginStep ==
  ASSUME ReplyInv, NEW t \in Threads, InitNetLinkSocket(t)
  PROVE  ReplyInv'
  <1>0. ReplyTypeOK /\ PidIsCaller /\ SocketIsAnswer /\ ClosedIsEmpty /\ GotIsNew /\ OwnReply
    BY DEF ReplyInv
  <1>1. /\ pc[t] = "closed" /\ pc' = [pc EXCEPT ![t] = "send"]
        /\ talks' = [talks EXCEPT ![t] = @ + 1] /\ round' = [round EXCEPT ![t] = 1]
        /\ crossed' = IF InKernel \cap crossed = {} THEN crossed \ {t} ELSE crossed \cup {t}
        /\ UNCHANGED <<pid, sock, got>>
    BY DEF InitNetLinkSocket
  <1>2. ReplyTypeOK'
    BY <1>0, <1>1 DEF ReplyTypeOK
  <1>3. /\ \A u \in Threads : u # t => pc'[u] = pc[u] /\ (u \in crossed' <=> u \in crossed)
        /\ pc'[t] = "send"
    BY <1>0, <1>1 DEF ReplyTypeOK
  <1>4. ASSUME NEW u \in Threads, pc'[u] = "handled"
        PROVE  /\ pid \in Threads
               /\ u \notin crossed' => pid = u /\ \A x \in Threads : pc'[x] = "handled" => x = u
               /\ u \in crossed' => pid \in crossed' \/ pc'[pid] = "closed"
    <2>1. u # t /\ pc[u] = "handled"
      BY <1>3, <1>4
    <2>2. CASE u \notin crossed
      BY <1>0, <1>3, <2>1, <2>2 DEF PidIsCaller
    <2>3. CASE u \in crossed
      <3>1. u \in InKernel \cap crossed
        BY <2>1, <2>3 DEF InKernel
      <3>2. crossed' = crossed \cup {t}
        BY <1>1, <3>1
      <3>3. pid \in Threads /\ (pid \in crossed \/ pc[pid] = "closed")
        BY <1>0, <2>1, <2>3 DEF PidIsCaller
      <3>. QED
        BY <1>3, <2>3, <3>2, <3>3
    <2>. QED
      BY <2>2, <2>3
  <1>5. (PidIsCaller /\ ClosedIsEmpty /\ GotIsNew)'
    BY <1>0, <1>1, <1>3, <1>4 DEF PidIsCaller, ClosedIsEmpty, GotIsNew
  <1>6. \A u \in Threads : u # t => Request(u)' = Request(u)
    BY <1>0, <1>1 DEF ReplyTypeOK, Request
  <1>7. sock[t] = <<>> /\ got[t] = <<>>
    BY <1>0, <1>1 DEF ClosedIsEmpty, GotIsNew
  <1>8. ASSUME NEW u \in Threads \ crossed'
        PROVE  /\ \A k \in 1 .. Len(sock[u]) :
                    /\ sock[u][k].to = Request(u)'
                    /\ Ends(sock[u][k].body) => k = Len(sock[u]) /\ pc'[u] = "receive"
               /\ sock[u] # <<>> => pc'[u] \in {"handled", "receive"}
               /\ pc'[u] = "receive" => sock[u] # <<>> /\ Ends(sock[u][Len(sock[u])].body)
               /\ got[u] # <<>> => got[u][1].to = Request(u)'
    <2>1. CASE u = t
      BY <1>3, <1>7, <2>1
    <2>2. CASE u # t
      <3>1. u \in Threads \ crossed
        BY <1>3, <2>2
      <3>. QED
        BY <1>0, <1>3, <1>6, <2>2, <3>1 DEF SocketIsAnswer, OwnReply
    <2>. QED
      BY <2>1, <2>2
  <1>9. (SocketIsAnswer /\ OwnReply)'
    BY <1>1, <1>8 DEF SocketIsAnswer, OwnReply
  <1>. QED
    BY <1>2, <1>5, <1>9 DEF ReplyInv

(* A request enters the kernel: pid follows it, and whoever is there is    *)
(* crossed.                                                                *)
LEMMA SendStep ==
  ASSUME ReplyInv, NEW t \in Threads, SendMessage(t)
  PROVE  ReplyInv'
  <1>0. ReplyTypeOK /\ PidIsCaller /\ SocketIsAnswer /\ ClosedIsEmpty /\ GotIsNew /\ OwnReply
    BY DEF ReplyInv
  <1>1. /\ pc[t] = "send" /\ pc' = [pc EXCEPT ![t] = "handled"]
        /\ pid' = t /\ got' = [got EXCEPT ![t] = <<>>]
        /\ crossed' = IF InKernel = {} THEN crossed ELSE crossed \cup InKernel \cup {t}
        /\ UNCHANGED <<round, sock, talks>>
    BY DEF SendMessage, nl_data_ready
  <1>2. ReplyTypeOK'
    BY <1>0, <1>1 DEF ReplyTypeOK, InKernel
  <1>3. /\ \A u \in Threads : u # t => pc'[u] = pc[u] /\ got'[u] = got[u]
        /\ pc'[t] = "handled" /\ got'[t] = <<>>
        /\ crossed \subseteq crossed'
    BY <1>0, <1>1 DEF ReplyTypeOK
  <1>4. ASSUME NEW u \in Threads, pc'[u] = "handled"
        PROVE  /\ u \notin crossed' => t = u /\ \A x \in Threads : pc'[x] = "handled" => x = u
               /\ u \in crossed' => t \in crossed'
    <2>1. CASE InKernel = {}
      BY <1>1, <1>3, <1>4, <2>1 DEF InKernel
    <2>2. CASE InKernel # {}
      <3>1. crossed' = crossed \cup InKernel \cup {t}
        BY <1>1, <2>2
      <3>2. u \in crossed'
        BY <1>3, <1>4, <3>1 DEF InKernel
      <3>. QED
        BY <3>1, <3>2
    <2>. QED
      BY <2>1, <2>2
  <1>5. (PidIsCaller /\ ClosedIsEmpty /\ GotIsNew)'
    <2>1. PidIsCaller'
      BY <1>1, <1>4 DEF PidIsCaller
    <2>. QED
      BY <1>0, <1>1, <1>3, <2>1 DEF ClosedIsEmpty, GotIsNew
  <1>6. \A u \in Threads : Request(u)' = Request(u)
    BY <1>1 DEF Request
  <1>7. ASSUME NEW u \in Threads \ crossed'
        PROVE  /\ u \in Threads \ crossed /\ Request(u)' = Request(u)
               /\ u = t => sock[u] = <<>>
               /\ pc'[u] = IF u = t THEN "handled" ELSE pc[u]
               /\ got'[u] = IF u = t THEN <<>> ELSE got[u]
    BY <1>0, <1>1, <1>3, <1>6 DEF SocketIsAnswer
  <1>8. ASSUME NEW u \in Threads \ crossed'
        PROVE  /\ \A k \in 1 .. Len(sock[u]) :
                    /\ sock[u][k].to = Request(u)'
                    /\ Ends(sock[u][k].body) => k = Len(sock[u]) /\ pc'[u] = "receive"
               /\ sock[u] # <<>> => pc'[u] \in {"handled", "receive"}
               /\ pc'[u] = "receive" => sock[u] # <<>> /\ Ends(sock[u][Len(sock[u])].body)
               /\ got'[u] # <<>> => got'[u][1].to = Request(u)'
    <2>1. CASE u = t
      BY <1>3, <1>7, <2>1
    <2>2. CASE u # t
      BY <1>0, <1>7, <2>2 DEF SocketIsAnswer, OwnReply
    <2>. QED
      BY <2>1, <2>2
  <1>9. (SocketIsAnswer /\ OwnReply)'
    BY <1>1, <1>8 DEF SocketIsAnswer, OwnReply
  <1>. QED
    BY <1>2, <1>5, <1>9 DEF ReplyInv

(* What the kernel says, step by step: a message to whoever pid names, or  *)
(* to nobody; the end of an answer is the end of the handler.              *)
LEMMA RepliesAre ==
  ASSUME ReplyTypeOK, NEW t \in Threads, Replies(t)
  PROVE  /\ pc[t] = "handled" /\ UNCHANGED <<pid, round, got, talks, crossed>>
         /\ \/ /\ pc[pid] = "closed" /\ UNCHANGED sock
               /\ pc' = pc \/ pc' = [pc EXCEPT ![t] = "receive"]
            \/ /\ pc[pid] # "closed"
               /\ \E body \in Bodies :
                    /\ sock' = [sock EXCEPT ![pid] = Append(@, Message(t, body))]
                    /\ Message(t, body) \in Messages
                    /\ pc' = IF Ends(body) THEN [pc EXCEPT ![t] = "receive"] ELSE pc
  <1>1. \A body \in Bodies : Message(t, body) \in Messages
    BY DEF Message, Messages, Request, ReplyTypeOK
  <1>2. CASE pc[pid] = "closed"
    BY <1>2 DEF Replies
  <1>3. CASE pc[pid] # "closed"
    <2>1. PICK body \in Bodies : send_nlmsg(t, body)
      BY <1>3 DEF Replies
    <2>. QED
      BY <1>1, <1>3, <2>1 DEF send_nlmsg
  <1>. QED
    BY <1>2, <1>3

LEMMA ReplyStep ==
  ASSUME ReplyInv, NEW t \in Threads, Replies(t)
  PROVE  ReplyInv'
  <1>0. ReplyTypeOK /\ PidIsCaller /\ SocketIsAnswer /\ ClosedIsEmpty /\ GotIsNew /\ OwnReply
    BY DEF ReplyInv
  <1>1. /\ pc[t] = "handled" /\ UNCHANGED <<pid, round, got, talks, crossed>>
        /\ pc' = pc \/ pc' = [pc EXCEPT ![t] = "receive"]
        /\ \/ pc[pid] = "closed" /\ UNCHANGED sock
           \/ /\ pc[pid] # "closed"
              /\ \E body \in Bodies :
                   /\ sock' = [sock EXCEPT ![pid] = Append(@, Message(t, body))]
                   /\ Message(t, body) \in Messages
                   /\ pc' = IF Ends(body) THEN [pc EXCEPT ![t] = "receive"] ELSE pc
    BY <1>0, RepliesAre
  <1>2. /\ pid \in Threads
        /\ t \notin crossed => pid = t /\ \A u \in Threads : pc[u] = "handled" => u = t
        /\ t \in crossed => pid \in crossed \/ pc[pid] = "closed"
    BY <1>0, <1>1 DEF PidIsCaller
  <1>3. /\ \A u \in Threads : u # t => pc'[u] = pc[u]
        /\ pc'[t] \in {"handled", "receive"}
    BY <1>0, <1>1 DEF ReplyTypeOK
  <1>4. ReplyTypeOK'
    <2>1. CASE UNCHANGED sock
      BY <1>0, <1>1, <2>1 DEF ReplyTypeOK
    <2>2. ASSUME NEW m \in Messages, sock' = [sock EXCEPT ![pid] = Append(@, m)]
          PROVE  ReplyTypeOK'
      <3>1. Append(sock[pid], m) \in Seq(Messages)
        BY <1>0, <1>2, <2>2 DEF ReplyTypeOK
      <3>. QED
        BY <1>0, <1>1, <1>2, <2>2, <3>1 DEF ReplyTypeOK
    <2>. QED
      BY <1>1, <2>1, <2>2
  <1>5. \A u \in Threads : pc'[u] = "closed" <=> pc[u] = "closed"
    BY <1>1, <1>3
  <1>6. PidIsCaller'
    BY <1>0, <1>1, <1>2, <1>3, <1>5 DEF PidIsCaller
  <1>7. (ClosedIsEmpty /\ GotIsNew)'
    <2>1. \A u \in Threads : pc[u] = "closed" => sock'[u] = sock[u]
      BY <1>0, <1>1, <1>2 DEF ReplyTypeOK
    <2>2. \A u \in Threads : pc'[u] \in {"closed", "send", "handled"}
                                => pc[u] \in {"closed", "send", "handled"}
      BY <1>1, <1>3
    <2>. QED
      BY <1>0, <1>1, <1>5, <2>1, <2>2 DEF ClosedIsEmpty, GotIsNew
  <1>8. \A u \in Threads : Request(u)' = Request(u)
    BY <1>1 DEF Request
  <1>9. OwnReply'
    BY <1>0, <1>1, <1>8 DEF OwnReply
  <1>10. ASSUME NEW u \in Threads \ crossed
         PROVE  /\ \A k \in 1 .. Len(sock'[u]) :
                     /\ sock'[u][k].to = Request(u)
                     /\ Ends(sock'[u][k].body) => k = Len(sock'[u]) /\ pc'[u] = "receive"
                /\ sock'[u] # <<>> => pc'[u] \in {"handled", "receive"}
                /\ pc'[u] = "receive" => sock'[u] # <<>> /\ Ends(sock'[u][Len(sock'[u])].body)
    <2>1. CASE u # t
      <3>1. u # pid \/ pc[pid] = "closed"
        BY <1>1, <1>2, <2>1
      <3>2. sock'[u] = sock[u] /\ pc'[u] = pc[u]
        BY <1>0, <1>1, <1>2, <1>3, <2>1, <3>1 DEF ReplyTypeOK
      <3>. QED
        BY <1>0, <3>2 DEF SocketIsAnswer
    <2>2. CASE u = t
      <3>1. pid = t /\ pc[pid] # "closed"
        BY <1>1, <1>2, <2>2
      <3>2. PICK body \in Bodies :
              /\ sock' = [sock EXCEPT ![pid] = Append(@, Message(t, body))]
              /\ Message(t, body) \in Messages
              /\ pc' = IF Ends(body) THEN [pc EXCEPT ![t] = "receive"] ELSE pc
        BY <1>1, <3>1
      <3>. DEFINE m == Message(t, body)
                  s == sock[t]
                  n == Len(s)
      <3>3. m.to = Request(t) /\ m.body = body
        BY DEF Message
      <3>4. s \in Seq(Messages) /\ m \in Messages /\ n \in Nat
        BY <1>0, <3>2 DEF ReplyTypeOK
      <3>5. sock'[t] = Append(s, m) /\ pc'[t] = IF Ends(body) THEN "receive" ELSE "handled"
        BY <1>0, <1>1, <3>1, <3>2 DEF ReplyTypeOK
      <3>6. \A k \in 1 .. n : s[k].to = Request(t) /\ ~Ends(s[k].body)
        BY <1>0, <1>1, <2>2 DEF SocketIsAnswer
      <3>. HIDE DEF m, s
      <3>7. /\ Len(sock'[t]) = n + 1 /\ sock'[t][n + 1] = m /\ sock'[t] # <<>>
            /\ \A k \in 1 .. n : sock'[t][k] = s[k]
        <4>1. Len(Append(s, m)) = n + 1 /\ Append(s, m)[n + 1] = m
              /\ \A k \in 1 .. n : Append(s, m)[k] = s[k]
          BY <3>4, AppendProperties
        <4>2. Append(s, m) # <<>>
          BY <3>4
        <4>. QED
          BY <3>5, <4>1, <4>2
      <3>. HIDE DEF n
      <3>8. \A k \in 1 .. n + 1 : k \in 1 .. n \/ k = n + 1
        BY <3>4
      <3>. QED
        BY <2>2, <3>3, <3>5, <3>6, <3>7, <3>8
    <2>. QED
      BY <2>1, <2>2
  <1>11. SocketIsAnswer'
    BY <1>1, <1>8, <1>10 DEF SocketIsAnswer
  <1>. QED
    BY <1>4, <1>6, <1>7, <1>9, <1>11 DEF ReplyInv

(* The thread takes the next message; if it was not crossed, of its answer.*)
LEMMA RecvStep ==
  ASSUME ReplyInv, NEW t \in Threads, Receiving(t)
  PROVE  ReplyInv'
  <1>0. ReplyTypeOK /\ PidIsCaller /\ SocketIsAnswer /\ ClosedIsEmpty /\ GotIsNew /\ OwnReply
    BY DEF ReplyInv
  <1>. DEFINE s == sock[t]
              h == Head(sock[t])
              w == Tail(sock[t])
  <1>1. PICK done \in BOOLEAN : RecvMessage(t, done) /\ (h.to = Request(t) => (done <=> Ends(h.body)))
    BY DEF Receiving
  <1>2. /\ pc[t] = "receive" /\ s # <<>> /\ s \in Seq(Messages)
        /\ sock' = [sock EXCEPT ![t] = w] /\ got' = [got EXCEPT ![t] = <<h>>]
        /\ pc' = IF done THEN [pc EXCEPT ![t] = "received"] ELSE pc
        /\ UNCHANGED <<pid, round, talks, crossed>>
    BY <1>0, <1>1 DEF RecvMessage, ReplyTypeOK
  <1>3. /\ Len(s) \in Nat /\ Len(s) >= 1 /\ h = s[1] /\ h \in Messages
        /\ w \in Seq(Messages) /\ Len(w) = Len(s) - 1
        /\ \A k \in 1 .. Len(w) : w[k] = s[k + 1]
        /\ w = <<>> <=> Len(w) = 0
    <2>. HIDE DEF s
    <2>1. Len(s) \in Nat /\ Len(s) >= 1
      BY <1>2
    <2>2. /\ Head(s) = s[1] /\ Head(s) \in Messages
          /\ Tail(s) \in Seq(Messages) /\ Len(Tail(s)) = Len(s) - 1
          /\ \A k \in 1 .. Len(Tail(s)) : Tail(s)[k] = s[k + 1]
      BY <1>2, <2>1, HeadTailProperties
    <2>3. Tail(s) = <<>> <=> Len(Tail(s)) = 0
      <3>. DEFINE z == Tail(s)
      <3>1. z \in Seq(Messages)
        BY <2>2
      <3>. HIDE DEF z
      <3>. QED
        BY <3>1, EmptySeq DEF z
    <2>. QED
      BY <2>1, <2>2, <2>3 DEF s
  <1>. HIDE DEF s, h, w
  <1>4. /\ \A u \in Threads : u # t => pc'[u] = pc[u] /\ sock'[u] = sock[u] /\ got'[u] = got[u]
        /\ sock'[t] = w /\ got'[t] = <<h>>
        /\ pc'[t] = IF done THEN "received" ELSE "receive"
    BY <1>0, <1>2 DEF ReplyTypeOK
  <1>5. ReplyTypeOK'
    <2>1. <<h>> \in Seq(Messages)
      BY <1>3
    <2>. QED
      BY <1>0, <1>2, <1>3, <2>1 DEF ReplyTypeOK
  <1>6. (PidIsCaller /\ ClosedIsEmpty /\ GotIsNew)'
    BY <1>0, <1>2, <1>4 DEF PidIsCaller, ClosedIsEmpty, GotIsNew
  <1>7. \A u \in Threads : Request(u)' = Request(u)
    BY <1>2 DEF Request
  <1>8. ASSUME t \notin crossed
        PROVE  /\ h.to = Request(t) /\ (done <=> w = <<>>)
               /\ \A k \in 1 .. Len(w) : w[k].to = Request(t) /\ (Ends(w[k].body) => k = Len(w))
               /\ w # <<>> => Ends(w[Len(w)].body)
    <2>1. /\ \A k \in 1 .. Len(s) : s[k].to = Request(t) /\ (Ends(s[k].body) => k = Len(s))
          /\ Ends(s[Len(s)].body)
      BY <1>0, <1>2, <1>8 DEF SocketIsAnswer, s
    <2>2. 1 \in 1 .. Len(s) /\ \A k \in 1 .. Len(w) : k + 1 \in 1 .. Len(s) /\ w[k] = s[k + 1]
      BY <1>3
    <2>3. h.to = Request(t) /\ (Ends(h.body) <=> w = <<>>)
      BY <1>3, <2>1, <2>2
    <2>4. done <=> Ends(h.body)
      BY <1>1, <2>3 DEF h
    <2>5. \A k \in 1 .. Len(w) : k + 1 = Len(s) <=> k = Len(w)
      BY <1>3
    <2>6. w # <<>> => Len(w) \in 1 .. Len(w) /\ Len(w) + 1 = Len(s)
      BY <1>3
    <2>. QED
      BY <2>1, <2>2, <2>3, <2>4, <2>5, <2>6
  <1>9. ASSUME NEW u \in Threads \ crossed
        PROVE  /\ \A k \in 1 .. Len(sock'[u]) :
                    /\ sock'[u][k].to = Request(u)
                    /\ Ends(sock'[u][k].body) => k = Len(sock'[u]) /\ pc'[u] = "receive"
               /\ sock'[u] # <<>> => pc'[u] \in {"handled", "receive"}
               /\ pc'[u] = "receive" => sock'[u] # <<>> /\ Ends(sock'[u][Len(sock'[u])].body)
               /\ got'[u] # <<>> => got'[u][1].to = Request(u)
    <2>1. CASE u # t
      BY <1>0, <1>4, <2>1 DEF SocketIsAnswer, OwnReply
    <2>2. CASE u = t
      <3>1. ASSUME NEW k \in 1 .. Len(w) PROVE w # <<>>
        BY <1>3
      <3>2. <<h>>[1] = h
        OBVIOUS
      <3>. QED
        BY <1>4, <1>8, <2>2, <3>1, <3>2
    <2>. QED
      BY <2>1, <2>2
  <1>10. (SocketIsAnswer /\ OwnReply)'
    BY <1>2, <1>7, <1>9 DEF SocketIsAnswer, OwnReply
  <1>. QED
    BY <1>5, <1>6, <1>10 DEF ReplyInv

(* The next request of the conversation, and its end.                      *)
LEMMA AfterStep ==
  ASSUME ReplyInv, NEW t \in Threads, NextRound(t) \/ CloseNetLinkSocket(t)
  PROVE  ReplyInv'
  <1>0. ReplyTypeOK /\ PidIsCaller /\ SocketIsAnswer /\ ClosedIsEmpty /\ GotIsNew /\ OwnReply
    BY DEF ReplyInv
  <1>1. /\ pc[t] = "received" /\ got' = [got EXCEPT ![t] = <<>>]
        /\ \/ pc' = [pc EXCEPT ![t] = "send"] /\ round' = [round EXCEPT ![t] = @ + 1] /\ sock' = sock
           \/ /\ pc' = [pc EXCEPT ![t] = "closed"] /\ sock' = [sock EXCEPT ![t] = <<>>]
              /\ UNCHANGED round
        /\ UNCHANGED <<pid, talks, crossed>>
    BY DEF NextRound, CloseNetLinkSocket
  <1>2. ReplyTypeOK'
    <2>1. <<>> \in Seq(Messages)
      OBVIOUS
    <2>2. pc' \in [Threads -> {"closed", "send", "handled", "receive", "received"}]
      BY <1>0, <1>1 DEF ReplyTypeOK
    <2>3. sock' \in [Threads -> Seq(Messages)]
      <3>1. CASE sock' = sock
        BY <1>0, <3>1 DEF ReplyTypeOK
      <3>2. CASE sock' = [sock EXCEPT ![t] = <<>>]
        BY <1>0, <2>1, <3>2 DEF ReplyTypeOK
      <3>. QED
        BY <1>1, <3>1, <3>2
    <2>4. got' \in [Threads -> Seq(Messages)]
      BY <1>0, <1>1, <2>1 DEF ReplyTypeOK
    <2>5. round' \in [Threads -> Nat]
      <3>1. round \in [Threads -> Nat] /\ round[t] + 1 \in Nat
        BY <1>0 DEF ReplyTypeOK
      <3>2. round' = round \/ round' = [round EXCEPT ![t] = round[t] + 1]
        BY <1>1
      <3>. QED
        BY <3>1, <3>2
    <2>. QED
      BY <1>0, <1>1, <2>2, <2>3, <2>4, <2>5 DEF ReplyTypeOK
  <1>3. /\ \A u \in Threads : u # t => pc'[u] = pc[u] /\ sock'[u] = sock[u] /\ got'[u] = got[u]
        /\ pc'[t] \in {"send", "closed"} /\ got'[t] = <<>>
        /\ pc'[t] = "closed" => sock'[t] = <<>>
        /\ t \notin crossed => sock'[t] = <<>>
    <2>1. t \notin crossed => sock[t] = <<>>
      BY <1>0, <1>1 DEF SocketIsAnswer
    <2>2. CASE pc' = [pc EXCEPT ![t] = "send"] /\ sock' = sock
      BY <1>0, <1>1, <2>1, <2>2 DEF ReplyTypeOK
    <2>3. CASE pc' = [pc EXCEPT ![t] = "closed"] /\ sock' = [sock EXCEPT ![t] = <<>>]
      BY <1>0, <1>1, <2>3 DEF ReplyTypeOK
    <2>. QED
      BY <1>1, <2>2, <2>3
  <1>4. (PidIsCaller /\ ClosedIsEmpty /\ GotIsNew)'
    BY <1>0, <1>1, <1>3 DEF PidIsCaller, ClosedIsEmpty, GotIsNew
  <1>5. \A u \in Threads : u # t => Request(u)' = Request(u)
    BY <1>0, <1>1 DEF ReplyTypeOK, Request
  <1>6. ASSUME NEW u \in Threads \ crossed
        PROVE  /\ \A k \in 1 .. Len(sock'[u]) :
                    /\ sock'[u][k].to = Request(u)'
                    /\ Ends(sock'[u][k].body) => k = Len(sock'[u]) /\ pc'[u] = "receive"
               /\ sock'[u] # <<>> => pc'[u] \in {"handled", "receive"}
               /\ pc'[u] = "receive" => sock'[u] # <<>> /\ Ends(sock'[u][Len(sock'[u])].body)
               /\ got'[u] # <<>> => got'[u][1].to = Request(u)'
    <2>1. CASE u # t
      BY <1>0, <1>3, <1>5, <2>1 DEF SocketIsAnswer, OwnReply
    <2>2. CASE u = t
      BY <1>3, <2>2
    <2>. QED
      BY <2>1, <2>2
  <1>7. (SocketIsAnswer /\ OwnReply)'
    BY <1>1, <1>6 DEF SocketIsAnswer, OwnReply
  <1>. QED
    BY <1>2, <1>4, <1>7 DEF ReplyInv

(* Every step of a conversation keeps it.                                  *)
LEMMA TalkStep ==
  ASSUME ReplyInv, [\E t \in Threads : Talk(t)]_vars
  PROVE  ReplyInv'
  <1>1. ASSUME NEW t \in Threads, Talk(t) PROVE ReplyInv'
    BY <1>1, BeginStep, SendStep, ReplyStep, RecvStep, AfterStep DEF Talk
  <1>2. ASSUME UNCHANGED vars PROVE ReplyInv'
    <2>1. UNCHANGED <<pid, pc, round, sock, got, talks, crossed>>
      BY <1>2 DEF vars
    <2>2. ReplyTypeOK' /\ PidIsCaller' /\ ClosedIsEmpty' /\ GotIsNew'
      BY <2>1 DEF ReplyInv, ReplyTypeOK, PidIsCaller, ClosedIsEmpty, GotIsNew
    <2>3. SocketIsAnswer' /\ OwnReply'
      BY <2>1 DEF ReplyInv, SocketIsAnswer, OwnReply, Request
    <2>. QED
      BY <2>2, <2>3 DEF ReplyInv
  <1>. QED
    BY <1>1, <1>2

-----------------------------------------------------------------------------
(* Whatever the threads ask and the handlers answer, on however many       *)
(* processors: the invariant the two theorems below rest on.               *)
THEOREM RepliesInvariant == TalkSpec => []ReplyInv
  <1>1. NetlinkInit => ReplyInv
    BY InitTalks
  <1>2. ReplyInv /\ [\E t \in Threads : Talk(t)]_vars => ReplyInv'
    BY TalkStep
  <1>. QED
    BY <1>1, <1>2, PTL DEF TalkSpec

(* On however many processors, a thread whose conversation met no other in *)
(* the kernel (nl_data_ready) takes for the answer to its request only the *)
(* answer to its request, although all requests go by one global pid and   *)
(* others may be mixing theirs up at the same time.                        *)
THEOREM RepliesAreOwn == TalkSpec => []OwnReply
  BY RepliesInvariant, PTL DEF ReplyInv

(* Nor is such a thread in recvmsg with nothing to receive: it has no      *)
(* timeout and would stay there.                                           *)
THEOREM AnswersAreThere == TalkSpec => []AnswerIsThere
  <1>1. ReplyInv => AnswerIsThere
    BY DEF ReplyInv, SocketIsAnswer, AnswerIsThere
  <1>. QED
    BY <1>1, RepliesInvariant, PTL

-----------------------------------------------------------------------------
(***************************************************************************)
(* The list of the users.                                                  *)
(***************************************************************************)

(* The statics and globals have their types, only a handler of a second    *)
(* request traverses, and messages of total answer first requests.         *)
StaticsOK ==
  /\ table \subseteq Users
  /\ page \in [1 .. PAGE -> Nat] /\ i \in 0 .. PAGE - 1 /\ flag \in BOOLEAN
  /\ nelem \in Nat /\ total_user \in Nat /\ recved \in Nat
  /\ trav \in [Threads -> [next : Nat, stage : {"list", "left", "end"}]]

Kinds ==
  \A t \in Threads : \A k \in 1 .. Len(sock[t]) :
    sock[t][k].to[3] = 1 <=> sock[t][k].body.kind = "total"

ListTypeOK ==
  /\ StaticsOK /\ Kinds
  /\ serves \in [Threads -> Operators \cup {Nobody}]
  /\ \A t \in Threads :
       /\ pc[t] = "closed" <=> serves[t] = Nobody
       /\ round[t] \in 1 .. 2
       /\ trav[t] # Start => pc[t] = "handled" /\ round[t] = 2

-----------------------------------------------------------------------------
LEMMA PageIsPositive == PAGE \in Nat /\ PAGE >= 1
  BY ListAssumption

(* The further a user is down the list, the more are before it.            *)
Before(S, u) == {v \in S : v < u}

LEMMA BeforeGrows ==
  ASSUME NEW S \in SUBSET Nat, IsFiniteSet(S)
  PROVE  /\ \A u : IsFiniteSet(Before(S, u)) /\ Cardinality(Before(S, u)) \in Nat
         /\ \A u, w \in S : u < w => Cardinality(Before(S, u)) < Cardinality(Before(S, w))
         /\ \A u \in S : Cardinality(Before(S, u)) < Cardinality(S)
         /\ \A u, w \in S : Cardinality(Before(S, u)) = Cardinality(Before(S, w)) => u = w
  <1>0. Cardinality(S) \in Nat
    BY FS_CardinalityType
  <1>1. \A u : IsFiniteSet(Before(S, u)) /\ Cardinality(Before(S, u)) \in Nat
    <2>1. \A u : Before(S, u) \subseteq S
      BY DEF Before
    <2>. QED
      BY <2>1, FS_Subset, FS_CardinalityType
  <1>2. ASSUME NEW u \in S
        PROVE  Cardinality(Before(S, u)) < Cardinality(S)
    <2>1. Before(S, u) \in SUBSET S /\ Before(S, u) # S
      BY DEF Before
    <2>2. Cardinality(Before(S, u)) <= Cardinality(S) /\ Cardinality(Before(S, u)) # Cardinality(S)
      BY <2>1, FS_Subset
    <2>. QED
      BY <1>0, <1>1, <2>2
  <1>3. ASSUME NEW u \in S, NEW w \in S, u < w
        PROVE  Cardinality(Before(S, u)) < Cardinality(Before(S, w))
    <2>1. Before(S, u) \in SUBSET Before(S, w) /\ Before(S, u) # Before(S, w)
      <3>1. u \in Int /\ w \in Int /\ \A v \in S : v \in Int
        OBVIOUS
      <3>2. \A v \in Before(S, u) : v \in Before(S, w)
        BY <1>3, <3>1 DEF Before
      <3>3. u \in Before(S, w) /\ u \notin Before(S, u)
        BY <1>3, <3>1 DEF Before
      <3>. QED
        BY <3>2, <3>3
    <2>2. Cardinality(Before(S, u)) <= Cardinality(Before(S, w))
          /\ Cardinality(Before(S, u)) # Cardinality(Before(S, w))
      BY <1>1, <2>1, FS_Subset
    <2>. QED
      BY <1>1, <2>2
  <1>4. ASSUME NEW u \in S, NEW w \in S, Cardinality(Before(S, u)) = Cardinality(Before(S, w))
        PROVE  u = w
    <2>. SUFFICES ASSUME u # w PROVE FALSE
      OBVIOUS
    <2>1. u < w \/ w < u
      OBVIOUS
    <2>. QED
      BY <1>1, <1>3, <1>4, <2>1
  <1>. QED
    BY <1>1, <1>2, <1>3, <1>4

(* The users in order: for every n there is one before whom are n - 1.     *)
LEMMA NthUser ==
  ASSUME NEW S \in SUBSET Nat, IsFiniteSet(S), NEW n \in 1 .. Cardinality(S)
  PROVE  \E u \in S : Cardinality(Before(S, u)) = n - 1
  <1>. DEFINE c == Cardinality(S)
              R == 0 .. c - 1
              f == [u \in S |-> Cardinality(Before(S, u))]
  <1>1. c \in Nat /\ n \in Nat /\ n >= 1 /\ n <= c
    BY FS_CardinalityType
  <1>2. /\ \A u \in S : Cardinality(Before(S, u)) \in Nat /\ Cardinality(Before(S, u)) < c
        /\ \A u, w \in S : Cardinality(Before(S, u)) = Cardinality(Before(S, w)) => u = w
    BY BeforeGrows
  <1>. HIDE DEF c
  <1>5. f \in [S -> R]
    BY <1>1, <1>2
  <1>6. \A u, w \in S : f[u] = f[w] => u = w
    BY <1>2
  <1>. HIDE DEF f
  <1>7. f \in Injection(S, R)
    BY <1>5, <1>6 DEF Injection, IsInjective
  <1>8. IsFiniteSet(R) /\ Cardinality(R) = c
    BY <1>1, FS_Interval
  <1>. HIDE DEF R
  <1>9. f \in Surjection(S, R)
    BY <1>7, <1>8, FS_Injection DEF c
  <1>10. n - 1 \in R
    BY <1>1 DEF R
  <1>11. PICK u \in S : f[u] = n - 1
    BY <1>9, <1>10 DEF Surjection
  <1>. QED
    BY <1>11 DEF f

(* The list is a sequence of the users, the n-th the one after n - 1.      *)
LEMMA InOrderIs ==
  ASSUME NEW S \in SUBSET Nat, IsFiniteSet(S), NEW T, T = InOrder(S)
  PROVE  /\ Cardinality(S) \in Nat /\ T \in Seq(Nat) /\ Len(T) = Cardinality(S)
         /\ \A n \in 1 .. Cardinality(S) : T[n] \in S /\ Cardinality(Before(S, T[n])) = n - 1
         /\ \A n \in 1 .. Cardinality(S), u \in S : Cardinality(Before(S, u)) = n - 1 => T[n] = u
  <1>1. Cardinality(S) \in Nat
    BY FS_CardinalityType
  <1>. DEFINE Nth(n) == CHOOSE u \in S : Cardinality({v \in S : v < u}) = n - 1
  <1>2. \A n \in 1 .. Cardinality(S) : Nth(n) \in S /\ Cardinality(Before(S, Nth(n))) = n - 1
    BY NthUser DEF Before
  <1>3. T = [n \in 1 .. Cardinality(S) |-> Nth(n)]
    BY DEF InOrder
  <1>. HIDE DEF Nth
  <1>4. \A n \in 1 .. Cardinality(S) : T[n] \in S /\ Cardinality(Before(S, T[n])) = n - 1
    BY <1>2, <1>3
  <1>5. T \in Seq(Nat) /\ Len(T) = Cardinality(S)
    <2>1. \A n \in 1 .. Cardinality(S) : Nth(n) \in Nat
      BY <1>2
    <2>. QED
      BY <1>1, <1>3, <2>1
  <1>6. ASSUME NEW n \in 1 .. Cardinality(S), NEW u \in S, Cardinality(Before(S, u)) = n - 1
        PROVE  T[n] = u
    <2>1. T[n] \in S /\ Cardinality(Before(S, T[n])) = Cardinality(Before(S, u))
      BY <1>4, <1>6
    <2>2. \A v, w \in S : Cardinality(Before(S, v)) = Cardinality(Before(S, w)) => v = w
      BY BeforeGrows
    <2>. QED
      BY <2>1, <2>2
  <1>. QED
    BY <1>1, <1>4, <1>5, <1>6

LEMMA UsersAre ==
  ASSUME NEW S \in SUBSET Users
  PROVE  S \in SUBSET Nat /\ IsFiniteSet(S) /\ Cardinality(S) \in Nat /\ Cardinality(S) <= PoolSize
  <1>1. IsFiniteSet(Users) /\ Cardinality(Users) \in Nat /\ Cardinality(Users) <= PoolSize
    BY ListAssumption, FS_CardinalityType
  <1>2. IsFiniteSet(S) /\ Cardinality(S) <= Cardinality(Users)
    BY <1>1, FS_Subset
  <1>3. S \in SUBSET Nat
    BY ListAssumption
  <1>. QED
    BY <1>1, <1>2, <1>3, FS_CardinalityType, ListAssumption

(* The list from one of its users on is what of it comes after the others. *)
LEMMA RestOfList ==
  ASSUME NEW S \in SUBSET Nat, IsFiniteSet(S), NEW T, T = InOrder(S),
         NEW m \in Nat, m < Len(T), NEW R \in SUBSET S, \A u \in S : u \in R <=> u >= T[m + 1],
         NEW rest, rest = InOrder(R)
  PROVE  /\ rest \in Seq(Nat) /\ Len(rest) = Len(T) - m
         /\ \A k \in 1 .. Len(rest) : rest[k] = T[m + k]
  <1>1. /\ Cardinality(S) \in Nat /\ T \in Seq(Nat) /\ Len(T) = Cardinality(S)
        /\ \A n \in 1 .. Cardinality(S) : T[n] \in S /\ Cardinality(Before(S, T[n])) = n - 1
        /\ \A n \in 1 .. Cardinality(S), u \in S : Cardinality(Before(S, u)) = n - 1 => T[n] = u
    BY InOrderIs
  <1>. DEFINE x == T[m + 1]
              B == Before(S, x)
  <1>2. m + 1 \in 1 .. Cardinality(S) /\ (m + 1) - 1 = m
    BY <1>1
  <1>3. x \in S /\ x \in Nat /\ Cardinality(B) = m /\ B \subseteq S /\ IsFiniteSet(B)
    <2>1. x \in S /\ Cardinality(B) = m
      BY <1>1, <1>2
    <2>2. IsFiniteSet(B)
      BY BeforeGrows
    <2>3. B \subseteq S
      BY DEF Before
    <2>. QED
      BY <2>1, <2>2, <2>3
  <1>4. R = S \ B /\ R \in SUBSET Nat /\ R \subseteq S
    <2>1. \A u \in S : u \in B <=> u < x
      BY DEF Before
    <2>2. \A u \in S : u >= x <=> ~(u < x)
      BY <1>3
    <2>3. \A u : u \in R <=> u \in S /\ u >= x
      OBVIOUS
    <2>. HIDE DEF B, x
    <2>. QED
      BY <1>3, <2>1, <2>2, <2>3
  <1>5. IsFiniteSet(R) /\ Cardinality(R) = Cardinality(S) - m
    <2>1. S \cap B = B
      BY <1>3
    <2>2. Cardinality(S \ B) = Cardinality(S) - Cardinality(S \cap B) /\ IsFiniteSet(S \ B)
      BY FS_Difference
    <2>. QED
      BY <1>3, <1>4, <2>1, <2>2
  <1>. HIDE DEF B, x
  <1>6. ASSUME NEW u \in R
        PROVE  Cardinality(Before(R, u)) = Cardinality(Before(S, u)) - m
    <2>1. Before(R, u) = Before(S, u) \ B
      BY <1>4, <1>6 DEF Before
    <2>2. Before(S, u) \cap B = B
      <3>1. u \in Nat /\ x \in Nat /\ u >= x
        BY <1>3, <1>4, <1>6 DEF x
      <3>2. \A v \in B : v \in S /\ v \in Nat /\ v < x
        BY <1>3 DEF B, Before
      <3>3. \A v \in B : v < u
        BY <3>1, <3>2
      <3>. QED
        BY <3>2, <3>3 DEF Before
    <2>3. IsFiniteSet(Before(S, u))
      BY BeforeGrows
    <2>4. Cardinality(Before(S, u) \ B) = Cardinality(Before(S, u)) - Cardinality(Before(S, u) \cap B)
      BY <2>3, FS_Difference
    <2>. QED
      BY <1>3, <2>1, <2>2, <2>4
  <1>7. /\ rest \in Seq(Nat) /\ Len(rest) = Cardinality(R) /\ Cardinality(R) \in Nat
        /\ \A k \in 1 .. Cardinality(R) : rest[k] \in R /\ Cardinality(Before(R, rest[k])) = k - 1
    <2>1. R \in SUBSET Nat /\ IsFiniteSet(R) /\ rest = InOrder(R)
      BY <1>4, <1>5
    <2>. QED
      BY <2>1, InOrderIs
  <1>8. ASSUME NEW k \in 1 .. Len(rest)
        PROVE  rest[k] = T[m + k]
    <2>1. rest[k] \in R /\ Cardinality(Before(R, rest[k])) = k - 1
      BY <1>7
    <2>2. rest[k] \in S /\ Cardinality(Before(S, rest[k])) \in Nat
      BY <1>4, <2>1, BeforeGrows
    <2>3. Cardinality(Before(S, rest[k])) = (m + k) - 1
      <3>1. k - 1 = Cardinality(Before(S, rest[k])) - m
        BY <1>6, <2>1
      <3>. QED
        BY <2>2, <3>1
    <2>4. m + k \in 1 .. Cardinality(S)
      BY <1>1, <1>5, <1>7
    <2>. QED
      BY <1>1, <2>2, <2>3, <2>4
  <1>. QED
    BY <1>1, <1>5, <1>7, <1>8

-----------------------------------------------------------------------------
(* What of the tree is still to come is a list of users.                   *)
LEMMA RestsAre ==
  ASSUME StaticsOK, NEW t \in Threads, NEW S \in Rests(t), NEW rest, rest = InOrder(S)
  PROVE  S \in SUBSET Users /\ rest \in Seq(Nat) /\ Len(rest) = Cardinality(S)
  <1>1. S \in SUBSET Users
    BY DEF Rests, StaticsOK
  <1>. QED
    BY <1>1, UsersAre, InOrderIs

(* It goes into the page from the static index on.                         *)
LEMMA PageFilled ==
  ASSUME StaticsOK, NEW rest \in Seq(Nat)
  PROVE  /\ Fresh(Len(rest)) \in 0 .. PAGE - 1
         /\ Room(rest) \in 1 .. PAGE /\ Room(rest) = PAGE - Fresh(Len(rest))
         /\ Filled(rest) \in [1 .. PAGE -> Nat]
         /\ \A p \in 1 .. PAGE :
              p > Fresh(Len(rest)) /\ p - Fresh(Len(rest)) <= Len(rest)
                => Filled(rest)[p] = rest[p - Fresh(Len(rest))]
         /\ Len(rest) < Room(rest) => Fresh(Len(rest)) + Len(rest) \in 0 .. PAGE - 1
  <1>. DEFINE from == Fresh(Len(rest))
  <1>1. PAGE \in Nat /\ PAGE >= 1 /\ from \in 0 .. PAGE - 1 /\ Len(rest) \in Nat
    BY PageIsPositive DEF StaticsOK, Fresh
  <1>. HIDE DEF from
  <1>2. Room(rest) \in 1 .. PAGE /\ Room(rest) = PAGE - from
    BY <1>1 DEF Room, from
  <1>3. Filled(rest) = [p \in 1 .. PAGE |->
                          IF p > from /\ p - from <= Len(rest) THEN rest[p - from] ELSE page[p]]
    BY DEF Filled, from
  <1>4. \A p \in 1 .. PAGE : (p > from /\ p - from <= Len(rest)) => rest[p - from] \in Nat
    <2>. SUFFICES ASSUME NEW p \in 1 .. PAGE, p > from, p - from <= Len(rest)
                  PROVE  rest[p - from] \in Nat
      OBVIOUS
    <2>1. p - from \in 1 .. Len(rest)
      BY <1>1
    <2>. QED
      BY <2>1
  <1>5. Filled(rest) \in [1 .. PAGE -> Nat]
    BY <1>3, <1>4 DEF StaticsOK
  <1>6. Len(rest) < Room(rest) => from + Len(rest) \in 0 .. PAGE - 1
    BY <1>1, <1>2
  <1>. QED
    BY <1>1, <1>2, <1>3, <1>5, <1>6 DEF from

(* A message is one that a handler may send.                               *)
LEMMA SaidIsReply ==
  ASSUME ReplyInv, NEW t \in Threads, NEW body \in Bodies, send_nlmsg(t, body)
  PROVE  Replies(t)
  <1>1. pc[t] = "handled" /\ pid \in Threads
    BY DEF send_nlmsg, ReplyInv, PidIsCaller
  <1>2. CASE pc[pid] = "closed"
    BY <1>1, <1>2 DEF send_nlmsg, Replies
  <1>3. CASE pc[pid] # "closed"
    <2>. DEFINE s == sock[pid]
                m == Message(t, body)
    <2>1. s \in Seq(Messages) /\ m.body = body
      BY <1>1 DEF ReplyInv, ReplyTypeOK, Message
    <2>2. sock'[pid] = Append(s, m)
      BY <1>1, <1>3 DEF send_nlmsg, ReplyInv, ReplyTypeOK
    <2>. HIDE DEF s, m
    <2>3. Len(Append(s, m)) = Len(s) + 1 /\ Len(s) \in Nat /\ Append(s, m)[Len(s) + 1] = m
      BY <2>1
    <2>. QED
      BY <1>1, <1>3, <2>1, <2>2, <2>3 DEF Replies
  <1>. QED
    BY <1>2, <1>3

(* What process_user_info says: totals to first requests and pages and     *)
(* results to second ones, and it goes on until it has said the end.       *)
LEMMA UserInfoSaid ==
  ASSUME ReplyInv, ListTypeOK, Bodies = ListBodies, NEW t \in Threads, process_user_info(t)
  PROVE  /\ \E body \in Bodies :
              /\ send_nlmsg(t, body)
              /\ body.kind = "total" <=> round[t] = 1
              /\ trav'[t] # Start => ~Ends(body) /\ round[t] = 2
         /\ \A u \in Threads : u # t => trav'[u] = trav[u]
         /\ StaticsOK' /\ UNCHANGED <<serves, nuser, op, alone>>
  <1>0. /\ table \subseteq Users /\ page \in [1 .. PAGE -> Nat] /\ i \in 0 .. PAGE - 1
        /\ flag \in BOOLEAN /\ nelem \in Nat /\ total_user \in Nat /\ recved \in Nat
        /\ trav \in [Threads -> [next : Nat, stage : {"list", "left", "end"}]] /\ StaticsOK
    BY DEF ListTypeOK, StaticsOK
  <1>1. CASE NumberTold(t)
    <2>. DEFINE b == [kind |-> "total", n |-> Cardinality(table)]
    <2>1. Cardinality(table) \in Nat
      BY <1>0, UsersAre
    <2>2. b \in Bodies /\ b.kind = "total"
      BY <2>1 DEF ListBodies
    <2>3. /\ round[t] = 1 /\ send_nlmsg(t, b) /\ nelem' = Cardinality(table)
          /\ UNCHANGED <<table, page, i, flag, trav, total_user, recved, serves, nuser, op, alone>>
      BY <1>1 DEF NumberTold, daemon, served
    <2>4. trav'[t] = Start
      BY <2>3 DEF ListTypeOK
    <2>5. StaticsOK'
      BY <1>0, <2>1, <2>3 DEF StaticsOK
    <2>. QED
      BY <2>2, <2>3, <2>4, <2>5
  <1>2. CASE PageMade(t)
    <2>1. PICK S \in Rests(t) :
            LET rest == InOrder(S)
                room == Room(rest)
            IN  /\ Len(rest) >= room
                /\ page' = Filled(rest) /\ i' = 0 /\ flag' = FALSE
                /\ trav' = [trav EXCEPT ![t] = IF Len(rest) > room
                                               THEN [next |-> rest[room + 1], stage |-> "list"]
                                               ELSE [next |-> 0, stage |-> "left"]]
                /\ send_nlmsg(t, Page(PAGE, Filled(rest)))
      BY <1>2 DEF PageMade
    <2>. DEFINE rest == InOrder(S)
                room == Room(rest)
                b    == Page(PAGE, Filled(rest))
                e    == IF Len(rest) > room THEN [next |-> rest[room + 1], stage |-> "list"]
                        ELSE [next |-> 0, stage |-> "left"]
    <2>2. /\ page' = Filled(rest) /\ i' = 0 /\ flag' = FALSE
          /\ trav' = [trav EXCEPT ![t] = e] /\ send_nlmsg(t, b)
      BY <2>1
    <2>3. rest \in Seq(Nat) /\ Len(rest) \in Nat
      BY <1>0, RestsAre
    <2>. HIDE DEF rest
    <2>4. room \in 1 .. PAGE /\ Filled(rest) \in [1 .. PAGE -> Nat] /\ PAGE \in Nat /\ PAGE >= 1
      BY <1>0, <2>3, PageFilled, PageIsPositive
    <2>5. b \in Bodies /\ b.kind = "page"
      BY <2>4 DEF ListBodies, Page
    <2>. HIDE DEF room, b
    <2>6. e \in [next : Nat, stage : {"list", "left", "end"}]
      <3>1. CASE Len(rest) > room
        <4>1. room + 1 \in 1 .. Len(rest)
          BY <2>3, <2>4, <3>1
        <4>2. rest[room + 1] \in Nat
          BY <2>3, <4>1
        <4>. QED
          BY <3>1, <4>2
      <3>2. CASE ~(Len(rest) > room)
        BY <3>2
      <3>. QED
        BY <3>1, <3>2
    <2>. HIDE DEF e
    <2>7. round[t] = 2 /\ UNCHANGED <<table, nelem, total_user, recved, serves, nuser, op, alone>>
      BY <1>2 DEF PageMade, daemon, served
    <2>8. StaticsOK' /\ \A u \in Threads : u # t => trav'[u] = trav[u]
      <3>0. 0 \in 0 .. PAGE - 1 /\ FALSE \in BOOLEAN
        BY <2>4
      <3>1. page' \in [1 .. PAGE -> Nat] /\ i' \in 0 .. PAGE - 1 /\ flag' \in BOOLEAN
        BY <2>2, <2>4, <3>0
      <3>2. trav' \in [Threads -> [next : Nat, stage : {"list", "left", "end"}]]
        BY <1>0, <2>2, <2>6
      <3>3. \A u \in Threads : u # t => trav'[u] = trav[u]
        BY <1>0, <2>2
      <3>. QED
        BY <1>0, <2>7, <3>1, <3>2, <3>3 DEF StaticsOK
    <2>. QED
      BY <2>2, <2>5, <2>7, <2>8 DEF Ends
  <1>3. CASE ListMade(t)
    <2>. DEFINE left == nelem % PAGE
    <2>1. PICK S \in Rests(t) :
            LET rest == InOrder(S)
            IN  /\ Len(rest) < Room(rest)
                /\ page' = Filled(rest) /\ i' = Fresh(Len(rest)) + Len(rest)
                /\ flag' = (flag /\ rest = <<>>)
                /\ trav' = [trav EXCEPT ![t] = IF left > 0 THEN [next |-> 0, stage |-> "end"]
                                               ELSE Start]
                /\ send_nlmsg(t, IF left > 0 THEN Page(left, Filled(rest)) ELSE Result)
      BY <1>3 DEF ListMade
    <2>. DEFINE rest == InOrder(S)
                b    == IF left > 0 THEN Page(left, Filled(rest)) ELSE Result
                e    == IF left > 0 THEN [next |-> 0, stage |-> "end"] ELSE Start
    <2>2. /\ page' = Filled(rest) /\ i' = Fresh(Len(rest)) + Len(rest)
          /\ flag' = (flag /\ rest = <<>>) /\ Len(rest) < Room(rest)
          /\ trav' = [trav EXCEPT ![t] = e] /\ send_nlmsg(t, b)
      BY <2>1
    <2>3. rest \in Seq(Nat) /\ Len(rest) \in Nat
      BY <1>0, RestsAre
    <2>. HIDE DEF rest
    <2>4. Filled(rest) \in [1 .. PAGE -> Nat] /\ Fresh(Len(rest)) + Len(rest) \in 0 .. PAGE - 1
      BY <1>0, <2>2, <2>3, PageFilled
    <2>5. left \in Nat
      BY <1>0, PageIsPositive
    <2>. HIDE DEF left
    <2>6. /\ b \in Bodies /\ b.kind # "total" /\ e \in [next : Nat, stage : {"list", "left", "end"}]
          /\ e # Start => ~Ends(b)
      <3>1. CASE left > 0
        BY <2>4, <2>5, <3>1 DEF ListBodies, Page, Ends
      <3>2. CASE ~(left > 0)
        BY <3>2 DEF ListBodies, Result, Start
      <3>. QED
        BY <3>1, <3>2
    <2>. HIDE DEF b, e
    <2>7. round[t] = 2 /\ UNCHANGED <<table, nelem, total_user, recved, serves, nuser, op, alone>>
      BY <1>3 DEF ListMade, daemon, served
    <2>8. StaticsOK' /\ \A u \in Threads : u # t => trav'[u] = trav[u]
      <3>1. page' \in [1 .. PAGE -> Nat] /\ i' \in 0 .. PAGE - 1
        BY <2>2, <2>4
      <3>2. flag' \in BOOLEAN
        BY <2>2
      <3>3. trav' \in [Threads -> [next : Nat, stage : {"list", "left", "end"}]]
        BY <1>0, <2>2, <2>6
      <3>4. \A u \in Threads : u # t => trav'[u] = trav[u]
        BY <1>0, <2>2
      <3>. QED
        BY <1>0, <2>7, <3>1, <3>2, <3>3, <3>4 DEF StaticsOK
    <2>9. trav'[t] = e
      BY <1>0, <2>2
    <2>. QED
      BY <2>2, <2>6, <2>7, <2>8, <2>9
  <1>4. CASE ListEnds(t)
    <2>1. Result \in Bodies /\ Result.kind = "result"
      BY DEF ListBodies, Result
    <2>2. /\ round[t] = 2 /\ flag' = TRUE /\ trav' = [trav EXCEPT ![t] = Start]
          /\ send_nlmsg(t, Result)
          /\ UNCHANGED <<table, page, i, nelem, total_user, recved, serves, nuser, op, alone>>
      BY <1>4 DEF ListEnds, daemon, served
    <2>3. StaticsOK' /\ (\A u \in Threads : u # t => trav'[u] = trav[u]) /\ trav'[t] = Start
      <3>1. Start \in [next : Nat, stage : {"list", "left", "end"}]
        BY DEF Start
      <3>2. trav' \in [Threads -> [next : Nat, stage : {"list", "left", "end"}]]
        BY <1>0, <2>2, <3>1
      <3>3. (\A u \in Threads : u # t => trav'[u] = trav[u]) /\ trav'[t] = Start
        BY <1>0, <2>2
      <3>. QED
        BY <1>0, <2>2, <3>2, <3>3 DEF StaticsOK
    <2>. QED
      BY <2>1, <2>2, <2>3
  <1>. QED
    BY <1>1, <1>2, <1>3, <1>4 DEF process_user_info

-----------------------------------------------------------------------------
(* The steps of the list are steps of conversations, and keep the types.   *)
LEMMA TalkKeeps ==
  ASSUME ReplyInv, NEW t \in Threads,
         SendMessage(t) \/ Replies(t) \/ Receiving(t) \/ NextRound(t)
  PROVE  \A u \in Threads :
           /\ pc'[u] = "closed" <=> pc[u] = "closed"
           /\ round[u] \in 1 .. 2 => round'[u] \in 1 .. 2
           /\ u # t => pc'[u] = pc[u] /\ round'[u] = round[u]
  <1>0. ReplyTypeOK
    BY DEF ReplyInv
  <1>1. CASE SendMessage(t)
    BY <1>0, <1>1 DEF SendMessage, ReplyTypeOK
  <1>2. CASE Replies(t)
    BY <1>0, <1>2, RepliesAre DEF ReplyTypeOK
  <1>3. CASE Receiving(t)
    <2>1. /\ pc[t] = "receive" /\ UNCHANGED round
          /\ pc' = pc \/ pc' = [pc EXCEPT ![t] = "received"]
      BY <1>3 DEF Receiving, RecvMessage
    <2>. QED
      BY <1>0, <2>1 DEF ReplyTypeOK
  <1>4. CASE NextRound(t)
    <2>1. /\ pc[t] = "received" /\ pc' = [pc EXCEPT ![t] = "send"]
          /\ round[t] < 2 /\ round' = [round EXCEPT ![t] = round[t] + 1]
      BY <1>4, ListAssumption DEF NextRound
    <2>. QED
      BY <1>0, <2>1 DEF ReplyTypeOK
  <1>. QED
    BY <1>1, <1>2, <1>3, <1>4

LEMMA SayKinds ==
  ASSUME ReplyInv, Kinds, NEW t \in Threads, round[t] \in 1 .. 2, NEW body,
         send_nlmsg(t, body), body.kind = "total" <=> round[t] = 1
  PROVE  Kinds'
  <1>1. pid \in Threads /\ sock \in [Threads -> Seq(Messages)]
    BY DEF send_nlmsg, ReplyInv, PidIsCaller, ReplyTypeOK
  <1>2. CASE UNCHANGED sock
    BY <1>2 DEF Kinds
  <1>3. CASE sock' = [sock EXCEPT ![pid] = Append(sock[pid], Message(t, body))]
    <2>. DEFINE s == sock[pid]
                m == Message(t, body)
    <2>1. m.to[3] = round[t] /\ m.body = body
      BY DEF Message, Request
    <2>2. s \in Seq(Messages)
      BY <1>1
    <2>3. sock'[pid] = Append(s, m) /\ \A u \in Threads : u # pid => sock'[u] = sock[u]
      BY <1>1, <1>3
    <2>4. \A k \in 1 .. Len(s) : s[k].to[3] = 1 <=> s[k].body.kind = "total"
      BY <1>1 DEF Kinds
    <2>. HIDE DEF s, m
    <2>5. /\ Len(Append(s, m)) = Len(s) + 1 /\ Len(s) \in Nat /\ Append(s, m)[Len(s) + 1] = m
          /\ \A k \in 1 .. Len(s) : Append(s, m)[k] = s[k]
      BY <2>2, AppendProperties
    <2>6. \A k \in 1 .. Len(s) + 1 : k \in 1 .. Len(s) \/ k = Len(s) + 1
      BY <2>5
    <2>7. \A k \in 1 .. Len(sock'[pid]) :
            sock'[pid][k].to[3] = 1 <=> sock'[pid][k].body.kind = "total"
      BY <2>1, <2>3, <2>4, <2>5, <2>6, SMTT(30)
    <2>. QED
      BY <2>3, <2>7 DEF Kinds
  <1>. QED
    BY <1>2, <1>3 DEF send_nlmsg

LEMMA OtherKinds ==
  ASSUME ReplyInv, Kinds, NEW t \in Threads,
         \/ UNCHANGED sock
         \/ sock[t] # <<>> /\ sock' = [sock EXCEPT ![t] = Tail(sock[t])]
         \/ sock' = [sock EXCEPT ![t] = <<>>]
  PROVE  Kinds'
  <1>1. sock \in [Threads -> Seq(Messages)]
    BY DEF ReplyInv, ReplyTypeOK
  <1>2. CASE UNCHANGED sock
    BY <1>2 DEF Kinds
  <1>3. CASE sock[t] # <<>> /\ sock' = [sock EXCEPT ![t] = Tail(sock[t])]
    <2>. DEFINE s == sock[t]
                w == Tail(s)
    <2>1. s \in Seq(Messages) /\ s # <<>>
      BY <1>1, <1>3
    <2>2. sock'[t] = w /\ \A u \in Threads : u # t => sock'[u] = sock[u]
      BY <1>1, <1>3
    <2>3. \A k \in 1 .. Len(s) : s[k].to[3] = 1 <=> s[k].body.kind = "total"
      BY <1>1 DEF Kinds
    <2>. HIDE DEF s
    <2>4. Len(w) = Len(s) - 1 /\ Len(s) \in Nat /\ \A k \in 1 .. Len(w) : w[k] = s[k + 1]
      BY <2>1, HeadTailProperties
    <2>. HIDE DEF w
    <2>5. \A k \in 1 .. Len(w) : k + 1 \in 1 .. Len(s)
      BY <2>4
    <2>. QED
      BY <2>2, <2>3, <2>4, <2>5 DEF Kinds
  <1>4. CASE sock' = [sock EXCEPT ![t] = <<>>]
    BY <1>1, <1>4 DEF Kinds
  <1>. QED
    BY <1>2, <1>3, <1>4

(* A thread takes one message for the number and those up to a result for  *)
(* the list; of its own answers these are the whole.                       *)
LEMMA ReceivesAnAnswer ==
  ASSUME ReplyInv, ListTypeOK, Bodies = ListBodies, NEW t \in Threads, Receives(t)
  PROVE  Receiving(t)
  <1>. DEFINE s == sock[t]
              h == Head(s)
  <1>1. s \in Seq(Messages) /\ s # <<>>
    BY DEF Receives, ReplyInv, ReplyTypeOK
  <1>2. h = s[1] /\ h \in Messages /\ 1 \in 1 .. Len(s)
    <2>. HIDE DEF s
    <2>. QED
      BY <1>1
  <1>3. h.to[3] = 1 <=> h.body.kind = "total"
    BY <1>2 DEF ListTypeOK, Kinds
  <1>4. h.body.kind \in {"page", "total", "result"}
    <2>1. h.body \in ListBodies
      BY <1>2 DEF Messages
    <2>. QED
      BY <2>1 DEF ListBodies
  <1>5. h.to = Request(t) => h.to[3] = round[t]
    BY DEF Request
  <1>6. \/ round[t] = 1 /\ RecvMessage(t, TRUE)
        \/ round[t] = 2 /\ RecvMessage(t, h.body.kind = "result")
    BY DEF Receives
  <1>. HIDE DEF h
  <1>7. CASE round[t] = 1 /\ RecvMessage(t, TRUE)
    BY <1>3, <1>5, <1>7 DEF Receiving, Ends, h
  <1>8. CASE round[t] = 2 /\ RecvMessage(t, h.body.kind = "result")
    <2>1. h.to = Request(t) => (h.body.kind = "result" <=> Ends(h.body))
      BY <1>3, <1>4, <1>5, <1>8 DEF Ends
    <2>2. (h.body.kind = "result") \in BOOLEAN
      OBVIOUS
    <2>. QED
      BY <1>8, <2>1, <2>2 DEF Receiving, h
  <1>. QED
    BY <1>6, <1>7, <1>8

LEMMA ConverseTypes ==
  ASSUME ReplyInv, ListTypeOK, Bodies = ListBodies, NEW t \in Threads,
         Enters(t) \/ process_user_info(t) \/ Receives(t) \/ Goes(t)
  PROVE  Talk(t) /\ ListTypeOK'
  <1>0. StaticsOK /\ Kinds /\ \A u \in Threads : round[u] \in 1 .. 2
    BY DEF ListTypeOK
  <1>1. ASSUME SendMessage(t) \/ Replies(t) \/ Receiving(t) \/ NextRound(t),
               UNCHANGED serves, StaticsOK', Kinds', \A u \in Threads : u # t => trav'[u] = trav[u],
               trav'[t] # Start => pc'[t] = "handled" /\ round'[t] = 2
        PROVE  Talk(t) /\ ListTypeOK'
    <2>1. \A u \in Threads :
            /\ pc'[u] = "closed" <=> pc[u] = "closed"
            /\ round'[u] \in 1 .. 2
            /\ u # t => pc'[u] = pc[u] /\ round'[u] = round[u]
      BY <1>0, <1>1, TalkKeeps
    <2>2. \A u \in Threads : trav'[u] # Start => pc'[u] = "handled" /\ round'[u] = 2
      BY <1>1, <2>1 DEF ListTypeOK
    <2>. QED
      BY <1>1, <2>1, <2>2 DEF Talk, ListTypeOK
  <1>2. CASE Enters(t) \/ Goes(t)
    <2>1. /\ SendMessage(t) \/ NextRound(t)
          /\ UNCHANGED <<sock, table, page, i, flag, nelem, trav, total_user, recved, serves>>
          /\ pc[t] # "handled"
      BY <1>2 DEF Enters, Goes, SendMessage, NextRound, list, kernel, statics, daemon, served
    <2>2. StaticsOK' /\ trav'[t] = Start
      BY <1>0, <2>1 DEF StaticsOK, ListTypeOK
    <2>3. Kinds'
      BY <1>0, <2>1, OtherKinds
    <2>. QED
      BY <1>1, <2>1, <2>2, <2>3
  <1>3. CASE process_user_info(t)
    <2>1. /\ \A u \in Threads : u # t => trav'[u] = trav[u]
          /\ StaticsOK' /\ UNCHANGED serves
      BY <1>3, UserInfoSaid
    <2>2. PICK body \in Bodies :
            /\ send_nlmsg(t, body)
            /\ body.kind = "total" <=> round[t] = 1
            /\ trav'[t] # Start => ~Ends(body) /\ round[t] = 2
      BY <1>3, UserInfoSaid
    <2>3. Replies(t)
      BY <2>2, SaidIsReply
    <2>4. Kinds'
      BY <1>0, <2>2, SayKinds
    <2>5. trav'[t] # Start => pc'[t] = "handled" /\ round'[t] = 2
      BY <2>2 DEF send_nlmsg
    <2>. QED
      BY <1>1, <2>1, <2>3, <2>4, <2>5
  <1>4. CASE Receives(t)
    <2>1. Receiving(t)
      BY <1>4, ReceivesAnAnswer
    <2>. DEFINE b == Head(sock[t]).body
    <2>2. /\ pc[t] = "receive" /\ sock[t] # <<>> /\ sock' = [sock EXCEPT ![t] = Tail(sock[t])]
          /\ GetTcUserNumber(t, b) \/ GetTcUserData(b)
          /\ UNCHANGED <<table, page, i, flag, nelem, trav, serves>>
      BY <1>4 DEF Receives, RecvMessage, kernel, statics
    <2>3. b \in ListBodies
      <3>1. sock[t] \in Seq(Messages)
        BY DEF ReplyInv, ReplyTypeOK
      <3>2. Head(sock[t]) \in Messages
        BY <2>2, <3>1
      <3>3. \A m \in Messages : m.body \in Bodies
        BY DEF Messages
      <3>. QED
        BY <3>2, <3>3
    <2>. HIDE DEF b
    <2>4. total_user' \in Nat /\ recved' \in Nat
      <3>1. CASE GetTcUserNumber(t, b)
        <4>1. Totals(b) \subseteq Nat
          BY <2>3, ListAssumption DEF Totals, ListBodies
        <4>. QED
          BY <1>0, <3>1, <4>1 DEF GetTcUserNumber, StaticsOK
      <3>2. CASE GetTcUserData(b)
        <4>1. b.kind = "page" => b.n \in Nat
          BY <2>3 DEF ListBodies
        <4>. QED
          BY <1>0, <3>2, <4>1 DEF GetTcUserData, AddUserInfoToPool, daemon, StaticsOK
      <3>. QED
        BY <2>2, <3>1, <3>2
    <2>5. StaticsOK' /\ trav'[t] = Start
      BY <1>0, <2>2, <2>4 DEF StaticsOK, ListTypeOK
    <2>6. Kinds'
      BY <1>0, <2>2, OtherKinds
    <2>. QED
      BY <1>1, <2>1, <2>2, <2>5, <2>6
  <1>. QED
    BY <1>2, <1>3, <1>4

(* Every step.                                                             *)
LEMMA ListTypes ==
  ASSUME ReplyInv, ListTypeOK, Bodies = ListBodies, [Next]_uvars
  PROVE  [\E t \in Threads : Talk(t)]_vars /\ ReplyInv' /\ ListTypeOK'
  <1>. SUFFICES [\E t \in Threads : Talk(t)]_vars /\ ListTypeOK'
    BY TalkStep
  <1>1. ASSUME NEW t \in Threads, Enters(t) \/ process_user_info(t) \/ Receives(t) \/ Goes(t)
        PROVE  [\E u \in Threads : Talk(u)]_vars /\ ListTypeOK'
    BY <1>1, ConverseTypes
  <1>2. ASSUME NEW t \in Threads, NumAnswer(t)
        PROVE  [\E u \in Threads : Talk(u)]_vars /\ ListTypeOK'
    <2>1. CloseNetLinkSocket(t) /\ Talk(t)
      BY <1>2 DEF NumAnswer, Talk
    <2>2. /\ recved' = 0 /\ serves' = [serves EXCEPT ![t] = Nobody]
          /\ UNCHANGED <<table, page, i, flag, nelem, trav, total_user>>
      BY <1>2 DEF NumAnswer, kernel, statics
    <2>3. /\ pc[t] = "received" /\ pc' = [pc EXCEPT ![t] = "closed"]
          /\ sock' = [sock EXCEPT ![t] = <<>>] /\ UNCHANGED round
      BY <2>1 DEF CloseNetLinkSocket
    <2>4. StaticsOK' /\ Kinds'
      BY <2>2, <2>3, OtherKinds DEF ListTypeOK, StaticsOK
    <2>5. ListTypeOK'
      BY <2>2, <2>3, <2>4 DEF ListTypeOK, ReplyInv, ReplyTypeOK
    <2>. QED
      BY <2>1, <2>5
  <1>3. ASSUME NEW t \in Threads, NEW o \in Operators, NumRequest(t, o)
        PROVE  [\E u \in Threads : Talk(u)]_vars /\ ListTypeOK'
    <2>1. InitNetLinkSocket(t) /\ Talk(t)
      BY <1>3 DEF NumRequest, Talk
    <2>2. /\ serves' = [serves EXCEPT ![t] = o]
          /\ UNCHANGED <<table, page, i, flag, nelem, trav, total_user, recved>>
      BY <1>3 DEF NumRequest, kernel, statics, daemon
    <2>3. /\ pc[t] = "closed" /\ pc' = [pc EXCEPT ![t] = "send"]
          /\ round' = [round EXCEPT ![t] = 1] /\ UNCHANGED sock
      BY <2>1 DEF InitNetLinkSocket
    <2>4. o # Nobody
      BY ListAssumption
    <2>5. StaticsOK' /\ Kinds'
      BY <2>2, <2>3, OtherKinds DEF ListTypeOK, StaticsOK
    <2>6. ListTypeOK'
      BY <2>2, <2>3, <2>4, <2>5 DEF ListTypeOK, ReplyInv, ReplyTypeOK
    <2>. QED
      BY <2>1, <2>6
  <1>4. ASSUME UNCHANGED <<vars, kernel, daemon, served>>, table' \subseteq Users
        PROVE  [\E u \in Threads : Talk(u)]_vars /\ ListTypeOK'
    <2>1. UNCHANGED <<vars, pc, sock, round, page, i, flag, nelem, trav, total_user, recved, serves>>
      BY <1>4 DEF vars, kernel, statics, daemon, served
    <2>2. StaticsOK' /\ Kinds'
      BY <1>4, <2>1 DEF ListTypeOK, StaticsOK, Kinds
    <2>. QED
      BY <2>1, <2>2 DEF ListTypeOK
  <1>5. CASE TunnelChanges
    <2>1. table' \subseteq Users
      BY <1>5 DEF TunnelChanges, ListTypeOK, StaticsOK
    <2>. QED
      BY <1>4, <1>5, <2>1 DEF TunnelChanges
  <1>6. ASSUME NEW o \in Operators, MapRequest(o) \/ Asks(o) \/ TimesOut(o)
        PROVE  [\E u \in Threads : Talk(u)]_vars /\ ListTypeOK'
    <2>1. UNCHANGED <<vars, table, kernel, daemon, served>>
      BY <1>6 DEF MapRequest, Asks, TimesOut
    <2>. QED
      BY <1>4, <2>1 DEF ListTypeOK, StaticsOK
  <1>7. CASE UNCHANGED uvars
    <2>1. UNCHANGED <<vars, table, kernel, daemon, served>>
      BY <1>7 DEF uvars, list
    <2>. QED
      BY <1>4, <2>1 DEF ListTypeOK, StaticsOK
  <1>. QED
    BY <1>1, <1>2, <1>3, <1>5, <1>6, <1>7 DEF Next, Converse

LEMMA InitTypes ==
  ASSUME Init
  PROVE  ReplyInv /\ ListTypeOK
  <1>1. ReplyInv
    BY InitTalks DEF Init
  <1>2. /\ table \in Tables
        /\ page = [k \in 1 .. PAGE |-> 0] /\ i = 0 /\ flag = FALSE /\ nelem = 0
        /\ trav = [t \in Threads |-> Start]
        /\ recved = 0 /\ total_user = 0 /\ serves = [t \in Threads |-> Nobody]
        /\ pc = [t \in Threads |-> "closed"] /\ sock = [t \in Threads |-> <<>>]
        /\ round = [t \in Threads |-> 1]
    BY DEF Init, NetlinkInit
  <1>3. table \subseteq Users
    BY <1>2, ListAssumption
  <1>4. page \in [1 .. PAGE -> Nat] /\ i \in 0 .. PAGE - 1
    BY <1>2, PageIsPositive
  <1>5. trav \in [Threads -> [next : Nat, stage : {"list", "left", "end"}]]
    BY <1>2 DEF Start
  <1>6. StaticsOK /\ Kinds
    <2>1. Kinds
      BY <1>2 DEF Kinds
    <2>2. nelem \in Nat /\ total_user \in Nat /\ recved \in Nat /\ flag \in BOOLEAN
      BY <1>2
    <2>. QED
      BY <1>3, <1>4, <1>5, <2>1, <2>2 DEF StaticsOK
  <1>7. ListTypeOK
    <2>1. serves \in [Threads -> Operators \cup {Nobody}]
      BY <1>2
    <2>2. \A t \in Threads : /\ pc[t] = "closed" /\ serves[t] = Nobody /\ round[t] = 1
                             /\ trav[t] = Start
      BY <1>2
    <2>. QED
      BY <1>6, <2>1, <2>2 DEF ListTypeOK
  <1>. QED
    BY <1>1, <1>7

(* Loading the list of the users is a conversation of two requests: every  *)
(* step of the workers of the IPC server, of the clients and of the tunnels*)
(* is a step of TalkSpec or none of its, on however many processors: the   *)
(* module answers page by page to whoever its global names by then, and the*)
(* daemon's loops end with the answers it makes (process_user_info,        *)
(* send_user_info, GetTcUserNumber, GetTcUserData).                        *)
THEOREM ListsAreTalks == ASSUME Bodies = ListBodies PROVE Spec => TalkSpec
  <1>1. Init => NetlinkInit /\ ReplyInv /\ ListTypeOK
    BY InitTypes DEF Init
  <1>2. ReplyInv /\ ListTypeOK /\ [Next]_uvars
          => [\E t \in Threads : Talk(t)]_vars /\ ReplyInv' /\ ListTypeOK'
    BY ListTypes
  <1>. QED
    BY <1>1, <1>2, PTL DEF Spec, TalkSpec

(* So the workers that load the list and meet no other in the kernel take  *)
(* the answers to their own questions, and none of them waits for one that *)
(* does not come, whatever those do that met.                              *)
THEOREM ListAnswersAreOwn ==
  ASSUME Bodies = ListBodies
  PROVE  Spec => [](OwnReply /\ AnswerIsThere)
  BY ListsAreTalks, RepliesAreOwn, AnswersAreThere, PTL

-----------------------------------------------------------------------------
(***************************************************************************)
(* The list an operator is shown.                                          *)
(***************************************************************************)

(* Between lists nothing has been received.                                *)
Between == (\A t \in Threads : serves[t] = Nobody) => recved = 0

(* While every list was made undisturbed no two requests met in the kernel,*)
(* and the next list starts at the first entry of the page.                *)
EvenIsOrderly == even => crossed = {}
AtStart == even /\ (\A t \in Threads : trav[t].stage # "end") => flag \/ i = 0

(* Of an operator whom nobody has disturbed, only one thread is at work.   *)
Sole ==
  \A o \in alone :
    /\ o \in Operators
    /\ \A t \in Threads : serves[t] \in {o, Nobody}
    /\ \A t, u \in Threads : serves[t] = o /\ serves[u] = o => t = u

ATable(T) == T \in Seq(Nat) /\ Len(T) <= PoolSize

(* Pages in a socket, and the first m entries of T in them: st is where    *)
(* each begins.                                                            *)
Pages(s, T, m, st) ==
  /\ st \in [1 .. Len(s) + 1 -> 0 .. Len(T)]
  /\ st[1] = 0 /\ st[Len(s) + 1] = m
  /\ \A k \in 1 .. Len(s) :
       LET b == s[k].body
       IN  /\ b.kind = "page" /\ b.n \in Nat /\ st[k + 1] = st[k] + b.n
           /\ \A j \in 1 .. b.n : b.users[j] = T[st[k] + j]

(* Pages and a result, and the entries of T after the first r in them.     *)
Chain(s, T, r, st) ==
  /\ st \in [1 .. Len(s) -> 0 .. Len(T)]
  /\ st[1] = r /\ st[Len(s)] = Len(T)
  /\ s[Len(s)].body.kind = "result"
  /\ \A k \in 1 .. Len(s) - 1 :
       LET b == s[k].body
       IN  /\ b.kind = "page" /\ b.n \in Nat /\ st[k + 1] = st[k] + b.n
           /\ \A j \in 1 .. b.n : b.users[j] = T[st[k] + j]

(* A list being made: what has gone out is its beginning, whole pages of it*)
(* until it ends, and the traversal stands at what comes next.             *)
Making(t) ==
  LET T == InOrder(table)
  IN  /\ trav[t] = Start => sock[t] = <<>>
      /\ trav[t] # Start =>
           /\ Len(T) = nelem
           /\ \E m \in 0 .. Len(T) :
                /\ \E st : Pages(sock[t], T, m, st)
                /\ trav[t].stage = "list" => m < Len(T) /\ trav[t].next = T[m + 1]
                /\ trav[t].stage # "list" => m = Len(T)
                /\ trav[t].stage # "end" => \E q \in Nat : m = q * PAGE

Makings == even => \A t \in Threads : pc[t] = "handled" /\ round[t] = 2 => Making(t)

(* The globals hold the first m entries of a list.                         *)
Holds(T, m) == \A k \in 1 .. m : UserPool[k - 1] = T[k]

(* Where the question of the sole operator is.                             *)
Counting(t) ==
  /\ recved = 0
  /\ pc[t] # "receive" => sock[t] = <<>>
  /\ pc[t] = "receive" => Len(sock[t]) = 1 /\ sock[t][1].body = [kind |-> "total", n |-> nelem]
  /\ pc[t] = "received" => nuser[t] = nelem /\ total_user = nelem

Listing(t, T) ==
  /\ nuser[t] = nelem /\ total_user = nelem
  /\ pc[t] \in {"send", "handled"} => recved = 0
  /\ pc[t] = "handled" => trav[t] = Start \/ T = InOrder(table)
  /\ pc[t] \in {"receive", "received"} => ATable(T) /\ Len(T) = nelem
  /\ pc[t] = "receive" =>
       sock[t] # <<>> /\ Holds(T, recved) /\ \E st : Chain(sock[t], T, recved, st)
  /\ pc[t] = "received" => Holds(T, Len(T))

Course(o, t) ==
  /\ op[o].pc \in {"idle", "num"}
  /\ round[t] = 1 => Counting(t)
  /\ round[t] # 1 => Listing(t, truth[o])

InCourse == \A o \in alone, t \in Threads : serves[t] = o /\ even => Course(o, t)

(* What he is shown is the beginning of the list.                          *)
ShownTo(o, T) ==
  /\ \A t \in Threads : serves[t] # o
  /\ ATable(T) /\ op[o].max = Len(T) /\ total_user = Len(T) /\ Holds(T, Len(T))
  /\ op[o].seen \in Seq(Nat) /\ Len(op[o].seen) = op[o].offset
  /\ op[o].offset \in Nat /\ op[o].offset <= Len(T)
  /\ \A k \in 1 .. op[o].offset : op[o].seen[k] = T[k]
  /\ op[o].pc = "done" <=> op[o].offset = Len(T)

Shown == \A o \in alone : op[o].pc \in {"map", "done"} /\ even => ShownTo(o, truth[o])

(* Before he is shown anything his client knows of nothing.                *)
OpShape ==
  /\ op = [o \in Operators |-> op[o]] /\ truth = [o \in Operators |-> truth[o]]
  /\ nuser = [t \in Threads |-> nuser[t]]
  /\ \A o \in Operators : op[o].pc \in {"idle", "num"} => op[o].offset = 0 /\ op[o].seen = <<>>

KernelInv == EvenIsOrderly /\ AtStart /\ Makings

DaemonInv == Between /\ Sole /\ InCourse /\ Shown

ListInv == ReplyInv /\ ListTypeOK /\ OpShape /\ KernelInv /\ DaemonInv

-----------------------------------------------------------------------------
(* The kernel module.  A handler that has met no other is alone, and sends *)
(* to its caller.                                                          *)
LEMMA HandlerIsAlone ==
  ASSUME ReplyInv, EvenIsOrderly, even, NEW t \in Threads, pc[t] = "handled"
  PROVE  t \notin crossed /\ pid = t /\ \A u \in Threads : pc[u] = "handled" => u = t
  BY DEF EvenIsOrderly, ReplyInv, PidIsCaller

LEMMA SaidToCaller ==
  ASSUME ReplyInv, EvenIsOrderly, even, NEW t \in Threads, NEW body, send_nlmsg(t, body)
  PROVE  /\ pc[t] = "handled" /\ \A u \in Threads : pc'[u] = "handled" => u = t
         /\ pc'[t] = IF Ends(body) THEN "receive" ELSE "handled"
         /\ sock'[t] = Append(sock[t], Message(t, body)) /\ sock[t] \in Seq(Messages)
         /\ Message(t, body).body = body
         /\ UNCHANGED <<pid, round, crossed>>
  <1>1. pc[t] = "handled" /\ UNCHANGED <<pid, round, crossed>>
    BY DEF send_nlmsg
  <1>2. pid = t /\ \A u \in Threads : pc[u] = "handled" => u = t
    BY <1>1, HandlerIsAlone
  <1>3. pc' = IF Ends(body) THEN [pc EXCEPT ![t] = "receive"] ELSE pc
    BY DEF send_nlmsg
  <1>4. sock' = [sock EXCEPT ![t] = Append(sock[t], Message(t, body))]
    BY <1>1, <1>2 DEF send_nlmsg
  <1>5. sock \in [Threads -> Seq(Messages)] /\ pc = [u \in Threads |-> pc[u]]
    BY DEF ReplyInv, ReplyTypeOK
  <1>6. Message(t, body).body = body
    BY DEF Message
  <1>7. \A u \in Threads : pc'[u] = "handled" => u = t
    BY <1>2, <1>3, <1>5
  <1>. QED
    BY <1>1, <1>3, <1>4, <1>5, <1>6, <1>7

(* Another page, and the end.                                              *)
LEMMA PageOfList ==
  ASSUME NEW T \in Seq(Nat), NEW s \in Seq(Messages), NEW m, NEW st, Pages(s, T, m, st),
         NEW x, NEW b, b = x.body, b.kind = "page", b.n \in Nat, m + b.n <= Len(T),
         \A j \in 1 .. b.n : b.users[j] = T[m + j]
  PROVE  \E st2 : Pages(Append(s, x), T, m + b.n, st2)
  <1>. DEFINE n   == Len(s)
              w   == Append(s, x)
              st2 == [k \in 1 .. n + 2 |-> IF k = n + 2 THEN m + b.n ELSE st[k]]
  <1>1. /\ n \in Nat /\ Len(T) \in Nat
        /\ st \in [1 .. n + 1 -> 0 .. Len(T)] /\ st[1] = 0 /\ st[n + 1] = m
        /\ \A k \in 1 .. n : /\ s[k].body.kind = "page" /\ s[k].body.n \in Nat
                             /\ st[k + 1] = st[k] + s[k].body.n
                             /\ \A j \in 1 .. s[k].body.n : s[k].body.users[j] = T[st[k] + j]
    BY SMTT(30) DEF Pages
  <1>2. Len(w) = n + 1 /\ w[n + 1] = x /\ \A k \in 1 .. n : w[k] = s[k]
    OBVIOUS
  <1>. HIDE DEF w, n
  <1>3. m \in 0 .. Len(T) /\ m + b.n \in 0 .. Len(T)
    <2>1. n + 1 \in 1 .. n + 1
      BY <1>1
    <2>. QED
      BY <1>1, <2>1
  <1>4. st2 \in [1 .. n + 2 -> 0 .. Len(T)]
    <2>1. \A k \in 1 .. n + 2 : k # n + 2 => k \in 1 .. n + 1
      BY <1>1
    <2>. QED
      BY <1>1, <1>3, <2>1
  <1>5. \A k \in 1 .. n + 2 : st2[k] = IF k = n + 2 THEN m + b.n ELSE st[k]
    OBVIOUS
  <1>. HIDE DEF st2
  <1>6. st2[1] = 0 /\ st2[n + 2] = m + b.n /\ Len(w) + 1 = n + 2
    BY <1>1, <1>2, <1>5
  <1>7. ASSUME NEW k \in 1 .. n + 1
        PROVE  LET c == w[k].body
               IN  /\ c.kind = "page" /\ c.n \in Nat /\ st2[k + 1] = st2[k] + c.n
                   /\ \A j \in 1 .. c.n : c.users[j] = T[st2[k] + j]
    <2>1. k \in 1 .. n + 2 /\ k + 1 \in 1 .. n + 2 /\ k # n + 2
      BY <1>1
    <2>2. CASE k = n + 1
      <3>1. st2[k] = m /\ st2[k + 1] = m + b.n /\ w[k].body = b
        BY <1>1, <1>2, <1>5, <2>1, <2>2
      <3>. QED
        BY <3>1
    <2>3. CASE k # n + 1
      <3>1. k \in 1 .. n /\ k + 1 # n + 2
        BY <1>1, <2>3
      <3>2. st2[k] = st[k] /\ st2[k + 1] = st[k + 1] /\ w[k].body = s[k].body
        BY <1>2, <1>5, <2>1, <3>1
      <3>. QED
        BY <1>1, <3>1, <3>2
    <2>. QED
      BY <2>2, <2>3
  <1>8. Pages(w, T, m + b.n, st2)
    BY <1>2, <1>4, <1>6, <1>7 DEF Pages
  <1>. QED
    BY <1>8 DEF w

LEMMA EndOfList ==
  ASSUME NEW T \in Seq(Nat), NEW s \in Seq(Messages), NEW st, Pages(s, T, Len(T), st),
         NEW x, x.body.kind = "result"
  PROVE  Append(s, x) # <<>> /\ Chain(Append(s, x), T, 0, st)
  <1>. DEFINE n == Len(s)
              w == Append(s, x)
  <1>1. /\ n \in Nat /\ w # <<>>
        /\ Len(w) = n + 1 /\ w[n + 1] = x /\ \A k \in 1 .. n : w[k] = s[k]
    OBVIOUS
  <1>. HIDE DEF w, n
  <1>2. Len(w) - 1 = n
    BY <1>1
  <1>3. Chain(w, T, 0, st)
    BY <1>1, <1>2 DEF Pages, Chain, n
  <1>. QED
    BY <1>1, <1>3 DEF w

-----------------------------------------------------------------------------
(* What the traversal comes to next is the rest of the list, the page that *)
(* is being filled begins with it, and the pages before hold the others.   *)
LEMMA ComesNext ==
  ASSUME ReplyInv, ListTypeOK, KernelInv, NEW t \in Threads, even, pc[t] = "handled", round[t] = 2,
         trav[t].stage # "end", trav[t] = Start => nelem = Cardinality(table),
         NEW S \in Rests(t), NEW T, T = InOrder(table), NEW rest, rest = InOrder(S)
  PROVE  /\ ATable(T) /\ Len(T) = nelem /\ \A n \in 1 .. Len(T) : T[n] # 0
         /\ rest \in Seq(Nat) /\ (Len(rest) > 0 => Fresh(Len(rest)) = 0)
         /\ \E m \in 0 .. Len(T), q \in Nat :
              /\ m = q * PAGE /\ Len(rest) = Len(T) - m
              /\ \A k \in 1 .. Len(rest) : rest[k] = T[m + k]
              /\ \E st : Pages(sock[t], T, m, st)
  <1>1. table \in SUBSET Users /\ StaticsOK
    BY DEF ListTypeOK, StaticsOK
  <1>2. /\ table \in SUBSET Nat /\ IsFiniteSet(table) /\ T \in Seq(Nat)
        /\ Len(T) = Cardinality(table) /\ Cardinality(table) \in Nat /\ Cardinality(table) <= PoolSize
        /\ \A n \in 1 .. Len(T) : T[n] \in table
    BY <1>1, UsersAre, InOrderIs
  <1>3. ATable(T) /\ \A n \in 1 .. Len(T) : T[n] # 0
    BY <1>1, <1>2, ListAssumption DEF ATable
  <1>4. rest \in Seq(Nat) /\ Len(rest) = Cardinality(S) /\ S \in SUBSET Users
    BY <1>1, RestsAre
  <1>5. Making(t)
    BY DEF KernelInv, Makings
  <1>6. ASSUME Len(rest) > 0
        PROVE  Fresh(Len(rest)) = 0
    <2>1. \A u \in Threads : pc[u] = "handled" => u = t
      BY HandlerIsAlone DEF KernelInv
    <2>2. \A u \in Threads : trav[u].stage # "end"
      BY <2>1 DEF ListTypeOK, Start
    <2>3. flag \/ i = 0
      BY <2>2 DEF KernelInv, AtStart
    <2>. QED
      BY <1>6, <2>3 DEF Fresh
  <1>7. CASE trav[t] = Start
    <2>1. \A u \in table : u >= 0
      BY <1>2
    <2>2. S = table
      BY <1>7, <2>1 DEF Rests, Start
    <2>3. rest = T /\ Len(T) = nelem /\ sock[t] = <<>>
      BY <1>2, <1>5, <1>7, <2>2 DEF Making
    <2>4. 0 \in 0 .. Len(T) /\ 0 = 0 * PAGE /\ Len(rest) = Len(T) - 0
      BY <1>2, <2>3, PageIsPositive
    <2>5. \A k \in 1 .. Len(rest) : rest[k] = T[0 + k]
      BY <1>2, <2>3
    <2>. DEFINE st == [k \in 1 .. 1 |-> 0]
    <2>6. Pages(<<>>, T, 0, st)
      BY <1>2 DEF Pages
    <2>. HIDE DEF st
    <2>. QED
      BY <1>3, <1>4, <1>6, <2>3, <2>4, <2>5, <2>6
  <1>8. CASE trav[t] # Start
    <2>1. Len(T) = nelem
      BY <1>5, <1>8 DEF Making
    <2>2. PICK m \in 0 .. Len(T) :
            /\ \E st : Pages(sock[t], T, m, st)
            /\ trav[t].stage = "list" => m < Len(T) /\ trav[t].next = T[m + 1]
            /\ trav[t].stage # "list" => m = Len(T)
            /\ \E q \in Nat : m = q * PAGE
      BY <1>5, <1>8 DEF Making
    <2>3. Len(rest) = Len(T) - m /\ \A k \in 1 .. Len(rest) : rest[k] = T[m + k]
      <3>1. CASE trav[t].stage = "list"
        <4>1. m < Len(T) /\ trav[t].next = T[m + 1] /\ m \in Nat
          BY <1>2, <2>2, <3>1
        <4>2. trav[t].next \in table
          BY <1>2, <4>1
        <4>3. S \subseteq table /\ \A u \in table : u \in S <=> u >= T[m + 1]
          BY <3>1, <4>1, <4>2 DEF Rests
        <4>4. table \in SUBSET Nat /\ IsFiniteSet(table) /\ T = InOrder(table) /\ m \in Nat
              /\ m < Len(T) /\ S \in SUBSET table /\ rest = InOrder(S)
          BY <1>2, <4>1, <4>3
        <4>. QED
          BY <4>3, <4>4, RestOfList, SMTT(30)
      <3>2. CASE trav[t].stage # "list"
        <4>1. S = {} /\ m = Len(T)
          BY <2>2, <3>2 DEF Rests
        <4>2. Len(rest) = 0
          BY <1>4, <4>1, FS_EmptySet
        <4>. QED
          BY <1>2, <4>1, <4>2
      <3>. QED
        BY <3>1, <3>2
    <2>. QED
      BY <1>3, <1>4, <1>6, <2>1, <2>2, <2>3
  <1>. QED
    BY <1>7, <1>8

(* The history of the truth, and of whether the lists were even, follows a *)
(* traversal from its beginning.                                           *)
LEMMA ObservedIs ==
  ASSUME NEW t \in Threads, Observed(t), even'
  PROVE  even /\ (trav[t] = Start => nelem = Cardinality(table))
  BY DEF Observed

LEMMA TruthFollows ==
  ASSUME OpShape, InCourse, even, NEW t \in Threads, pc[t] = "handled", round[t] = 2, Observed(t),
         NEW o \in alone, o \in Operators, serves[t] = o
  PROVE  truth'[o] = InOrder(table)
  <1>1. CASE trav[t] = Start
    BY <1>1 DEF Observed, OpShape
  <1>2. CASE trav[t] # Start
    <2>1. Course(o, t)
      BY DEF InCourse
    <2>2. truth[o] = InOrder(table)
      BY <1>2, <2>1 DEF Course, Listing
    <2>. QED
      BY <1>2, <2>2 DEF Observed
  <1>. QED
    BY <1>1, <1>2

(* A step of a worker concerns the operator it works for, and no other if  *)
(* nobody has disturbed that one.                                          *)
LEMMA Worker ==
  ASSUME ListTypeOK, DaemonInv, NEW t \in Threads, pc[t] # "closed", UNCHANGED <<alone, serves, op>>,
         even' => even,
         \A o \in alone : o \in Operators /\ serves[t] = o /\ even' /\ Course(o, t) => Course(o, t)'
  PROVE  DaemonInv'
  <1>1. serves[t] # Nobody
    BY DEF ListTypeOK
  <1>2. ASSUME NEW o \in alone
        PROVE  /\ serves[t] = o /\ o \in Operators
               /\ \A u \in Threads : serves[u] = o => u = t
    BY <1>1 DEF DaemonInv, Sole
  <1>3. (Between /\ Sole)'
    BY <1>1 DEF DaemonInv, Between, Sole
  <1>4. InCourse'
    <2>. SUFFICES ASSUME NEW o \in alone, NEW u \in Threads, serves[u] = o, even'
                  PROVE  Course(o, u)'
      BY DEF InCourse
    <2>1. u = t /\ Course(o, t)
      BY <1>2 DEF DaemonInv, InCourse
    <2>. QED
      BY <1>2, <2>1
  <1>5. Shown'
    <2>. SUFFICES ASSUME NEW o \in alone, op[o].pc \in {"map", "done"}, even'
                  PROVE  FALSE
      BY DEF Shown
    <2>1. serves[t] # o
      BY DEF DaemonInv, Shown, ShownTo
    <2>. QED
      BY <1>2, <2>1
  <1>. QED
    BY <1>3, <1>4, <1>5 DEF DaemonInv

(* What a step outside the kernel module leaves of it.                     *)
LEMMA KernelRests ==
  ASSUME KernelInv, UNCHANGED <<table, i, flag, nelem, trav, even>>, even => crossed' \subseteq crossed,
         \A t \in Threads : pc'[t] = "handled" =>
           pc[t] = "handled" /\ round'[t] = round[t] /\ sock'[t] = sock[t]
  PROVE  KernelInv'
  <1>1. EvenIsOrderly' /\ AtStart'
    BY DEF KernelInv, EvenIsOrderly, AtStart
  <1>2. Makings'
    <2>. SUFFICES ASSUME even, NEW t \in Threads, pc'[t] = "handled", round'[t] = 2
                  PROVE  Making(t)'
      BY DEF Makings
    <2>1. Making(t) /\ sock'[t] = sock[t]
      BY DEF KernelInv, Makings
    <2>. QED
      BY <2>1 DEF Making
  <1>. QED
    BY <1>1, <1>2 DEF KernelInv

-----------------------------------------------------------------------------
(* process_user_info, message by message.                                  *)
LEMMA ObservedShape ==
  ASSUME OpShape, NEW t \in Threads, Observed(t), UNCHANGED <<op, nuser>>
  PROVE  OpShape'
  BY DEF OpShape, Observed

LEMMA TypeOfStatics ==
  ASSUME ListTypeOK
  PROVE  /\ nelem \in Nat /\ i \in 0 .. PAGE - 1 /\ flag \in BOOLEAN /\ trav = [t \in Threads |-> trav[t]]
         /\ \A t \in Threads : trav[t].stage # "list" => trav[t] # Start
  BY DEF ListTypeOK, StaticsOK, Start

LEMMA ToldKeeps ==
  ASSUME ListInv, NEW t \in Threads, NumberTold(t)
  PROVE  (OpShape /\ KernelInv /\ DaemonInv)'
  <1>0. ReplyInv /\ ListTypeOK /\ OpShape /\ KernelInv /\ DaemonInv
    BY DEF ListInv
  <1>. DEFINE b == [kind |-> "total", n |-> Cardinality(table)]
  <1>1. /\ pc[t] = "handled" /\ round[t] = 1 /\ nelem' = Cardinality(table)
        /\ send_nlmsg(t, b)
        /\ UNCHANGED <<table, flag, i, trav, even, op, truth, nuser, alone, serves,
                       total_user, recved, UserPool>>
    BY DEF NumberTold, daemon, served, send_nlmsg
  <1>2. b.kind = "total" /\ Ends(b) /\ b.n = nelem'
    BY <1>1 DEF Ends
  <1>. HIDE DEF b
  <1>3. OpShape'
    BY <1>0, <1>1 DEF OpShape
  <1>4. ASSUME even
        PROVE  /\ crossed' = {} /\ pc'[t] = "receive" /\ \A u \in Threads : pc'[u] # "handled"
               /\ sock'[t] = Append(sock[t], Message(t, b)) /\ Message(t, b).body = b
               /\ UNCHANGED round
    <2>1. EvenIsOrderly
      BY <1>0 DEF KernelInv
    <2>2. /\ \A u \in Threads : pc'[u] = "handled" => u = t
          /\ pc'[t] = IF Ends(b) THEN "receive" ELSE "handled"
          /\ sock'[t] = Append(sock[t], Message(t, b)) /\ Message(t, b).body = b
          /\ UNCHANGED <<round, crossed>>
      BY <1>0, <1>1, <1>4, <2>1, SaidToCaller
    <2>3. crossed = {}
      BY <1>4, <2>1 DEF EvenIsOrderly
    <2>. QED
      BY <1>2, <2>2, <2>3
  <1>5. KernelInv'
    BY <1>0, <1>1, <1>4 DEF KernelInv, EvenIsOrderly, AtStart, Makings
  <1>6. ASSUME NEW o \in alone, even, Course(o, t)
        PROVE  Course(o, t)'
    <2>1. recved = 0 /\ sock[t] = <<>>
      BY <1>1, <1>6 DEF Course, Counting
    <2>2. sock'[t] = <<Message(t, b)>>
      <3>. DEFINE m == Message(t, b)
      <3>1. sock'[t] = Append(<<>>, m)
        BY <1>4, <1>6, <2>1
      <3>. HIDE DEF m
      <3>2. Append(<<>>, m) = <<m>>
        OBVIOUS
      <3>. QED
        BY <3>1, <3>2 DEF m
    <2>3. Len(sock'[t]) = 1 /\ sock'[t][1].body = b
      <3>. DEFINE m == Message(t, b)
      <3>1. Len(<<m>>) = 1 /\ <<m>>[1] = m
        OBVIOUS
      <3>. QED
        BY <1>4, <1>6, <2>2, <3>1
    <2>4. b = [kind |-> "total", n |-> nelem']
      BY <1>1 DEF b
    <2>5. Counting(t)'
      BY <1>1, <1>4, <1>6, <2>1, <2>3, <2>4 DEF Counting
    <2>. QED
      BY <1>1, <1>4, <1>6, <2>5 DEF Course
  <1>7. DaemonInv'
    <2>1. pc[t] # "closed"
      BY <1>1
    <2>. QED
      BY <1>0, <1>1, <1>6, <2>1, Worker
  <1>. QED
    BY <1>3, <1>5, <1>7

(* Of the second request one operator is told, and the list is still his.  *)
LEMMA StillListing ==
  ASSUME ListInv, NEW t \in Threads, pc[t] = "handled", round[t] = 2,
         UNCHANGED <<op, nuser, nelem, alone, serves, total_user, recved, UserPool, round, table>>,
         NEW o \in alone, o \in Operators, serves[t] = o, even, truth'[o] = InOrder(table),
         pc'[t] = "handled" \/ /\ pc'[t] = "receive" /\ sock'[t] # <<>>
                               /\ ATable(InOrder(table)) /\ Len(InOrder(table)) = nelem
                               /\ \E st : Chain(sock'[t], InOrder(table), 0, st)
  PROVE  Course(o, t)'
  <1>. DEFINE T == InOrder(table)
  <1>1. Course(o, t)
    BY DEF ListInv, DaemonInv, InCourse
  <1>2. op[o].pc \in {"idle", "num"} /\ nuser[t] = nelem /\ total_user = nelem /\ recved = 0
    BY <1>1 DEF Course, Listing
  <1>3. T' = T /\ truth'[o] = T /\ recved' = 0
    BY <1>2
  <1>. HIDE DEF T
  <1>4. ATable(T)' <=> ATable(T)
    BY <1>3 DEF ATable
  <1>5. Listing(t, truth[o])'
    <2>1. CASE pc'[t] = "handled"
      BY <1>2, <1>3, <2>1 DEF Listing, T
    <2>2. CASE pc'[t] = "receive"
      <3>1. /\ sock'[t] # <<>> /\ ATable(T) /\ Len(T) = nelem
            /\ \E st : Chain(sock'[t], T, recved', st)
        BY <1>3, <2>2 DEF T
      <3>2. Holds(T, 0)'
        BY DEF Holds
      <3>. QED
        BY <1>2, <1>3, <1>4, <2>2, <3>1, <3>2 DEF Listing
    <2>. QED
      BY <2>1, <2>2
  <1>. QED
    BY <1>2, <1>5 DEF Course

(* A full page: all of it is of this list, and goes out behind the pages   *)
(* before.                                                                 *)
LEMMA PageKeeps ==
  ASSUME ListInv, Bodies = ListBodies, NEW t \in Threads, PageMade(t)
  PROVE  (OpShape /\ KernelInv /\ DaemonInv)'
  <1>0. ReplyInv /\ ListTypeOK /\ OpShape /\ KernelInv /\ DaemonInv /\ EvenIsOrderly /\ StaticsOK
        /\ InCourse
    BY DEF ListInv, KernelInv, ListTypeOK, DaemonInv
  <1>1. PICK S \in Rests(t) :
          LET rest == InOrder(S)
              room == Room(rest)
          IN  /\ Len(rest) >= room
              /\ page' = Filled(rest) /\ i' = 0 /\ flag' = FALSE
              /\ trav' = [trav EXCEPT ![t] = IF Len(rest) > room
                                             THEN [next |-> rest[room + 1], stage |-> "list"]
                                             ELSE [next |-> 0, stage |-> "left"]]
              /\ send_nlmsg(t, Page(PAGE, Filled(rest)))
    BY DEF PageMade
  <1>2. /\ pc[t] = "handled" /\ round[t] = 2 /\ trav[t].stage # "end" /\ Observed(t)
        /\ UNCHANGED <<table, nelem, op, nuser, alone, serves, total_user, recved, UserPool>>
    BY DEF PageMade, send_nlmsg, daemon, served
  <1>. DEFINE rest == InOrder(S)
              room == Room(rest)
              b    == Page(PAGE, Filled(rest))
              e    == IF Len(rest) > room THEN [next |-> rest[room + 1], stage |-> "list"]
                      ELSE [next |-> 0, stage |-> "left"]
              T    == InOrder(table)
              s    == sock[t]
  <1>3. Len(rest) >= room /\ i' = 0 /\ trav' = [trav EXCEPT ![t] = e] /\ send_nlmsg(t, b)
    BY <1>1
  <1>4. OpShape'
    BY <1>0, <1>2, ObservedShape
  <1>5. even' => even
    BY <1>2, ObservedIs
  <1>6. ASSUME even'
        PROVE  /\ crossed' = {} /\ Making(t)' /\ pc'[t] = "handled" /\ UNCHANGED round
               /\ \A u \in Threads : pc'[u] = "handled" => u = t
    <2>1. even /\ (trav[t] = Start => nelem = Cardinality(table))
      BY <1>2, <1>6, ObservedIs
    <2>2. /\ pc'[t] = IF Ends(b) THEN "receive" ELSE "handled"
          /\ \A u \in Threads : pc'[u] = "handled" => u = t
          /\ sock'[t] = Append(s, Message(t, b)) /\ s \in Seq(Messages)
          /\ Message(t, b).body = b
          /\ UNCHANGED <<round, crossed>>
      <3>. HIDE DEF b
      <3>. QED
        BY <1>0, <1>3, <2>1, SaidToCaller
    <2>3. b.kind = "page" /\ ~Ends(b) /\ b.n = PAGE /\ b.users = Filled(rest)
      BY DEF Page, Ends
    <2>4. /\ ATable(T) /\ Len(T) = nelem /\ \A n \in 1 .. Len(T) : T[n] # 0
          /\ rest \in Seq(Nat) /\ (Len(rest) > 0 => Fresh(Len(rest)) = 0)
          /\ \E m \in 0 .. Len(T), q \in Nat :
               /\ m = q * PAGE /\ Len(rest) = Len(T) - m
               /\ \A k \in 1 .. Len(rest) : rest[k] = T[m + k]
               /\ \E st : Pages(s, T, m, st)
      <3>1. T = InOrder(table) /\ rest = InOrder(S) /\ s = sock[t] /\ KernelInv /\ S \in Rests(t)
        BY <1>0
      <3>. HIDE DEF rest, T, s, b, room, e
      <3>2. /\ ReplyInv /\ ListTypeOK /\ even /\ pc[t] = "handled" /\ round[t] = 2
            /\ trav[t].stage # "end" /\ (trav[t] = Start => nelem = Cardinality(table))
        BY <1>0, <1>2, <2>1
      <3>. QED
        BY <3>1, <3>2, ComesNext, SMTT(30)
    <2>. HIDE DEF rest, T, s, b, room, e
    <2>5. PICK m \in 0 .. Len(T), q \in Nat :
            /\ m = q * PAGE /\ Len(rest) = Len(T) - m
            /\ \A k \in 1 .. Len(rest) : rest[k] = T[m + k]
            /\ \E st : Pages(s, T, m, st)
      BY <2>4
    <2>6. PICK st : Pages(s, T, m, st)
      BY <2>5
    <2>7. T \in Seq(Nat) /\ Len(T) \in Nat /\ m \in Nat /\ Len(rest) \in Nat /\ PAGE \in Nat /\ PAGE >= 1
      BY <2>4, PageIsPositive DEF ATable
    <2>8. /\ room = PAGE /\ Len(rest) >= PAGE
          /\ \A p \in 1 .. PAGE : Filled(rest)[p] = rest[p]
      <3>1. /\ Room(rest) \in 1 .. PAGE /\ Room(rest) = PAGE - Fresh(Len(rest))
            /\ \A p \in 1 .. PAGE :
                 p > Fresh(Len(rest)) /\ p - Fresh(Len(rest)) <= Len(rest)
                   => Filled(rest)[p] = rest[p - Fresh(Len(rest))]
        BY <1>0, <2>4, PageFilled
      <3>2. Len(rest) > 0
        BY <1>3, <2>7, <3>1 DEF room
      <3>3. Fresh(Len(rest)) = 0
        BY <2>4, <3>2
      <3>4. room = PAGE /\ Len(rest) >= PAGE
        BY <1>3, <2>7, <3>1, <3>3 DEF room
      <3>5. \A p \in 1 .. PAGE : p > 0 /\ p - 0 = p /\ p <= Len(rest)
        BY <2>7, <3>4
      <3>. QED
        BY <3>1, <3>3, <3>4, <3>5
    <2>9. m + PAGE <= Len(T) /\ \A j \in 1 .. PAGE : b.users[j] = T[m + j]
      <3>1. \A j \in 1 .. PAGE : j \in 1 .. Len(rest)
        BY <2>7, <2>8
      <3>. QED
        BY <2>3, <2>5, <2>7, <2>8, <3>1
    <2>10. \E st2 : Pages(sock'[t], T, m + PAGE, st2)
      <3>. DEFINE x == Message(t, b)
      <3>1. x.body = b
        BY <2>2
      <3>. HIDE DEF x
      <3>2. \E st2 : Pages(Append(s, x), T, m + b.n, st2)
        BY <2>2, <2>3, <2>6, <2>7, <2>9, <3>1, PageOfList
      <3>. QED
        BY <2>2, <2>3, <3>2 DEF x
    <2>11. trav'[t] = e
      BY <1>0, <1>3, TypeOfStatics
    <2>12. m + PAGE \in 0 .. Len(T) /\ m + PAGE = (q + 1) * PAGE /\ q + 1 \in Nat
      BY <2>5, <2>7, <2>9
    <2>13. /\ trav'[t] # Start
           /\ trav'[t].stage = "list" => m + PAGE < Len(T) /\ trav'[t].next = T[(m + PAGE) + 1]
           /\ trav'[t].stage # "list" => m + PAGE = Len(T)
      <3>1. CASE Len(rest) > room
        <4>1. e = [next |-> rest[PAGE + 1], stage |-> "list"]
          BY <2>8, <3>1 DEF e
        <4>2. PAGE + 1 \in 1 .. Len(rest) /\ m + (PAGE + 1) = (m + PAGE) + 1
          BY <2>7, <2>8, <3>1
        <4>3. rest[PAGE + 1] = T[(m + PAGE) + 1] /\ (m + PAGE) + 1 \in 1 .. Len(T)
          BY <2>5, <2>7, <4>2
        <4>4. e.stage = "list" /\ e.next = T[(m + PAGE) + 1] /\ e.next # 0
          BY <2>4, <4>1, <4>3
        <4>5. m + PAGE < Len(T)
          BY <2>7, <4>3
        <4>6. e # Start
          BY <4>4 DEF Start
        <4>. QED
          BY <2>11, <4>4, <4>5, <4>6
      <3>2. CASE ~(Len(rest) > room)
        <4>1. e.stage = "left"
          BY <3>2 DEF e
        <4>2. Len(rest) = PAGE
          BY <2>7, <2>8, <3>2
        <4>a. Len(rest) = Len(T) - m
          BY <2>5
        <4>3. m + PAGE = Len(T)
          BY <2>7, <4>2, <4>a
        <4>. QED
          BY <2>11, <4>1, <4>3 DEF Start
      <3>. QED
        BY <3>1, <3>2
    <2>14. Making(t)'
      <3>1. T' = T /\ nelem' = nelem
        BY <1>2 DEF T
      <3>. QED
        BY <2>4, <2>10, <2>12, <2>13, <3>1 DEF Making, T
    <2>. QED
      BY <1>0, <2>1, <2>2, <2>3, <2>14 DEF EvenIsOrderly
  <1>. HIDE DEF rest, T, s, b, room, e
  <1>7. KernelInv'
    <2>1. ~even' => KernelInv'
      BY DEF KernelInv, EvenIsOrderly, AtStart, Makings
    <2>2. even' => (\A u \in Threads : pc'[u] = "handled" => u = t) /\ Making(t)' /\ crossed' = {}
      BY <1>6
    <2>3. even' => EvenIsOrderly' /\ AtStart' /\ Makings'
      BY <1>3, <2>2 DEF EvenIsOrderly, AtStart, Makings
    <2>. QED
      BY <2>1, <2>3 DEF KernelInv
  <1>8. ASSUME NEW o \in alone, o \in Operators, serves[t] = o, even'
        PROVE  Course(o, t)'
    <2>1. truth'[o] = InOrder(table)
      BY <1>0, <1>2, <1>5, <1>8, TruthFollows
    <2>. QED
      BY <1>2, <1>5, <1>6, <1>8, <2>1, StillListing
  <1>9. DaemonInv'
    <2>1. pc[t] # "closed"
      BY <1>2
    <2>. QED
      BY <1>0, <1>2, <1>5, <1>8, <2>1, Worker
  <1>. QED
    BY <1>4, <1>7, <1>9

(* What is left of m after q pages is the remainder.                       *)
LEMMA Remainder ==
  ASSUME NEW q \in Nat, NEW r \in 0 .. PAGE - 1, NEW m, m = q * PAGE + r
  PROVE  m % PAGE = r
  <1>1. PAGE \in Nat /\ PAGE >= 1 /\ r \in Nat /\ r < PAGE
    BY PageIsPositive
  <1>. DEFINE d == m \div PAGE
              x == m % PAGE
  <1>2. q * PAGE \in Nat /\ m \in Nat
    BY <1>1
  <1>3. d \in Int /\ x \in Int /\ x >= 0 /\ x < PAGE /\ m = d * PAGE + x
    <2>1. d \in Int /\ x \in Int /\ 0 <= x /\ x < PAGE
      BY <1>1, <1>2
    <2>2. m = PAGE * (m \div PAGE) + (m % PAGE)
      BY <1>1, <1>2
    <2>. QED
      BY <1>1, <2>1, <2>2
  <1>. HIDE DEF d, x
  <1>4. \A a, b \in Int : a > b => a * PAGE >= b * PAGE + PAGE
    <2>. SUFFICES ASSUME NEW a \in Int, NEW b \in Int, a > b PROVE a * PAGE >= b * PAGE + PAGE
      OBVIOUS
    <2>1. a - b - 1 >= 0 /\ a - b - 1 \in Int
      OBVIOUS
    <2>2. (a - b - 1) * PAGE >= 0
      BY <1>1, <2>1
    <2>3. (a - b - 1) * PAGE = a * PAGE - b * PAGE - PAGE
      BY <1>1
    <2>4. a * PAGE \in Int /\ b * PAGE \in Int
      BY <1>1
    <2>. QED
      BY <1>1, <2>2, <2>3, <2>4
  <1>5. d * PAGE \in Int /\ q * PAGE \in Int
    BY <1>1, <1>3
  <1>6. ~(d > q) /\ ~(q > d)
    <2>1. ASSUME d > q PROVE FALSE
      <3>1. d * PAGE >= q * PAGE + PAGE
        BY <1>3, <1>4, <2>1
      <3>. QED
        BY <1>1, <1>2, <1>3, <1>5, <3>1
    <2>2. ASSUME q > d PROVE FALSE
      <3>1. q * PAGE >= d * PAGE + PAGE
        BY <1>3, <1>4, <2>2
      <3>. QED
        BY <1>1, <1>2, <1>3, <1>5, <3>1
    <2>. QED
      BY <2>1, <2>2
  <1>7. d = q
    BY <1>3, <1>6
  <1>. QED
    BY <1>1, <1>2, <1>3, <1>5, <1>7 DEF x

(* What is left of a list is what its number says: it goes out as a page,  *)
(* or, if it is nothing, the list has ended.                               *)
LEMMA MadeKeeps ==
  ASSUME ListInv, Bodies = ListBodies, NEW t \in Threads, ListMade(t)
  PROVE  (OpShape /\ KernelInv /\ DaemonInv)'
  <1>0. ReplyInv /\ ListTypeOK /\ OpShape /\ KernelInv /\ DaemonInv /\ EvenIsOrderly /\ StaticsOK
        /\ InCourse
    BY DEF ListInv, KernelInv, ListTypeOK, DaemonInv
  <1>. DEFINE left == nelem % PAGE
  <1>1. PICK S \in Rests(t) :
          LET rest == InOrder(S)
          IN  /\ Len(rest) < Room(rest)
              /\ page' = Filled(rest) /\ i' = Fresh(Len(rest)) + Len(rest)
              /\ flag' = (flag /\ rest = <<>>)
              /\ trav' = [trav EXCEPT ![t] = IF left > 0 THEN [next |-> 0, stage |-> "end"]
                                             ELSE Start]
              /\ send_nlmsg(t, IF left > 0 THEN Page(left, Filled(rest)) ELSE Result)
    BY DEF ListMade
  <1>2. /\ pc[t] = "handled" /\ round[t] = 2 /\ trav[t].stage # "end" /\ Observed(t)
        /\ UNCHANGED <<table, nelem, op, nuser, alone, serves, total_user, recved, UserPool>>
    BY DEF ListMade, send_nlmsg, daemon, served
  <1>. DEFINE rest == InOrder(S)
              b    == IF left > 0 THEN Page(left, Filled(rest)) ELSE Result
              e    == IF left > 0 THEN [next |-> 0, stage |-> "end"] ELSE Start
              T    == InOrder(table)
              s    == sock[t]
  <1>3. /\ Len(rest) < Room(rest) /\ i' = Fresh(Len(rest)) + Len(rest)
        /\ flag' = (flag /\ rest = <<>>)
        /\ trav' = [trav EXCEPT ![t] = e] /\ send_nlmsg(t, b)
    BY <1>1
  <1>4. OpShape'
    BY <1>0, <1>2, ObservedShape
  <1>5. even' => even
    BY <1>2, ObservedIs
  <1>6. ASSUME even'
        PROVE  /\ crossed' = {} /\ UNCHANGED round
               /\ \A u \in Threads : pc'[u] = "handled" => u = t
               /\ trav'[t].stage # "end" => (\A u \in Threads : trav[u].stage # "end") /\ UNCHANGED <<i, flag>>
               /\ \/ pc'[t] = "handled" /\ Making(t)'
                  \/ /\ pc'[t] = "receive" /\ sock'[t] # <<>>
                     /\ ATable(T) /\ Len(T) = nelem
                     /\ \E st : Chain(sock'[t], T, 0, st)
    <2>1. even /\ (trav[t] = Start => nelem = Cardinality(table))
      BY <1>2, <1>6, ObservedIs
    <2>2. /\ pc'[t] = IF Ends(b) THEN "receive" ELSE "handled"
          /\ \A u \in Threads : pc'[u] = "handled" => u = t
          /\ sock'[t] = Append(s, Message(t, b)) /\ s \in Seq(Messages)
          /\ Message(t, b).body = b
          /\ UNCHANGED <<round, crossed>>
      <3>. HIDE DEF b
      <3>. QED
        BY <1>0, <1>3, <2>1, SaidToCaller
    <2>3. /\ ATable(T) /\ Len(T) = nelem /\ \A n \in 1 .. Len(T) : T[n] # 0
          /\ rest \in Seq(Nat) /\ (Len(rest) > 0 => Fresh(Len(rest)) = 0)
          /\ \E m \in 0 .. Len(T), q \in Nat :
               /\ m = q * PAGE /\ Len(rest) = Len(T) - m
               /\ \A k \in 1 .. Len(rest) : rest[k] = T[m + k]
               /\ \E st : Pages(s, T, m, st)
      <3>1. T = InOrder(table) /\ rest = InOrder(S) /\ s = sock[t] /\ KernelInv /\ S \in Rests(t)
        BY <1>0
      <3>. HIDE DEF rest, T, s, b, left, e
      <3>2. /\ ReplyInv /\ ListTypeOK /\ even /\ pc[t] = "handled" /\ round[t] = 2
            /\ trav[t].stage # "end" /\ (trav[t] = Start => nelem = Cardinality(table))
        BY <1>0, <1>2, <2>1
      <3>. QED
        BY <3>1, <3>2, ComesNext, SMTT(30)
    <2>. HIDE DEF rest, T, s, b, left, e
    <2>4. PICK m \in 0 .. Len(T), q \in Nat :
            /\ m = q * PAGE /\ Len(rest) = Len(T) - m
            /\ \A k \in 1 .. Len(rest) : rest[k] = T[m + k]
            /\ \E st : Pages(s, T, m, st)
      BY <2>3
    <2>5. Len(rest) = Len(T) - m /\ m = q * PAGE
      BY <2>4
    <2>6. PICK st : Pages(s, T, m, st)
      BY <2>4
    <2>7. T \in Seq(Nat) /\ Len(T) \in Nat /\ m \in Nat /\ Len(rest) \in Nat /\ PAGE \in Nat /\ PAGE >= 1
      BY <2>3, PageIsPositive DEF ATable
    <2>8. /\ Room(rest) \in 1 .. PAGE
          /\ \A p \in 1 .. PAGE :
               p > Fresh(Len(rest)) /\ p - Fresh(Len(rest)) <= Len(rest)
                 => Filled(rest)[p] = rest[p - Fresh(Len(rest))]
      BY <1>0, <2>3, PageFilled
    <2>9. Len(rest) \in 0 .. PAGE - 1
      BY <1>3, <2>7, <2>8
    <2>10. left = Len(rest)
      <3>1. m + Len(rest) = Len(T)
        BY <2>5, <2>7
      <3>2. Len(T) = q * PAGE + Len(rest)
        BY <2>5, <3>1
      <3>3. Len(T) % PAGE = Len(rest)
        BY <2>9, <3>2, Remainder
      <3>. QED
        BY <2>3, <3>3 DEF left
    <2>11. trav'[t] = e
      BY <1>0, <1>3, TypeOfStatics
    <2>12. crossed' = {}
      BY <1>0, <2>1, <2>2 DEF EvenIsOrderly
    <2>13. CASE Len(rest) > 0
      <3>1. left > 0 /\ b = Page(left, Filled(rest)) /\ e = [next |-> 0, stage |-> "end"]
        BY <2>10, <2>13 DEF b, e
      <3>2. b.kind = "page" /\ ~Ends(b) /\ b.n = left /\ b.users = Filled(rest)
        BY <3>1 DEF Page, Ends
      <3>3. m + b.n = Len(T) /\ b.n \in Nat
        <4>1. m + Len(rest) = Len(T)
          BY <2>5, <2>7
        <4>. QED
          BY <2>7, <2>10, <3>2, <4>1
      <3>4. ASSUME NEW j \in 1 .. b.n
            PROVE  b.users[j] = T[m + j]
        <4>1. Fresh(Len(rest)) = 0
          BY <2>3, <2>13
        <4>2. j \in 1 .. PAGE /\ j \in 1 .. Len(rest) /\ j > 0 /\ j - 0 = j /\ j <= Len(rest)
          BY <2>7, <2>9, <2>10, <3>2
        <4>3. Filled(rest)[j] = rest[j]
          BY <2>8, <4>1, <4>2
        <4>. QED
          BY <2>4, <3>2, <4>2, <4>3
      <3>5. \E st2 : Pages(sock'[t], T, Len(T), st2)
        <4>. DEFINE x == Message(t, b)
        <4>1. x.body = b
          BY <2>2
        <4>. HIDE DEF x
        <4>2. m + b.n <= Len(T)
          BY <2>7, <3>3
        <4>3. \E st2 : Pages(Append(s, x), T, m + b.n, st2)
          BY <2>2, <2>6, <2>7, <3>2, <3>3, <3>4, <4>1, <4>2, PageOfList
        <4>. QED
          BY <2>2, <3>3, <4>3 DEF x
      <3>6. trav'[t].stage = "end" /\ trav'[t] # Start /\ Len(T) \in 0 .. Len(T)
        BY <2>7, <2>11, <3>1 DEF Start
      <3>7. Making(t)'
        <4>1. T' = T /\ nelem' = nelem
          BY <1>2 DEF T
        <4>. QED
          BY <2>3, <3>5, <3>6, <4>1 DEF Making, T
      <3>. QED
        BY <2>2, <2>12, <3>2, <3>6, <3>7
    <2>14. CASE ~(Len(rest) > 0)
      <3>1. Len(rest) = 0 /\ rest = <<>> /\ m = Len(T)
        <4>1. Len(rest) = 0
          BY <2>7, <2>14
        <4>2. rest = <<>>
          BY <2>3, <4>1
        <4>3. m = Len(T)
          BY <2>5, <2>7, <4>1
        <4>. QED
          BY <4>1, <4>2, <4>3
      <3>2. b = Result /\ e = Start
        BY <2>10, <3>1 DEF b, e
      <3>3. b.kind = "result" /\ Ends(b)
        BY <3>2 DEF Result, Ends
      <3>4. sock'[t] # <<>> /\ \E st2 : Chain(sock'[t], T, 0, st2)
        <4>. DEFINE x == Message(t, b)
        <4>1. x.body.kind = "result"
          BY <2>2, <3>3
        <4>. HIDE DEF x
        <4>2. Pages(s, T, Len(T), st)
          BY <2>6, <3>1
        <4>3. Append(s, x) # <<>> /\ Chain(Append(s, x), T, 0, st)
          BY <2>2, <2>7, <4>1, <4>2, EndOfList
        <4>. QED
          BY <2>2, <4>3 DEF x
      <3>5. UNCHANGED <<i, flag>>
        <4>1. i \in Int /\ flag \in BOOLEAN
          BY <1>0, <2>7, TypeOfStatics
        <4>2. Fresh(0) = i
          BY DEF Fresh
        <4>. QED
          BY <1>3, <3>1, <4>1, <4>2
      <3>6. \A u \in Threads : trav[u].stage # "end"
        <4>1. \A u \in Threads : pc[u] = "handled" => u = t
          BY <1>0, <1>2, <2>1, HandlerIsAlone
        <4>. QED
          BY <1>0, <1>2, <4>1 DEF ListTypeOK, Start
      <3>. QED
        BY <2>2, <2>3, <2>12, <3>3, <3>4, <3>5, <3>6
    <2>. QED
      BY <2>13, <2>14
  <1>. HIDE DEF rest, s, b, left, e
  <1>7. KernelInv'
    <2>1. ~even' => KernelInv'
      BY DEF KernelInv, EvenIsOrderly, AtStart, Makings
    <2>2. ASSUME even'
          PROVE  EvenIsOrderly' /\ AtStart' /\ Makings'
      <3>1. Makings'
        BY <1>6, <2>2 DEF Makings
      <3>2. AtStart'
        BY <1>0, <1>5, <1>6, <2>2 DEF KernelInv, AtStart
      <3>. QED
        BY <1>6, <2>2, <3>1, <3>2 DEF EvenIsOrderly
    <2>. QED
      BY <2>1, <2>2 DEF KernelInv
  <1>8. ASSUME NEW o \in alone, o \in Operators, serves[t] = o, even'
        PROVE  Course(o, t)'
    <2>1. truth'[o] = InOrder(table)
      BY <1>0, <1>2, <1>5, <1>8, TruthFollows
    <2>. QED
      BY <1>2, <1>5, <1>6, <1>8, <2>1, StillListing
  <1>9. DaemonInv'
    <2>1. pc[t] # "closed"
      BY <1>2
    <2>. QED
      BY <1>0, <1>2, <1>5, <1>8, <2>1, Worker
  <1>. QED
    BY <1>4, <1>7, <1>9

(* The result behind what was left is the end, and the next list starts at *)
(* the first entry again.                                                  *)
LEMMA EndsKeeps ==
  ASSUME ListInv, Bodies = ListBodies, NEW t \in Threads, ListEnds(t)
  PROVE  (OpShape /\ KernelInv /\ DaemonInv)'
  <1>0. ReplyInv /\ ListTypeOK /\ OpShape /\ KernelInv /\ DaemonInv /\ EvenIsOrderly /\ StaticsOK
        /\ InCourse
    BY DEF ListInv, KernelInv, ListTypeOK, DaemonInv
  <1>1. /\ pc[t] = "handled" /\ round[t] = 2 /\ trav[t].stage = "end" /\ flag' = TRUE
        /\ trav' = [trav EXCEPT ![t] = Start] /\ send_nlmsg(t, Result)
        /\ UNCHANGED <<table, nelem, op, nuser, alone, serves, total_user, recved, UserPool,
                       truth, even>>
    BY DEF ListEnds, send_nlmsg, daemon, served
  <1>2. OpShape'
    BY <1>0, <1>1 DEF OpShape
  <1>. DEFINE T == InOrder(table)
              s == sock[t]
              x == Message(t, Result)
  <1>3. ASSUME even
        PROVE  /\ crossed' = {} /\ \A u \in Threads : pc'[u] # "handled"
               /\ pc'[t] = "receive" /\ sock'[t] # <<>> /\ UNCHANGED round
               /\ ATable(T) /\ Len(T) = nelem /\ \E st : Chain(sock'[t], T, 0, st)
    <2>1. Result.kind = "result" /\ Ends(Result)
      BY DEF Result, Ends
    <2>2. /\ pc'[t] = "receive" /\ \A u \in Threads : pc'[u] = "handled" => u = t
          /\ sock'[t] = Append(s, x) /\ s \in Seq(Messages) /\ x.body.kind = "result"
          /\ UNCHANGED <<round, crossed>>
      BY <1>0, <1>1, <1>3, <2>1, SaidToCaller
    <2>3. Making(t) /\ trav[t] # Start
      BY <1>0, <1>1, <1>3 DEF KernelInv, Makings, Start
    <2>4. Len(T) = nelem /\ \E st : Pages(s, T, Len(T), st)
      BY <1>1, <2>3 DEF Making
    <2>5. ATable(T) /\ T \in Seq(Nat)
      <3>1. table \in SUBSET Users
        BY <1>0 DEF StaticsOK
      <3>2. /\ table \in SUBSET Nat /\ IsFiniteSet(table) /\ Cardinality(table) <= PoolSize
        BY <3>1, UsersAre
      <3>3. T \in Seq(Nat) /\ Len(T) = Cardinality(table)
        BY <3>2, InOrderIs
      <3>. QED
        BY <3>2, <3>3 DEF ATable
    <2>. HIDE DEF T, s, x
    <2>6. PICK st : Pages(s, T, Len(T), st)
      BY <2>4
    <2>7. Append(s, x) # <<>> /\ Chain(Append(s, x), T, 0, st)
      BY <2>2, <2>5, <2>6, EndOfList
    <2>8. crossed' = {}
      BY <1>0, <1>3, <2>2 DEF EvenIsOrderly
    <2>. QED
      BY <2>2, <2>4, <2>5, <2>7, <2>8
  <1>. HIDE DEF s, x
  <1>4. KernelInv'
    BY <1>1, <1>3 DEF KernelInv, EvenIsOrderly, AtStart, Makings
  <1>5. ASSUME NEW o \in alone, o \in Operators, serves[t] = o, even'
        PROVE  Course(o, t)'
    <2>1. Course(o, t)
      BY <1>0, <1>1, <1>5 DEF InCourse
    <2>2. trav[t] # Start
      BY <1>1 DEF Start
    <2>3. truth'[o] = InOrder(table)
      BY <1>1, <2>1, <2>2 DEF Course, Listing
    <2>. QED
      BY <1>1, <1>3, <1>5, <2>3, StillListing
  <1>6. DaemonInv'
    <2>1. pc[t] # "closed"
      BY <1>1
    <2>. QED
      BY <1>0, <1>1, <1>5, <2>1, Worker
  <1>. QED
    BY <1>2, <1>4, <1>6

(* A request enters the kernel: if no other is there, it is alone until it *)
(* leaves, and has a traversal of its own to begin.                        *)
LEMMA EntersKeeps ==
  ASSUME ListInv, NEW t \in Threads, Enters(t)
  PROVE  (OpShape /\ KernelInv /\ DaemonInv)'
  <1>0. ReplyInv /\ ListTypeOK /\ OpShape /\ KernelInv /\ DaemonInv /\ EvenIsOrderly /\ AtStart
        /\ ReplyTypeOK /\ SocketIsAnswer
    BY DEF ListInv, KernelInv, ReplyInv
  <1>1. /\ pc[t] = "send" /\ pc' = [pc EXCEPT ![t] = "handled"]
        /\ crossed' = IF InKernel = {} THEN crossed ELSE crossed \cup InKernel \cup {t}
        /\ even' = (even /\ InKernel = {})
        /\ UNCHANGED <<round, sock>>
        /\ UNCHANGED <<table, flag, i, nelem, trav, op, truth, nuser, alone, serves,
                       total_user, recved, UserPool>>
    BY DEF Enters, SendMessage, kernel, statics, daemon, served
  <1>2. OpShape'
    BY <1>0, <1>1 DEF OpShape
  <1>3. pc'[t] = "handled" /\ \A u \in Threads : u # t => pc'[u] = pc[u]
    BY <1>0, <1>1 DEF ReplyTypeOK
  <1>4. trav[t] = Start
    BY <1>0, <1>1 DEF ListTypeOK
  <1>5. ASSUME even'
        PROVE  /\ even /\ crossed' = {} /\ sock[t] = <<>>
               /\ \A u \in Threads : pc'[u] = "handled" => u = t
    <2>1. even /\ InKernel = {} /\ crossed' = crossed
      BY <1>1, <1>5
    <2>2. crossed = {}
      BY <1>0, <2>1 DEF EvenIsOrderly
    <2>3. sock[t] = <<>>
      BY <1>0, <1>1, <2>2 DEF SocketIsAnswer
    <2>. QED
      BY <1>3, <2>1, <2>2, <2>3 DEF InKernel
  <1>6. KernelInv'
    <2>1. Makings'
      BY <1>1, <1>4, <1>5 DEF Makings, Making
    <2>. QED
      BY <1>0, <1>1, <1>5, <2>1 DEF KernelInv, EvenIsOrderly, AtStart
  <1>7. ASSUME NEW o \in alone, even', Course(o, t)
        PROVE  Course(o, t)'
    BY <1>1, <1>3, <1>4, <1>7 DEF Course, Counting, Listing, Start
  <1>8. DaemonInv'
    <2>1. pc[t] # "closed" /\ (even' => even) /\ UNCHANGED <<alone, serves, op>>
      BY <1>1
    <2>. QED
      BY <1>0, <1>7, <2>1, Worker
  <1>. QED
    BY <1>2, <1>6, <1>8

(* The number is known; the list comes next.                               *)
LEMMA GoesKeeps ==
  ASSUME ListInv, NEW t \in Threads, Goes(t)
  PROVE  (OpShape /\ KernelInv /\ DaemonInv)'
  <1>0. ReplyInv /\ ListTypeOK /\ OpShape /\ KernelInv /\ DaemonInv /\ ReplyTypeOK
    BY DEF ListInv, ReplyInv
  <1>1. /\ pc[t] = "received" /\ round[t] < Rounds
        /\ pc' = [pc EXCEPT ![t] = "send"] /\ round' = [round EXCEPT ![t] = @ + 1]
        /\ UNCHANGED <<sock, crossed>>
        /\ UNCHANGED <<table, flag, i, nelem, trav, op, truth, nuser, alone, serves, even,
                       total_user, recved, UserPool>>
    BY DEF Goes, NextRound, list, kernel, statics, daemon, served
  <1>2. OpShape'
    BY <1>0, <1>1 DEF OpShape
  <1>3. /\ pc'[t] = "send" /\ round[t] = 1 /\ round'[t] = 2
        /\ \A u \in Threads : u # t => pc'[u] = pc[u] /\ round'[u] = round[u]
    <2>1. round[t] \in 1 .. 2 /\ Rounds = 2
      BY <1>0, ListAssumption DEF ListTypeOK
    <2>2. round[t] = 1
      BY <1>1, <2>1
    <2>. QED
      BY <1>0, <1>1, <2>2 DEF ReplyTypeOK
  <1>4. KernelInv'
    <2>1. /\ UNCHANGED <<table, i, flag, nelem, trav, even>> /\ crossed' \subseteq crossed
          /\ \A u \in Threads : pc'[u] = "handled" =>
               pc[u] = "handled" /\ round'[u] = round[u] /\ sock'[u] = sock[u]
      BY <1>1, <1>3
    <2>. QED
      BY <1>0, <2>1, KernelRests
  <1>5. ASSUME NEW o \in alone, Course(o, t)
        PROVE  Course(o, t)'
    <2>1. /\ op[o].pc \in {"idle", "num"} /\ recved = 0
          /\ nuser[t] = nelem /\ total_user = nelem
      BY <1>1, <1>3, <1>5 DEF Course, Counting
    <2>. QED
      BY <1>1, <1>3, <2>1 DEF Course, Listing
  <1>6. DaemonInv'
    <2>1. pc[t] # "closed"
      BY <1>1
    <2>. QED
      BY <1>0, <1>1, <1>5, <2>1, Worker
  <1>. QED
    BY <1>2, <1>4, <1>6

(* The next message of a list: its page goes behind what has been received.*)
LEMMA NextOfChain ==
  ASSUME NEW T, ATable(T), NEW s \in Seq(Messages), s # <<>>, NEW r, NEW st, Chain(s, T, r, st),
         NEW b, b = s[1].body, Len(s) # 1
  PROVE  /\ b.kind = "page" /\ b.n \in Nat /\ r \in Nat /\ r + b.n <= Len(T)
         /\ \A j \in 1 .. b.n : b.users[j] = T[r + j]
         /\ Tail(s) # <<>> /\ \E st2 : Chain(Tail(s), T, r + b.n, st2)
  <1>1. /\ Len(s) \in Nat /\ Len(s) > 1 /\ Tail(s) \in Seq(Messages) /\ Len(Tail(s)) = Len(s) - 1
        /\ \A k \in 1 .. Len(Tail(s)) : Tail(s)[k] = s[k + 1]
    <2>. DEFINE n == Len(s)
    <2>0. n \in Nat /\ n # 0 /\ n # 1
      BY EmptySeq, Zenon
    <2>. HIDE DEF n
    <2>1. n \in Nat /\ n > 1
      BY <2>0
    <2>2. /\ Tail(s) \in Seq(Messages) /\ Len(Tail(s)) = Len(s) - 1
          /\ \A k \in 1 .. Len(Tail(s)) : Tail(s)[k] = s[k + 1]
      BY HeadTailProperties
    <2>. QED
      BY <2>1, <2>2 DEF n
  <1>2. Len(T) \in Nat
    BY DEF ATable
  <1>3. /\ st \in [1 .. Len(s) -> 0 .. Len(T)] /\ st[1] = r /\ st[Len(s)] = Len(T)
        /\ s[Len(s)].body.kind = "result"
        /\ \A k \in 1 .. Len(s) - 1 :
             /\ s[k].body.kind = "page" /\ s[k].body.n \in Nat /\ st[k + 1] = st[k] + s[k].body.n
             /\ \A j \in 1 .. s[k].body.n : s[k].body.users[j] = T[st[k] + j]
    BY DEF Chain
  <1>4. 1 \in 1 .. Len(s) - 1 /\ 2 \in 1 .. Len(s) /\ 1 + 1 = 2
    BY <1>1
  <1>5. /\ b.kind = "page" /\ b.n \in Nat /\ st[2] = r + b.n
        /\ \A j \in 1 .. b.n : b.users[j] = T[r + j]
    BY <1>3, <1>4
  <1>6. r \in 0 .. Len(T) /\ st[2] \in 0 .. Len(T)
    BY <1>1, <1>3, <1>4
  <1>. DEFINE u   == Tail(s)
              st2 == [k \in 1 .. Len(u) |-> st[k + 1]]
  <1>7. Tail(s) # <<>>
    BY <1>1, SMTT(30)
  <1>8. \A k \in 1 .. Len(u) : k + 1 \in 1 .. Len(s) /\ u[k] = s[k + 1]
    BY <1>1
  <1>9. Len(u) \in Nat /\ Len(u) >= 1 /\ Len(u) = Len(s) - 1
    BY <1>1
  <1>. HIDE DEF u
  <1>10. st2 \in [1 .. Len(u) -> 0 .. Len(T)]
    BY <1>3, <1>8
  <1>11. \A k \in 1 .. Len(u) : st2[k] = st[k + 1]
    OBVIOUS
  <1>. HIDE DEF st2
  <1>12. st2[1] = r + b.n /\ st2[Len(u)] = Len(T)
    <2>1. 1 \in 1 .. Len(u) /\ Len(u) \in 1 .. Len(u) /\ Len(u) + 1 = Len(s)
      BY <1>1, <1>9
    <2>. QED
      BY <1>3, <1>4, <1>5, <1>11, <2>1
  <1>13. u[Len(u)].body.kind = "result"
    <2>1. Len(u) \in 1 .. Len(u) /\ Len(u) + 1 = Len(s)
      BY <1>1, <1>9
    <2>. QED
      BY <1>3, <1>8, <2>1
  <1>14. ASSUME NEW k \in 1 .. Len(u) - 1
         PROVE  LET c == u[k].body
                IN  /\ c.kind = "page" /\ c.n \in Nat /\ st2[k + 1] = st2[k] + c.n
                    /\ \A j \in 1 .. c.n : c.users[j] = T[st2[k] + j]
    <2>1. k \in 1 .. Len(u) /\ k + 1 \in 1 .. Len(u) /\ k + 1 \in 1 .. Len(s) - 1
      BY <1>1, <1>9
    <2>2. u[k].body = s[k + 1].body /\ st2[k] = st[k + 1] /\ st2[k + 1] = st[(k + 1) + 1]
      BY <1>8, <1>11, <2>1
    <2>. QED
      BY <1>3, <2>1, <2>2
  <1>15. Chain(u, T, r + b.n, st2)
    BY <1>10, <1>12, <1>13, <1>14 DEF Chain
  <1>. QED
    BY <1>2, <1>5, <1>6, <1>7, <1>15 DEF u

LEMMA ReceivesKeeps ==
  ASSUME ListInv, NEW t \in Threads, Receives(t)
  PROVE  (OpShape /\ KernelInv /\ DaemonInv)'
  <1>0. ReplyInv /\ ReplyTypeOK /\ ListTypeOK /\ OpShape /\ KernelInv /\ DaemonInv
    BY DEF ListInv, ReplyInv
  <1>. DEFINE s == sock[t]
              b == s[1].body
  <1>1. /\ pc[t] = "receive" /\ s # <<>> /\ s \in Seq(Messages) /\ Head(s) = s[1]
        /\ UNCHANGED <<table, i, flag, nelem, trav, serves, op, truth, alone, even>>
    BY <1>0 DEF Receives, kernel, statics, ReplyTypeOK
  <1>2. \E done \in BOOLEAN :
          /\ RecvMessage(t, done)
          /\ \/ round[t] = 1 /\ done /\ GetTcUserNumber(t, b)
             \/ round[t] = 2 /\ (done <=> b.kind = "result") /\ GetTcUserData(b)
    BY <1>1 DEF Receives
  <1>3. PICK done \in BOOLEAN :
          /\ RecvMessage(t, done)
          /\ \/ round[t] = 1 /\ done /\ GetTcUserNumber(t, b)
             \/ round[t] = 2 /\ (done <=> b.kind = "result") /\ GetTcUserData(b)
    BY <1>2
  <1>4. /\ sock' = [sock EXCEPT ![t] = Tail(s)] /\ UNCHANGED <<round, crossed>>
        /\ pc' = IF done THEN [pc EXCEPT ![t] = "received"] ELSE pc
    BY <1>3 DEF RecvMessage
  <1>. HIDE DEF b
  <1>5. /\ sock'[t] = Tail(s) /\ pc'[t] = IF done THEN "received" ELSE "receive"
        /\ \A u \in Threads : u # t => pc'[u] = pc[u] /\ sock'[u] = sock[u]
    BY <1>0, <1>1, <1>4 DEF ReplyTypeOK
  <1>6. OpShape'
    <2>1. nuser' = [u \in Threads |-> nuser'[u]]
      BY <1>0, <1>3 DEF OpShape, GetTcUserNumber, GetTcUserData
    <2>. QED
      BY <1>0, <1>1, <2>1 DEF OpShape
  <1>8. KernelInv'
    <2>1. \A u \in Threads : pc'[u] = "handled" =>
            pc[u] = "handled" /\ round'[u] = round[u] /\ sock'[u] = sock[u]
      BY <1>4, <1>5
    <2>. QED
      BY <1>0, <1>1, <1>4, <2>1, KernelRests
  <1>7. ASSUME NEW o \in alone, Course(o, t)
        PROVE  Course(o, t)'
    <2>1. op[o].pc \in {"idle", "num"} /\ pc'[t] # "handled"
      BY <1>5, <1>7 DEF Course
    <2>2. CASE round[t] = 1
      <3>1. recved = 0 /\ Len(s) = 1 /\ b = [kind |-> "total", n |-> nelem]
        BY <1>1, <1>7, <2>2 DEF Course, Counting, b
      <3>2. b.kind = "total" /\ b.n = nelem
        BY <3>1
      <3>3. total_user' = nelem /\ nuser'[t] = nelem /\ recved' = 0 /\ pc'[t] = "received"
        <4>1. GetTcUserNumber(t, b) /\ done
          BY <1>3, <2>2
        <4>2. Totals(b) = {nelem}
          BY <3>2 DEF Totals
        <4>3. total_user' = nelem /\ nuser' = [nuser EXCEPT ![t] = nelem] /\ UNCHANGED recved
          BY <4>1, <4>2 DEF GetTcUserNumber
        <4>4. nuser = [u \in Threads |-> nuser[u]]
          BY <1>0 DEF OpShape
        <4>. QED
          BY <1>5, <3>1, <4>1, <4>3, <4>4
      <3>4. Tail(s) = <<>>
        <4>. DEFINE u == Tail(s)
        <4>1. u \in Seq(Messages) /\ Len(u) = 0
          <5>. HIDE DEF s
          <5>1. Tail(s) \in Seq(Messages) /\ Len(Tail(s)) = Len(s) - 1
            BY <1>1, HeadTailProperties
          <5>. QED
            BY <3>1, <5>1
        <4>. HIDE DEF u
        <4>2. u = <<>>
          BY <4>1
        <4>. QED
          BY <4>2 DEF u
      <3>5. Counting(t)'
        BY <1>1, <1>5, <3>3, <3>4 DEF Counting
      <3>. QED
        BY <1>1, <1>4, <2>1, <2>2, <3>5 DEF Course
    <2>3. CASE round[t] # 1
      <3>. DEFINE T == truth[o]
      <3>1. /\ nuser[t] = nelem /\ total_user = nelem /\ ATable(T) /\ Len(T) = nelem
            /\ Holds(T, recved) /\ \E st : Chain(s, T, recved, st)
        BY <1>1, <1>7, <2>3 DEF Course, Listing
      <3>2. PICK st : Chain(s, T, recved, st)
        BY <3>1
      <3>3. T' = T
        BY <1>1
      <3>a. (done <=> b.kind = "result") /\ GetTcUserData(b)
        BY <1>3, <2>3
      <3>. HIDE DEF T
      <3>4. CASE Len(s) = 1
        <4>1. b.kind = "result" /\ recved = Len(T)
          BY <3>2, <3>4 DEF Chain, b
        <4>2. UNCHANGED <<UserPool, recved, total_user, nuser>> /\ pc'[t] = "received"
          BY <1>5, <3>a, <4>1 DEF GetTcUserData, daemon
        <4>3. Holds(T, Len(T))'
          BY <3>1, <3>3, <4>1, <4>2 DEF Holds
        <4>4. (ATable(T) /\ Len(T) = nelem /\ nuser[t] = nelem /\ total_user = nelem)'
          BY <1>1, <3>1, <3>3, <4>2 DEF ATable
        <4>5. Listing(t, T)'
          BY <4>2, <4>3, <4>4 DEF Listing
        <4>. QED
          BY <1>1, <1>4, <2>1, <2>3, <4>5 DEF Course, T
      <3>5. CASE Len(s) # 1
        <4>1. /\ b.kind = "page" /\ b.n \in Nat /\ recved \in Nat /\ recved + b.n <= Len(T)
              /\ \A j \in 1 .. b.n : b.users[j] = T[recved + j]
              /\ Tail(s) # <<>> /\ \E st2 : Chain(Tail(s), T, recved + b.n, st2)
          <5>. HIDE DEF s
          <5>. QED
            BY <1>1, <3>1, <3>2, <3>5, NextOfChain DEF b
        <4>2. /\ UserPool' = [k \in 0 .. PoolSize - 1 |->
                    IF k \in recved .. recved + b.n - 1 THEN b.users[k - recved + 1] ELSE UserPool[k]]
              /\ recved' = recved + b.n
              /\ UNCHANGED <<total_user, nuser>> /\ pc'[t] = "receive"
          BY <1>5, <3>a, <4>1 DEF GetTcUserData, AddUserInfoToPool
        <4>3. Len(T) \in Nat /\ Len(T) <= PoolSize /\ PoolSize \in Nat
          BY <3>1, ListAssumption DEF ATable
        <4>4. ASSUME NEW k \in 1 .. recved + b.n
              PROVE  UserPool'[k - 1] = T[k]
          <5>1. k - 1 \in 0 .. PoolSize - 1
            BY <4>1, <4>3
          <5>2. CASE k <= recved
            <6>1. UserPool'[k - 1] = UserPool[k - 1] /\ k \in 1 .. recved
              BY <4>1, <4>2, <5>1, <5>2
            <6>. QED
              BY <3>1, <6>1 DEF Holds
          <5>3. CASE ~(k <= recved)
            <6>1. k - 1 \in recved .. recved + b.n - 1
              BY <4>1, <5>3
            <6>2. UserPool'[k - 1] = b.users[(k - 1) - recved + 1]
              BY <4>2, <5>1, <6>1
            <6>3. (k - 1) - recved + 1 = k - recved /\ k - recved \in 1 .. b.n
                  /\ recved + (k - recved) = k
              BY <4>1, <5>3
            <6>. QED
              BY <4>1, <6>2, <6>3
          <5>. QED
            BY <5>2, <5>3
        <4>5. Holds(T, recved)'
          BY <3>3, <4>2, <4>4 DEF Holds
        <4>6. (ATable(T) /\ Len(T) = nelem /\ nuser[t] = nelem /\ total_user = nelem)'
          BY <1>1, <3>1, <3>3, <4>2 DEF ATable
        <4>7. sock'[t] # <<>> /\ \E st2 : Chain(sock'[t], T', recved', st2)
          BY <1>5, <3>3, <4>1, <4>2
        <4>8. Listing(t, T)'
          BY <1>5, <4>1, <4>2, <4>5, <4>6, <4>7 DEF Listing
        <4>. QED
          BY <1>1, <1>4, <2>1, <2>3, <4>8 DEF Course, T
      <3>. QED
        BY <3>4, <3>5
    <2>. QED
      BY <2>2, <2>3
  <1>9. DaemonInv'
    <2>1. pc[t] # "closed"
      BY <1>1
    <2>. QED
      BY <1>0, <1>1, <1>7, <2>1, Worker
  <1>. QED
    BY <1>6, <1>8, <1>9

(* The number is told to the client, which waits with an empty list.       *)
LEMMA AnswerKeeps ==
  ASSUME ListInv, NEW t \in Threads, NumAnswer(t)
  PROVE  (OpShape /\ KernelInv /\ DaemonInv)'
  <1>. DEFINE c == serves[t]
              n == nuser[t]
  <1>1. /\ pc[t] = "received" /\ round[t] = 2
        /\ pc' = [pc EXCEPT ![t] = "closed"] /\ sock' = [sock EXCEPT ![t] = <<>>]
        /\ UNCHANGED <<round, crossed>>
    BY ListAssumption DEF NumAnswer, CloseNetLinkSocket
  <1>2. /\ recved' = 0 /\ serves' = [serves EXCEPT ![t] = Nobody]
        /\ IF c # Nobody /\ op[c].pc = "num" THEN Answered(c, n, <<>>) ELSE UNCHANGED op
        /\ UNCHANGED <<table, flag, i, nelem, trav, UserPool, total_user, nuser, truth, alone, even>>
    BY DEF NumAnswer, kernel, statics
  <1>3. c \in Operators /\ serves'[t] = Nobody
    BY <1>1, <1>2 DEF ListInv, DaemonInv, ListTypeOK
  <1>4. op = [o \in Operators |-> op[o]]
    BY DEF ListInv, DaemonInv, OpShape
  <1>7. KernelInv'
    <2>1. \A u \in Threads : pc'[u] = "handled" =>
            pc[u] = "handled" /\ round'[u] = round[u] /\ sock'[u] = sock[u]
      BY <1>1 DEF ListInv, ReplyInv, ReplyTypeOK
    <2>. QED
      BY <1>1, <1>2, <2>1, KernelRests DEF ListInv
  <1>5. CASE op[c].pc = "num"
    <2>1. c # Nobody
      BY <1>3, ListAssumption
    <2>2. op[c].offset = 0 /\ op[c].seen = <<>>
      BY <1>3, <1>5 DEF ListInv, DaemonInv, OpShape
    <2>. DEFINE x == op[c].offset + Len(<<>>)
                y == op[c].seen \o <<>>
                r == [pc |-> IF x < n THEN "map" ELSE "done", max |-> n, offset |-> x, seen |-> y]
    <2>3. op' = [op EXCEPT ![c] = r]
      BY <1>2, <1>5, <2>1 DEF Answered
    <2>4. x = 0 /\ y = <<>>
      <3>1. <<>> \o <<>> = <<>> /\ 0 + Len(<<>>) = 0
        OBVIOUS
      <3>. QED
        BY <2>2, <3>1, Zenon
    <2>. HIDE DEF c, n, x, y
    <2>5. r.pc = (IF x < n THEN "map" ELSE "done") /\ r.max = n /\ r.offset = x /\ r.seen = y
      OBVIOUS
    <2>. HIDE DEF r
    <2>6. /\ \A o \in Operators \ {c} : op'[o] = op[o]
          /\ op'[c] = r
          /\ op' = [o \in Operators |-> op'[o]]
      BY <1>3, <1>4, <2>3
    <2>7. /\ op'[c].pc = (IF 0 < n THEN "map" ELSE "done") /\ op'[c].max = n
          /\ op'[c].offset = 0 /\ op'[c].seen = <<>>
      BY <2>4, <2>5, <2>6
    <2>8. OpShape'
      <3>1. op'[c].pc \notin {"idle", "num"}
        BY <2>7
      <3>. QED
        BY <1>2, <1>4, <2>6, <3>1 DEF ListInv, DaemonInv, OpShape
    <2>9. Between'
      BY <1>2 DEF ListInv, DaemonInv, Between
    <2>10. ASSUME NEW o \in alone
           PROVE  o = c /\ \A u \in Threads : serves'[u] = Nobody /\ o # Nobody
      <3>1. o \in Operators /\ o # Nobody
        BY ListAssumption DEF ListInv, DaemonInv, Sole
      <3>2. o = c
        BY <1>3, ListAssumption DEF ListInv, DaemonInv, Sole, c
      <3>3. \A u \in Threads : serves[u] = o => u = t
        BY <3>2 DEF ListInv, DaemonInv, Sole, c
      <3>4. \A u \in Threads : serves[u] \in {o, Nobody}
        BY DEF ListInv, DaemonInv, Sole
      <3>. QED
        BY <1>2, <1>3, <3>1, <3>2, <3>3, <3>4 DEF ListInv, DaemonInv, ListTypeOK
    <2>11. (Sole /\ InCourse)'
      BY <1>2, <2>10 DEF ListInv, DaemonInv, Sole, InCourse
    <2>12. Shown'
      <3>. SUFFICES ASSUME NEW o \in alone, even PROVE ShownTo(o, truth[o])'
        BY <1>2 DEF Shown
      <3>1. o = c /\ serves[t] = o
        BY <2>10 DEF c
      <3>2. Course(o, t)
        BY <3>1 DEF ListInv, DaemonInv, InCourse
      <3>. DEFINE T == truth[o]
      <3>3. nuser[t] = nelem /\ total_user = nelem /\ ATable(T) /\ Len(T) = nelem /\ Holds(T, Len(T))
        BY <1>1, <3>2 DEF Course, Listing
      <3>4. T' = T
        BY <1>2
      <3>. HIDE DEF T
      <3>5. Len(T) \in Nat /\ n = Len(T)
        BY <3>3 DEF ATable, n
      <3>6. (ATable(T) /\ total_user = Len(T) /\ Holds(T, Len(T)))'
        BY <1>2, <3>3, <3>4 DEF ATable, Holds
      <3>7. <<>> \in Seq(Nat) /\ Len(<<>>) = 0
        OBVIOUS
      <3>8. /\ op'[o].seen \in Seq(Nat) /\ Len(op'[o].seen) = op'[o].offset
            /\ op'[o].offset = 0 /\ op'[o].max = Len(T)
            /\ op'[o].pc = "done" <=> 0 = Len(T)
        <4>1. op'[o].seen = <<>> /\ op'[o].offset = 0 /\ op'[o].max = n
          BY <2>7, <3>1, Zenon
        <4>2. op'[o].pc = IF 0 < n THEN "map" ELSE "done"
          BY <2>7, <3>1, Zenon
        <4>3. op'[o].pc = "done" <=> 0 = Len(T)
          BY <3>5, <4>2
        <4>. QED
          BY <3>5, <3>7, <4>1, <4>3
      <3>9. /\ op'[o].offset \in Nat /\ op'[o].offset <= Len(T)
            /\ \A k \in 1 .. op'[o].offset : op'[o].seen[k] = T[k]
        BY <3>5, <3>8
      <3>10. ShownTo(o, T)'
        BY <2>10, <3>4, <3>6, <3>8, <3>9 DEF ShownTo
      <3>. QED
        BY <3>10 DEF T
    <2>. QED
      BY <1>7, <2>8, <2>9, <2>11, <2>12 DEF DaemonInv
  <1>6. CASE op[c].pc # "num"
    <2>1. UNCHANGED op
      BY <1>2, <1>6
    <2>2. (OpShape /\ Between)'
      BY <1>2, <2>1 DEF ListInv, DaemonInv, OpShape, Between
    <2>3. ASSUME NEW o \in alone
          PROVE  o = c /\ \A u \in Threads : serves'[u] = Nobody /\ o # Nobody
      <3>1. o \in Operators /\ o # Nobody
        BY ListAssumption DEF ListInv, DaemonInv, Sole
      <3>2. o = c
        BY <1>3, ListAssumption DEF ListInv, DaemonInv, Sole
      <3>3. \A u \in Threads : serves[u] = o => u = t
        BY <3>2 DEF ListInv, DaemonInv, Sole
      <3>4. \A u \in Threads : serves[u] \in {o, Nobody}
        BY DEF ListInv, DaemonInv, Sole
      <3>. QED
        BY <1>2, <1>3, <3>1, <3>2, <3>3, <3>4 DEF ListInv, DaemonInv, ListTypeOK
    <2>4. (Sole /\ InCourse)'
      BY <1>2, <2>3 DEF ListInv, DaemonInv, Sole, InCourse
    <2>5. Shown'
      <3>. SUFFICES ASSUME NEW o \in alone, even, op[o].pc \in {"map", "done"} PROVE FALSE
        BY <1>2, <2>1 DEF Shown
      <3>1. serves[t] = o
        BY <2>3
      <3>. QED
        BY <3>1 DEF ListInv, DaemonInv, Shown, ShownTo
    <2>. QED
      BY <1>7, <2>2, <2>4, <2>5 DEF DaemonInv
  <1>. QED
    BY <1>5, <1>6

(* A new question: the operator is alone if nobody else is served.         *)
LEMMA RequestKeeps ==
  ASSUME ListInv, NEW t \in Threads, NEW c \in Operators, NumRequest(t, c)
  PROVE  (OpShape /\ KernelInv /\ DaemonInv)'
  <1>1. /\ pc[t] = "closed" /\ pc' = [pc EXCEPT ![t] = "send"]
        /\ round' = [round EXCEPT ![t] = 1] /\ UNCHANGED sock
        /\ crossed' = IF InKernel \cap crossed = {} THEN crossed \ {t} ELSE crossed \cup {t}
        /\ op[c].pc = "num" /\ \A x \in Threads : serves[x] # c
        /\ serves' = [serves EXCEPT ![t] = c]
        /\ alone' = IF \E x \in Threads : serves[x] # Nobody THEN {} ELSE {c}
        /\ UNCHANGED <<table, flag, i, nelem, trav, UserPool, recved, total_user, nuser, op, truth, even>>
    BY DEF NumRequest, InitNetLinkSocket, kernel, statics, daemon
  <1>2. c # Nobody /\ serves'[t] = c /\ pc'[t] = "send" /\ round'[t] = 1 /\ sock[t] = <<>>
    BY <1>1, ListAssumption DEF ListInv, ListTypeOK, ReplyInv, ReplyTypeOK, ClosedIsEmpty
  <1>3. (OpShape /\ Between)'
    BY <1>1, <1>2 DEF ListInv, DaemonInv, OpShape, Between
  <1>8. KernelInv'
    <2>1. \A u \in Threads : pc'[u] = "handled" =>
            pc[u] = "handled" /\ round'[u] = round[u] /\ sock'[u] = sock[u]
      BY <1>1 DEF ListInv, ReplyInv, ReplyTypeOK
    <2>2. even => crossed' \subseteq crossed
      BY <1>1 DEF ListInv, KernelInv, EvenIsOrderly
    <2>. QED
      BY <1>1, <2>1, <2>2, KernelRests DEF ListInv
  <1>4. ASSUME NEW o \in alone'
        PROVE  /\ o = c /\ recved = 0
               /\ \A u \in Threads : u # t => serves'[u] = Nobody
    <2>1. o = c /\ \A x \in Threads : serves[x] = Nobody
      BY <1>1
    <2>. QED
      BY <1>1, <2>1 DEF ListInv, DaemonInv, Between, ListTypeOK
  <1>5. Sole'
    BY <1>2, <1>4 DEF Sole
  <1>6. InCourse'
    <2>. SUFFICES ASSUME NEW o \in alone', NEW u \in Threads, serves'[u] = o PROVE Course(o, u)'
      BY DEF InCourse
    <2>1. u = t /\ o = c /\ recved = 0
      BY <1>2, <1>4
    <2>2. Counting(t)'
      BY <1>1, <1>2, <2>1 DEF Counting
    <2>. QED
      BY <1>1, <1>2, <2>1, <2>2 DEF Course
  <1>7. Shown'
    BY <1>1, <1>4 DEF Shown
  <1>. QED
    BY <1>3, <1>5, <1>6, <1>7, <1>8 DEF DaemonInv

(* A page is shown: it goes behind what has been shown.                    *)
LEMMA MapKeeps ==
  ASSUME ListInv, NEW c \in Operators, MapRequest(c)
  PROVE  (OpShape /\ KernelInv /\ DaemonInv)'
  <1>. DEFINE off  == op[c].offset
              left == total_user - off
              n    == IF left >= PAGE THEN PAGE ELSE left
              e    == [k \in 1 .. n |-> UserPool[off + k - 1]]
              new  == [pc |-> IF off + Len(e) < op[c].max THEN "map" ELSE "done",
                       max |-> op[c].max, offset |-> off + Len(e), seen |-> op[c].seen \o e]
  <1>1. /\ op[c].pc = "map" /\ off <= total_user
        /\ op' = [op EXCEPT ![c] = new]
    BY DEF MapRequest, Answered
  <1>2. /\ UNCHANGED <<pc, round, sock, crossed>>
        /\ UNCHANGED <<table, flag, i, nelem, trav, UserPool, recved, total_user, nuser, serves,
                       truth, alone, even>>
    BY DEF MapRequest, vars, kernel, statics, daemon, served
  <1>3. op = [o \in Operators |-> op[o]]
    BY DEF ListInv, DaemonInv, OpShape
  <1>. HIDE DEF new
  <1>4. /\ \A o \in Operators \ {c} : op'[o] = op[o]
        /\ op'[c] = new /\ op' = [o \in Operators |-> op'[o]]
    BY <1>1, <1>3
  <1>5. new.pc = (IF off + Len(e) < op[c].max THEN "map" ELSE "done")
    BY DEF new
  <1>6. OpShape'
    <2>1. new.pc \notin {"idle", "num"}
      BY <1>5
    <2>. QED
      BY <1>2, <1>3, <1>4, <2>1 DEF ListInv, DaemonInv, OpShape
  <1>7. (KernelInv /\ Between /\ Sole)'
    <2>1. KernelInv'
      BY <1>2, KernelRests DEF ListInv
    <2>. QED
      BY <1>2, <2>1 DEF ListInv, DaemonInv, Between, Sole
  <1>8. InCourse'
    <2>. SUFFICES ASSUME NEW o \in alone, NEW u \in Threads, serves[u] = o, even PROVE Course(o, u)'
      BY <1>2 DEF InCourse
    <2>1. Course(o, u) /\ o \in Operators
      BY DEF ListInv, DaemonInv, InCourse, Sole
    <2>2. o # c
      BY <1>1, <2>1 DEF Course
    <2>3. op'[o] = op[o]
      BY <1>4, <2>1, <2>2
    <2>. QED
      BY <1>2, <2>1, <2>3 DEF Course, Counting, Listing, Holds, ATable
  <1>9. Shown'
    <2>. SUFFICES ASSUME NEW o \in alone, even, op'[o].pc \in {"map", "done"}
                  PROVE  ShownTo(o, truth[o])'
      BY <1>2 DEF Shown
    <2>1. o \in Operators
      BY DEF ListInv, DaemonInv, Sole
    <2>2. CASE o # c
      <3>1. op'[o] = op[o]
        BY <1>4, <2>1, <2>2
      <3>2. ShownTo(o, truth[o])
        BY <3>1 DEF ListInv, DaemonInv, Shown
      <3>. QED
        BY <1>2, <3>1, <3>2 DEF ShownTo, Holds, ATable
    <2>3. CASE o = c
      <3>. DEFINE T == truth[o]
      <3>1. ShownTo(o, T)
        BY <1>1, <2>3 DEF ListInv, DaemonInv, Shown
      <3>2. T' = T
        BY <1>2
      <3>. HIDE DEF T
      <3>3. /\ \A t \in Threads : serves[t] # o
            /\ ATable(T) /\ op[c].max = Len(T) /\ total_user = Len(T) /\ Holds(T, Len(T))
            /\ op[c].seen \in Seq(Nat) /\ Len(op[c].seen) = off
            /\ off \in Nat /\ off <= Len(T)
            /\ \A k \in 1 .. off : op[c].seen[k] = T[k]
            /\ off # Len(T)
        BY <1>1, <2>3, <3>1 DEF ShownTo
      <3>4. PAGE \in Nat /\ Len(T) \in Nat /\ T \in Seq(Nat)
        BY <3>3, PageIsPositive DEF ATable
      <3>5. n \in Nat /\ off + n <= Len(T)
        BY <3>3, <3>4
      <3>. HIDE DEF n, off
      <3>6. ASSUME NEW k \in 1 .. n
            PROVE  e[k] = T[off + k] /\ T[off + k] \in Nat
        <4>1. off + k \in 1 .. Len(T) /\ (off + k) - 1 = off + k - 1
          BY <3>3, <3>4, <3>5
        <4>2. UserPool[(off + k) - 1] = T[off + k]
          BY <3>3, <4>1 DEF Holds
        <4>. QED
          BY <3>4, <4>1, <4>2
      <3>7. e \in Seq(Nat) /\ Len(e) = n
        <4>1. \A k \in 1 .. n : UserPool[off + k - 1] \in Nat
          BY <3>6
        <4>. QED
          BY <3>5, <4>1
      <3>. DEFINE s == op[c].seen
      <3>a. /\ s \in Seq(Nat) /\ Len(s) = off /\ off \in Nat
            /\ \A k \in 1 .. off : s[k] = T[k]
        BY <3>3
      <3>. HIDE DEF e, s
      <3>8. s \o e \in Seq(Nat) /\ Len(s \o e) = off + n
        BY <3>7, <3>a, SMTT(30)
      <3>9. ASSUME NEW k \in 1 .. off + n
            PROVE  (s \o e)[k] = T[k]
        <4>1. CASE k <= off
          BY <3>5, <3>7, <3>a, <4>1
        <4>2. CASE ~(k <= off)
          <5>1. k - off \in 1 .. n /\ off + (k - off) = k
            BY <3>3, <3>5, <4>2
          <5>2. (s \o e)[k] = e[k - off]
            <6>1. k \in 1 .. Len(s) + Len(e) /\ k > Len(s)
              BY <3>5, <3>7, <3>a, <4>2
            <6>2. (s \o e)[k] = e[k - Len(s)]
              <7>1. \A j \in 1 .. Len(s) + Len(e) :
                      (s \o e)[j] = IF j <= Len(s) THEN s[j] ELSE e[j - Len(s)]
                BY <3>7, <3>a, ConcatProperties
              <7>2. Len(s) \in Nat /\ Len(e) \in Nat /\ k \in Nat
                BY <3>3, <3>5, <3>7, <3>a
              <7>. QED
                BY <6>1, <7>1, <7>2
            <6>. QED
              BY <3>a, <6>2
          <5>. QED
            BY <3>6, <5>1, <5>2
        <4>. QED
          BY <4>1, <4>2
      <3>10. /\ new.max = Len(T) /\ new.offset = off + n /\ new.seen = s \o e
             /\ new.pc = IF off + n < Len(T) THEN "map" ELSE "done"
        BY <1>5, <3>3, <3>7 DEF new, s
      <3>11. new.pc = "done" <=> off + n = Len(T)
        BY <3>3, <3>4, <3>5, <3>10
      <3>12. op'[o] = new
        BY <1>4, <2>3
      <3>13. (ATable(T) /\ total_user = Len(T) /\ Holds(T, Len(T)))'
        BY <1>2, <3>2, <3>3 DEF ATable, Holds
      <3>14. /\ op'[o].seen \in Seq(Nat) /\ Len(op'[o].seen) = op'[o].offset
             /\ op'[o].offset \in Nat /\ op'[o].offset <= Len(T) /\ op'[o].max = Len(T)
             /\ \A k \in 1 .. op'[o].offset : op'[o].seen[k] = T[k]
             /\ op'[o].pc = "done" <=> op'[o].offset = Len(T)
        <4>1. op'[o].seen = s \o e /\ op'[o].offset = off + n /\ op'[o].max = Len(T)
          BY <3>10, <3>12
        <4>2. op'[o].pc = "done" <=> off + n = Len(T)
          BY <3>11, <3>12
        <4>. QED
          BY <3>5, <3>8, <3>9, <3>a, <4>1, <4>2
      <3>15. ShownTo(o, T)'
        BY <1>2, <3>2, <3>3, <3>13, <3>14 DEF ShownTo
      <3>. QED
        BY <3>15 DEF T
    <2>. QED
      BY <2>2, <2>3
  <1>. QED
    BY <1>6, <1>7, <1>8, <1>9 DEF DaemonInv

(* The client begins again or gives up.                                    *)
LEMMA ClientKeeps ==
  ASSUME ListInv, NEW c \in Operators, Asks(c) \/ TimesOut(c)
  PROVE  (OpShape /\ KernelInv /\ DaemonInv)'
  <1>1. /\ UNCHANGED <<pc, round, sock, crossed>>
        /\ UNCHANGED <<table, flag, i, nelem, trav, UserPool, recved, total_user, nuser, serves, alone, even>>
        /\ \E p \in {"idle", "num"} : op' = [op EXCEPT ![c] = [Idle EXCEPT !.pc = p]]
        /\ \/ UNCHANGED truth
           \/ truth' = [truth EXCEPT ![c] = <<>>] /\ \A x \in Threads : serves[x] # c
    <2>1. [Idle EXCEPT !.pc = "idle"] = Idle
      BY DEF Idle
    <2>. QED
      BY <2>1 DEF Asks, TimesOut, vars, kernel, statics, daemon, served
  <1>2. PICK p \in {"idle", "num"} : op' = [op EXCEPT ![c] = [Idle EXCEPT !.pc = p]]
    BY <1>1
  <1>3. op = [o \in Operators |-> op[o]] /\ truth = [o \in Operators |-> truth[o]]
    BY DEF ListInv, DaemonInv, OpShape
  <1>. DEFINE new == [Idle EXCEPT !.pc = p]
  <1>4. new.pc = p /\ new.offset = 0 /\ new.seen = <<>>
    BY DEF Idle
  <1>. HIDE DEF new
  <1>5. /\ \A o \in Operators \ {c} : op'[o] = op[o]
        /\ op'[c] = new /\ op' = [o \in Operators |-> op'[o]]
    BY <1>2, <1>3 DEF new
  <1>6. /\ \A o \in Operators \ {c} : truth'[o] = truth[o]
        /\ truth' = [o \in Operators |-> truth'[o]]
    BY <1>1, <1>3
  <1>7. OpShape'
    BY <1>1, <1>4, <1>5, <1>6 DEF ListInv, DaemonInv, OpShape
  <1>8. (KernelInv /\ Between /\ Sole)'
    <2>1. KernelInv'
      BY <1>1, KernelRests DEF ListInv
    <2>. QED
      BY <1>1, <2>1 DEF ListInv, DaemonInv, Between, Sole
  <1>9. InCourse'
    <2>. SUFFICES ASSUME NEW o \in alone, NEW u \in Threads, serves[u] = o, even PROVE Course(o, u)'
      BY <1>1 DEF InCourse
    <2>1. Course(o, u) /\ o \in Operators
      BY DEF ListInv, DaemonInv, InCourse, Sole
    <2>2. op'[o].pc \in {"idle", "num"}
      BY <1>4, <1>5, <2>1 DEF Course
    <2>3. truth'[o] = truth[o]
      BY <1>1, <1>6, <2>1
    <2>. QED
      BY <1>1, <2>1, <2>2, <2>3 DEF Course, Counting, Listing, Holds, ATable
  <1>10. Shown'
    <2>. SUFFICES ASSUME NEW o \in alone, even, op'[o].pc \in {"map", "done"}
                  PROVE  ShownTo(o, truth[o])'
      BY <1>1 DEF Shown
    <2>1. o \in Operators /\ o # c
      BY <1>4, <1>5 DEF ListInv, DaemonInv, Sole
    <2>2. op'[o] = op[o] /\ truth'[o] = truth[o]
      BY <1>5, <1>6, <2>1
    <2>3. ShownTo(o, truth[o])
      BY <2>2 DEF ListInv, DaemonInv, Shown
    <2>. QED
      BY <1>1, <2>2, <2>3 DEF ShownTo, Holds, ATable
  <1>. QED
    BY <1>7, <1>8, <1>9, <1>10 DEF DaemonInv

(* A tunnel begins or ends, between lists if they are to be even.          *)
LEMMA TunnelKeeps ==
  ASSUME ListInv, \/ TunnelChanges
                  \/ UNCHANGED uvars
  PROVE  (OpShape /\ KernelInv /\ DaemonInv)'
  <1>0. OpShape /\ KernelInv /\ DaemonInv
    BY DEF ListInv
  <1>1. /\ UNCHANGED <<pc, round, sock, crossed>>
        /\ UNCHANGED <<flag, i, nelem, trav, UserPool, recved, total_user, nuser, serves, op,
                       truth, alone>>
        /\ even' => even /\ (UNCHANGED table \/ \A t \in Threads : trav[t] = Start)
    <2>1. CASE TunnelChanges
      <3>1. /\ even' = (even /\ \A t \in Threads : trav[t] = Start)
            /\ UNCHANGED <<vars, kernel, daemon, served, op, truth, alone>>
        BY <2>1 DEF TunnelChanges
      <3>2. even' => even /\ \A t \in Threads : trav[t] = Start
        BY <3>1, Zenon
      <3>. QED
        BY <3>1, <3>2 DEF vars, kernel, statics, daemon, served
    <2>2. CASE UNCHANGED uvars
      BY <2>2 DEF uvars, list, vars, kernel, statics, daemon, served
    <2>. QED
      BY <2>1, <2>2
  <1>2. (OpShape /\ Between /\ Sole)'
    BY <1>0, <1>1 DEF DaemonInv, OpShape, Between, Sole
  <1>3. KernelInv'
    <2>1. Makings'
      <3>. SUFFICES ASSUME even', NEW t \in Threads, pc[t] = "handled", round[t] = 2
                    PROVE  Making(t)'
        BY <1>1 DEF Makings
      <3>1. Making(t)
        BY <1>0, <1>1 DEF KernelInv, Makings
      <3>. QED
        BY <1>1, <3>1 DEF Making
    <2>. QED
      BY <1>0, <1>1, <2>1 DEF KernelInv, EvenIsOrderly, AtStart
  <1>4. InCourse'
    <2>. SUFFICES ASSUME NEW o \in alone, NEW t \in Threads, serves[t] = o, even' PROVE Course(o, t)'
      BY <1>1 DEF InCourse
    <2>1. Course(o, t)
      BY <1>0, <1>1 DEF DaemonInv, InCourse
    <2>2. Counting(t) => Counting(t)'
      BY <1>1 DEF Counting
    <2>3. Listing(t, truth[o]) => Listing(t, truth[o])'
      BY <1>1 DEF Listing, Holds, ATable
    <2>. QED
      BY <1>1, <2>1, <2>2, <2>3 DEF Course
  <1>5. Shown'
    <2>. SUFFICES ASSUME NEW o \in alone, op[o].pc \in {"map", "done"}, even'
                  PROVE  ShownTo(o, truth[o])'
      BY <1>1 DEF Shown
    <2>1. ShownTo(o, truth[o])
      BY <1>0, <1>1 DEF DaemonInv, Shown
    <2>. QED
      BY <1>1, <2>1 DEF ShownTo, Holds, ATable
  <1>. QED
    BY <1>2, <1>3, <1>4, <1>5 DEF DaemonInv

LEMMA InitList ==
  ASSUME Init
  PROVE  ListInv
  <1>1. /\ op = [o \in Operators |-> Idle] /\ truth = [o \in Operators |-> <<>>]
        /\ nuser = [t \in Threads |-> 0] /\ alone = {} /\ i = 0 /\ recved = 0
        /\ crossed = {} /\ pc = [t \in Threads |-> "closed"]
    BY DEF Init, NetlinkInit
  <1>2. OpShape
    <2>1. Idle.offset = 0 /\ Idle.seen = <<>>
      BY DEF Idle
    <2>. QED
      BY <1>1, <2>1 DEF OpShape
  <1>3. DaemonInv
    BY <1>1 DEF DaemonInv, Between, Sole, InCourse, Shown
  <1>4. KernelInv
    BY <1>1 DEF KernelInv, EvenIsOrderly, AtStart, Makings
  <1>. QED
    BY <1>2, <1>3, <1>4, InitTypes DEF ListInv

LEMMA ListStep ==
  ASSUME ListInv, Bodies = ListBodies, [Next]_uvars
  PROVE  ListInv'
  <1>1. (ReplyInv /\ ListTypeOK)'
    BY ListTypes DEF ListInv
  <1>2. (OpShape /\ KernelInv /\ DaemonInv)'
    <2>1. CASE TunnelChanges \/ UNCHANGED uvars
      BY <2>1, TunnelKeeps
    <2>2. ASSUME NEW t \in Threads, process_user_info(t)
          PROVE  (OpShape /\ KernelInv /\ DaemonInv)'
      BY <2>2, ToldKeeps, PageKeeps, MadeKeeps, EndsKeeps DEF process_user_info
    <2>3. ASSUME NEW t \in Threads, Converse(t)
          PROVE  (OpShape /\ KernelInv /\ DaemonInv)'
      BY <2>2, <2>3, EntersKeeps, ReceivesKeeps, GoesKeeps, AnswerKeeps DEF Converse
    <2>4. ASSUME NEW t \in Threads, NEW o \in Operators, NumRequest(t, o)
          PROVE  (OpShape /\ KernelInv /\ DaemonInv)'
      BY <2>4, RequestKeeps
    <2>5. ASSUME NEW o \in Operators, MapRequest(o) \/ Asks(o) \/ TimesOut(o)
          PROVE  (OpShape /\ KernelInv /\ DaemonInv)'
      BY <2>5, MapKeeps, ClientKeeps
    <2>. QED
      BY <2>1, <2>3, <2>4, <2>5 DEF Next
  <1>. QED
    BY <1>1, <1>2 DEF ListInv

(* The operator is shown the list as it was when the kernel module began to*)
(* make it, each user once and in order, however many users, pages,        *)
(* operators and processors there are, if no other operator asked meanwhile*)
(* and every list so far was that of the number told, made with nothing    *)
(* else in the handler and no tunnel beginning or ending between its pages:*)
(* the static index of send_user_info, the offset at which                 *)
(* AddUserInfoToPool goes on and the one the client asks for next agree    *)
(* from page to page and from list to list.                                *)
THEOREM ListsAreRight == ASSUME Bodies = ListBodies PROVE Spec => []ListingRight
  <1>1. ListInv => ListingRight
    <2>. SUFFICES ASSUME ListInv, NEW o \in alone, op[o].pc = "done", even
                  PROVE  op[o].seen = truth[o]
      BY DEF ListingRight
    <2>1. ShownTo(o, truth[o])
      BY DEF ListInv, DaemonInv, Shown
    <2>. DEFINE T == truth[o]
                s == op[o].seen
    <2>2. /\ T \in Seq(Nat) /\ s \in Seq(Nat) /\ Len(s) = Len(T)
          /\ \A k \in 1 .. Len(s) : s[k] = T[k]
      BY <2>1 DEF ShownTo, ATable
    <2>. HIDE DEF T, s
    <2>3. s = T
      BY <2>2, SMTT(30)
    <2>. QED
      BY <2>3 DEF s, T
  <1>2. Init => ListInv
    BY InitList
  <1>3. ListInv /\ [Next]_uvars => ListInv'
    BY ListStep
  <1>. QED
    BY <1>1, <1>2, <1>3, PTL DEF Spec
=============================================================================

----------------------------- MODULE Reassembly -----------------------------
(***************************************************************************)
(* Reassembly of IPv6 fragments (defrag6.c with hash.c in the              *)
(* concentrator, fragment.c with shash.c in the gateway: the same code     *)
(* twice).  The table maps a key, the identification and the sender of the *)
(* fragments, to a tuple.  Every call is made under fraghashlock.          *)
(***************************************************************************)
EXTENDS Integers, FiniteSets, FiniteSetsExt, Functions

CONSTANTS FragTimeout,  \* FRAG_TIMEOUT, in passes of the timer
          MaxFragCnt    \* MAX_FRAG_CNT

ASSUME ReassemblyAssumption ==
  FragTimeout \in Nat \ {0} /\ MaxFragCnt \in Nat \ {0}

(* len is what has arrived and length what the last fragment says there    *)
(* is, known once flag is set; cnt counts the arrivals.                    *)
NewTuple == [len |-> 0, length |-> 0, flag |-> FALSE,
             life |-> FragTimeout, frags |-> {}, cnt |-> 0]

(* ShashFragInsert: a fragment at an offset that is taken is not linked in.*)
Linked(frags, p) ==
  IF \E q \in frags : q.off = p.off THEN frags ELSE frags \cup {p}

(* Mistake: only the last fragment to arrive can complete, if it is the    *)
(* last of the packet.                                                     *)
CompleteInOrder(t, p) == ~p.more /\ t.len = t.length

(* Mistake: the last fragment makes the packet complete.                   *)
CompleteAtLast(t, p) == t.flag

(* updatelength: what the caller learns.                                   *)
Complete(t, p) == t.flag /\ t.len = t.length

(* updatelength, for a fragment that is linked in or is there already.     *)
Counted(t, p) ==
  LET t1 == [t EXCEPT !.len = @ + p.len]
  IN  IF p.more THEN t1 ELSE [t1 EXCEPT !.length = p.off + p.len, !.flag = TRUE]

(* ShashBucketFind, ShashInsert: the buckets of the hash are one map.      *)
ShashBucketFind(tab, key)  == IF key \in DOMAIN tab THEN tab[key] ELSE NewTuple
ShashInsert(tab, key, tup) ==
  [k \in DOMAIN tab \cup {key} |-> IF k = key THEN tup ELSE tab[k]]

(* fragnodeinsert, with fragprocess taking the fragments of a complete     *)
(* packet away: its tuple stays, with its length, until the timer.         *)
fragnodeinsert(tab, key, p) ==
  LET counted == [ShashBucketFind(tab, key) EXCEPT !.cnt = @ + 1]
      t       == Counted([counted EXCEPT !.life = FragTimeout, !.frags = Linked(@, p)], p)
      refused == key \in DOMAIN tab /\ counted.cnt > MaxFragCnt
      done    == ~refused /\ Complete(t, p)
      new     == CASE refused           -> counted
                   [] ~refused /\ done  -> [t EXCEPT !.frags = {}]
                   [] ~refused /\ ~done -> t
  IN  [tab  |-> ShashInsert(tab, key, new),
       done |-> done, frags |-> IF done THEN t.frags ELSE {}]

(* fragprocess: the fragments are copied, each to its offset, into a       *)
(* buffer that keeps what was in it; the packet is as long as they are     *)
(* together.  It is whole if they are one packet's and leave no gap.  The  *)
(* header is what lies at offset 0 of the buffer.                          *)
PacketLen(frags) == MapThenSumSet(LAMBDA p : p.len, frags)

Gapless(frags) ==
  /\ \E p \in frags : p.off = 0
  /\ \A p \in frags : \/ ~p.more
                      \/ \E q \in frags : q.off = p.off + p.len
  /\ Cardinality({p.of : p \in frags}) = 1

Assembled(frags, buf) ==
  LET first == {p \in frags : p.off = 0}
      head  == IF first = {} THEN buf ELSE (CHOOSE p \in first : TRUE).h
      some  == CHOOSE p \in frags : TRUE
  IN  [of |-> some.of, h |-> head, len |-> PacketLen(frags), whole |-> Gapless(frags)]

(* Mistake: what is complete is left to whoever completed it.              *)
fragtimeouthandle_incomplete(tab) ==
  LET aged == [k \in DOMAIN tab |-> IF tab[k].frags = {} THEN tab[k] ELSE [tab[k] EXCEPT !.life = @ - 1]]
  IN  Restrict(aged, {k \in DOMAIN tab : aged[k].life > 0})

(* fragtimeouthandle: one pass of the timer; ShashFragDel frees the rest.  *)
fragtimeouthandle(tab) ==
  LET aged == [k \in DOMAIN tab |-> [tab[k] EXCEPT !.life = @ - 1]]
  IN  Restrict(aged, {k \in DOMAIN tab : aged[k].life > 0})
=============================================================================

-------------------------- MODULE PcpSession_proofs --------------------------
(***************************************************************************)
(* Proofs about the PCP client of the home gateway: renewing after half a  *)
(* lifetime is soon enough, if the pauses between the attempts that may    *)
(* fail in a row add up to at most a quarter of it.                        *)
(***************************************************************************)
EXTENDS PcpSession, FiniteSetTheorems, WellFoundedInduction, TLAPS

(* The pauses of PCPRequestHandle between attempts that fail, of which the *)
(* first follows the second timeout, and the seconds all of them take.     *)
Doubled(t) == IF 2 * t > MAX_RETRANSTIME THEN MAX_RETRANSTIME ELSE 2 * t

Schedule(pause, spent) ==
  /\ pause \in [0 .. MaxLost -> Nat] /\ spent \in [0 .. MaxLost -> Nat]
  /\ pause[0] = INIT_RETRANSITME /\ spent[0] = 0
  /\ \A k \in 0 .. MaxLost - 1 : /\ pause[k + 1] = Doubled(pause[k])
                                 /\ spent[k + 1] = spent[k] + RCV_TIMEOUT + pause[k + 1]

-----------------------------------------------------------------------------
(* As long as there is no trouble, only the worker has anything to do, with*)
(* one server.                                                             *)
Mine   == Pool[srv] \cup {Zero, Other}
Places == {"send", "recv", "back", "asleep", "done", "bind", "commit", "idle"}

TypesOK ==
  /\ budget \in [losses : Nat, late : {0}, restarts : Nat, refusals : Nat,
                 senderrors : Nat, signals : Nat]
  /\ thr \in [Threads -> [pc : Places, wait : Nat, t : Nat]]
  /\ srv \in DOMAIN Pool /\ Address[srv] = gwipv6
  /\ addr = [x \in Threads \cup {"ctx"} |-> gwipv6]
  /\ ctx \in [left : Nat, block : Pool[srv] \cup {Zero}, pre : Int \cup {None}, last : Int \cup {None}]
  /\ nat \in [{"worker", "icmp"} -> Mine] /\ kernel \in Mine
  /\ lease \in Pool[srv] \cup {None} /\ life \in 0 .. 4 /\ pass \in 1 .. Quarter
  /\ lease # None => life >= 1
  /\ lost \in 0 .. MaxLost /\ flying = <<>>

WorkerOnly ==
  /\ thr["worker"].pc # "idle"
  /\ \A th \in {"icmp", "main"} : thr[th].pc = "idle" /\ thr[th].wait = 0

(* An answer is read as soon as it comes.                                  *)
Fresh(m) ==
  /\ m.left \in Nat /\ m.age = 0 /\ m.from = gwipv6
  /\ m.block = None => lease = None
  /\ m.block # None => m.block = lease /\ life = 4 /\ m.left = SUCCESS_LIFETIME

ReadAtOnce ==
  inbox # <<>> => /\ thr["worker"].pc = "recv" /\ lost = 0
                  /\ \E m : inbox = <<m>> /\ Fresh(m)

(* The pauses follow the number of attempts that have failed.              *)
Paced(pause) ==
  LET w == thr["worker"]
  IN  /\ w.pc \in {"asleep", "done", "bind", "commit"} => lost = 0
      /\ w.pc \in {"send", "back"} => w.t = pause[lost]
      /\ w.pc = "recv" /\ inbox = <<>> => lost > 0 /\ w.t = pause[lost - 1]

(* When the server is reached at the latest, and when the lease ends.      *)
Left(spent, k) == spent[MaxLost] - spent[k]
End            == pass + (life - 1) * Quarter

InTime(pause, spent) ==
  LET w == thr["worker"]
  IN  /\ w.pc \in {"done", "bind", "commit"} => End > 2 * Quarter + Left(spent, 0)
      /\ w.pc = "asleep" => End > w.wait + Left(spent, 0)
      /\ w.pc = "send" => End > Left(spent, lost)
      /\ w.pc = "back" => End > w.wait + Left(spent, lost)
      /\ w.pc = "recv" /\ inbox = <<>> => End > w.wait + pause[lost] + Left(spent, lost)

Kept(pause, spent) ==
  ctx.block # Zero =>
    lease = ctx.block /\ ctx.left = SUCCESS_LIFETIME /\ InTime(pause, spent)

Calm(pause, spent) ==
  TypesOK /\ WorkerOnly /\ ReadAtOnce /\ Paced(pause) /\ Kept(pause, spent)

Harmless == {"first", "stale", "zero"}

LeaseInv(pause, spent) == seen \subseteq Harmless => Calm(pause, spent)

-----------------------------------------------------------------------------
LEMMA Times ==
  /\ Quarter \in Nat /\ Quarter >= 1 /\ SUCCESS_LIFETIME = 4 * Quarter
  /\ RenewAfter(SUCCESS_LIFETIME) = 2 * Quarter
  /\ SUCCESS_LIFETIME \in Nat /\ ERROR_LIFETIME \in Nat /\ RCV_TIMEOUT \in Nat
  /\ INIT_RETRANSITME \in Nat /\ MAX_RETRANSTIME \in Nat /\ MaxLost \in Nat /\ Grain \in Nat
  /\ \A l \in 1 .. 4 : (l - 1) * Quarter \in Nat /\ (l - 1) * Quarter <= 3 * Quarter
  /\ \A l \in 2 .. 4 : ((l - 1) - 1) * Quarter = (l - 1) * Quarter - Quarter
  <1>1. /\ SUCCESS_LIFETIME \in Nat /\ SUCCESS_LIFETIME >= 1 /\ SUCCESS_LIFETIME % 4 = 0
        /\ ERROR_LIFETIME \in Nat /\ RCV_TIMEOUT \in Nat
        /\ INIT_RETRANSITME \in Nat /\ MAX_RETRANSTIME \in Nat /\ MaxLost \in Nat /\ Grain \in Nat
    BY PcpAssumption
  <1>2. Quarter \in Nat /\ Quarter >= 1 /\ SUCCESS_LIFETIME = 4 * Quarter
    BY <1>1 DEF Quarter
  <1>3. RenewAfter(SUCCESS_LIFETIME) = 2 * Quarter
    BY <1>1, <1>2 DEF RenewAfter
  <1>. HIDE DEF Quarter
  <1>4. ASSUME NEW l \in 1 .. 4
        PROVE  /\ (l - 1) * Quarter \in Nat /\ (l - 1) * Quarter <= 3 * Quarter
               /\ l \in 2 .. 4 => ((l - 1) - 1) * Quarter = (l - 1) * Quarter - Quarter
    <2>1. l = 1 \/ l = 2 \/ l = 3 \/ l = 4
      OBVIOUS
    <2>2. CASE l = 1
      BY <1>2, <2>2
    <2>3. CASE l = 2
      BY <1>2, <2>3
    <2>4. CASE l = 3
      BY <1>2, <2>4
    <2>5. CASE l = 4
      BY <1>2, <2>5
    <2>. QED
      BY <2>1, <2>2, <2>3, <2>4, <2>5
  <1>. QED
    BY <1>1, <1>2, <1>3, <1>4

(* Of a nonempty set of numbers below a bound one is the largest.          *)
LEMMA LargestNumber ==
  ASSUME NEW n \in Nat, NEW Bad \in SUBSET (0 .. n), Bad # {}
  PROVE  \E m \in Bad : \A k \in Bad : k <= m
  <1>. DEFINE Above(m) == m .. n
              Sets     == {Above(m) : m \in Bad}
  <1>1. /\ \A T \in Sets : T \subseteq 0 .. n /\ IsFiniteSet(T)
        /\ Sets # {}
    <2>1. \A m \in Bad : m \in Int /\ n \in Int /\ m .. n \subseteq 0 .. n
      OBVIOUS
    <2>2. \A m \in Bad : IsFiniteSet(m .. n)
      BY <2>1, FS_Interval
    <2>. QED
      BY <2>1, <2>2
  <1>2. Sets \subseteq FiniteSubsetsOf(0 .. n)
    BY <1>1 DEF FiniteSubsetsOf
  <1>3. PICK T \in Sets : \A U \in Sets : <<U, T>> \notin StrictSubsetOrdering(0 .. n)
    <2>. HIDE DEF Sets
    <2>. QED
      BY <1>1, <1>2, FS_StrictSubsetOrderingWellFounded, WFMin
  <1>4. PICK m \in Bad : T = Above(m)
    OBVIOUS
  <1>5. ASSUME NEW k \in Bad, k > m
        PROVE  FALSE
    <2>1. Above(k) \subseteq Above(m) /\ m \in Above(m) /\ m \notin Above(k)
      BY <1>5
    <2>2. Above(k) \in Sets /\ Above(k) \subseteq 0 .. n /\ T \subseteq 0 .. n
      BY <1>1
    <2>. HIDE DEF Sets, Above
    <2>. QED
      BY <1>3, <1>4, <2>1, <2>2 DEF StrictSubsetOrdering
  <1>. QED
    BY <1>5

(* What is left of the seconds that failing attempts take.                 *)
Slack(pause, spent) ==
  /\ pause[0] = INIT_RETRANSITME
  /\ \A k \in 0 .. MaxLost :
       /\ pause[k] \in Nat /\ Left(spent, k) \in Nat
       /\ k < MaxLost => /\ pause[k + 1] = Doubled(pause[k])
                         /\ Left(spent, k) = RCV_TIMEOUT + pause[k + 1] + Left(spent, k + 1)

LEMMA SlackIs ==
  ASSUME NEW pause, NEW spent, Schedule(pause, spent)
  PROVE  Slack(pause, spent) /\ Left(spent, 0) = spent[MaxLost]
  <1>1. MaxLost \in Nat /\ RCV_TIMEOUT \in Nat
    BY Times
  <1>2. \A k \in 0 .. MaxLost : pause[k] \in Nat /\ spent[k] \in Nat /\ Left(spent, k) \in Int
    BY <1>1 DEF Schedule, Left
  <1>3. ASSUME NEW k \in 0 .. MaxLost, k < MaxLost
        PROVE  /\ pause[k + 1] = Doubled(pause[k])
               /\ Left(spent, k) = RCV_TIMEOUT + pause[k + 1] + Left(spent, k + 1)
    <2>1. k \in 0 .. MaxLost - 1 /\ k + 1 \in 0 .. MaxLost /\ MaxLost \in 0 .. MaxLost
      BY <1>1, <1>3
    <2>2. spent[k + 1] = spent[k] + RCV_TIMEOUT + pause[k + 1] /\ pause[k + 1] = Doubled(pause[k])
      BY <2>1 DEF Schedule
    <2>3. spent[k] \in Nat /\ spent[k + 1] \in Nat /\ pause[k + 1] \in Nat /\ spent[MaxLost] \in Nat
      BY <1>2, <2>1
    <2>. QED
      BY <1>1, <2>2, <2>3 DEF Left
  <1>. DEFINE Bad == {k \in 0 .. MaxLost : Left(spent, k) \notin Nat}
  <1>4. Bad = {}
    <2>. SUFFICES ASSUME Bad # {} PROVE FALSE
      OBVIOUS
    <2>1. PICK m \in Bad : \A k \in Bad : k <= m
      <3>1. Bad \in SUBSET (0 .. MaxLost)
        OBVIOUS
      <3>. HIDE DEF Bad
      <3>. QED
        BY <1>1, <3>1, LargestNumber
    <2>2. m # MaxLost
      BY <1>1, <1>2 DEF Left
    <2>3. m + 1 \in 0 .. MaxLost /\ m + 1 \notin Bad /\ m < MaxLost
      BY <1>1, <2>1, <2>2
    <2>. QED
      BY <1>1, <1>2, <1>3, <2>3
  <1>5. pause[0] = INIT_RETRANSITME /\ spent[0] = 0 /\ spent[MaxLost] \in Nat
    BY <1>1, <1>2 DEF Schedule
  <1>. QED
    BY <1>2, <1>3, <1>4, <1>5 DEF Slack, Left

-----------------------------------------------------------------------------
LEMMA GotoIs ==
  ASSUME TypesOK, NEW p \in Places, NEW n \in Nat, NEW q, q = Goto("worker", p, n)
  PROVE  /\ q \in [Threads -> [pc : Places, wait : Nat, t : Nat]]
         /\ q["worker"].pc = p /\ q["worker"].wait = n /\ q["worker"].t = thr["worker"].t
         /\ \A th \in {"icmp", "main"} : q[th] = thr[th]
  <1>1. thr \in [Threads -> [pc : Places, wait : Nat, t : Nat]] /\ "worker" \in Threads
    BY DEF TypesOK, Threads
  <1>2. q = [thr EXCEPT !["worker"] = [[thr["worker"] EXCEPT !.pc = p] EXCEPT !.wait = n]]
    BY DEF Goto
  <1>. DEFINE r0 == [thr["worker"] EXCEPT !.pc = p]
              r  == [r0 EXCEPT !.wait = n]
  <1>3. /\ r0 \in [pc : Places, wait : Nat, t : Nat]
        /\ r0.pc = p /\ r0.t = thr["worker"].t
    BY <1>1
  <1>4. r \in [pc : Places, wait : Nat, t : Nat] /\ r.pc = p /\ r.wait = n /\ r.t = thr["worker"].t
    <2>. HIDE DEF r0
    <2>. QED
      BY <1>3
  <1>5. q = [thr EXCEPT !["worker"] = r]
    BY <1>2
  <1>. HIDE DEF r
  <1>. QED
    BY <1>1, <1>4, <1>5 DEF Threads

(* The lease never ends earlier for being renewed.                         *)
LEMMA EndIs ==
  ASSUME TypesOK
  PROVE  /\ life >= 1 => End \in Nat /\ End >= 1 /\ End <= pass + 3 * Quarter
         /\ life = 4 => End = pass + 3 * Quarter
         /\ pass \in Nat /\ pass >= 1
  <1>1. Quarter \in Nat /\ pass \in 1 .. Quarter /\ life \in 0 .. 4
    BY Times DEF TypesOK
  <1>2. life >= 1 => (life - 1) * Quarter \in Nat /\ (life - 1) * Quarter <= 3 * Quarter
    BY <1>1, Times
  <1>3. life = 4 => (life - 1) * Quarter = 3 * Quarter
    BY <1>1
  <1>. DEFINE x == (life - 1) * Quarter
  <1>4. End = pass + x
    BY DEF End
  <1>. HIDE DEF x, Quarter
  <1>. QED
    BY <1>1, <1>2, <1>3, <1>4 DEF x

LEMMA Apart ==
  /\ Zero \notin Blocks /\ Other \notin Blocks /\ None \notin Blocks
  /\ \A s \in DOMAIN Pool : Pool[s] \subseteq Blocks
  BY PcpAssumption DEF Blocks

(* In the first moments of a lease there is time for everything.           *)
LEMMA JustGranted ==
  ASSUME NEW pause, NEW spent, Slack(pause, spent), Left(spent, 0) <= Quarter, TypesOK, life = 4
  PROVE  End > 2 * Quarter + Left(spent, 0) /\ End > Left(spent, 0)
  <1>1. Quarter \in Nat /\ Left(spent, 0) \in Nat
    BY Times DEF Slack
  <1>2. End = pass + 3 * Quarter /\ pass \in Nat /\ pass >= 1
    BY EndIs
  <1>. HIDE DEF Quarter, Left, End
  <1>. QED
    BY <1>1, <1>2

LEMMA SendKeeps ==
  ASSUME NEW pause, NEW spent, Slack(pause, spent), Calm(pause, spent), Send("worker")
  PROVE  Calm(pause, spent)'
  <1>. USE DEF Calm
  <1>1. thr["worker"].pc = "send" /\ inbox = <<>> /\ thr["worker"].t = pause[lost]
    BY DEF Send, ReadAtOnce, Paced
  <1>2. RCV_TIMEOUT \in Nat /\ MaxLost \in Nat /\ Quarter \in Nat
    BY Times
  <1>3. /\ thr' \in [Threads -> [pc : Places, wait : Nat, t : Nat]]
        /\ thr'["worker"].pc = "recv" /\ thr'["worker"].wait = RCV_TIMEOUT
        /\ thr'["worker"].t = pause[lost]
        /\ \A th \in {"icmp", "main"} : thr'[th] = thr[th]
    <2>1. thr' = Goto("worker", "recv", RCV_TIMEOUT) /\ "recv" \in Places
      BY DEF Send, Places
    <2>2. TypesOK
      OBVIOUS
    <2>. QED
      BY <1>1, <1>2, <2>1, <2>2, GotoIs
  <1>4. WorkerOnly'
    BY <1>3 DEF WorkerOnly
  <1>5. UNCHANGED <<ctx, addr, nat, kernel, srv, pass>> /\ Address[srv] = gwipv6
    BY DEF Send, TypesOK
  <1>6. budget \in [losses : Nat, late : {0}, restarts : Nat, refusals : Nat, senderrors : Nat, signals : Nat]
    BY DEF TypesOK
  <1>7. ASSUME Spend("losses") \/ Spend("refusals") \/ UNCHANGED budget
        PROVE  budget' \in [losses : Nat, late : {0}, restarts : Nat, refusals : Nat, senderrors : Nat, signals : Nat]
    BY <1>6, <1>7 DEF Spend
  <1>8. ~Spend("late")
    BY <1>6 DEF Spend
  <1>9. /\ ctx.block # Zero => lease = ctx.block /\ ctx.left = SUCCESS_LIFETIME /\ End > Left(spent, lost)
        /\ lease \in Pool[srv] \cup {None} /\ srv \in DOMAIN Pool
        /\ lease # None => life >= 1
        /\ ctx.block \in Pool[srv] \cup {Zero}
    BY <1>1 DEF Kept, InTime, TypesOK
  <1>10. ASSUME Lost, UNCHANGED <<lease, life>> \/ \E b \in Pool[srv] : Renewed(b)
         PROVE  Calm(pause, spent)'
    <2>1. lost' = lost + 1 /\ lost < MaxLost /\ inbox' = <<>> /\ flying' = flying
      BY <1>1, <1>10 DEF Lost
    <2>2. lost \in 0 .. MaxLost /\ lost' \in 0 .. MaxLost /\ lost' > 0 /\ lost' - 1 = lost
      <3>1. lost \in 0 .. MaxLost
        BY DEF TypesOK
      <3>. QED
        BY <1>2, <2>1, <3>1
    <2>3. lease' \in Pool[srv] \cup {None} /\ life' \in 0 .. 4 /\ (lease' # None => life' >= 1)
      BY <1>10, <1>9 DEF Renewed, TypesOK
    <2>4. TypesOK'
      BY <1>3, <1>5, <1>7, <1>10, <2>1, <2>2, <2>3 DEF TypesOK, Lost, Mine
    <2>5. ReadAtOnce' /\ Paced(pause)'
      BY <1>3, <2>1, <2>2 DEF ReadAtOnce, Paced
    <2>6. ASSUME ctx.block # Zero
          PROVE  lease' = ctx.block /\ End' >= End /\ End \in Nat
      <3>1. lease = ctx.block /\ lease # None /\ life >= 1
        BY <1>9, <2>6, Apart
      <3>2. lease' = lease
        BY <1>10, <3>1 DEF Renewed
      <3>3. End \in Nat /\ End <= pass + 3 * Quarter
        BY <3>1, EndIs
      <3>4. CASE life' = life
        BY <1>5, <3>1, <3>2, <3>3, <3>4 DEF End
      <3>5. CASE life' = 4
        <4>1. End' = pass + 3 * Quarter
          BY <1>5, <3>5, <1>2 DEF End
        <4>. QED
          BY <3>1, <3>2, <3>3, <4>1
      <3>. QED
        BY <1>10, <3>1, <3>2, <3>4, <3>5 DEF Renewed
    <2>7. Left(spent, lost) = RCV_TIMEOUT + pause[lost + 1] + Left(spent, lost + 1)
      BY <2>1, <2>2 DEF Slack
    <2>8. Kept(pause, spent)'
      <3>1. SUFFICES ASSUME ctx'.block # Zero
                     PROVE  /\ lease' = ctx'.block /\ ctx'.left = SUCCESS_LIFETIME
                            /\ End' > RCV_TIMEOUT + pause[lost'] + Left(spent, lost')
        BY <1>3 DEF Kept, InTime, Left
      <3>2. End > Left(spent, lost) /\ lease' = ctx.block /\ End' >= End /\ ctx.left = SUCCESS_LIFETIME
        BY <1>5, <1>9, <2>6, <3>1
      <3>3. Left(spent, lost) = RCV_TIMEOUT + pause[lost'] + Left(spent, lost')
        BY <2>1, <2>7
      <3>4. Left(spent, lost) \in Nat /\ End \in Nat /\ End' \in Int
        <4>1. End' \in Int
          <5>1. pass' \in Nat /\ life' \in Int /\ Quarter \in Nat
            BY <1>2, <2>4, SMTT(30) DEF TypesOK
          <5>2. (life' - 1) * Quarter \in Int
            BY <5>1
          <5>. QED
            BY <5>1, <5>2 DEF End
        <4>. QED
          BY <1>5, <2>2, <2>6, <3>1, <4>1 DEF Slack
      <3>. QED
        BY <1>5, <3>2, <3>3, <3>4
    <2>. QED
      BY <1>4, <2>4, <2>5, <2>8
  <1>11. ASSUME NEW m, inbox' = Append(inbox, m), lost' = 0, flying' = flying,
                m.left \in Nat, m.age = 0, m.from = gwipv6,
                \/ m.block = None /\ lease = None /\ UNCHANGED <<lease, life>>
                \/ m.block # None /\ m.left = SUCCESS_LIFETIME /\ m.block \in Pool[srv] /\ Renewed(m.block),
                Spend("refusals") \/ UNCHANGED budget
         PROVE  Calm(pause, spent)'
    <2>1. inbox' = <<m>>
      BY <1>1, <1>11
    <2>2. lease' \in Pool[srv] \cup {None} /\ life' \in 0 .. 4 /\ (lease' # None => life' >= 1)
      BY <1>9, <1>11 DEF Renewed, TypesOK
    <2>3. TypesOK'
      BY <1>2, <1>3, <1>5, <1>7, <1>11, <2>2 DEF TypesOK, Mine
    <2>4. ReadAtOnce' /\ Paced(pause)'
      BY <1>3, <1>11, <2>1 DEF ReadAtOnce, Fresh, Paced, Renewed
    <2>5. Kept(pause, spent)'
      <3>1. ctx.block # Zero => lease' = ctx.block /\ ctx.left = SUCCESS_LIFETIME
        BY <1>9, <1>11, Apart DEF Renewed
      <3>. QED
        BY <1>3, <1>5, <2>1, <3>1 DEF Kept, InTime
    <2>. QED
      BY <1>4, <2>3, <2>4, <2>5
  <1>12. CASE RequestLost
    BY <1>10, <1>12 DEF RequestLost
  <1>13. CASE Granted
    <2>1. PICK b \in Blocks : Renewed(b) /\ Fate(b)
      BY <1>13 DEF Granted
    <2>2. b \in Pool[srv] /\ b # None
      BY <1>9, <2>1, Apart DEF Renewed
    <2>3. CASE Lost
      BY <1>10, <2>1, <2>2, <2>3
    <2>4. CASE inbox' = Append(inbox, Success(b, 0)) /\ lost' = 0 /\ UNCHANGED <<flying, budget>>
      <3>1. /\ Success(b, 0).block = b /\ Success(b, 0).left = SUCCESS_LIFETIME
            /\ Success(b, 0).age = 0 /\ SUCCESS_LIFETIME \in Nat /\ Success(b, 0).from = gwipv6
        BY <1>5, Times DEF Success, Answer
      <3>. HIDE DEF Calm
      <3>. QED
        BY <1>11, <2>1, <2>2, <2>4, <3>1
    <2>. QED
      BY <1>8, <2>1, <2>3, <2>4 DEF Fate
  <1>14. CASE Refused
    <2>1. /\ Answer(None, ERROR_LIFETIME, 0).block = None /\ Answer(None, ERROR_LIFETIME, 0).age = 0
          /\ Answer(None, ERROR_LIFETIME, 0).left \in Nat /\ Answer(None, ERROR_LIFETIME, 0).from = gwipv6
      BY <1>5, Times DEF Answer
    <2>. HIDE DEF Calm
    <2>. QED
      BY <1>11, <1>14, <2>1 DEF Refused
  <1>15. Reaches(addr["worker"])
    BY DEF TypesOK, Reaches, Threads
  <1>. QED
    BY <1>12, <1>13, <1>14, <1>15 DEF Send, handlePcpRequest

LEMMA EmptyUnlessWaiting ==
  ASSUME ReadAtOnce, thr["worker"].pc # "recv"
  PROVE  inbox = <<>>
  BY DEF ReadAtOnce

(* A step of the worker that moves only itself and what it tells.          *)
LEMMA WorkerMoves ==
  ASSUME NEW pause, NEW spent, Calm(pause, spent), inbox = <<>>,
         UNCHANGED <<ctx, addr, inbox, flying, server, lost, budget>>,
         thr' \in [Threads -> [pc : Places, wait : Nat, t : Nat]],
         \A th \in {"icmp", "main"} : thr'[th] = thr[th], thr'["worker"].pc # "idle",
         nat' \in [{"worker", "icmp"} -> Mine], kernel' \in Mine, Paced(pause)',
         ctx.block # Zero /\ lease = ctx.block /\ ctx.left = SUCCESS_LIFETIME =>
           InTime(pause, spent)'
  PROVE  Calm(pause, spent)'
  <1>1. UNCHANGED <<ctx, addr, inbox, flying, lost, budget>> /\ UNCHANGED <<srv, lease, life, pass>>
    BY DEF server
  <1>2. TypesOK'
    BY <1>1 DEF Calm, TypesOK, Mine
  <1>3. WorkerOnly' /\ ReadAtOnce'
    BY <1>1 DEF Calm, WorkerOnly, ReadAtOnce
  <1>4. Kept(pause, spent)'
    BY <1>1 DEF Calm, Kept
  <1>. QED
    BY <1>2, <1>3, <1>4 DEF Calm

LEMMA ReceiveTimesOutKeeps ==
  ASSUME NEW pause, NEW spent, Slack(pause, spent), Calm(pause, spent), ReceiveTimesOut("worker")
  PROVE  Calm(pause, spent)'
  <1>. DEFINE w == thr["worker"]
              n == Doubled(w.t)
  <1>1. thr \in [Threads -> [pc : Places, wait : Nat, t : Nat]] /\ "worker" \in Threads
    BY DEF Calm, TypesOK, Threads
  <1>2. /\ w.pc = "recv" /\ inbox = <<>> /\ w.wait = 0
        /\ thr' = [thr EXCEPT !["worker"] = [pc |-> "back", wait |-> n, t |-> n]]
        /\ UNCHANGED <<ctx, addr, nat, kernel, inbox, flying, server, lost, budget>>
    BY DEF ReceiveTimesOut, Doubled
  <1>3. n \in Nat
    <2>1. w.t \in Nat /\ MAX_RETRANSTIME \in Nat
      BY <1>1, Times
    <2>. QED
      BY <2>1 DEF Doubled
  <1>4. lost > 0 /\ w.t = pause[lost - 1] /\ lost \in 0 .. MaxLost /\ MaxLost \in Nat
    BY <1>2, Times DEF Calm, Paced, TypesOK
  <1>5. n = pause[lost] /\ pause[lost] \in Nat /\ Left(spent, lost) \in Nat
    <2>1. lost - 1 \in 0 .. MaxLost /\ lost - 1 < MaxLost /\ lost - 1 + 1 = lost
      BY <1>4
    <2>2. pause[lost - 1 + 1] = Doubled(pause[lost - 1])
      BY <2>1 DEF Slack
    <2>. QED
      BY <1>4, <2>1, <2>2 DEF Slack
  <1>6. /\ thr' \in [Threads -> [pc : Places, wait : Nat, t : Nat]]
        /\ thr'["worker"].pc = "back" /\ thr'["worker"].wait = n /\ thr'["worker"].t = n
        /\ \A th \in {"icmp", "main"} : thr'[th] = thr[th]
    <2>. HIDE DEF n
    <2>. QED
      BY <1>1, <1>2, <1>3 DEF Threads, Places
  <1>7. Paced(pause)'
    BY <1>2, <1>5, <1>6 DEF Paced
  <1>8. ASSUME ctx.block # Zero
        PROVE  InTime(pause, spent)'
    <2>1. End > w.wait + pause[lost] + Left(spent, lost)
      BY <1>2, <1>8 DEF Calm, Kept, InTime
    <2>2. End' = End /\ lost' = lost
      BY <1>2 DEF End, server
    <2>3. End \in Int
      <3>1. ctx.block = lease /\ lease # None
        BY <1>8, Apart DEF Calm, Kept, TypesOK
      <3>. QED
        BY <3>1, EndIs DEF Calm, TypesOK
    <2>4. End' > n + Left(spent, lost)
      BY <1>2, <1>5, <2>1, <2>2, <2>3
    <2>. QED
      BY <1>6, <2>2, <2>4 DEF InTime, Left
  <1>9. nat' \in [{"worker", "icmp"} -> Mine] /\ kernel' \in Mine
    BY <1>2 DEF Calm, TypesOK
  <1>. HIDE DEF n, w
  <1>. QED
    BY <1>2, <1>6, <1>7, <1>8, <1>9, WorkerMoves

(* Without a takeover the server has one address.                          *)
LEMMA SameAddress ==
  ASSUME TypesOK, NEW th \in Threads
  PROVE  [addr EXCEPT ![th] = addr["ctx"]] = addr /\ addr["ctx"] = gwipv6
  BY DEF TypesOK, Threads

LEMMA SendAgainKeeps ==
  ASSUME NEW pause, NEW spent, Slack(pause, spent), Calm(pause, spent), SendAgain("worker")
  PROVE  Calm(pause, spent)'
  <1>. DEFINE w == thr["worker"]
              n == IF w.pc = "asleep" THEN INIT_RETRANSITME ELSE w.t
              r == [pc |-> "send", wait |-> w.wait, t |-> n]
  <1>1. thr \in [Threads -> [pc : Places, wait : Nat, t : Nat]] /\ "worker" \in Threads
    BY DEF Calm, TypesOK, Threads
  <1>2. /\ w.pc \in {"back", "asleep"} /\ w.wait = 0
        /\ UNCHANGED <<ctx, addr, nat, kernel, inbox, flying, server, lost, budget>>
    <2>1. [addr EXCEPT !["worker"] = addr["ctx"]] = addr
      BY SameAddress DEF Calm, Threads
    <2>. QED
      BY <2>1 DEF SendAgain
  <1>3. w \in [pc : Places, wait : Nat, t : Nat] /\ INIT_RETRANSITME \in Nat
    BY <1>1, Times
  <1>4. r \in [pc : Places, wait : Nat, t : Nat]
    BY <1>3 DEF Places
  <1>5. thr' = [thr EXCEPT !["worker"] = r]
    <2>. DEFINE r0 == [w EXCEPT !.pc = "send"]
    <2>1. r0 = [pc |-> "send", wait |-> w.wait, t |-> w.t]
      BY <1>3
    <2>2. [r0 EXCEPT !.t = IF w.pc = "asleep" THEN INIT_RETRANSITME ELSE r0.t] = r
      <3>. HIDE DEF r0, w
      <3>. QED
        BY <2>1
    <2>3. thr' = [thr EXCEPT !["worker"] = [r0 EXCEPT !.t = IF w.pc = "asleep" THEN INIT_RETRANSITME ELSE r0.t]]
      BY <1>1 DEF SendAgain
    <2>. HIDE DEF r0, r, w
    <2>. QED
      BY <2>2, <2>3
  <1>6. /\ thr' \in [Threads -> [pc : Places, wait : Nat, t : Nat]]
        /\ thr'["worker"] = r
        /\ \A th \in {"icmp", "main"} : thr'[th] = thr[th]
    <2>. HIDE DEF r
    <2>. QED
      BY <1>1, <1>4, <1>5 DEF Threads
  <1>7. n = pause[lost]
    BY <1>2 DEF Calm, Paced, Slack
  <1>8. Paced(pause)'
    BY <1>2, <1>6, <1>7 DEF Paced
  <1>9. ASSUME ctx.block # Zero
        PROVE  InTime(pause, spent)'
    <2>1. End > 0 + Left(spent, lost)
      BY <1>2, <1>9 DEF Calm, Kept, InTime, Paced
    <2>2. End' = End /\ lost' = lost
      BY <1>2 DEF End, server
    <2>3. Left(spent, lost) \in Nat
      BY DEF Slack, Calm, TypesOK
    <2>4. End' > Left(spent, lost')
      BY <2>1, <2>2, <2>3
    <2>5. thr'["worker"].pc = "send"
      BY <1>6
    <2>. QED
      BY <2>2, <2>4, <2>5 DEF InTime, Left
  <1>10. nat' \in [{"worker", "icmp"} -> Mine] /\ kernel' \in Mine
    BY <1>2 DEF Calm, TypesOK
  <1>11. inbox = <<>> /\ thr'["worker"].pc # "idle"
    BY <1>2, <1>6, EmptyUnlessWaiting DEF Calm
  <1>. HIDE DEF n, w, r
  <1>. QED
    BY <1>2, <1>6, <1>8, <1>9, <1>10, <1>11, WorkerMoves

(* The worker goes to sleep, in time to renew the lease.                   *)
LEMMA RestKeeps ==
  ASSUME NEW pause, NEW spent, Slack(pause, spent), Calm(pause, spent),
         thr["worker"].pc \in {"done", "bind", "commit"},
         UNCHANGED <<ctx, addr, inbox, flying, server, lost, budget>>,
         nat' \in [{"worker", "icmp"} -> Mine], kernel' \in Mine,
         \/ thr' = Rest("worker")
         \/ \E p \in {"bind", "commit"} : thr' = Goto("worker", p, 0)
  PROVE  Calm(pause, spent)'
  <1>1. inbox = <<>> /\ lost = 0
    BY EmptyUnlessWaiting DEF Calm, Paced
  <1>2. ctx.left \in Nat /\ RenewAfter(ctx.left) \in Nat
    <2>1. ctx.left \in Nat
      BY DEF Calm, TypesOK
    <2>. QED
      BY <2>1 DEF RenewAfter
  <1>3. PICK p \in {"asleep", "bind", "commit"}, n \in Nat :
          /\ thr' = Goto("worker", p, n)
          /\ p = "asleep" => n = RenewAfter(ctx.left)
    BY <1>2 DEF Rest
  <1>4. /\ thr' \in [Threads -> [pc : Places, wait : Nat, t : Nat]]
        /\ thr'["worker"].pc = p /\ thr'["worker"].wait = n
        /\ \A th \in {"icmp", "main"} : thr'[th] = thr[th]
    <2>1. TypesOK /\ p \in Places
      BY <1>3 DEF Calm, Places
    <2>. QED
      BY <1>3, <2>1, GotoIs
  <1>5. Paced(pause)'
    BY <1>1, <1>4 DEF Paced
  <1>6. ASSUME ctx.block # Zero, lease = ctx.block, ctx.left = SUCCESS_LIFETIME
        PROVE  InTime(pause, spent)'
    <2>1. End > 2 * Quarter + Left(spent, 0)
      BY <1>6 DEF Calm, Kept, InTime
    <2>2. End' = End
      BY DEF End, server
    <2>3. p = "asleep" => n = 2 * Quarter
      BY <1>3, <1>6, Times
    <2>. QED
      BY <1>4, <2>1, <2>2, <2>3 DEF InTime, Left
  <1>7. thr'["worker"].pc # "idle"
    BY <1>4
  <1>. QED
    BY <1>1, <1>4, <1>5, <1>6, <1>7, WorkerMoves

LEMMA ReceiveKeeps ==
  ASSUME NEW pause, NEW spent, Slack(pause, spent), Left(spent, 0) <= Quarter,
         Calm(pause, spent), Receive("worker")
  PROVE  Calm(pause, spent)'
  <1>. DEFINE w  == thr["worker"]
              m  == Head(inbox)
              ck == Checked(m)
              p  == IF ck.valid THEN "done" ELSE "send"
              r  == [pc |-> p, wait |-> w.wait, t |-> INIT_RETRANSITME]
              ok == ck.valid /\ m.block # None
  <1>1. thr \in [Threads -> [pc : Places, wait : Nat, t : Nat]] /\ "worker" \in Threads
    BY DEF Calm, TypesOK, Threads
  <1>2. w \in [pc : Places, wait : Nat, t : Nat] /\ INIT_RETRANSITME \in Nat
    BY <1>1, Times
  <1>3. w.pc = "recv" /\ inbox # <<>> /\ UNCHANGED <<addr, nat, kernel, flying, server, lost, budget>>
    <2>1. [addr EXCEPT !["worker"] = addr["ctx"]] = addr
      BY SameAddress DEF Calm, Threads
    <2>. QED
      BY <2>1 DEF Receive
  <1>4. lost = 0 /\ Fresh(m) /\ Tail(inbox) = <<>>
    <2>1. PICK x : inbox = <<x>> /\ Fresh(x) /\ lost = 0
      BY <1>3 DEF Calm, ReadAtOnce
    <2>2. Head(<<x>>) = x /\ Tail(<<x>>) = <<>>
      OBVIOUS
    <2>3. m = x /\ Tail(inbox) = <<>>
      BY <2>1, <2>2, Zenon
    <2>. QED
      BY <2>1, <2>3, Zenon
  <1>5. /\ inbox' = <<>>
        /\ ctx' = [left |-> m.left, block |-> IF ok THEN m.block ELSE ctx.block,
                   pre |-> ck.pre, last |-> ck.last]
    BY <1>4 DEF Receive
  <1>6. thr' = [thr EXCEPT !["worker"] = r]
    <2>. DEFINE r0 == [w EXCEPT !.t = INIT_RETRANSITME]
    <2>1. r0 = [pc |-> w.pc, wait |-> w.wait, t |-> INIT_RETRANSITME]
      BY <1>2
    <2>2. [r0 EXCEPT !.pc = p] = r
      <3>. HIDE DEF r0, w, p
      <3>. QED
        BY <2>1
    <2>3. thr' = [thr EXCEPT !["worker"] = [r0 EXCEPT !.pc = p]]
      BY <1>1 DEF Receive
    <2>. HIDE DEF r0, r, w, p
    <2>. QED
      BY <2>2, <2>3
  <1>7. r \in [pc : Places, wait : Nat, t : Nat] /\ p \in {"done", "send"}
    <2>1. p \in {"done", "send"}
      OBVIOUS
    <2>. HIDE DEF p, w
    <2>. QED
      BY <1>2, <2>1 DEF Places
  <1>8. /\ thr' \in [Threads -> [pc : Places, wait : Nat, t : Nat]]
        /\ thr'["worker"].pc \in {"done", "send"} /\ thr'["worker"].t = INIT_RETRANSITME
        /\ \A th \in {"icmp", "main"} : thr'[th] = thr[th]
    <2>1. thr'["worker"] = r
      BY <1>1, <1>6
    <2>. HIDE DEF p, w
    <2>2. r.pc = p /\ r.t = INIT_RETRANSITME
      OBVIOUS
    <2>. HIDE DEF r
    <2>. QED
      BY <1>1, <1>6, <1>7, <2>1, <2>2 DEF Threads
  <1>9. /\ m.left \in Nat /\ m.age = 0
        /\ m.block = None => lease = None
        /\ m.block # None => m.block = lease /\ life = 4 /\ m.left = SUCCESS_LIFETIME
    BY <1>4 DEF Fresh
  <1>10. UNCHANGED <<lease, life, srv, pass>>
    BY <1>3 DEF server
  <1>11. TypesOK /\ Kept(pause, spent)
    BY DEF Calm
  <1>12. ctx.pre \in Int \cup {None}
    BY <1>11 DEF TypesOK
  <1>13. ck.pre \in Int \cup {None} /\ ck.last \in Int \cup {None}
    BY <1>9, <1>12 DEF Checked
  <1>14. ctx' \in [left : Nat, block : Pool[srv] \cup {Zero}, pre : Int \cup {None}, last : Int \cup {None}]
    <2>1. (IF ok THEN m.block ELSE ctx.block) \in Pool[srv] \cup {Zero}
      <3>1. lease \in Pool[srv] \cup {None} /\ ctx.block \in Pool[srv] \cup {Zero}
        BY <1>11 DEF TypesOK
      <3>. HIDE DEF m, ck
      <3>. QED
        BY <1>9, <3>1
    <2>. HIDE DEF m, ck, ok
    <2>. QED
      BY <1>5, <1>9, <1>13, <2>1
  <1>15. TypesOK'
    BY <1>3, <1>8, <1>10, <1>11, <1>14 DEF TypesOK, Mine
  <1>16. WorkerOnly' /\ ReadAtOnce' /\ Paced(pause)'
    BY <1>3, <1>4, <1>5, <1>8 DEF Calm, WorkerOnly, ReadAtOnce, Paced, Slack
  <1>17. ASSUME ctx'.block # Zero
         PROVE  lease = ctx'.block /\ ctx'.left = SUCCESS_LIFETIME /\ life = 4
    <2>. HIDE DEF m, ck
    <2>1. CASE ok
      BY <1>5, <1>9, <2>1
    <2>2. CASE ~ok
      <3>1. ctx'.block = ctx.block /\ ctx'.left = m.left
        BY <1>5, <2>2
      <3>2. lease = ctx.block /\ lease # None
        BY <1>11, <1>17, <3>1, Apart DEF Kept, TypesOK
      <3>. QED
        BY <1>9, <3>1, <3>2
    <2>. QED
      BY <2>1, <2>2
  <1>18. Kept(pause, spent)'
    <2>. SUFFICES ASSUME ctx'.block # Zero
                  PROVE  lease' = ctx'.block /\ ctx'.left = SUCCESS_LIFETIME /\ InTime(pause, spent)'
      BY DEF Kept
    <2>1. End > 2 * Quarter + Left(spent, 0) /\ End > Left(spent, 0)
      BY <1>11, <1>17, JustGranted
    <2>2. End' = End /\ lost' = 0
      BY <1>3, <1>4, <1>10 DEF End
    <2>. QED
      BY <1>8, <1>10, <1>17, <2>1, <2>2 DEF InTime, Left
  <1>. QED
    BY <1>15, <1>16, <1>18 DEF Calm

-----------------------------------------------------------------------------
LEMMA PassingIs ==
  ASSUME TypesOK, WorkerOnly
  PROVE  /\ Passing \in Nat /\ Passing <= pass
         /\ thr["worker"].wait > 0 => Passing <= thr["worker"].wait
  <1>. DEFINE x == thr["worker"].wait
              A == {flying[i].due : i \in DOMAIN flying}
              B == {thr[th].wait : th \in {y \in Threads : thr[y].wait > 0}}
              S == {Grain, pass} \cup A \cup B
  <1>1. Grain \in Nat /\ pass \in Nat /\ x \in Nat
    BY Times, EndIs DEF TypesOK, Threads
  <1>2. A = {} /\ B = IF x > 0 THEN {x} ELSE {}
    <2>1. DOMAIN flying = {}
      BY DEF TypesOK
    <2>2. {y \in Threads : thr[y].wait > 0} = IF x > 0 THEN {"worker"} ELSE {}
      BY DEF WorkerOnly, Threads
    <2>. QED
      BY <2>1, <2>2
  <1>3. S = {Grain, pass} \cup (IF x > 0 THEN {x} ELSE {})
    BY <1>2
  <1>. HIDE DEF S
  <1>4. \E y \in S : \A z \in S : y <= z
    <2>. HIDE DEF x
    <2>. QED
      BY <1>1, <1>3
  <1>5. Passing = Min(S)
    BY DEF Passing, S
  <1>6. Passing \in S /\ \A z \in S : Passing <= z
    BY <1>4, <1>5 DEF Min
  <1>. HIDE DEF x
  <1>7. Passing \in Nat /\ Passing <= pass /\ (x > 0 => Passing <= x)
    BY <1>1, <1>3, <1>6
  <1>. QED
    BY <1>7 DEF x

(* Time passes: what a wait loses, the lease loses too, and not more.      *)
LEMMA TickKeeps ==
  ASSUME NEW pause, NEW spent, Slack(pause, spent), Calm(pause, spent), Tick
  PROVE  Calm(pause, spent)'
  <1>. DEFINE w == thr["worker"]
              d == Passing
              since(x) == IF x = None THEN None ELSE x + d
  <1>1. TypesOK /\ WorkerOnly /\ ReadAtOnce /\ Paced(pause) /\ Kept(pause, spent)
    BY DEF Calm
  <1>2. thr \in [Threads -> [pc : Places, wait : Nat, t : Nat]] /\ "worker" \in Threads
    BY <1>1 DEF TypesOK, Threads
  <1>3. w \in [pc : Places, wait : Nat, t : Nat]
    BY <1>2
  <1>4. d \in Nat /\ d <= pass /\ (w.wait > 0 => d <= w.wait)
    BY <1>1, PassingIs
  <1>5. Waits("worker") /\ UNCHANGED <<addr, nat, kernel, srv, lost, budget>>
    BY <1>2 DEF Tick
  <1>6. w.wait > 0 /\ w.pc \in {"back", "asleep", "recv"} /\ inbox = <<>>
    BY <1>1, <1>3, <1>5 DEF Waits, WorkerOnly, Places, ReadAtOnce
  <1>7. flying = <<>>
    BY <1>1 DEF TypesOK
  <1>8. inbox' = <<>> /\ flying' = <<>>
    BY <1>6, <1>7 DEF Tick
  <1>9. ctx \in [left : Nat, block : Pool[srv] \cup {Zero}, pre : Int \cup {None}, last : Int \cup {None}]
    BY <1>1 DEF TypesOK
  <1>10. /\ ctx' \in [left : Nat, block : Pool[srv] \cup {Zero}, pre : Int \cup {None}, last : Int \cup {None}]
         /\ ctx'.block = ctx.block /\ ctx'.left = ctx.left
    <2>. DEFINE c0 == [ctx EXCEPT !.pre = since(ctx.pre)]
    <2>1. ctx' = [c0 EXCEPT !.last = since(c0.last)]
      BY DEF Tick
    <2>2. since(ctx.pre) \in Int \cup {None} /\ since(ctx.last) \in Int \cup {None}
      BY <1>4, <1>9
    <2>. HIDE DEF d, since
    <2>3. /\ c0 \in [left : Nat, block : Pool[srv] \cup {Zero}, pre : Int \cup {None}, last : Int \cup {None}]
          /\ c0.block = ctx.block /\ c0.left = ctx.left /\ c0.last = ctx.last
      BY <1>9, <2>2
    <2>. HIDE DEF c0
    <2>. DEFINE l == since(c0.last)
    <2>4. l \in Int \cup {None}
      BY <2>2, <2>3
    <2>. HIDE DEF l
    <2>. QED
      BY <2>1, <2>3, <2>4 DEF l
  <1>11. ASSUME NEW th \in Threads
         PROVE  /\ thr'[th] \in [pc : Places, wait : Nat, t : Nat]
                /\ thr'[th].pc = thr[th].pc /\ thr'[th].t = thr[th].t
                /\ thr'[th].wait = Later(thr[th].wait, d)
    <2>1. thr[th] \in [pc : Places, wait : Nat, t : Nat]
      BY <1>2
    <2>2. Later(thr[th].wait, d) \in Nat
      BY <1>4, <2>1 DEF Later
    <2>3. thr'[th] = [thr[th] EXCEPT !.wait = Later(thr[th].wait, d)]
      BY DEF Tick
    <2>. HIDE DEF d
    <2>. DEFINE n == Later(thr[th].wait, d)
    <2>4. n \in Nat
      BY <2>2
    <2>. HIDE DEF n
    <2>. QED
      BY <2>1, <2>3, <2>4 DEF n
  <1>12. thr' \in [Threads -> [pc : Places, wait : Nat, t : Nat]]
    BY <1>11 DEF Tick
  <1>13. WorkerOnly'
    <2>1. \A th \in {"icmp", "main"} : Later(thr[th].wait, d) = 0
      <3>1. \A th \in {"icmp", "main"} : thr[th].wait = 0
        BY <1>1 DEF WorkerOnly
      <3>. HIDE DEF d
      <3>. QED
        BY <1>4, <3>1 DEF Later
    <2>. HIDE DEF d
    <2>. QED
      BY <1>1, <1>11, <2>1 DEF WorkerOnly, Threads
  <1>14. ReadAtOnce'
    BY <1>8 DEF ReadAtOnce
  <1>15. w.wait \in Nat /\ thr'["worker"].wait = w.wait - d /\ thr'["worker"].pc = w.pc
         /\ thr'["worker"].t = w.t
    <2>1. w.wait \in Nat
      BY <1>3
    <2>2. Later(w.wait, d) = w.wait - d
      <3>. HIDE DEF w, d
      <3>. QED
        BY <1>4, <1>6, <2>1 DEF Later
    <2>. HIDE DEF d
    <2>. QED
      BY <1>2, <1>11, <2>1, <2>2
  <1>16. Paced(pause)'
    BY <1>1, <1>5, <1>6, <1>8, <1>15 DEF Paced
  <1>17. /\ pass' = IF pass = d THEN Quarter ELSE pass - d
         /\ life' = IF pass = d /\ lease # None THEN life - 1 ELSE life
         /\ lease' = IF pass = d /\ life <= 1 THEN None ELSE lease
    BY DEF Tick
  <1>18. /\ pass \in 1 .. Quarter /\ life \in 0 .. 4 /\ (lease # None => life >= 1)
         /\ lease \in Pool[srv] \cup {None} /\ Quarter \in Nat /\ Quarter >= 1
    BY <1>1, Times DEF TypesOK
  <1>19. /\ pass' \in 1 .. Quarter /\ life' \in 0 .. 4 /\ (lease' # None => life' >= 1)
         /\ lease' \in Pool[srv] \cup {None}
    <2>. HIDE DEF d, Quarter
    <2>1. pass' \in 1 .. Quarter
      BY <1>4, <1>17, <1>18
    <2>2. life' \in 0 .. 4 /\ (lease' # None => life' >= 1)
      BY <1>17, <1>18
    <2>. QED
      BY <1>17, <1>18, <2>1, <2>2
  <1>20. TypesOK'
    BY <1>1, <1>5, <1>8, <1>10, <1>12, <1>19 DEF TypesOK, Mine
  <1>21. ASSUME lease # None, End > w.wait
         PROVE  lease' = lease /\ End' = End - d
    <2>1. life >= 1 /\ End = pass + (life - 1) * Quarter /\ End \in Nat
      BY <1>1, <1>18, <1>21, EndIs DEF End
    <2>. DEFINE x == (life - 1) * Quarter
                y == (life - 2) * Quarter
    <2>2. x \in Nat /\ (life >= 2 => y = x - Quarter) /\ (life = 1 => x = 0)
      <3>1. x \in Nat
        BY <1>18, <2>1, Times
      <3>2. life >= 2 => ((life - 1) - 1) * Quarter = (life - 1) * Quarter - Quarter
        BY <1>18, Times
      <3>3. (life - 1) - 1 = life - 2
        BY <1>18
      <3>. QED
        BY <1>18, <3>1, <3>2, <3>3
    <2>3. End' = pass' + (life' - 1) * Quarter
      BY DEF End
    <2>4. CASE pass # d
      <3>1. lease' = lease /\ life' = life /\ pass' = pass - d
        BY <1>17, <2>4
      <3>2. End' = pass' + x
        BY <2>3, <3>1
      <3>. HIDE DEF d, x, Quarter, End
      <3>. QED
        BY <1>4, <1>18, <2>1, <2>2, <3>1, <3>2 DEF x
    <2>5. CASE pass = d
      <3>1. life # 1
        <4>1. life = 1 => End = d
          <5>. HIDE DEF d, x, Quarter, End
          <5>. QED
            BY <1>18, <2>1, <2>2, <2>5 DEF x
        <4>. HIDE DEF d, w, End
        <4>. QED
          BY <1>4, <1>6, <1>15, <1>21, <4>1
      <3>2. life >= 2 /\ lease' = lease /\ life' = life - 1 /\ pass' = Quarter
        <4>. HIDE DEF d
        <4>. QED
          BY <1>17, <1>18, <1>21, <2>1, <2>5, <3>1
      <3>3. (life' - 1) * Quarter = y
        <4>1. life' - 1 = life - 2
          BY <1>18, <3>2
        <4>. QED
          BY <4>1
      <3>. HIDE DEF d, x, y, Quarter, End
      <3>. QED
        BY <1>18, <2>1, <2>2, <2>3, <2>5, <3>2, <3>3 DEF x
    <2>. QED
      BY <2>4, <2>5
  <1>22. Kept(pause, spent)'
    <2>. SUFFICES ASSUME ctx'.block # Zero
                  PROVE  lease' = ctx'.block /\ ctx'.left = SUCCESS_LIFETIME /\ InTime(pause, spent)'
      BY DEF Kept
    <2>1. lease = ctx.block /\ ctx.left = SUCCESS_LIFETIME /\ InTime(pause, spent) /\ lease # None
      BY <1>1, <1>10, Apart DEF Kept, TypesOK
    <2>2. /\ lost \in 0 .. MaxLost /\ pause[lost] \in Nat
          /\ Left(spent, lost) \in Nat /\ Left(spent, 0) \in Nat
      <3>1. lost \in 0 .. MaxLost /\ 0 \in 0 .. MaxLost
        BY <1>1, Times DEF TypesOK
      <3>. QED
        BY <3>1 DEF Slack
    <2>3. End \in Nat
      BY <1>1, <1>18, <2>1, EndIs
    <2>4. /\ w.pc = "asleep" => End > w.wait + Left(spent, 0)
          /\ w.pc = "back" => End > w.wait + Left(spent, lost)
          /\ w.pc = "recv" => End > w.wait + pause[lost] + Left(spent, lost)
      BY <1>6, <2>1 DEF InTime
    <2>. HIDE DEF d, w
    <2>5. End > w.wait
      <3>. HIDE DEF End, Left
      <3>. QED
        BY <1>6, <1>15, <2>2, <2>3, <2>4
    <2>6. lease' = lease /\ End' = End - d
      BY <1>21, <2>1, <2>5
    <2>. DEFINE w2 == thr'["worker"]
                e  == End'
    <2>7. /\ w.pc = "asleep" => e > w2.wait + Left(spent, 0)
          /\ w.pc = "back" => e > w2.wait + Left(spent, lost)
          /\ w.pc = "recv" => e > w2.wait + pause[lost] + Left(spent, lost)
      <3>1. e = End - d /\ w2.wait = w.wait - d
        BY <1>15, <2>6
      <3>. HIDE DEF End, Left, e, w2
      <3>. QED
        BY <1>4, <1>15, <2>2, <2>3, <2>4, <3>1
    <2>8. InTime(pause, spent)'
      BY <1>5, <1>6, <1>15, <2>7 DEF InTime, Left
    <2>. QED
      BY <1>10, <2>1, <2>6, <2>8
  <1>. QED
    BY <1>13, <1>14, <1>16, <1>20, <1>22 DEF Calm

-----------------------------------------------------------------------------
LEMMA InitCalm ==
  ASSUME NEW pause, NEW spent, Slack(pause, spent), Init, budget.late = 0
  PROVE  LeaseInv(pause, spent)
  <1>1. MaxLost \in Nat /\ INIT_RETRANSITME \in Nat
    BY Times
  <1>2. budget \in [losses : Nat, late : {0}, restarts : Nat, refusals : Nat, senderrors : Nat, signals : Nat]
    <2>1. budget \in [losses : Nat, late : Nat, restarts : Nat, refusals : Nat, senderrors : Nat, signals : Nat]
      BY PcpAssumption DEF Init
    <2>. QED
      BY <2>1
  <1>3. pass \in 1 .. Quarter
    BY PcpAssumption DEF Init
  <1>4. /\ thr \in [Threads -> [pc : Places, wait : Nat, t : Nat]]
        /\ thr["worker"].pc = "send" /\ thr["worker"].t = INIT_RETRANSITME
        /\ \A th \in {"icmp", "main"} : thr[th].pc = "idle" /\ thr[th].wait = 0
    BY <1>1 DEF Init, Threads, Places
  <1>5. TypesOK
    BY <1>1, <1>2, <1>3, <1>4 DEF Init, TypesOK, Mine
  <1>6. WorkerOnly /\ ReadAtOnce /\ Paced(pause) /\ Kept(pause, spent)
    BY <1>4 DEF Init, WorkerOnly, ReadAtOnce, Paced, Kept, Slack
  <1>. QED
    BY <1>5, <1>6 DEF LeaseInv, Calm

(* What there was stays; and what is harmless is all there may be.         *)
LEMMA SeenGrows ==
  ASSUME Next
  PROVE  seen \subseteq seen'
  <1>1. ASSUME NEW th \in Threads, Step(th)
        PROVE  seen \subseteq seen'
    BY <1>1 DEF Step, Send, Mismatch, Fails, Receive, ReceiveTimesOut, SendAgain, Bind, Commit
  <1>2. ASSUME NEW th \in Threads, SendFails(th)
        PROVE  seen \subseteq seen'
    BY <1>2 DEF SendFails, Fails
  <1>3. ASSUME NEW s \in DOMAIN Pool, Restart(s)
        PROVE  seen \subseteq seen'
    BY <1>3 DEF Restart
  <1>4. CASE WorkerDone \/ IcmpDone \/ IcmpError
    BY <1>4 DEF WorkerDone, IcmpDone, IcmpError
  <1>5. CASE Signal \/ LateArrives \/ Tick
    BY <1>5 DEF Signal, LateArrives, Tick
  <1>. QED
    BY <1>1, <1>2, <1>3, <1>4, <1>5 DEF Next

LEMMA Harms ==
  ASSUME seen' \subseteq Harmless
  PROVE  /\ \A th \in Threads : ~SendFails(th) /\ ~Mismatch(th)
         /\ \A s \in DOMAIN Pool : ~Restart(s)
         /\ ~Signal
  <1>1. "trouble" \notin seen' /\ "restart" \notin seen' /\ "again" \notin seen'
    BY DEF Harmless
  <1>. QED
    BY <1>1 DEF SendFails, Mismatch, Fails, Restart, Signal

LEMMA StepCalm ==
  ASSUME NEW pause, NEW spent, Slack(pause, spent), Left(spent, 0) <= Quarter,
         LeaseInv(pause, spent), [Next]_vars
  PROVE  LeaseInv(pause, spent)'
  <1>. SUFFICES ASSUME seen' \subseteq Harmless PROVE Calm(pause, spent)'
    BY DEF LeaseInv, Harmless
  <1>1. ASSUME UNCHANGED vars
        PROVE  Calm(pause, spent)'
    <2>1. /\ UNCHANGED <<thr, ctx, addr, nat, kernel, inbox, flying, srv, lease, life, pass, lost, budget>>
          /\ seen \subseteq Harmless
      BY <1>1 DEF vars, client, server
    <2>. QED
      BY <2>1 DEF LeaseInv, Calm, TypesOK, Mine, WorkerOnly, ReadAtOnce, Fresh, Paced, Kept,
                  InTime, Left, End
  <1>2. ASSUME NEW th \in Threads, SendFails(th)
        PROVE  FALSE
    BY <1>2, Harms
  <1>3. ASSUME NEW s \in DOMAIN Pool, Restart(s)
        PROVE  FALSE
    BY <1>3, Harms
  <1>4. ASSUME Signal
        PROVE  FALSE
    BY <1>4, Harms
  <1>5. ASSUME Next
        PROVE  seen \subseteq Harmless
    BY <1>5, SeenGrows
  <1>. SUFFICES ASSUME Next, Calm(pause, spent) PROVE Calm(pause, spent)'
    BY <1>1, <1>5 DEF LeaseInv
  <1>6. WorkerOnly /\ TypesOK
    BY DEF Calm
  <1>7. ASSUME NEW th \in Threads, Step(th)
        PROVE  Calm(pause, spent)'
    <2>1. th = "worker"
      BY <1>6, <1>7 DEF WorkerOnly, Threads, Step, Send, Mismatch, Receive, ReceiveTimesOut,
                        SendAgain, Bind, Commit
    <2>2. CASE Send("worker")
      BY <2>2, SendKeeps
    <2>3. CASE Receive("worker")
      BY <2>3, ReceiveKeeps
    <2>4. CASE ReceiveTimesOut("worker")
      BY <2>4, ReceiveTimesOutKeeps
    <2>5. CASE SendAgain("worker")
      BY <2>5, SendAgainKeeps
    <2>6. CASE Bind("worker")
      <3>1. nat' \in [{"worker", "icmp"} -> Mine] /\ kernel' \in Mine
        BY <1>6, <2>6 DEF TypesOK, Bind
      <3>. QED
        BY <2>6, <3>1, RestKeeps DEF Bind
    <2>7. CASE Commit("worker")
      <3>1. nat' \in [{"worker", "icmp"} -> Mine] /\ kernel' \in Mine
        BY <1>6, <2>7 DEF TypesOK, Commit
      <3>. QED
        BY <2>7, <3>1, RestKeeps DEF Commit
    <2>. QED
      BY <1>7, <2>1, <2>2, <2>3, <2>4, <2>5, <2>6, <2>7, Harms DEF Step
  <1>8. CASE WorkerDone
    <2>1. nat' \in [{"worker", "icmp"} -> Mine] /\ kernel' \in Mine
      BY <1>6, <1>8 DEF TypesOK, WorkerDone, Mine
    <2>. QED
      BY <1>8, <2>1, RestKeeps DEF WorkerDone
  <1>9. ~IcmpDone
    BY <1>6 DEF WorkerOnly, IcmpDone
  <1>10. ~IcmpError
    BY <1>6, Apart DEF TypesOK, Mine, IcmpError, Unknown
  <1>11. ~LateArrives
    BY <1>6 DEF TypesOK, LateArrives, Due
  <1>12. CASE Tick
    BY <1>12, TickKeeps
  <1>. QED
    BY <1>2, <1>3, <1>4, <1>7, <1>8, <1>9, <1>10, <1>11, <1>12 DEF Next

(* Renewing after half a lifetime (PCPWorkThread), with the timeouts and   *)
(* doubled pauses of PCPRequestHandle, is soon enough: if the attempts that*)
(* may fail in a row take at most a quarter of a lifetime, a client that   *)
(* was given a block keeps its tunnel, whatever is lost, whatever the      *)
(* phase of the server's timer, and for any times and pools.  (Answers come*)
(* in time or never.)                                                      *)
THEOREM LeaseOutlivesLosses ==
  ASSUME NEW pause, NEW spent, Schedule(pause, spent), spent[MaxLost] <= Quarter
  PROVE  Spec /\ budget.late = 0 => []LeaseSurvives
  <1>1. Slack(pause, spent) /\ Left(spent, 0) <= Quarter
    BY SlackIs
  <1>2. Init /\ budget.late = 0 => LeaseInv(pause, spent)
    BY <1>1, InitCalm
  <1>3. LeaseInv(pause, spent) /\ [Next]_vars => LeaseInv(pause, spent)'
    BY <1>1, StepCalm
  <1>4. LeaseInv(pause, spent) => LeaseSurvives
    BY DEF LeaseInv, Calm, Kept, LeaseSurvives, Harmless
  <1>. QED
    BY <1>2, <1>3, <1>4, PTL DEF Spec

(* With the times of the code (RCV_TIMEOUT and the two for the pauses of   *)
(* the gateway's PCP client, SUCCESS_LIFETIME of the daemon) two exchanges *)
(* in a row may be lost: they take 18 of the 30 seconds there are.         *)
THEOREM TwoLossesAreHarmless ==
  ASSUME RCV_TIMEOUT = 3, INIT_RETRANSITME = 2, MAX_RETRANSTIME = 512,
         SUCCESS_LIFETIME = 120, MaxLost = 2
  PROVE  Spec /\ budget.late = 0 => []LeaseSurvives
  <1>. DEFINE pause == [k \in 0 .. 2 |-> IF k = 0 THEN 2 ELSE IF k = 1 THEN 4 ELSE 8]
              spent == [k \in 0 .. 2 |-> IF k = 0 THEN 0 ELSE IF k = 1 THEN 7 ELSE 18]
  <1>1. Schedule(pause, spent)
    <2>1. pause \in [0 .. MaxLost -> Nat] /\ spent \in [0 .. MaxLost -> Nat]
      OBVIOUS
    <2>2. /\ pause[0] = 2 /\ pause[1] = 4 /\ pause[2] = 8
          /\ spent[0] = 0 /\ spent[1] = 7 /\ spent[2] = 18
      OBVIOUS
    <2>. HIDE DEF pause, spent
    <2>3. \A k \in 0 .. MaxLost - 1 : k = 0 \/ k = 1
      OBVIOUS
    <2>. QED
      BY <2>1, <2>2, <2>3 DEF Schedule, Doubled
  <1>2. spent[MaxLost] <= Quarter
    BY DEF Quarter
  <1>. HIDE DEF pause, spent
  <1>. QED
    BY <1>1, <1>2, LeaseOutlivesLosses
=============================================================================

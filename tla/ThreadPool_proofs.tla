-------------------------- MODULE ThreadPool_proofs --------------------------
(***************************************************************************)
(* Proofs about the thread pool: the counts under the mutex are what they  *)
(* are taken for, no wakeup is lost as long as no wait has timed out and no *)
(* creation has failed, and the pool is freed by whoever sees it empty.    *)
(***************************************************************************)
EXTENDS ThreadPool, FiniteSetTheorems, SequenceTheorems, TLAPS

Places == {"none", "start", "waiting", "woken", "timedout", "handling", "leaving"}
Asleep == {"waiting", "woken", "timedout"}

(* The workers there are, and those in the wait, if the workers are at wk. *)
AliveAt(wk)  == {w \in Threads : wk[w] # "none"}
AsleepAt(wk) == {w \in Threads : wk[w] \in Asleep}

(* A worker that handles has a job.                                        *)
Busy == \A w \in Threads : worker[w] = "handling" => job[w] # 0

(* Without a mishap nobody has timed out, and nobody leaves a valid pool.  *)
NobodyGone ==
  mishap \/ \A w \in Threads : /\ worker[w] # "timedout"
                               /\ state = "valid" => worker[w] # "leaving"

PoolInv == TypeOK /\ Busy /\ CountsAgree /\ FreedLast /\ NobodyGone /\ NoLostWakeup

-----------------------------------------------------------------------------
LEMMA Counted ==
  CountsAgree <=> /\ thr_alive = Cardinality(AliveAt(worker))
                  /\ thr_idle = Cardinality(AsleepAt(worker))
                  /\ thr_alive <= thr_max
  BY DEF CountsAgree, InWait, AliveAt, AsleepAt, Asleep

LEMMA SetsFinite ==
  ASSUME NEW wk
  PROVE  /\ IsFiniteSet(AliveAt(wk)) /\ Cardinality(AliveAt(wk)) \in Nat
         /\ IsFiniteSet(AsleepAt(wk)) /\ Cardinality(AsleepAt(wk)) \in Nat
  BY ThreadPoolAssumption, FS_Subset, FS_CardinalityType DEF AliveAt, AsleepAt

(* One worker moves to l: what becomes of the two counts.                  *)
LEMMA OneMoves ==
  ASSUME NEW wk \in [Threads -> Places], NEW w \in Threads, NEW l \in Places
  PROVE  LET new == [wk EXCEPT ![w] = l]
             a   == Cardinality(AliveAt(wk))
             s   == Cardinality(AsleepAt(wk))
         IN  /\ Cardinality(AliveAt(new)) =
                  IF wk[w] = "none" /\ l # "none" THEN a + 1
                  ELSE IF wk[w] # "none" /\ l = "none" THEN a - 1 ELSE a
             /\ Cardinality(AsleepAt(new)) =
                  IF wk[w] \notin Asleep /\ l \in Asleep THEN s + 1
                  ELSE IF wk[w] \in Asleep /\ l \notin Asleep THEN s - 1 ELSE s
             /\ wk[w] # "none" => a > 0
             /\ wk[w] \in Asleep => s > 0
  <1> DEFINE new == [wk EXCEPT ![w] = l]
             A   == AliveAt(wk)
             S   == AsleepAt(wk)
  <1>1. IsFiniteSet(A) /\ IsFiniteSet(S) /\ Cardinality(A) \in Nat /\ Cardinality(S) \in Nat
    BY SetsFinite
  <1>2. AliveAt(new) = IF l = "none" THEN A \ {w} ELSE A \cup {w}
    BY DEF AliveAt
  <1>3. AsleepAt(new) = IF l \in Asleep THEN S \cup {w} ELSE S \ {w}
    BY DEF AsleepAt
  <1>4. (w \in A <=> wk[w] # "none") /\ (w \in S <=> wk[w] \in Asleep)
    BY DEF AliveAt, AsleepAt
  <1>5. /\ Cardinality(A \cup {w}) = IF w \in A THEN Cardinality(A) ELSE Cardinality(A) + 1
        /\ Cardinality(A \ {w}) = IF w \in A THEN Cardinality(A) - 1 ELSE Cardinality(A)
    BY <1>1, FS_AddElement, FS_RemoveElement
  <1>6. /\ Cardinality(S \cup {w}) = IF w \in S THEN Cardinality(S) ELSE Cardinality(S) + 1
        /\ Cardinality(S \ {w}) = IF w \in S THEN Cardinality(S) - 1 ELSE Cardinality(S)
    BY <1>1, FS_AddElement, FS_RemoveElement
  <1>7. (w \in A => Cardinality(A) > 0) /\ (w \in S => Cardinality(S) > 0)
    <2>1. (Cardinality(A) = 0 <=> A = {}) /\ (Cardinality(S) = 0 <=> S = {})
      BY <1>1, FS_EmptySet
    <2>. QED
      BY <1>1, <2>1
  <1>. HIDE DEF A, S, new
  <1>8. QED
    BY <1>2, <1>3, <1>4, <1>5, <1>6, <1>7 DEF A, S, new

(* A broadcast: sleepers stay sleepers, who is there stays there.          *)
LEMMA AllWoken ==
  ASSUME NEW wk \in [Threads -> Places]
  PROVE  LET new == [w \in Threads |-> IF wk[w] = "waiting" THEN "woken" ELSE wk[w]]
         IN  AliveAt(new) = AliveAt(wk) /\ AsleepAt(new) = AsleepAt(wk)
  BY DEF AliveAt, AsleepAt, Asleep

(* The counts tell whether there is anybody.                               *)
LEMMA NobodyThere ==
  ASSUME NEW wk, Cardinality(AliveAt(wk)) = 0
  PROVE  \A w \in Threads : wk[w] = "none"
  <1>1. AliveAt(wk) = {}
    BY SetsFinite, FS_EmptySet
  <1>. QED
    BY <1>1 DEF AliveAt

LEMMA SomebodyThere ==
  ASSUME NEW wk
  PROVE  /\ Cardinality(AliveAt(wk)) > 0 => \E w \in Threads : wk[w] # "none"
         /\ Cardinality(AsleepAt(wk)) > 0 => \E w \in Threads : wk[w] \in Asleep
         /\ Cardinality(AliveAt(wk)) # Cardinality(AsleepAt(wk))
              => \E w \in Threads : wk[w] # "none" /\ wk[w] \notin Asleep
  <1>1. /\ AliveAt(wk) # AsleepAt(wk)
             => \E w \in Threads : wk[w] # "none" /\ wk[w] \notin Asleep
        /\ AliveAt(wk) # {} => \E w \in Threads : wk[w] # "none"
        /\ AsleepAt(wk) # {} => \E w \in Threads : wk[w] \in Asleep
    BY DEF AliveAt, AsleepAt, Asleep
  <1>2. Cardinality({}) = 0
    BY FS_EmptySet
  <1>. QED
    BY <1>1, <1>2

-----------------------------------------------------------------------------
(* The initial pool has no job and no worker.                              *)
LEMMA InitPool ==
  ASSUME Init
  PROVE  PoolInv
  <1>1. AliveAt(worker) = {} /\ AsleepAt(worker) = {}
    BY DEF Init, AliveAt, AsleepAt, Asleep
  <1>2. Cardinality({}) = 0
    BY FS_EmptySet
  <1>3. CountsAgree
    <2>1. thr_alive = 0 /\ thr_idle = 0 /\ 0 <= thr_max
      BY ThreadPoolAssumption DEF Init
    <2>. QED
      BY <1>1, <1>2, <2>1, Counted
  <1>4. TypeOK
    <2>1. <<>> \in Seq(1 .. MaxJobs)
      OBVIOUS
    <2>2. 0 \in 0 .. MaxJobs
      BY ThreadPoolAssumption
    <2>. QED
      BY <2>1, <2>2 DEF Init, TypeOK
  <1>. QED
    BY <1>3, <1>4
       DEF Init, PoolInv, Busy, FreedLast, At, NobodyGone, NoLostWakeup, JobHasWorker

(* What a signal does to the workers, if started are the new ones.         *)
LEMMA Signalled ==
  ASSUME TypeOK, CountsAgree, NEW started \in SUBSET At("none"), Signal(started)
  PROVE  /\ worker' \in [Threads -> Places]
         /\ \A w \in started : worker'[w] = "start"
         /\ \A w \in Threads \ started :
              \/ worker'[w] = worker[w]
              \/ worker[w] = "waiting" /\ worker'[w] = "woken"
         /\ (Waiting = {} \/ \E w \in Threads : worker'[w] = "woken")
         /\ AliveAt(worker') = AliveAt(worker) \cup started
         /\ AsleepAt(worker') = AsleepAt(worker)
  <1>1. worker \in [Threads -> Places]
    BY DEF TypeOK, Places
  <1>2. /\ worker' \in [Threads -> Places]
        /\ \A w \in started : worker'[w] = "start"
        /\ \A w \in Threads \ started :
              \/ worker'[w] = worker[w]
              \/ worker[w] = "waiting" /\ worker'[w] = "woken"
        /\ (Waiting = {} \/ \E w \in Threads : worker'[w] = "woken")
    BY <1>1 DEF Signal, Waiting, At, Places
  <1>3. started \in SUBSET Threads /\ \A w \in started : worker[w] = "none"
    BY DEF At
  <1>. QED
    BY <1>2, <1>3 DEF AliveAt, AsleepAt, Asleep

(* A dispatch: the job it adds has a worker, or there was a mishap.        *)
LEMMA DispatchStep ==
  ASSUME PoolInv, thrmgr_dispatch
  PROVE  PoolInv'
  <1>. USE DEF thrmgr_dispatch
  <1>0. TypeOK /\ Busy /\ CountsAgree /\ FreedLast /\ NobodyGone
    BY DEF PoolInv
  <1>1. PICK started \in SUBSET At("none") :
          /\ Signal(started)
          /\ \/ /\ thr_idle = 0 /\ thr_alive < thr_max
                /\ \E w \in At("none") : started = {w}
                /\ thr_alive' = thr_alive + 1 /\ mishap' = mishap
             \/ /\ thr_idle > 0 \/ thr_alive >= thr_max
                /\ started = {} /\ thr_alive' = thr_alive /\ mishap' = mishap
             \/ mishap' = TRUE /\ started = {} /\ thr_alive' = thr_alive
    OBVIOUS
  <1>2. /\ worker' \in [Threads -> Places]
        /\ \A w \in started : worker'[w] = "start"
        /\ \A w \in Threads \ started :
             \/ worker'[w] = worker[w]
             \/ worker[w] = "waiting" /\ worker'[w] = "woken"
        /\ (Waiting = {} \/ \E w \in Threads : worker'[w] = "woken")
        /\ AliveAt(worker') = AliveAt(worker) \cup started
        /\ AsleepAt(worker') = AsleepAt(worker)
    BY <1>0, <1>1, Signalled
  <1>3. TypeOK'
    <2>1. jobs + 1 \in 1 .. MaxJobs
      BY <1>0, ThreadPoolAssumption DEF TypeOK
    <2>2. queue' \in Seq(1 .. MaxJobs)
      BY <1>0, <2>1 DEF TypeOK, work_queue_add
    <2>3. thr_alive' \in Nat
      BY <1>0, <1>1 DEF TypeOK
    <2>5. mishap' \in BOOLEAN
      BY <1>0 DEF TypeOK
    <2>4. jobs' \in 0 .. MaxJobs
      BY <2>1, ThreadPoolAssumption
    <2>. QED
      BY <1>0, <1>2, <2>2, <2>3, <2>4, <2>5 DEF TypeOK, Places
  <1>4. CountsAgree'
    <2>1. /\ thr_alive = Cardinality(AliveAt(worker))
          /\ thr_idle = Cardinality(AsleepAt(worker))
          /\ thr_alive <= thr_max /\ thr_alive \in Nat /\ thr_max \in Nat
      BY <1>0, Counted, ThreadPoolAssumption DEF TypeOK
    <2>2. \A w \in At("none") : w \notin AliveAt(worker)
      BY DEF At, AliveAt
    <2>3. \A w : w \notin AliveAt(worker)
            => Cardinality(AliveAt(worker) \cup {w}) = Cardinality(AliveAt(worker)) + 1
      BY SetsFinite, FS_AddElement
    <2>4. Cardinality(AliveAt(worker) \cup started) = thr_alive' /\ thr_alive' <= thr_max
      BY <1>1, <2>1, <2>2, <2>3
    <2>. QED
      BY <1>2, <2>1, <2>4 DEF CountsAgree, InWait, AliveAt, AsleepAt, Asleep
  <1>5. Busy'
    BY <1>0, <1>2 DEF Busy
  <1>6. FreedLast'
    BY DEF FreedLast
  <1>7. NobodyGone'
    BY <1>0, <1>1, <1>2 DEF NobodyGone
  <1>8. NoLostWakeup'
    <2>. SUFFICES ASSUME ~mishap' PROVE \E w \in Threads : worker'[w] \in {"start", "woken", "handling"}
      BY DEF NoLostWakeup, JobHasWorker
    <2>1. CASE started # {}
      BY <1>2, <2>1 DEF At
    <2>2. CASE Waiting # {}
      BY <1>2, <2>2
    <2>3. CASE started = {} /\ Waiting = {}
      <3>1. worker' = worker
        BY <1>0, <1>2, <2>3 DEF TypeOK, Waiting, At, Places
      <3>2. (thr_idle > 0 \/ thr_alive >= thr_max) /\ ~mishap
        BY <1>1, <2>3
      <3>3. \A w \in Threads : worker[w] \notin {"timedout", "leaving", "waiting"}
        BY <1>0, <2>3, <3>2 DEF NobodyGone, Waiting, At
      <3>4. \E w \in Threads : worker[w] # "none"
        <4>1. thr_alive > 0 \/ thr_idle > 0
          BY <1>0, <3>2, ThreadPoolAssumption DEF TypeOK
        <4>. QED
          BY <1>0, <4>1, Counted, SomebodyThere DEF Asleep
      <3>. QED
        BY <1>0, <3>1, <3>3, <3>4 DEF TypeOK
    <2>. QED
      BY <2>1, <2>2, <2>3
  <1>. QED
    BY <1>3, <1>4, <1>5, <1>6, <1>7, <1>8 DEF PoolInv

(* A worker that exists moves to l, and the counts are kept as the code    *)
(* keeps them.                                                             *)
LEMMA MoveCounts ==
  ASSUME TypeOK, CountsAgree, NEW w \in Threads, NEW l \in Places,
         worker[w] # "none", worker' = [worker EXCEPT ![w] = l],
         thr_alive' = (IF l = "none" THEN thr_alive - 1 ELSE thr_alive),
         thr_idle' = (IF worker[w] \notin Asleep /\ l \in Asleep THEN thr_idle + 1
                      ELSE IF worker[w] \in Asleep /\ l \notin Asleep
                      THEN thr_idle - 1 ELSE thr_idle)
  PROVE  CountsAgree' /\ thr_alive' \in Nat /\ thr_idle' \in Nat
  <1>1. worker \in [Threads -> Places]
    BY DEF TypeOK, Places
  <1>2. /\ thr_alive = Cardinality(AliveAt(worker))
        /\ thr_idle = Cardinality(AsleepAt(worker))
        /\ thr_alive <= thr_max /\ thr_alive \in Nat /\ thr_idle \in Nat /\ thr_max \in Nat
    BY Counted, ThreadPoolAssumption DEF TypeOK
  <1>3. /\ thr_alive' = Cardinality(AliveAt([worker EXCEPT ![w] = l]))
        /\ thr_idle' = Cardinality(AsleepAt([worker EXCEPT ![w] = l]))
        /\ thr_alive > 0 /\ (worker[w] \in Asleep => thr_idle > 0)
    BY <1>1, <1>2, OneMoves
  <1>4. thr_alive' \in Nat /\ thr_idle' \in Nat /\ thr_alive' <= thr_max
    BY <1>2, <1>3
  <1>. QED
    BY <1>3, <1>4 DEF CountsAgree, InWait, AliveAt, AsleepAt, Asleep

(* A worker that finds a job takes it and looks at the queue again when it *)
(* is done: it is the worker of the jobs that remain.                      *)
LEMMA TakeStep ==
  ASSUME PoolInv, NEW w \in Threads, worker[w] \in {"start", "woken"}, TakeJob(w),
         thr_idle' = (IF worker[w] = "woken" THEN thr_idle - 1 ELSE thr_idle),
         UNCHANGED <<state, thr_alive, owner, jobs, served, mishap>>
  PROVE  PoolInv'
  <1>. USE DEF TakeJob
  <1>0. TypeOK /\ Busy /\ CountsAgree /\ FreedLast /\ NobodyGone
    BY DEF PoolInv
  <1>1. CountsAgree' /\ thr_alive' \in Nat /\ thr_idle' \in Nat
    BY <1>0, MoveCounts DEF Places, Asleep
  <1>2. Head(queue) \in 1 .. MaxJobs /\ Tail(queue) \in Seq(1 .. MaxJobs)
    <2>1. queue \in Seq(1 .. MaxJobs) /\ queue # <<>>
      BY <1>0 DEF TypeOK
    <2>. QED
      BY <2>1, HeadTailProperties
  <1>3. job'[w] # 0 /\ job' \in [Threads -> 0 .. MaxJobs]
    BY <1>0, <1>2, ThreadPoolAssumption DEF TypeOK
  <1>4. TypeOK'
    BY <1>0, <1>1, <1>2, <1>3 DEF TypeOK
  <1>5. Busy'
    BY <1>0, <1>3 DEF Busy, TypeOK
  <1>6. FreedLast' /\ NobodyGone' /\ NoLostWakeup'
    BY <1>0 DEF FreedLast, At, NobodyGone, NoLostWakeup, JobHasWorker, TypeOK
  <1>. QED
    BY <1>1, <1>4, <1>5, <1>6 DEF PoolInv

(* A worker that finds no job leaves or waits: no job is left behind.      *)
LEMMA EmptyStep ==
  ASSUME PoolInv, NEW w \in Threads, worker[w] \in {"start", "woken"}, queue = <<>>,
         NEW l \in {"leaving", "waiting"}, l = "leaving" => state = "exit",
         worker' = [worker EXCEPT ![w] = l],
         thr_idle' = (IF worker[w] = "woken" /\ l = "leaving" THEN thr_idle - 1
                      ELSE IF worker[w] = "start" /\ l = "waiting" THEN thr_idle + 1
                      ELSE thr_idle),
         UNCHANGED <<state, queue, thr_alive, job, owner, jobs, served, mishap>>
  PROVE  PoolInv'
  <1>0. TypeOK /\ Busy /\ CountsAgree /\ FreedLast /\ NobodyGone
    BY DEF PoolInv
  <1>1. CountsAgree' /\ thr_alive' \in Nat /\ thr_idle' \in Nat
    BY <1>0, MoveCounts DEF Places, Asleep
  <1>2. TypeOK'
    BY <1>0, <1>1 DEF TypeOK
  <1>3. Busy' /\ FreedLast' /\ NobodyGone' /\ NoLostWakeup'
    BY <1>0 DEF Busy, FreedLast, At, NobodyGone, NoLostWakeup, JobHasWorker, TypeOK
  <1>. QED
    BY <1>1, <1>2, <1>3 DEF PoolInv

(* What a worker does, one step for each action.                           *)
LEMMA WorkerStep ==
  ASSUME PoolInv, NEW w \in Threads, Work(w) \/ Spurious(w) \/ Expire(w)
  PROVE  PoolInv'
  <1>0. TypeOK /\ Busy /\ CountsAgree /\ FreedLast /\ NobodyGone /\ NoLostWakeup
    BY DEF PoolInv
  <1>1. CASE Look(w)
    <2>1. CASE TakeJob(w)
      BY <1>1, <2>1, TakeStep DEF Look, Sleep, TakeJob
    <2>2. CASE MustExit(w)
      BY <1>1, <2>2, EmptyStep DEF Look, MustExit, Sleep
    <2>3. CASE Sleep(w)
      BY <1>1, <2>3, EmptyStep DEF Look, Sleep, TakeJob, MustExit
    <2>. QED
      BY <1>1, <2>1, <2>2, <2>3 DEF Look
  <1>2. CASE LookAgain(w)
    <2>1. CASE TakeJob(w)
      BY <1>2, <2>1, TakeStep DEF LookAgain, Sleep, TakeJob
    <2>2. CASE MustExit(w)
      BY <1>2, <2>2, EmptyStep DEF LookAgain, MustExit, Sleep
    <2>3. CASE Sleep(w)
      BY <1>2, <2>3, EmptyStep DEF LookAgain, Sleep, TakeJob, MustExit
    <2>. QED
      BY <1>2, <2>1, <2>2, <2>3 DEF LookAgain
  <1>3. CASE GiveUp(w)
    <2>1. CountsAgree' /\ thr_alive' \in Nat /\ thr_idle' \in Nat
      BY <1>0, <1>3, MoveCounts DEF GiveUp, Places, Asleep
    <2>2. TypeOK'
      BY <1>0, <1>3, <2>1 DEF TypeOK, GiveUp
    <2>3. Busy' /\ FreedLast' /\ NobodyGone' /\ NoLostWakeup'
      BY <1>0, <1>3
         DEF Busy, FreedLast, At, NobodyGone, NoLostWakeup, TypeOK, GiveUp
    <2>. QED
      BY <2>1, <2>2, <2>3 DEF PoolInv
  <1>4. CASE Handled(w)
    <2>1. CountsAgree' /\ thr_alive' \in Nat /\ thr_idle' \in Nat
      BY <1>0, <1>4, MoveCounts DEF Handled, Places, Asleep
    <2>2. served' \in SUBSET (1 .. MaxJobs) /\ job' \in [Threads -> 0 .. MaxJobs]
      <3>1. job[w] \in 0 .. MaxJobs /\ job[w] # 0
        BY <1>0, <1>4 DEF TypeOK, Handled, Busy
      <3>2. job[w] \in 1 .. MaxJobs /\ 0 \in 0 .. MaxJobs
        BY <3>1, ThreadPoolAssumption
      <3>. QED
        BY <1>0, <1>4, <3>2 DEF TypeOK, Handled
    <2>3. TypeOK'
      BY <1>0, <1>4, <2>1, <2>2 DEF TypeOK, Handled
    <2>4. Busy' /\ FreedLast' /\ NobodyGone' /\ NoLostWakeup'
      BY <1>0, <1>4
         DEF Busy, FreedLast, At, NobodyGone, NoLostWakeup, JobHasWorker, TypeOK, Handled
    <2>. QED
      BY <2>1, <2>3, <2>4 DEF PoolInv
  <1>5. CASE Leave(w)
    <2>1. CountsAgree' /\ thr_alive' \in Nat /\ thr_idle' \in Nat
      BY <1>0, <1>5, MoveCounts DEF Leave, Places, Asleep
    <2>2. TypeOK'
      BY <1>0, <1>5, <2>1 DEF TypeOK, Leave
    <2>3. Busy' /\ FreedLast' /\ NobodyGone' /\ NoLostWakeup'
      BY <1>0, <1>5
         DEF Busy, FreedLast, At, NobodyGone, NoLostWakeup, JobHasWorker, TypeOK, Leave
    <2>. QED
      BY <2>1, <2>2, <2>3 DEF PoolInv
  <1>6. CASE Spurious(w)
    <2>1. CountsAgree' /\ thr_alive' \in Nat /\ thr_idle' \in Nat
      BY <1>0, <1>6, MoveCounts DEF Spurious, Places, Asleep
    <2>2. TypeOK'
      BY <1>0, <1>6, <2>1 DEF TypeOK, Spurious
    <2>3. Busy' /\ FreedLast' /\ NobodyGone' /\ NoLostWakeup'
      BY <1>0, <1>6
         DEF Busy, FreedLast, At, NobodyGone, NoLostWakeup, JobHasWorker, TypeOK, Spurious
    <2>. QED
      BY <2>1, <2>2, <2>3 DEF PoolInv
  <1>7. CASE Expire(w)
    <2>1. CountsAgree' /\ thr_alive' \in Nat /\ thr_idle' \in Nat
      BY <1>0, <1>7, MoveCounts DEF Expire, Places, Asleep
    <2>2. TypeOK'
      BY <1>0, <1>7, <2>1 DEF TypeOK, Expire
    <2>3. Busy' /\ FreedLast' /\ NobodyGone' /\ NoLostWakeup'
      BY <1>0, <1>7 DEF Busy, FreedLast, At, NobodyGone, NoLostWakeup, TypeOK, Expire
    <2>. QED
      BY <2>1, <2>2, <2>3 DEF PoolInv
  <1>. QED
    BY <1>1, <1>2, <1>3, <1>4, <1>5, <1>6, <1>7 DEF Work

(* The owner's steps: the broadcast, and the pool freed once nobody is     *)
(* left.                                                                   *)
LEMMA OwnerStep ==
  ASSUME PoolInv, Destroy \/ DestroyAgain \/ SpuriousOwner
  PROVE  PoolInv'
  <1>0. TypeOK /\ Busy /\ CountsAgree /\ FreedLast /\ NobodyGone /\ NoLostWakeup
    BY DEF PoolInv
  <1>1. thr_alive = 0 => \A w \in Threads : worker[w] = "none"
    BY <1>0, Counted, NobodyThere
  <1>2. thr_alive \in Nat
    BY <1>0 DEF TypeOK
  <1>3. CASE Destroy
    <2>1. /\ worker \in [Threads -> Places]
          /\ worker' = [w \in Threads |-> IF worker[w] = "waiting" THEN "woken" ELSE worker[w]]
      BY <1>0, <1>3 DEF Destroy, Waiting, At, TypeOK, Places
    <2>2. CountsAgree'
      <3>1. AliveAt(worker') = AliveAt(worker) /\ AsleepAt(worker') = AsleepAt(worker)
        BY <2>1, AllWoken
      <3>. QED
        BY <1>0, <1>3, <3>1 DEF Destroy, CountsAgree, InWait, AliveAt, AsleepAt, Asleep
    <2>3. TypeOK'
      BY <1>0, <1>3, <2>1 DEF Destroy, TypeOK, Places
    <2>4. Busy' /\ NobodyGone' /\ NoLostWakeup'
      BY <1>0, <1>3, <2>1 DEF Destroy, Busy, NobodyGone, NoLostWakeup, JobHasWorker
    <2>5. FreedLast'
      BY <1>0, <1>1, <1>2, <1>3, <2>1 DEF Destroy, FreedLast, At
    <2>. QED
      BY <2>2, <2>3, <2>4, <2>5 DEF PoolInv
  <1>4. CASE DestroyAgain
    <2>1. TypeOK'
      BY <1>0, <1>4 DEF DestroyAgain, TypeOK
    <2>2. CountsAgree' /\ Busy' /\ NoLostWakeup'
      BY <1>0, <1>4
         DEF DestroyAgain, CountsAgree, InWait, Busy, NoLostWakeup, JobHasWorker
    <2>3. FreedLast' /\ NobodyGone'
      BY <1>0, <1>1, <1>2, <1>4 DEF DestroyAgain, FreedLast, At, NobodyGone
    <2>. QED
      BY <2>1, <2>2, <2>3 DEF PoolInv
  <1>5. CASE SpuriousOwner
    BY <1>0, <1>5
       DEF SpuriousOwner, PoolInv, TypeOK, CountsAgree, InWait, Busy, FreedLast, At,
           NobodyGone, NoLostWakeup, JobHasWorker
  <1>. QED
    BY <1>3, <1>4, <1>5

-----------------------------------------------------------------------------
(* What every state of the pool satisfies: the strengthening the theorems  *)
(* below rest on.                                                          *)
THEOREM PoolInvariant == Spec => []PoolInv
  <1>1. Init => PoolInv
    BY InitPool
  <1>2. PoolInv /\ [Next]_vars => PoolInv'
    <2>. SUFFICES ASSUME PoolInv, [Next]_vars PROVE PoolInv'
      OBVIOUS
    <2>1. CASE thrmgr_dispatch
      BY <2>1, DispatchStep
    <2>2. ASSUME NEW w \in Threads, Work(w) \/ Spurious(w) \/ Expire(w)
          PROVE  PoolInv'
      BY <2>2, WorkerStep
    <2>3. CASE Destroy \/ DestroyAgain \/ SpuriousOwner
      BY <2>3, OwnerStep
    <2>4. CASE UNCHANGED vars
      BY <2>4
         DEF vars, PoolInv, TypeOK, CountsAgree, InWait, Busy, FreedLast, At, NobodyGone,
             NoLostWakeup, JobHasWorker
    <2>. QED
      BY <2>1, <2>2, <2>3, <2>4 DEF Next
  <1>. QED
    BY <1>1, <1>2, PTL DEF Spec

(* Every variable keeps its type; in particular thr_idle - 1 and           *)
(* thr_alive - 1 of the workers never go below zero.                       *)
THEOREM PoolTypeCorrect == Spec => []TypeOK
  BY PoolInvariant, PTL DEF PoolInv

(* thr_alive and thr_idle, which thrmgr_dispatch decides by, are the       *)
(* workers there are and those in the wait, and thr_max is kept.           *)
THEOREM CountsAlwaysAgree == Spec => []CountsAgree
  BY PoolInvariant, PTL DEF PoolInv

(* Until a wait times out or a creation fails, every job in the queue has  *)
(* a worker that will look at the queue before it waits or leaves.         *)
THEOREM NoWakeupIsLost == Spec => []NoLostWakeup
  BY PoolInvariant, PTL DEF PoolInv

(* thrmgr_destroy frees the pool when no worker is left in it.             *)
THEOREM PoolFreedLast == Spec => []FreedLast
  BY PoolInvariant, PTL DEF PoolInv
=============================================================================

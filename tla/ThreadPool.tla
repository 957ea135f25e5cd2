------------------------------ MODULE ThreadPool ------------------------------
(***************************************************************************)
(* The thread pool of the daemons (TC/user_module/src/thrmgr.c; TI/mess-   *)
(* handle has the same file): the PCP server, the IPC server and the DNS   *)
(* proxy dispatch what they receive to it.                                 *)
(*                                                                         *)
(* pool_mutex covers every access to the pool, so what a thread does       *)
(* between lock and unlock, or between lock and wait, is one action.  A    *)
(* thread in pthread_cond_timedwait leaves the condition by a signal, by   *)
(* its timeout, or for no reason, and then needs the mutex again: the two  *)
(* are steps of their own, and others may run between them.                *)
(***************************************************************************)
EXTENDS Naturals, Sequences, FiniteSets

CONSTANTS
  Threads,     \* identities of worker threads
  thr_max,     \* most workers at a time
  MaxJobs,     \* bound on the jobs of a behaviour
  TimeOuts,    \* may a wait last as long as idle_timeout?
  CreateFails  \* may pthread_create fail?

ASSUME ThreadPoolAssumption ==
  /\ IsFiniteSet(Threads)
  /\ thr_max \in Nat \ {0}
  /\ MaxJobs \in Nat
  /\ TimeOuts \in BOOLEAN
  /\ CreateFails \in BOOLEAN

VARIABLES
  state,      \* of the pool: valid, exit, or freed
  queue,      \* the jobs that wait, oldest first; job n is the n-th dispatched
  thr_alive,
  thr_idle,
  worker,     \* where each worker is; "none" is no thread
  job,        \* the job it handles, 0 for none
  owner,      \* where the thread is that dispatches and destroys
  jobs,       \* jobs dispatched so far
  served,     \* jobs whose handler has returned
  mishap      \* has a wait timed out or a creation failed so far?

vars == <<state, queue, thr_alive, thr_idle, worker, job, owner, jobs, served, mishap>>

At(l)    == {w \in Threads : worker[w] = l}
Waiting  == At("waiting")
\* Workers that entered the wait and have not had the mutex since.
InWait   == {w \in Threads : worker[w] \in {"waiting", "woken", "timedout"}}

-----------------------------------------------------------------------------
\* thrmgr_new
Init ==
  /\ state = "valid"
  /\ queue = <<>>
  /\ thr_alive = 0
  /\ thr_idle = 0
  /\ worker = [w \in Threads |-> "none"]
  /\ job = [w \in Threads |-> 0]
  /\ owner = "serving"
  /\ jobs = 0
  /\ served = {}
  /\ mishap = FALSE

\* Mistake: no signal.
SignalNobody(started) ==
  worker' = [w \in Threads |-> IF w \in started THEN "start" ELSE worker[w]]

\* pthread_cond_signal after the job is queued: one waiting worker, if any.
\* Started are the workers pthread_create made in the same critical section.
Signal(started) ==
  LET begun == [w \in Threads |-> IF w \in started THEN "start" ELSE worker[w]]
  IN  \/ Waiting = {} /\ worker' = begun
      \/ \E w \in Waiting : worker' = [begun EXCEPT ![w] = "woken"]

work_queue_add(data) == queue' = Append(queue, data)

thrmgr_dispatch ==
  /\ owner = "serving"
  /\ state = "valid"
  /\ jobs < MaxJobs
  /\ jobs' = jobs + 1
  /\ work_queue_add(jobs + 1)
  /\ \/ /\ thr_idle = 0 /\ thr_alive < thr_max
        /\ \E w \in At("none") : Signal({w})
        /\ thr_alive' = thr_alive + 1
        /\ UNCHANGED mishap
     \/ /\ thr_idle > 0 \/ thr_alive >= thr_max
        /\ Signal({})
        /\ UNCHANGED <<thr_alive, mishap>>
     \/ /\ CreateFails
        /\ thr_idle = 0 /\ thr_alive < thr_max
        /\ Signal({})
        /\ mishap' = TRUE
        /\ UNCHANGED thr_alive
  /\ UNCHANGED <<state, thr_idle, job, owner, served>>

\* The while condition of thrmgr_worker: a job, the exit, or the wait.
TakeJob(w) ==
  /\ queue # <<>>
  /\ job' = [job EXCEPT ![w] = Head(queue)]
  /\ queue' = Tail(queue)
  /\ worker' = [worker EXCEPT ![w] = "handling"]

\* Mistake: the exit comes before the jobs that wait.
MustExitAtOnce(w) ==
  /\ state = "exit"
  /\ worker' = [worker EXCEPT ![w] = "leaving"]
  /\ UNCHANGED <<queue, job>>

MustExit(w) ==
  /\ queue = <<>>
  /\ state = "exit"
  /\ worker' = [worker EXCEPT ![w] = "leaving"]
  /\ UNCHANGED <<queue, job>>

Sleep(w) ==
  /\ queue = <<>>
  /\ state # "exit"
  /\ worker' = [worker EXCEPT ![w] = "waiting"]
  /\ UNCHANGED <<queue, job>>

\* The head of the loop: the worker counts as idle only if it has to wait.
Look(w) ==
  /\ worker[w] = "start"
  /\ \/ (TakeJob(w) \/ MustExit(w)) /\ UNCHANGED thr_idle
     \/ Sleep(w) /\ thr_idle' = thr_idle + 1
  /\ UNCHANGED <<state, thr_alive, owner, jobs, served, mishap>>

\* The wait returned 0: the condition is evaluated again.
LookAgain(w) ==
  /\ worker[w] = "woken"
  /\ \/ (TakeJob(w) \/ MustExit(w)) /\ thr_idle' = thr_idle - 1
     \/ Sleep(w) /\ UNCHANGED thr_idle
  /\ UNCHANGED <<state, thr_alive, owner, jobs, served, mishap>>

\* The wait ends by itself: POSIX allows it for no reason, and idle_timeout
\* brings it about.  The worker has yet to take the mutex.
Spurious(w) ==
  /\ worker[w] = "waiting"
  /\ worker' = [worker EXCEPT ![w] = "woken"]
  /\ UNCHANGED <<state, queue, thr_alive, thr_idle, job, owner, jobs, served, mishap>>

Expire(w) ==
  /\ TimeOuts
  /\ worker[w] = "waiting"
  /\ worker' = [worker EXCEPT ![w] = "timedout"]
  /\ mishap' = TRUE
  /\ UNCHANGED <<state, queue, thr_alive, thr_idle, job, owner, jobs, served>>

\* Mistake: a worker that gives up still counts as idle.
GiveUpCounted(w) ==
  /\ worker[w] = "timedout"
  /\ worker' = [worker EXCEPT ![w] = "leaving"]
  /\ UNCHANGED <<state, queue, thr_alive, thr_idle, job, owner, jobs, served, mishap>>

\* ETIMEDOUT: break out of the loop, without another look at the queue.
GiveUp(w) ==
  /\ worker[w] = "timedout"
  /\ worker' = [worker EXCEPT ![w] = "leaving"]
  /\ thr_idle' = thr_idle - 1
  /\ UNCHANGED <<state, queue, thr_alive, job, owner, jobs, served, mishap>>

\* The handler returns and the loop starts over.
Handled(w) ==
  /\ worker[w] = "handling"
  /\ served' = served \cup {job[w]}
  /\ job' = [job EXCEPT ![w] = 0]
  /\ worker' = [worker EXCEPT ![w] = "start"]
  /\ UNCHANGED <<state, queue, thr_alive, thr_idle, owner, jobs, mishap>>

\* Mistake: nobody tells the owner.
LeaveSilently(w) ==
  /\ worker[w] = "leaving"
  /\ worker' = [worker EXCEPT ![w] = "none"]
  /\ thr_alive' = thr_alive - 1
  /\ UNCHANGED <<state, queue, thr_idle, job, owner, jobs, served, mishap>>

\* The end of thrmgr_worker: the last worker wakes the owner.
Leave(w) ==
  /\ worker[w] = "leaving"
  /\ worker' = [worker EXCEPT ![w] = "none"]
  /\ thr_alive' = thr_alive - 1
  /\ owner' = IF thr_alive = 1 /\ owner = "waiting" THEN "woken" ELSE owner
  /\ UNCHANGED <<state, queue, thr_idle, job, jobs, served, mishap>>

\* Mistake: it waits for the idle workers only.
DestroyIdle ==
  /\ owner = "serving"
  /\ worker' = [w \in Threads |-> IF w \in Waiting THEN "woken" ELSE worker[w]]
  /\ IF thr_idle > 0
     THEN owner' = "waiting" /\ state' = "exit"
     ELSE owner' = "done" /\ state' = "freed"
  /\ UNCHANGED <<queue, thr_alive, thr_idle, job, jobs, served, mishap>>

\* thrmgr_destroy, up to its wait: the broadcast wakes every waiting worker.
Destroy ==
  /\ owner = "serving"
  /\ worker' = [w \in Threads |-> IF w \in Waiting THEN "woken" ELSE worker[w]]
  /\ IF thr_alive > 0
     THEN owner' = "waiting" /\ state' = "exit"
     ELSE owner' = "done" /\ state' = "freed"
  /\ UNCHANGED <<queue, thr_alive, thr_idle, job, jobs, served, mishap>>

\* The owner's wait returns: it waits again or frees the pool.
DestroyAgain ==
  /\ owner = "woken"
  /\ IF thr_alive > 0
     THEN owner' = "waiting" /\ UNCHANGED state
     ELSE owner' = "done" /\ state' = "freed"
  /\ UNCHANGED <<queue, thr_alive, thr_idle, worker, job, jobs, served, mishap>>

SpuriousOwner ==
  /\ owner = "waiting"
  /\ owner' = "woken"
  /\ UNCHANGED <<state, queue, thr_alive, thr_idle, worker, job, jobs, served, mishap>>

Work(w) == Look(w) \/ LookAgain(w) \/ GiveUp(w) \/ Handled(w) \/ Leave(w)

Next ==
  \/ thrmgr_dispatch
  \/ \E w \in Threads : Work(w) \/ Spurious(w) \/ Expire(w)
  \/ Destroy \/ DestroyAgain \/ SpuriousOwner

Spec == Init /\ [][Next]_vars

\* Threads get the mutex when they want it and handlers return.  Nothing need
\* be dispatched, no wait need end by itself, and nobody need destroy the pool.
FairSpec == Spec /\ (\A w \in Threads : WF_vars(Work(w))) /\ WF_vars(DestroyAgain)

-----------------------------------------------------------------------------
TypeOK ==
  /\ state \in {"valid", "exit", "freed"}
  /\ queue \in Seq(1 .. MaxJobs)
  /\ thr_alive \in Nat
  /\ thr_idle \in Nat
  /\ worker \in [Threads -> {"none", "start", "waiting", "woken", "timedout",
                             "handling", "leaving"}]
  /\ job \in [Threads -> 0 .. MaxJobs]
  /\ owner \in {"serving", "waiting", "woken", "done"}
  /\ jobs \in 0 .. MaxJobs
  /\ served \in SUBSET (1 .. MaxJobs)
  /\ mishap \in BOOLEAN

\* thr_alive and thr_idle are what thrmgr_dispatch takes them for, the workers
\* there are and those in the wait, and thr_max is kept.
CountsAgree ==
  /\ thr_alive = Cardinality({w \in Threads : worker[w] # "none"})
  /\ thr_idle = Cardinality(InWait)
  /\ thr_alive <= thr_max

\* A job that waits has a worker that will look at the queue before it waits or
\* exits: the one thrmgr_dispatch wakes, or else the one it creates.  A worker
\* whose wait has timed out counts as idle still and does not (thrmgr.c:244).
JobHasWorker ==
  queue # <<>> => \E w \in Threads : worker[w] \in {"start", "woken", "handling"}

\* No wakeup is lost: until a wait times out, or a thread cannot be created,
\* every job that waits has its worker.
NoLostWakeup == mishap \/ JobHasWorker

\* thrmgr_destroy frees the pool when the last worker is out of it.
FreedLast == state = "freed" => At("none") = Threads

\* Every job is handled in the end, unless a wait times out or a thread cannot
\* be created: before and during thrmgr_destroy as well.
EveryJobServed == \A j \in 1 .. MaxJobs : (jobs >= j) ~> (j \in served \/ mishap)

\* thrmgr_destroy returns.
DestroyReturns == (state = "exit") ~> (state = "freed")
=============================================================================

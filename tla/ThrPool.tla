------------------------------ MODULE ThrPool ------------------------------
(***************************************************************************)
(* The thread pool of the control plane (hylisp-cp/thr_pool/thr_pool.c),   *)
(* which runs one job per LISP packet received.                            *)
(*                                                                         *)
(* pool_mutex protects everything, so that the code between taking and     *)
(* releasing it (pthread_cond_wait included) is one action.  A worker is   *)
(*   "none"       not a thread (not yet, or no longer),                    *)
(*   "new"        created, before its first pthread_mutex_lock,            *)
(*   "wait"       in pthread_cond_wait on pool_workcv,                     *)
(*   "timedwait"  in pthread_cond_timedwait on it,                         *)
(*   "woken"      signalled, but without the mutex yet,                    *)
(*   "timedout"   as woken, with ETIMEDOUT,                                *)
(*   "run"        executing its job, without the mutex.                    *)
(***************************************************************************)
EXTENDS Integers, Sequences, FiniteSets

CONSTANTS Worker,        \* thread ids
          Job,           \* jobs, each queued at most once
          pool_minimum, pool_maximum,
          Lingers,       \* the values of pool_linger, 0 and others
          CreateFails,   \* pthread_create may fail
          JobsExit       \* a job may call pthread_exit

ASSUME PoolAssumption ==
    /\ pool_minimum \in Nat /\ pool_maximum \in Nat \ {0} /\ Lingers \subseteq Nat
    /\ pool_minimum <= pool_maximum       \* EINVAL otherwise
    /\ IsFiniteSet(Worker) /\ Cardinality(Worker) >= pool_maximum
    /\ CreateFails \in BOOLEAN /\ JobsExit \in BOOLEAN

VARIABLES worker,         \* [Worker -> state]
          job,            \* [Worker -> SUBSET Job], what it executes
          queue,          \* pool_head .. pool_tail
          pool_active, pool_idle, pool_nthreads,
          POOL_WAIT, POOL_DESTROY,   \* the bits of pool_flags
          waiter,         \* the thread that calls thr_pool_wait
          destroyer,      \* the thread that calls thr_pool_destroy
          waitcv, busycv, \* which of the two is blocked on pool_waitcv, _busycv
          done,           \* jobs that have ended
          pool_linger,    \* seconds an excess worker waits for a job
          failed          \* history: a pthread_create has failed

counters == <<pool_idle, pool_nthreads>>
clients == <<waiter, destroyer>>
vars == <<worker, job, queue, pool_active, counters, POOL_WAIT, POOL_DESTROY,
          clients, waitcv, busycv, done, pool_linger, failed>>
created == <<pool_linger, failed>>

Idle == {"wait", "timedwait", "woken", "timedout"}
Blocked == {w \in Worker : worker[w] \in {"wait", "timedwait"}}
NotThreads == {w \in Worker : worker[w] = "none"}

Init ==
    /\ worker = [w \in Worker |-> "none"]
    /\ job = [w \in Worker |-> {}]
    /\ queue = <<>>
    /\ pool_active = {}
    /\ pool_idle = 0
    /\ pool_nthreads = 0
    /\ POOL_WAIT = FALSE
    /\ POOL_DESTROY = FALSE
    /\ waiter = "out"
    /\ destroyer = "out"
    /\ waitcv = {}
    /\ busycv = {}
    /\ done = {}
    /\ pool_linger \in Lingers
    /\ failed = FALSE

----------------------------------------------------------------------------
(***************************************************************************)
(* Pieces of the worker's critical sections.                               *)
(***************************************************************************)
\* "if (pool_flags & POOL_WAIT) notify_waiters(pool)", pool_active being active.
notify_waiters(active) ==
    LET idle == POOL_WAIT /\ queue = <<>> /\ active = {} IN
    /\ POOL_WAIT' = (POOL_WAIT /\ ~idle)
    /\ waitcv' = IF idle THEN {} ELSE waitcv

\* Mutant: the thread that leaves is still counted.
Leave_Counted(w, active, idle) ==
    /\ worker' = [worker EXCEPT ![w] = "none"]
    /\ job' = [job EXCEPT ![w] = {}]
    /\ pool_active' = active
    /\ pool_idle' = idle
    /\ busycv' = IF POOL_DESTROY /\ pool_nthreads - 1 = 0 THEN {} ELSE busycv
    /\ UNCHANGED <<queue, pool_nthreads>>

\* The loop ends and worker_cleanup runs; idle is pool_idle by then.
Leave(w, active, idle) ==
    /\ worker' = [worker EXCEPT ![w] = "none"]
    /\ job' = [job EXCEPT ![w] = {}]
    /\ pool_active' = active
    /\ pool_idle' = idle
    /\ pool_nthreads' = pool_nthreads - 1
    /\ busycv' = IF POOL_DESTROY /\ pool_nthreads - 1 = 0 THEN {} ELSE busycv
    /\ UNCHANGED queue

Take(w, active, idle) ==
    /\ worker' = [worker EXCEPT ![w] = "run"]
    /\ job' = [job EXCEPT ![w] = {Head(queue)}]
    /\ queue' = Tail(queue)
    /\ pool_active' = active \cup {w}
    /\ pool_idle' = idle
    /\ UNCHANGED <<pool_nthreads, busycv>>

Sleep(w, active, idle) ==
    /\ worker' = [worker EXCEPT ![w] =
                    IF pool_nthreads <= pool_minimum THEN "wait" ELSE "timedwait"]
    /\ job' = [job EXCEPT ![w] = {}]
    /\ pool_active' = active
    /\ pool_idle' = idle
    /\ UNCHANGED <<queue, pool_nthreads, busycv>>

\* No lingering: an excess worker that finds no job ends at once.
NoLinger == pool_linger = 0 /\ pool_nthreads > pool_minimum

\* One turn of the loop from the test of the while; others is the number of
\* idle workers apart from w.
Turn(w, active, others) ==
    \/ POOL_DESTROY /\ Leave(w, active, others)
    \/ ~POOL_DESTROY /\ queue # <<>> /\ Take(w, active, others)
    \/ ~POOL_DESTROY /\ queue = <<>> /\ NoLinger /\ Leave(w, active, others)
    \/ ~POOL_DESTROY /\ queue = <<>> /\ ~NoLinger /\ Sleep(w, active, others + 1)

----------------------------------------------------------------------------
(***************************************************************************)
(* worker_thread.                                                          *)
(***************************************************************************)
WorkerStarts(w) ==
    /\ worker[w] = "new"
    /\ Turn(w, pool_active, pool_idle)
    /\ notify_waiters(pool_active)
    /\ UNCHANGED <<POOL_DESTROY, clients, done, created>>

\* func returns: job_cleanup, and the next turn under the same mutex.
JobReturns(w) ==
    /\ worker[w] = "run"
    /\ done' = done \cup job[w]
    /\ Turn(w, pool_active \ {w}, pool_idle)
    /\ notify_waiters(pool_active \ {w})
    /\ UNCHANGED <<POOL_DESTROY, clients, created>>

\* pthread_exit in the job, or the cancellation thr_pool_destroy asked for:
\* job_cleanup and worker_cleanup.  The latter replaces the thread if there
\* is work for another.
Respawns == ~POOL_DESTROY /\ queue # <<>> /\ pool_nthreads - 1 < pool_maximum

JobExits(w) ==
    /\ worker[w] = "run"
    /\ JobsExit \/ POOL_DESTROY
    /\ done' = done \cup job[w]
    /\ \/ /\ ~Respawns \/ CreateFails
          /\ Leave(w, pool_active \ {w}, pool_idle)
          /\ failed' = (failed \/ Respawns)
       \/ /\ Respawns
          /\ worker' = [worker EXCEPT ![w] = "new"]
          /\ job' = [job EXCEPT ![w] = {}]
          /\ pool_active' = pool_active \ {w}
          /\ UNCHANGED <<queue, counters, busycv, failed>>
    /\ notify_waiters(pool_active \ {w})
    /\ UNCHANGED <<POOL_DESTROY, clients, pool_linger>>

\* pthread_cond_(timed)wait returns with the mutex.
WorkerWakes(w) ==
    /\ worker[w] = "woken"
    /\ Turn(w, pool_active, pool_idle - 1)
    /\ UNCHANGED <<POOL_WAIT, waitcv, POOL_DESTROY, clients, done, created>>

\* Mutants: the timeout branch decrements pool_idle on its own account; a worker
\* that timed out does not look at the queue again.
WorkerTimesOut_Twice(w) ==
    /\ worker[w] = "timedout"
    /\ Leave(w, pool_active, pool_idle - 2)
    /\ UNCHANGED <<POOL_WAIT, waitcv, POOL_DESTROY, clients, done, created>>

WorkerTimesOut_NoRecheck(w) ==
    /\ worker[w] = "timedout"
    /\ Leave(w, pool_active, pool_idle - 1)
    /\ UNCHANGED <<POOL_WAIT, waitcv, POOL_DESTROY, clients, done, created>>

\* A timeout leaves the while; a worker that finds neither a job nor a surplus
\* of threads starts over.
WorkerTimesOut(w) ==
    /\ worker[w] = "timedout"
    /\ \/ /\ POOL_DESTROY \/ (queue = <<>> /\ pool_nthreads > pool_minimum)
          /\ Leave(w, pool_active, pool_idle - 1)
          /\ UNCHANGED <<POOL_WAIT, waitcv>>
       \/ /\ ~POOL_DESTROY /\ queue # <<>>
          /\ Take(w, pool_active, pool_idle - 1)
          /\ UNCHANGED <<POOL_WAIT, waitcv>>
       \/ /\ ~POOL_DESTROY /\ queue = <<>> /\ pool_nthreads <= pool_minimum
          /\ Sleep(w, pool_active, pool_idle)
          /\ notify_waiters(pool_active)
    /\ UNCHANGED <<POOL_DESTROY, clients, done, created>>

\* The linger time passes, or the condition variable wakes without a signal.
Unblocks(w) ==
    /\ \/ worker[w] = "timedwait" /\ worker' = [worker EXCEPT ![w] = "timedout"]
       \/ w \in Blocked /\ worker' = [worker EXCEPT ![w] = "woken"]
    /\ UNCHANGED <<job, queue, pool_active, counters, POOL_WAIT, POOL_DESTROY,
                   clients, waitcv, busycv, done, created>>

----------------------------------------------------------------------------
(***************************************************************************)
(* The interface.                                                          *)
(***************************************************************************)
Queued == {queue[n] : n \in 1..Len(queue)}
Started == done \cup UNION {job[w] : w \in Worker}

\* Mutant: nobody is signalled.
Signal_Missing == UNCHANGED worker

\* pthread_cond_signal(&pool->pool_workcv)
Signal == \/ \E w \in Blocked : worker' = [worker EXCEPT ![w] = "woken"]
          \/ Blocked = {} /\ UNCHANGED worker

create_worker ==
    \/ /\ \E w \in NotThreads : worker' = [worker EXCEPT ![w] = "new"]
       /\ pool_nthreads' = pool_nthreads + 1
       /\ UNCHANGED failed
    \/ CreateFails /\ failed' = TRUE /\ UNCHANGED <<worker, pool_nthreads>>

thr_pool_queue(j) ==
    /\ ~POOL_DESTROY
    /\ j \notin Queued \cup Started
    /\ queue' = Append(queue, j)
    /\ \/ pool_idle > 0 /\ Signal /\ UNCHANGED <<pool_nthreads, failed>>
       \/ pool_idle = 0 /\ pool_nthreads < pool_maximum /\ create_worker
       \/ /\ pool_idle = 0 /\ pool_nthreads >= pool_maximum
          /\ UNCHANGED <<worker, pool_nthreads, failed>>
    /\ UNCHANGED <<job, pool_active, pool_idle, POOL_WAIT, POOL_DESTROY,
                   clients, waitcv, busycv, done, pool_linger>>

\* Mutant: the flag is set before the loop instead of in it.
thr_pool_wait_FlagOnce ==
    /\ waiter = "out" \/ (waiter = "in" /\ "waiter" \notin waitcv)
    /\ \/ /\ queue # <<>> \/ pool_active # {}
          /\ POOL_WAIT' = (POOL_WAIT \/ waiter = "out")
          /\ waiter' = "in"
          /\ waitcv' = waitcv \cup {"waiter"}
       \/ /\ queue = <<>> /\ pool_active = {}
          /\ waiter' = "returned"
          /\ UNCHANGED <<POOL_WAIT, waitcv>>
    /\ UNCHANGED <<worker, job, queue, pool_active, counters, POOL_DESTROY,
                   destroyer, busycv, done, created>>

thr_pool_wait ==
    /\ waiter = "out" \/ (waiter = "in" /\ "waiter" \notin waitcv)
    /\ \/ /\ queue # <<>> \/ pool_active # {}
          /\ POOL_WAIT' = TRUE
          /\ waiter' = "in"
          /\ waitcv' = waitcv \cup {"waiter"}
       \/ /\ queue = <<>> /\ pool_active = {}
          /\ waiter' = "returned"
          /\ UNCHANGED <<POOL_WAIT, waitcv>>
    /\ UNCHANGED <<worker, job, queue, pool_active, counters, POOL_DESTROY,
                   destroyer, busycv, done, created>>

\* thr_pool_destroy: first it waits until no job is active ...
Drain ==
    /\ pool_active # {}
    /\ POOL_WAIT' = TRUE
    /\ destroyer' = "draining"
    /\ waitcv' = waitcv \cup {"destroyer"}
    /\ UNCHANGED busycv

\* Mutant: the pool is freed once no job is active.
Join_Early == destroyer' = "freed" /\ UNCHANGED <<busycv, POOL_WAIT, waitcv>>

\* ... then until no thread is left; then the pool is freed, with the jobs
\* still queued.
Join ==
    /\ IF pool_nthreads # 0
       THEN destroyer' = "joining" /\ busycv' = busycv \cup {"destroyer"}
       ELSE destroyer' = "freed" /\ UNCHANGED busycv
    /\ UNCHANGED <<POOL_WAIT, waitcv>>

DrainOrJoin == Drain \/ (pool_active = {} /\ Join)

thr_pool_destroy ==
    /\ destroyer = "out" /\ waiter \in {"out", "returned"}
    /\ POOL_DESTROY' = TRUE
    /\ worker' = [w \in Worker |-> IF w \in Blocked THEN "woken" ELSE worker[w]]
    /\ DrainOrJoin
    /\ UNCHANGED <<job, queue, pool_active, counters, waiter, done, created>>

DestroyWakes ==
    /\ \/ destroyer = "draining" /\ "destroyer" \notin waitcv /\ DrainOrJoin
       \/ destroyer = "joining" /\ "destroyer" \notin busycv /\ Join
    /\ UNCHANGED <<worker, job, queue, pool_active, counters, POOL_DESTROY,
                   waiter, done, created>>

----------------------------------------------------------------------------
\* No caller uses a pool that is being destroyed.
Next ==
    \/ \E w \in Worker : \/ WorkerStarts(w) \/ JobReturns(w) \/ JobExits(w)
                         \/ WorkerWakes(w) \/ WorkerTimesOut(w) \/ Unblocks(w)
    \/ \E j \in Job : thr_pool_queue(j)
    \/ ~POOL_DESTROY /\ thr_pool_wait
    \/ thr_pool_destroy
    \/ DestroyWakes

Spec == Init /\ [][Next]_vars

(***************************************************************************)
(* Fairness: threads run, and jobs return.  Nobody has to queue, to wait   *)
(* for or to destroy the pool, and lingering threads need not time out.    *)
(***************************************************************************)
Fairness ==
    /\ \A w \in Worker : /\ WF_vars(WorkerStarts(w))
                         /\ WF_vars(WorkerWakes(w))
                         /\ WF_vars(WorkerTimesOut(w))
                         /\ WF_vars(JobReturns(w))
    /\ WF_vars(~POOL_DESTROY /\ waiter = "in" /\ thr_pool_wait)
    /\ WF_vars(DestroyWakes)

FairSpec == Spec /\ Fairness

----------------------------------------------------------------------------
\* Types.
TypeOK ==
    /\ worker \in [Worker -> Idle \cup {"none", "new", "run"}]
    /\ job \in [Worker -> SUBSET Job]
    /\ queue \in Seq(Job)
    /\ pool_active \subseteq Worker
    /\ pool_idle \in Nat
    /\ pool_nthreads \in 0..pool_maximum
    /\ POOL_WAIT \in BOOLEAN
    /\ POOL_DESTROY \in BOOLEAN
    /\ waiter \in {"out", "in", "returned"}
    /\ destroyer \in {"out", "draining", "joining", "freed"}
    /\ waitcv \subseteq {"waiter", "destroyer"}
    /\ busycv \subseteq {"destroyer"}
    /\ done \subseteq Job
    /\ pool_linger \in Lingers
    /\ failed \in BOOLEAN

\* The counters tell the truth whenever the mutex is free (thr_pool.c:33, 40,
\* 105, 124, 280): pool_nthreads counts the threads, pool_idle the workers
\* between their idle++ and idle--, and pool_active lists the running jobs,
\* through timeouts, pthread_exit, replacement and failed pthread_create.
CountersExact ==
    /\ pool_nthreads = Cardinality(Worker \ NotThreads)
    /\ pool_idle = Cardinality({w \in Worker : worker[w] \in Idle})
    /\ pool_active = {w \in Worker : worker[w] = "run"}

\* A freed pool has no thread that could still touch it (thr_pool.c:323-325).
FreedPoolUnused == destroyer = "freed" => NotThreads = Worker

\* pthread_create has failed and left the pool without a thread: nothing runs
\* until the next call of thr_pool_queue tries again (thr_pool.c:278-280).
NoThreadLeft == failed /\ pool_nthreads = 0

\* No job is stranded (thr_pool.c:150-157, 276-280): while jobs are queued some
\* worker is running, starting or has been woken, so a signal that falls on
\* workers already awake and a timeout that races with a new job lose nothing.
NoStrandedJob ==
    queue # <<>> /\ ~POOL_DESTROY /\ ~NoThreadLeft =>
        \E w \in Worker : worker[w] \in {"new", "run", "woken", "timedout"}

\* Every queued job is executed in the end, if the pool is not destroyed and
\* has a thread (thr_pool.c:260-283): a pthread_create that fails while others
\* run only delays it.
EveryJobRuns ==
    \A j \in Job : j \in Queued ~> (j \in done \/ POOL_DESTROY \/ NoThreadLeft)

\* "Wait for all queued jobs to complete" (thr_pool.h:125): the caller of
\* thr_pool_wait is woken once they have; POOL_WAIT is not cleared for good
\* by a broadcast that precedes another job.
WaitReturns == waiter = "in" ~> (waiter = "returned" \/ NoThreadLeft)
=============================================================================

--------------------------- MODULE ThrPool_proofs ---------------------------
(***************************************************************************)
(* The invariants of the thread pool, for every number of threads and      *)
(* jobs, every minimum, maximum and linger time, with and without failing  *)
(* pthread_create and jobs that call pthread_exit.                         *)
(*                                                                         *)
(* NoStrandedJob is not inductive.  A job may be queued while the only     *)
(* idle workers have been woken already, so the induction counts them: as  *)
(* long as some worker is blocked there is an awake one for every queued   *)
(* job (AwakeEnough).  When nobody is blocked, any thread will do, and     *)
(* there is one unless pthread_create failed (ThreadOrFailure).            *)
(***************************************************************************)
EXTENDS ThrPool, FiniteSetTheorems, SequenceTheorems, TLAPS

\* The threads that will look at the queue before they block.
Awake == {"new", "woken", "timedout"}

\* The number of workers in one of the states T, in the table f.
Count(f, T) == Cardinality({w \in Worker : f[w] \in T})

AwakeEnough == Blocked # {} => Len(queue) <= Count(worker, Awake)
ThreadOrFailure == queue # <<>> /\ ~POOL_DESTROY /\ pool_nthreads = 0 => failed
NobodyBlocked == POOL_DESTROY => Blocked = {}
DestroyerKnown == destroyer = "out" <=> ~POOL_DESTROY

PoolInv == /\ TypeOK
           /\ CountersExact
           /\ FreedPoolUnused
           /\ AwakeEnough
           /\ ThreadOrFailure
           /\ NobodyBlocked
           /\ DestroyerKnown

----------------------------------------------------------------------------
(***************************************************************************)
(* Counting workers.                                                       *)
(***************************************************************************)
States == Idle \cup {"none", "new", "run"}
Threads == States \ {"none"}

\* A count of workers is a natural number.
LEMMA CountType == \A f, T : Count(f, T) \in Nat
BY PoolAssumption, FS_Subset, FS_CardinalityType, Zenon DEF Count

\* A count is 0 exactly if no worker is in one of the states.
LEMMA CountZero ==
    ASSUME NEW f, NEW T
    PROVE  Count(f, T) = 0 <=> \A w \in Worker : f[w] \notin T
<1> DEFINE S == {w \in Worker : f[w] \in T}
<1>1. IsFiniteSet(S)  BY PoolAssumption, FS_Subset, Zenon
<1>2. Cardinality(S) = 0 <=> S = {}  BY <1>1, FS_EmptySet, Zenon
<1> QED  BY <1>2 DEF Count

\* A larger set of states has at least as many workers.
LEMMA CountMonotone ==
    ASSUME NEW f, NEW T, NEW U, T \subseteq U
    PROVE  Count(f, T) <= Count(f, U)
<1> DEFINE S(X) == {w \in Worker : f[w] \in X}
<1>1. IsFiniteSet(S(U))  BY PoolAssumption, FS_Subset, Zenon
<1>2. S(T) \subseteq S(U)  OBVIOUS
<1>3. Cardinality(S(T)) <= Cardinality(S(U))  BY <1>1, <1>2, FS_Subset, Zenon
<1> QED  BY <1>3 DEF Count

\* What the change of one worker's state does to every count.
LEMMA WorkerUpdate ==
    ASSUME worker \in [Worker -> States], NEW w \in Worker, NEW x,
           worker' = [worker EXCEPT ![w] = x]
    PROVE  \A T : Count(worker', T) = Count(worker, T)
                                      - (IF worker[w] \in T THEN 1 ELSE 0)
                                      + (IF x \in T THEN 1 ELSE 0)
<1> TAKE T
<1> DEFINE S == {v \in Worker : worker[v] \in T}
           R == S \ {w}
<1>1. IsFiniteSet(S)  BY PoolAssumption, FS_Subset, Zenon
<1>2. /\ IsFiniteSet(R)
      /\ Cardinality(R) = IF w \in S THEN Cardinality(S) - 1 ELSE Cardinality(S)
  BY <1>1, FS_RemoveElement, Zenon
<1>3. Cardinality(R \cup {w}) = Cardinality(R) + 1
  BY <1>2, FS_AddElement, Zenon
<1>4. Cardinality(S) \in Nat /\ Cardinality(R) \in Nat
  BY <1>1, <1>2, FS_CardinalityType, Zenon
<1>5. {v \in Worker : worker'[v] \in T} = IF x \in T THEN R \cup {w} ELSE R
  OBVIOUS
<1>6. Count(worker', T) = IF x \in T THEN Cardinality(R) + 1 ELSE Cardinality(R)
  BY <1>3, <1>5, Zenon DEF Count
<1>7. Count(worker, T) = Cardinality(S)  BY DEF Count
<1>8. w \in S <=> worker[w] \in T  OBVIOUS
<1> HIDE DEF R, S
<1> QED  BY <1>2, <1>4, <1>6, <1>7, <1>8

\* CountersExact in terms of counts.
LEMMA CountersAsCounts ==
    ASSUME worker \in [Worker -> States]
    PROVE  CountersExact <=>
               /\ pool_nthreads = Count(worker, Threads)
               /\ pool_idle = Count(worker, Idle)
               /\ pool_active = {w \in Worker : worker[w] = "run"}
<1>1. Worker \ NotThreads = {w \in Worker : worker[w] \in Threads}
  BY DEF NotThreads, Threads
<1> QED  BY <1>1 DEF CountersExact, Count

\* The same in the next state.
LEMMA CountersAsCountsNext ==
    ASSUME worker' \in [Worker -> States]
    PROVE  CountersExact' <=>
               /\ pool_nthreads' = Count(worker', Threads)
               /\ pool_idle' = Count(worker', Idle)
               /\ pool_active' = {w \in Worker : worker'[w] = "run"}
<1>1. (Worker \ NotThreads)' = {w \in Worker : worker'[w] \in Threads}
  BY DEF NotThreads, Threads
<1> QED  BY <1>1 DEF CountersExact, Count

----------------------------------------------------------------------------
(***************************************************************************)
(* A worker with the mutex.                                                *)
(***************************************************************************)
\* What a critical section of worker w knows when it acts: w is a thread,
\* active is pool_active without it and others counts the other idle workers.
Holds(w, active, others) ==
    /\ w \in Worker
    /\ worker[w] \in {"new", "run", "woken", "timedout"}
    /\ active = pool_active \ {w}
    /\ others = Count(worker, Idle) - (IF worker[w] \in Idle THEN 1 ELSE 0)

\* A worker that leaves (thr_pool.c:31-43) is taken off every count; the
\* others keep their share of the queue unless that is empty or the pool is
\* being destroyed.
LEMMA LeaveCounts ==
    ASSUME PoolInv, NEW w, NEW active, NEW idle, Holds(w, active, idle),
           Leave(w, active, idle), UNCHANGED POOL_DESTROY,
           queue = <<>> \/ POOL_DESTROY \/ worker[w] \notin Awake
    PROVE  /\ worker' \in [Worker -> States] /\ job' \in [Worker -> SUBSET Job]
           /\ CountersExact' /\ AwakeEnough' /\ NobodyBlocked'
           /\ pool_nthreads' <= pool_nthreads
<1> USE DEF Holds
<1>0. worker \in [Worker -> States] /\ queue \in Seq(Job) /\ job \in [Worker -> SUBSET Job]
  BY DEF PoolInv, TypeOK, States
<1>1. worker' = [worker EXCEPT ![w] = "none"]  BY DEF Leave
<1>c. \A T : Count(worker', T) = Count(worker, T) - (IF worker[w] \in T THEN 1 ELSE 0)
                                                + (IF "none" \in T THEN 1 ELSE 0)
  BY <1>0, <1>1, WorkerUpdate, Zenon
<1>2. worker' \in [Worker -> States] /\ job' \in [Worker -> SUBSET Job]
  BY <1>0, <1>1 DEF Leave, States
<1>3. CountersExact'
  <2>1. /\ pool_nthreads = Count(worker, Threads)
        /\ pool_active = {v \in Worker : worker[v] = "run"}
    BY <1>0, CountersAsCounts DEF PoolInv
  <2>2. Count(worker', Threads) = Count(worker, Threads) - 1
    BY <1>c, CountType DEF Threads, States, Idle
  <2>3. Count(worker', Idle) = idle
    BY <1>c, CountType DEF Idle
  <2>4. pool_active' = {v \in Worker : worker'[v] = "run"}
    BY <1>0, <1>1, <2>1 DEF Leave
  <2> QED  BY <1>2, <2>1, <2>2, <2>3, <2>4, CountersAsCountsNext DEF Leave
<1>4. Blocked' \subseteq Blocked  BY <1>0, <1>1 DEF Blocked
<1>5. NobodyBlocked'  BY <1>4 DEF NobodyBlocked, PoolInv
<1>6. AwakeEnough'
  <2>1. CASE worker[w] \notin Awake
    <3>1. Count(worker', Awake) = Count(worker, Awake)
      BY <1>c, <2>1, CountType DEF Awake
    <3> QED  BY <1>4, <3>1 DEF AwakeEnough, PoolInv, Leave
  <2>2. CASE POOL_DESTROY  BY <1>5, <2>2 DEF AwakeEnough, NobodyBlocked
  <2>3. CASE queue = <<>>
    BY <2>3, CountType DEF AwakeEnough, Leave
  <2> QED  BY <2>1, <2>2, <2>3
<1>7. pool_nthreads' <= pool_nthreads  BY DEF Leave, PoolInv, TypeOK
<1> QED  BY <1>2, <1>3, <1>5, <1>6, <1>7

\* A worker that takes a job (thr_pool.c:125-136) is awake no more, and the
\* queue is shorter by one.
LEMMA TakeCounts ==
    ASSUME PoolInv, NEW w, NEW active, NEW idle, Holds(w, active, idle),
           Take(w, active, idle), queue # <<>>, ~POOL_DESTROY, ~POOL_DESTROY'
    PROVE  /\ worker' \in [Worker -> States] /\ job' \in [Worker -> SUBSET Job]
           /\ queue' \in Seq(Job)
           /\ CountersExact' /\ AwakeEnough' /\ NobodyBlocked'
<1> USE DEF Holds
<1>0. worker \in [Worker -> States] /\ queue \in Seq(Job) /\ job \in [Worker -> SUBSET Job]
  BY DEF PoolInv, TypeOK, States
<1>1. worker' = [worker EXCEPT ![w] = "run"]  BY DEF Take
<1>c. \A T : Count(worker', T) = Count(worker, T) - (IF worker[w] \in T THEN 1 ELSE 0)
                                                + (IF "run" \in T THEN 1 ELSE 0)
  BY <1>0, <1>1, WorkerUpdate, Zenon
<1>2. /\ Head(queue) \in Job /\ queue' \in Seq(Job)
      /\ Len(queue') = Len(queue) - 1 /\ Len(queue) \in Nat
  BY <1>0 DEF Take
<1>3. worker' \in [Worker -> States] /\ job' \in [Worker -> SUBSET Job]
  BY <1>0, <1>1, <1>2 DEF Take, States
<1>4. CountersExact'
  <2>1. /\ pool_nthreads = Count(worker, Threads)
        /\ pool_active = {v \in Worker : worker[v] = "run"}
    BY <1>0, CountersAsCounts DEF PoolInv
  <2>2. Count(worker', Threads) = Count(worker, Threads)
    BY <1>c, CountType DEF Threads, States, Idle
  <2>3. Count(worker', Idle) = idle
    BY <1>c, CountType DEF Idle
  <2>4. pool_active' = {v \in Worker : worker'[v] = "run"}
    BY <1>0, <1>1, <2>1 DEF Take
  <2> QED  BY <1>3, <2>1, <2>2, <2>3, <2>4, CountersAsCountsNext DEF Take
<1>5. Blocked' \subseteq Blocked  BY <1>0, <1>1 DEF Blocked
<1>6. AwakeEnough'
  <2>1. Count(worker', Awake) >= Count(worker, Awake) - 1
    BY <1>c, CountType DEF Awake
  <2> QED  BY <1>2, <1>5, <2>1, CountType DEF AwakeEnough, PoolInv
<1> QED  BY <1>2, <1>3, <1>4, <1>6 DEF NobodyBlocked

\* A worker blocks (thr_pool.c:108-123) only while the queue is empty.
LEMMA SleepCounts ==
    ASSUME PoolInv, NEW w, NEW active, NEW idle, Holds(w, active, idle),
           Sleep(w, active, idle + 1), queue = <<>>, ~POOL_DESTROY, ~POOL_DESTROY'
    PROVE  /\ worker' \in [Worker -> States] /\ job' \in [Worker -> SUBSET Job]
           /\ CountersExact' /\ AwakeEnough' /\ NobodyBlocked'
<1> USE DEF Holds
<1>0. worker \in [Worker -> States] /\ job \in [Worker -> SUBSET Job]
  BY DEF PoolInv, TypeOK, States
<1>1. PICK x \in {"wait", "timedwait"} : worker' = [worker EXCEPT ![w] = x]
  BY DEF Sleep
<1>c. \A T : Count(worker', T) = Count(worker, T) - (IF worker[w] \in T THEN 1 ELSE 0)
                                                + (IF x \in T THEN 1 ELSE 0)
  BY <1>0, <1>1, WorkerUpdate, Zenon
<1>2. worker' \in [Worker -> States] /\ job' \in [Worker -> SUBSET Job]
  BY <1>0, <1>1 DEF Sleep, States, Idle
<1>3. CountersExact'
  <2>1. /\ pool_nthreads = Count(worker, Threads)
        /\ pool_active = {v \in Worker : worker[v] = "run"}
    BY <1>0, CountersAsCounts DEF PoolInv
  <2>2. Count(worker', Threads) = Count(worker, Threads)
    BY <1>c, CountType DEF Threads, States, Idle
  <2>3. Count(worker', Idle) = idle + 1
    BY <1>c, CountType DEF Idle
  <2>4. pool_active' = {v \in Worker : worker'[v] = "run"}
    BY <1>0, <1>1, <2>1 DEF Sleep
  <2> QED  BY <1>2, <2>1, <2>2, <2>3, <2>4, CountersAsCountsNext DEF Sleep
<1>4. AwakeEnough'  BY CountType DEF AwakeEnough, Sleep
<1> QED  BY <1>2, <1>3, <1>4 DEF NobodyBlocked

----------------------------------------------------------------------------
(***************************************************************************)
(* The invariant in two halves: what the workers and what the callers of   *)
(* the interface can disturb.                                              *)
(***************************************************************************)
WorkerSide == /\ worker \in [Worker -> States]
              /\ job \in [Worker -> SUBSET Job]
              /\ queue \in Seq(Job)
              /\ pool_nthreads <= pool_maximum
              /\ busycv \subseteq {"destroyer"}
              /\ CountersExact
              /\ AwakeEnough
              /\ NobodyBlocked
              /\ ThreadOrFailure

ClientSide == /\ POOL_WAIT \in BOOLEAN
              /\ POOL_DESTROY \in BOOLEAN
              /\ waiter \in {"out", "in", "returned"}
              /\ destroyer \in {"out", "draining", "joining", "freed"}
              /\ waitcv \subseteq {"waiter", "destroyer"}
              /\ done \subseteq Job
              /\ pool_linger \in Lingers
              /\ failed \in BOOLEAN
              /\ DestroyerKnown
              /\ FreedPoolUnused

\* The two halves are the invariant.
LEMMA Halves == PoolInv <=> WorkerSide /\ ClientSide
<1>1. PoolInv => WorkerSide /\ ClientSide
  BY DEF PoolInv, TypeOK, WorkerSide, ClientSide, States
<1>2. WorkerSide /\ ClientSide => PoolInv
  <2> SUFFICES ASSUME WorkerSide, ClientSide  PROVE PoolInv
    OBVIOUS
  <2>1. pool_nthreads \in Nat /\ pool_idle \in Nat /\ pool_active \subseteq Worker
    BY CountType, CountersAsCounts DEF WorkerSide
  <2>2. TypeOK
    BY <2>1, PoolAssumption DEF TypeOK, WorkerSide, ClientSide, States
  <2> QED  BY <2>2 DEF PoolInv, WorkerSide, ClientSide
<1> QED  BY <1>1, <1>2

\* A turn of the loop of worker_thread (thr_pool.c:94-158).
LEMMA TurnStep ==
    ASSUME PoolInv, NEW w, NEW active, NEW others, Holds(w, active, others),
           Turn(w, active, others), UNCHANGED <<POOL_DESTROY, failed>>
    PROVE  WorkerSide'
<1>0. /\ queue \in Seq(Job) /\ busycv \subseteq {"destroyer"}
      /\ pool_nthreads \in 0..pool_maximum /\ ThreadOrFailure
      /\ POOL_DESTROY \in BOOLEAN
  BY DEF PoolInv, TypeOK
<1>1. CASE POOL_DESTROY /\ Leave(w, active, others)
  <2>1. queue' \in Seq(Job) /\ busycv' \subseteq {"destroyer"} /\ ThreadOrFailure'
    BY <1>0, <1>1 DEF Leave, ThreadOrFailure
  <2>2. pool_nthreads' <= pool_maximum
    BY <1>0, <1>1, PoolAssumption DEF Leave
  <2> QED  BY <1>1, <2>1, <2>2, LeaveCounts DEF WorkerSide
<1>2. CASE ~POOL_DESTROY /\ queue # <<>> /\ Take(w, active, others)
  <2>1. /\ busycv' \subseteq {"destroyer"} /\ ThreadOrFailure'
        /\ pool_nthreads' <= pool_maximum
    BY <1>0, <1>2, PoolAssumption DEF Take, ThreadOrFailure
  <2> QED  BY <1>2, <2>1, TakeCounts DEF WorkerSide
<1>3. CASE ~POOL_DESTROY /\ queue = <<>> /\ NoLinger /\ Leave(w, active, others)
  <2>1. queue' \in Seq(Job) /\ busycv' \subseteq {"destroyer"} /\ ThreadOrFailure'
    BY <1>0, <1>3 DEF Leave, ThreadOrFailure
  <2>2. pool_nthreads' <= pool_maximum
    BY <1>0, <1>3, PoolAssumption DEF Leave
  <2> QED  BY <1>3, <2>1, <2>2, LeaveCounts DEF WorkerSide
<1>4. CASE ~POOL_DESTROY /\ queue = <<>> /\ ~NoLinger /\ Sleep(w, active, others + 1)
  <2>1. /\ queue' \in Seq(Job) /\ busycv' \subseteq {"destroyer"} /\ ThreadOrFailure'
        /\ pool_nthreads' <= pool_maximum
    BY <1>0, <1>4, PoolAssumption DEF Sleep, ThreadOrFailure
  <2> QED  BY <1>4, <2>1, SleepCounts DEF WorkerSide
<1> QED  BY <1>1, <1>2, <1>3, <1>4 DEF Turn

\* A thread holds the mutex, so the pool has not been freed.
LEMMA HolderKeepsPool ==
    ASSUME PoolInv, NEW w, NEW active, NEW others, Holds(w, active, others),
           UNCHANGED destroyer
    PROVE  FreedPoolUnused'
<1>1. w \notin NotThreads  BY DEF Holds, NotThreads
<1> QED  BY <1>1 DEF PoolInv, FreedPoolUnused, Holds

\* The callers' half through a step of a worker.
LEMMA WorkerKeepsClients ==
    ASSUME PoolInv, NEW w \in Worker, FreedPoolUnused',
           POOL_WAIT' \in BOOLEAN, waitcv' \subseteq waitcv,
           done' \in {done, done \cup job[w]}, failed' \in BOOLEAN,
           UNCHANGED <<POOL_DESTROY, clients, pool_linger>>
    PROVE  ClientSide'
<1>1. done' \subseteq Job  BY DEF PoolInv, TypeOK
<1>2. waitcv' \subseteq {"waiter", "destroyer"}  BY DEF PoolInv, TypeOK
<1> QED  BY <1>1, <1>2 DEF PoolInv, TypeOK, ClientSide, DestroyerKnown, clients

\* notify_waiters (thr_pool.c:45-52) only clears.
LEMMA NotifyTyped ==
    ASSUME PoolInv, NEW active, notify_waiters(active)
    PROVE  POOL_WAIT' \in BOOLEAN /\ waitcv' \subseteq waitcv
BY DEF notify_waiters, PoolInv, TypeOK

----------------------------------------------------------------------------
(***************************************************************************)
(* One lemma per action.                                                   *)
(***************************************************************************)
\* The two halves of the next state.
LEMMA HalvesNext == (WorkerSide /\ ClientSide)' => PoolInv'
BY Halves, PTL

\* The counters a worker starts from.
LEMMA Counters ==
    ASSUME PoolInv
    PROVE  /\ worker \in [Worker -> States]
           /\ pool_nthreads = Count(worker, Threads)
           /\ pool_idle = Count(worker, Idle)
           /\ pool_idle \in Nat
           /\ pool_active = {w \in Worker : worker[w] = "run"}
<1>1. worker \in [Worker -> States]  BY DEF PoolInv, TypeOK, States
<1> QED  BY <1>1, CountersAsCounts, CountType DEF PoolInv

\* worker_thread takes the mutex for the first time (thr_pool.c:89-123).
LEMMA StartsStep ==
    ASSUME PoolInv, NEW w \in Worker, WorkerStarts(w)
    PROVE  PoolInv'
<1>1. Holds(w, pool_active, pool_idle)
  BY Counters DEF WorkerStarts, Holds, Idle
<1>2. WorkerSide'  BY <1>1, TurnStep DEF WorkerStarts, created
<1>3. FreedPoolUnused'  BY <1>1, HolderKeepsPool DEF WorkerStarts, clients
<1>4. ClientSide'
  <2>1. POOL_WAIT' \in BOOLEAN /\ waitcv' \subseteq waitcv
    BY NotifyTyped DEF WorkerStarts
  <2> QED  BY <1>3, <2>1, WorkerKeepsClients
           DEF WorkerStarts, created, PoolInv, TypeOK
<1> QED  BY <1>2, <1>4, HalvesNext

\* A job returns (thr_pool.c:57-75, 140-148).
LEMMA ReturnsStep ==
    ASSUME PoolInv, NEW w \in Worker, JobReturns(w)
    PROVE  PoolInv'
<1>1. Holds(w, pool_active \ {w}, pool_idle)
  BY Counters DEF JobReturns, Holds, Idle
<1>2. WorkerSide'  BY <1>1, TurnStep DEF JobReturns, created
<1>3. FreedPoolUnused'  BY <1>1, HolderKeepsPool DEF JobReturns, clients
<1>4. ClientSide'
  <2>1. POOL_WAIT' \in BOOLEAN /\ waitcv' \subseteq waitcv
    BY NotifyTyped DEF JobReturns
  <2> QED  BY <1>3, <2>1, WorkerKeepsClients
           DEF JobReturns, created, PoolInv, TypeOK
<1> QED  BY <1>2, <1>4, HalvesNext

\* A signalled worker has the mutex again (thr_pool.c:108-126).
LEMMA WakesStep ==
    ASSUME PoolInv, NEW w \in Worker, WorkerWakes(w)
    PROVE  PoolInv'
<1>1. Holds(w, pool_active, pool_idle - 1)
  BY Counters DEF WorkerWakes, Holds, Idle
<1>2. WorkerSide'  BY <1>1, TurnStep DEF WorkerWakes, created
<1>3. FreedPoolUnused'  BY <1>1, HolderKeepsPool DEF WorkerWakes, clients
<1>4. ClientSide'
  BY <1>3, WorkerKeepsClients DEF WorkerWakes, created, PoolInv, TypeOK
<1> QED  BY <1>2, <1>4, HalvesNext

\* pthread_exit in a job (thr_pool.c:31-43, 57-75): a thread is lost while
\* jobs are queued only if its replacement could not be created.
LEMMA ExitsStep ==
    ASSUME PoolInv, NEW w \in Worker, JobExits(w)
    PROVE  PoolInv'
<1>0. /\ queue \in Seq(Job) /\ busycv \subseteq {"destroyer"}
      /\ pool_nthreads \in 0..pool_maximum /\ failed \in BOOLEAN
      /\ POOL_DESTROY \in BOOLEAN /\ ThreadOrFailure
      /\ job \in [Worker -> SUBSET Job]
  BY DEF PoolInv, TypeOK
<1>1. Holds(w, pool_active \ {w}, pool_idle)
  BY Counters DEF JobExits, Holds, Idle
<1>2. WorkerSide' /\ failed' \in BOOLEAN
  <2>1. CASE /\ ~Respawns \/ CreateFails
             /\ Leave(w, pool_active \ {w}, pool_idle)
             /\ failed' = (failed \/ Respawns)
    <3>1. worker[w] \notin Awake  BY DEF JobExits, Awake
    <3>2. UNCHANGED POOL_DESTROY  BY DEF JobExits
    <3>3. queue' \in Seq(Job) /\ busycv' \subseteq {"destroyer"}
      BY <1>0, <2>1 DEF Leave
    <3>4. pool_nthreads' <= pool_maximum
      BY <1>0, <2>1, PoolAssumption DEF Leave
    <3>5. ThreadOrFailure'
      <4>1. queue # <<>> /\ ~POOL_DESTROY => Respawns
        BY <1>0, PoolAssumption DEF Respawns
      <4> QED  BY <2>1, <3>2, <4>1 DEF ThreadOrFailure, Leave
    <3> QED  BY <1>0, <1>1, <2>1, <3>1, <3>2, <3>3, <3>4, <3>5, LeaveCounts
             DEF WorkerSide
  <2>2. CASE /\ Respawns
             /\ worker' = [worker EXCEPT ![w] = "new"]
             /\ job' = [job EXCEPT ![w] = {}]
             /\ pool_active' = pool_active \ {w}
             /\ UNCHANGED <<queue, counters, busycv, failed>>
    <3>0. worker[w] = "run"  BY DEF JobExits
    <3>1. worker' \in [Worker -> States] /\ job' \in [Worker -> SUBSET Job]
      BY <1>0, <2>2, Counters DEF States
    <3>2. \A T : Count(worker', T) = Count(worker, T)
                     - (IF worker[w] \in T THEN 1 ELSE 0)
                     + (IF "new" \in T THEN 1 ELSE 0)
      BY <2>2, Counters, WorkerUpdate
    <3>3. CountersExact'
      <4>1. Count(worker', Threads) = Count(worker, Threads)
        BY <3>0, <3>2, CountType DEF Threads, States, Idle
      <4>2. Count(worker', Idle) = Count(worker, Idle)
        BY <3>0, <3>2, CountType DEF Idle
      <4>3. pool_active' = {v \in Worker : worker'[v] = "run"}
        BY <2>2, Counters
      <4> QED
        BY <2>2, <3>1, <4>1, <4>2, <4>3, Counters, CountersAsCountsNext
        DEF counters
    <3>4. Blocked' \subseteq Blocked  BY <2>2, Counters DEF Blocked
    <3>5. AwakeEnough'
      <4>1. Count(worker', Awake) >= Count(worker, Awake)
        BY <3>0, <3>2, CountType DEF Awake
      <4>2. Len(queue) \in Nat  BY <1>0
      <4> QED  BY <2>2, <3>4, <4>1, <4>2, CountType DEF AwakeEnough, PoolInv
    <3>6. NobodyBlocked' /\ ThreadOrFailure'
      BY <2>2, <3>4
      DEF NobodyBlocked, ThreadOrFailure, PoolInv, JobExits, counters
    <3> QED  BY <1>0, <2>2, <3>1, <3>3, <3>5, <3>6 DEF WorkerSide, counters
  <2> QED  BY <2>1, <2>2 DEF JobExits
<1>3. FreedPoolUnused'  BY <1>1, HolderKeepsPool DEF JobExits, clients
<1>4. ClientSide'
  <2>1. POOL_WAIT' \in BOOLEAN /\ waitcv' \subseteq waitcv
    BY NotifyTyped DEF JobExits
  <2> QED  BY <1>2, <1>3, <2>1, WorkerKeepsClients DEF JobExits
<1> QED  BY <1>2, <1>4, HalvesNext

\* A timeout (thr_pool.c:116-124, 150-157): the worker leaves only if the
\* queue is empty, and goes back to sleep only then.
LEMMA TimesOutStep ==
    ASSUME PoolInv, NEW w \in Worker, WorkerTimesOut(w)
    PROVE  PoolInv'
<1>0. /\ queue \in Seq(Job) /\ busycv \subseteq {"destroyer"}
      /\ pool_nthreads \in 0..pool_maximum /\ ThreadOrFailure
      /\ POOL_WAIT \in BOOLEAN
  BY DEF PoolInv, TypeOK
<1>1. Holds(w, pool_active, pool_idle - 1)
  BY Counters DEF WorkerTimesOut, Holds, Idle
<1>2. UNCHANGED <<POOL_DESTROY, clients, done, created>>
  BY DEF WorkerTimesOut
<1>3. WorkerSide' /\ POOL_WAIT' \in BOOLEAN /\ waitcv' \subseteq waitcv
  <2>1. CASE /\ POOL_DESTROY \/ (queue = <<>> /\ pool_nthreads > pool_minimum)
             /\ Leave(w, pool_active, pool_idle - 1)
             /\ UNCHANGED <<POOL_WAIT, waitcv>>
    <3>1. /\ queue' \in Seq(Job) /\ busycv' \subseteq {"destroyer"}
          /\ ThreadOrFailure'
      BY <1>0, <1>2, <2>1 DEF Leave, ThreadOrFailure
    <3>2. pool_nthreads' <= pool_maximum
      BY <1>0, <2>1, PoolAssumption DEF Leave
    <3> QED  BY <1>0, <1>1, <1>2, <2>1, <3>1, <3>2, LeaveCounts DEF WorkerSide
  <2>2. CASE /\ ~POOL_DESTROY /\ queue # <<>>
             /\ Take(w, pool_active, pool_idle - 1)
             /\ UNCHANGED <<POOL_WAIT, waitcv>>
    <3>1. /\ busycv' \subseteq {"destroyer"} /\ ThreadOrFailure'
          /\ pool_nthreads' <= pool_maximum
      BY <1>0, <1>2, <2>2, PoolAssumption DEF Take, ThreadOrFailure, created
    <3> QED  BY <1>0, <1>1, <1>2, <2>2, <3>1, TakeCounts DEF WorkerSide
  <2>3. CASE /\ ~POOL_DESTROY /\ queue = <<>> /\ pool_nthreads <= pool_minimum
             /\ Sleep(w, pool_active, pool_idle)
             /\ notify_waiters(pool_active)
    <3>1. /\ busycv' \subseteq {"destroyer"} /\ ThreadOrFailure'
          /\ pool_nthreads' <= pool_maximum /\ queue' \in Seq(Job)
      BY <1>0, <1>2, <2>3, PoolAssumption DEF Sleep, ThreadOrFailure
    <3>2. Sleep(w, pool_active, (pool_idle - 1) + 1)  BY <2>3, Counters
    <3> QED  BY <1>1, <1>2, <2>3, <3>1, <3>2, SleepCounts, NotifyTyped
             DEF WorkerSide
  <2> QED  BY <2>1, <2>2, <2>3 DEF WorkerTimesOut
<1>4. FreedPoolUnused'  BY <1>1, <1>2, HolderKeepsPool DEF clients
<1>5. ClientSide'
  BY <1>2, <1>3, <1>4, WorkerKeepsClients DEF created, PoolInv, TypeOK
<1> QED  BY <1>3, <1>5, HalvesNext

\* Waking one blocked worker, by a signal, a timeout or for no reason: the
\* counters stay, and one more worker is awake.
LEMMA WakeOne ==
    ASSUME PoolInv, NEW w \in Blocked, NEW x \in {"woken", "timedout"},
           worker' = [worker EXCEPT ![w] = x]
    PROVE  /\ worker' \in [Worker -> States]
           /\ Count(worker', Threads) = Count(worker, Threads)
           /\ Count(worker', Idle) = Count(worker, Idle)
           /\ Count(worker', Awake) = Count(worker, Awake) + 1
           /\ {v \in Worker : worker'[v] = "run"} = {v \in Worker : worker[v] = "run"}
           /\ Blocked' \subseteq Blocked
           /\ NotThreads' = NotThreads
<1>0. w \in Worker /\ worker[w] \in {"wait", "timedwait"}  BY DEF Blocked
<1>1. \A T : Count(worker', T) = Count(worker, T)
                 - (IF worker[w] \in T THEN 1 ELSE 0)
                 + (IF x \in T THEN 1 ELSE 0)
  BY <1>0, Counters, WorkerUpdate
<1>2. worker' \in [Worker -> States]  BY <1>0, Counters DEF States, Idle
<1>a. /\ worker[w] \in Threads /\ x \in Threads
      /\ worker[w] \in Idle /\ x \in Idle
      /\ worker[w] \notin Awake /\ x \in Awake
  BY <1>0 DEF Threads, States, Idle, Awake
<1>b. ASSUME NEW T
      PROVE  /\ worker[w] \in T /\ x \in T => Count(worker', T) = Count(worker, T)
             /\ worker[w] \notin T /\ x \in T => Count(worker', T) = Count(worker, T) + 1
  <2>1. Count(worker', T) = Count(worker, T) - (IF worker[w] \in T THEN 1 ELSE 0)
                                             + (IF x \in T THEN 1 ELSE 0)
    BY <1>1, Zenon
  <2>2. Count(worker, T) \in Nat  BY CountType
  <2> QED  BY <2>1, <2>2
<1>3. Count(worker', Threads) = Count(worker, Threads)
  BY <1>a, <1>b
<1>4. Count(worker', Idle) = Count(worker, Idle)
  BY <1>a, <1>b
<1>5. Count(worker', Awake) = Count(worker, Awake) + 1
  BY <1>a, <1>b
<1>6. /\ {v \in Worker : worker'[v] = "run"} = {v \in Worker : worker[v] = "run"}
      /\ Blocked' \subseteq Blocked
      /\ NotThreads' = NotThreads
  BY <1>0, Counters DEF Blocked, NotThreads
<1> QED  BY <1>2, <1>3, <1>4, <1>5, <1>6

\* The linger time ends, or a wait returns without a signal.
LEMMA UnblocksStep ==
    ASSUME PoolInv, NEW w \in Worker, Unblocks(w)
    PROVE  PoolInv'
<1>1. PICK x \in {"woken", "timedout"} :
          w \in Blocked /\ worker' = [worker EXCEPT ![w] = x]
  BY DEF Unblocks, Blocked
<1>2. WorkerSide'
  <2>0. /\ worker' \in [Worker -> States] /\ Blocked' \subseteq Blocked
        /\ Count(worker', Awake) = Count(worker, Awake) + 1
    BY <1>1, WakeOne
  <2>1. CountersExact'
    BY <1>1, WakeOne, Counters, CountersAsCountsNext DEF Unblocks, counters
  <2>2. AwakeEnough'
    <3>1. Len(queue) \in Nat  BY DEF PoolInv, TypeOK
    <3> QED  BY <2>0, <3>1, CountType DEF AwakeEnough, PoolInv, Unblocks
  <2>3. NobodyBlocked' /\ ThreadOrFailure'
    BY <1>1, WakeOne DEF NobodyBlocked, ThreadOrFailure, PoolInv, Unblocks,
       counters, created
  <2> QED  BY <2>0, <2>1, <2>2, <2>3, PoolAssumption
           DEF WorkerSide, Unblocks, PoolInv, TypeOK, counters
<1>3. FreedPoolUnused'
  BY <1>1, WakeOne DEF FreedPoolUnused, PoolInv, Unblocks, clients
<1>4. ClientSide'
  BY <1>3, WorkerKeepsClients DEF Unblocks, created, PoolInv, TypeOK
<1> QED  BY <1>2, <1>4, HalvesNext

\* thr_pool_queue (thr_pool.c:256-284): the signal wakes a worker for the new
\* job if one is blocked; with no idle worker none is, and a thread is created
\* if there may be one more.
LEMMA QueueStep ==
    ASSUME PoolInv, NEW j \in Job, thr_pool_queue(j)
    PROVE  PoolInv'
<1>0. /\ queue \in Seq(Job) /\ busycv \subseteq {"destroyer"}
      /\ pool_nthreads \in 0..pool_maximum /\ failed \in BOOLEAN
      /\ ~POOL_DESTROY /\ ~POOL_DESTROY' /\ destroyer = "out"
      /\ job \in [Worker -> SUBSET Job]
  BY DEF PoolInv, TypeOK, thr_pool_queue, DestroyerKnown
<1>1. /\ queue' \in Seq(Job) /\ Len(queue') = Len(queue) + 1
      /\ Len(queue) \in Nat
  BY <1>0 DEF thr_pool_queue
<1>2. NobodyBlocked' /\ FreedPoolUnused'
  BY <1>0 DEF NobodyBlocked, FreedPoolUnused, thr_pool_queue, clients
<1>3. /\ worker' \in [Worker -> States] /\ pool_nthreads' <= pool_maximum
      /\ CountersExact' /\ AwakeEnough' /\ ThreadOrFailure'
      /\ failed' \in BOOLEAN
  <2>1. CASE pool_idle > 0 /\ Signal /\ UNCHANGED <<pool_nthreads, failed>>
    <3>1. pool_nthreads > 0
      <4>1. Idle \subseteq Threads  BY DEF Threads, States, Idle
      <4> QED  BY <2>1, <4>1, Counters, CountMonotone, CountType
    <3>2. ThreadOrFailure'  BY <2>1, <3>1 DEF ThreadOrFailure
    <3>3. CASE Blocked = {} /\ UNCHANGED worker
      BY <1>0, <2>1, <3>2, <3>3, Counters, CountersAsCountsNext, PoolAssumption
      DEF AwakeEnough, Blocked, thr_pool_queue
    <3>4. CASE \E w \in Blocked : worker' = [worker EXCEPT ![w] = "woken"]
      <4>1. PICK w \in Blocked : worker' = [worker EXCEPT ![w] = "woken"]
        BY <3>4
      <4>2. /\ worker' \in [Worker -> States]
            /\ Count(worker', Threads) = Count(worker, Threads)
            /\ Count(worker', Idle) = Count(worker, Idle)
            /\ Count(worker', Awake) = Count(worker, Awake) + 1
            /\ {v \in Worker : worker'[v] = "run"}
                   = {v \in Worker : worker[v] = "run"}
        BY <4>1, WakeOne
      <4>3. CountersExact'
        BY <2>1, <4>2, Counters, CountersAsCountsNext DEF thr_pool_queue
      <4>4. Len(queue) <= Count(worker, Awake)
        BY <4>1 DEF AwakeEnough, PoolInv
      <4>5. AwakeEnough'
        BY <1>1, <4>2, <4>4, CountType DEF AwakeEnough
      <4> QED  BY <1>0, <2>1, <3>2, <4>2, <4>3, <4>5, PoolAssumption
    <3> QED  BY <2>1, <3>3, <3>4 DEF Signal
  <2>2. CASE pool_idle = 0
    <3>1. Blocked = {}
      <4>1. \A w \in Worker : worker[w] \notin Idle
        BY <2>2, Counters, CountZero
      <4> QED  BY <4>1 DEF Blocked, Idle
    <3>2. CASE pool_nthreads < pool_maximum /\ create_worker
      <4>1. CASE /\ \E w \in NotThreads : worker' = [worker EXCEPT ![w] = "new"]
                 /\ pool_nthreads' = pool_nthreads + 1
                 /\ UNCHANGED failed
        <5>1. PICK w \in NotThreads : worker' = [worker EXCEPT ![w] = "new"]
          BY <4>1
        <5>2. w \in Worker /\ worker[w] = "none"  BY DEF NotThreads
        <5>3. \A T : Count(worker', T) = Count(worker, T)
                         - (IF worker[w] \in T THEN 1 ELSE 0)
                         + (IF "new" \in T THEN 1 ELSE 0)
          BY <5>1, <5>2, Counters, WorkerUpdate
        <5>4. worker' \in [Worker -> States]
          BY <5>1, <5>2, Counters DEF States
        <5>5. Count(worker', Threads) = Count(worker, Threads) + 1
          BY <5>2, <5>3, CountType DEF Threads, States, Idle
        <5>6. Count(worker', Idle) = Count(worker, Idle)
          BY <5>2, <5>3, CountType DEF Idle
        <5>7. {v \in Worker : worker'[v] = "run"}
                  = {v \in Worker : worker[v] = "run"}
          BY <5>1, <5>2, Counters
        <5>8. CountersExact'
          BY <4>1, <5>4, <5>5, <5>6, <5>7, Counters, CountersAsCountsNext
          DEF thr_pool_queue
        <5>9. AwakeEnough'
          <6>1. Blocked' = {}  BY <3>1, <5>1, <5>2, Counters DEF Blocked
          <6> QED  BY <6>1 DEF AwakeEnough
        <5> QED  BY <1>0, <3>2, <4>1, <5>4, <5>8, <5>9, PoolAssumption
                 DEF ThreadOrFailure
      <4>2. CASE CreateFails /\ failed' = TRUE /\ UNCHANGED <<worker, pool_nthreads>>
        BY <1>0, <3>1, <4>2, Counters, CountersAsCountsNext, PoolAssumption
        DEF AwakeEnough, Blocked, ThreadOrFailure, thr_pool_queue
      <4> QED  BY <3>2, <4>1, <4>2 DEF create_worker
    <3>3. CASE /\ pool_nthreads >= pool_maximum
               /\ UNCHANGED <<worker, pool_nthreads, failed>>
      BY <1>0, <3>1, <3>3, Counters, CountersAsCountsNext, PoolAssumption
      DEF AwakeEnough, Blocked, ThreadOrFailure, thr_pool_queue
    <3> QED  BY <2>2, <3>2, <3>3 DEF thr_pool_queue
  <2> QED  BY <2>1, <2>2 DEF thr_pool_queue
<1>4. WorkerSide'
  BY <1>0, <1>1, <1>2, <1>3 DEF WorkerSide, thr_pool_queue
<1>5. ClientSide'
  BY <1>2, <1>3
  DEF ClientSide, PoolInv, TypeOK, DestroyerKnown, thr_pool_queue, clients
<1> QED  BY <1>4, <1>5, HalvesNext

\* thr_pool_wait (thr_pool.c:287-296) touches no thread.
LEMMA WaitStep ==
    ASSUME PoolInv, thr_pool_wait
    PROVE  PoolInv'
BY DEF PoolInv, TypeOK, CountersExact, FreedPoolUnused, AwakeEnough,
       ThreadOrFailure, NobodyBlocked, DestroyerKnown, Blocked, NotThreads,
       Count, thr_pool_wait, counters, created

\* DrainOrJoin frees the pool only when the last thread has left it
\* (thr_pool.c:317-325).
LEMMA DrainOrJoinFrees ==
    ASSUME PoolInv, DrainOrJoin \/ Join
    PROVE  /\ POOL_WAIT' \in BOOLEAN
           /\ destroyer' \in {"draining", "joining", "freed"}
           /\ waitcv' \subseteq {"waiter", "destroyer"}
           /\ busycv' \subseteq {"destroyer"}
           /\ destroyer' = "freed" => \A w \in Worker : worker[w] = "none"
<1>1. pool_nthreads = 0 => \A w \in Worker : worker[w] = "none"
  BY Counters, CountZero DEF Threads
<1> QED  BY <1>1 DEF DrainOrJoin, Drain, Join, PoolInv, TypeOK

\* The broadcast (thr_pool.c:309) wakes every worker that waits.
LEMMA DestroyStep ==
    ASSUME PoolInv, thr_pool_destroy
    PROVE  PoolInv'
<1>0. worker \in [Worker -> States]  BY Counters
<1>1. worker' = [w \in Worker |-> IF w \in Blocked THEN "woken" ELSE worker[w]]
  BY DEF thr_pool_destroy
<1>2. worker' \in [Worker -> States]  BY <1>0, <1>1 DEF States, Idle
<1>3. /\ NotThreads' = NotThreads /\ Blocked' = {}
      /\ {w \in Worker : worker'[w] \in Idle} = {w \in Worker : worker[w] \in Idle}
      /\ {w \in Worker : worker'[w] = "run"} = {w \in Worker : worker[w] = "run"}
  BY <1>0, <1>1 DEF NotThreads, Blocked, Idle, States
<1>4. CountersExact'
  BY <1>3 DEF CountersExact, PoolInv, thr_pool_destroy, counters
<1>5. FreedPoolUnused'
  BY <1>3, DrainOrJoinFrees
  DEF FreedPoolUnused, thr_pool_destroy, NotThreads
<1>6. WorkerSide'
  BY <1>2, <1>3, <1>4, DrainOrJoinFrees, PoolAssumption
  DEF WorkerSide, AwakeEnough, NobodyBlocked, ThreadOrFailure,
      thr_pool_destroy, PoolInv, TypeOK, counters
<1>7. ClientSide'
  BY <1>5, DrainOrJoinFrees
  DEF ClientSide, DestroyerKnown, thr_pool_destroy, PoolInv, TypeOK, created
<1> QED  BY <1>6, <1>7, HalvesNext

\* thr_pool_destroy goes on after a wait.
LEMMA DestroyWakesStep ==
    ASSUME PoolInv, DestroyWakes
    PROVE  PoolInv'
<1>0. DrainOrJoin \/ Join  BY DEF DestroyWakes
<1>1. POOL_DESTROY
  BY DEF DestroyWakes, PoolInv, DestroyerKnown
<1>2. FreedPoolUnused'
  BY <1>0, DrainOrJoinFrees DEF FreedPoolUnused, NotThreads, DestroyWakes
<1>3. WorkerSide'
  BY <1>0, DrainOrJoinFrees, Counters, CountersAsCountsNext, PoolAssumption
  DEF WorkerSide, AwakeEnough, NobodyBlocked, ThreadOrFailure, Blocked,
      DestroyWakes, PoolInv, TypeOK, counters, created
<1>4. ClientSide'
  BY <1>0, <1>1, <1>2, DrainOrJoinFrees
  DEF ClientSide, DestroyerKnown, DestroyWakes, PoolInv, TypeOK, created
<1> QED  BY <1>3, <1>4, HalvesNext

----------------------------------------------------------------------------
\* The empty pool.
LEMMA PoolInit == Init => PoolInv
<1> SUFFICES ASSUME Init  PROVE PoolInv
  OBVIOUS
<1>1. worker \in [Worker -> States] /\ \A w \in Worker : worker[w] = "none"
  BY DEF Init, States
<1>2. Count(worker, Threads) = 0 /\ Count(worker, Idle) = 0
  <2>1. \A w \in Worker : worker[w] \notin Threads  BY <1>1 DEF Threads
  <2>2. \A w \in Worker : worker[w] \notin Idle  BY <1>1 DEF Idle
  <2> QED  BY <2>1, <2>2, CountZero
<1>3. CountersExact  BY <1>1, <1>2, CountersAsCounts DEF Init
<1>4. WorkerSide
  BY <1>1, <1>3, PoolAssumption
  DEF WorkerSide, Init, AwakeEnough, NobodyBlocked, ThreadOrFailure, Blocked
<1>5. ClientSide
  BY DEF ClientSide, Init, DestroyerKnown, FreedPoolUnused
<1> QED  BY <1>4, <1>5, Halves

\* Every step preserves the invariant.
LEMMA PoolStep == PoolInv /\ [Next]_vars => PoolInv'
<1> SUFFICES ASSUME PoolInv, [Next]_vars  PROVE PoolInv'
  OBVIOUS
<1>1. ASSUME NEW w \in Worker, \/ WorkerStarts(w) \/ JobReturns(w) \/ JobExits(w)
                               \/ WorkerWakes(w) \/ WorkerTimesOut(w) \/ Unblocks(w)
      PROVE PoolInv'
  BY <1>1, StartsStep, ReturnsStep, ExitsStep, WakesStep, TimesOutStep,
     UnblocksStep
<1>2. ASSUME NEW j \in Job, thr_pool_queue(j)  PROVE PoolInv'
  BY <1>2, QueueStep
<1>3. CASE thr_pool_wait  BY <1>3, WaitStep
<1>4. CASE thr_pool_destroy  BY <1>4, DestroyStep
<1>5. CASE DestroyWakes  BY <1>5, DestroyWakesStep
<1>6. CASE UNCHANGED vars
  BY <1>6 DEF PoolInv, TypeOK, CountersExact, FreedPoolUnused, AwakeEnough,
              ThreadOrFailure, NobodyBlocked, DestroyerKnown, Blocked,
              NotThreads, Count, vars, counters, clients, created
<1> QED  BY <1>1, <1>2, <1>3, <1>4, <1>5, <1>6 DEF Next

\* PoolInv is an invariant of the pool.
THEOREM PoolInvariant == Spec => []PoolInv
BY PoolInit, PoolStep, PTL DEF Spec

\* Every variable of the pool has its type; pool_nthreads stays within
\* pool_maximum and no counter becomes negative (thr_pool.c:33, 40, 105, 124, 280).
THEOREM PoolTyped == Spec => []TypeOK
<1>1. PoolInv => TypeOK  BY DEF PoolInv
<1> QED  BY <1>1, PoolInvariant, PTL

\* Whenever the mutex is free pool_nthreads, pool_idle and pool_active are
\* exact (thr_pool.c:33, 40, 105, 124, 280), for any number of threads.
THEOREM PoolCountersExact == Spec => []CountersExact
<1>1. PoolInv => CountersExact  BY DEF PoolInv
<1> QED  BY <1>1, PoolInvariant, PTL

\* thr_pool_destroy frees the pool only after the last thread has left it
\* (thr_pool.c:323-325).
THEOREM PoolFreedUnused == Spec => []FreedPoolUnused
<1>1. PoolInv => FreedPoolUnused  BY DEF PoolInv
<1> QED  BY <1>1, PoolInvariant, PTL

\* No queued job is left to workers that all sleep (thr_pool.c:150-157,
\* 276-280), for any number of threads and jobs.
THEOREM PoolNoStrandedJob == Spec => []NoStrandedJob
<1>1. PoolInv => NoStrandedJob
  <2> SUFFICES ASSUME PoolInv, queue # <<>>, ~POOL_DESTROY, ~NoThreadLeft
               PROVE  \E w \in Worker :
                          worker[w] \in {"new", "run", "woken", "timedout"}
    BY DEF NoStrandedJob
  <2>1. CASE Blocked = {}
    <3>1. pool_nthreads # 0
      BY DEF NoThreadLeft, PoolInv, ThreadOrFailure
    <3>2. PICK w \in Worker : worker[w] \in Threads
      BY <3>1, Counters, CountZero
    <3> QED  BY <2>1, <3>2 DEF Blocked, Threads, States, Idle
  <2>2. CASE Blocked # {}
    <3>1. Len(queue) \in Nat \ {0}  BY DEF PoolInv, TypeOK
    <3>2. Count(worker, Awake) # 0
      BY <2>2, <3>1, CountType DEF PoolInv, AwakeEnough
    <3>3. PICK w \in Worker : worker[w] \in Awake  BY <3>2, CountZero
    <3> QED  BY <3>3 DEF Awake
  <2> QED  BY <2>1, <2>2
<1> QED  BY <1>1, PoolInvariant, PTL

=============================================================================

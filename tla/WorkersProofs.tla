---------------------------- MODULE WorkersProofs ----------------------------
(***************************************************************************)
(* Theorems about what the processes of a server do on their own.          *)
(* MemoryJobQueue: for every set of processes and jobs, every number of    *)
(* permits and attempts, and every bound on faults and stops.  Leader: for *)
(* every set of processes, all intervals and any number of lost sessions,  *)
(* failed calls and stops.                                                 *)
(***************************************************************************)
EXTENDS Leader, MemoryJobQueue, FiniteSetTheorems, TLAPS

Types ==
    /\ pc \in [Procs -> Locations]
    /\ shutdown \in [Procs -> BOOLEAN]
    /\ permits \in [Procs -> Int]
    /\ tasks \in [Procs -> SUBSET Tasks]
    /\ fate \in [Jobs -> Fates]
    /\ submitted \subseteq Jobs
    /\ sequence \in Nat
    /\ heap \subseteq [job: Jobs, attempt: Nat, seq: Nat]
    /\ sleeping \subseteq [job: Jobs, attempt: Nat]

(* What waits, in the heap or for the end of a sleep.                      *)
Waiting == heap \cup sleeping

(* A submitted job is in the heap, sleeps or runs, and in one copy only.   *)
SingleCopy ==
    /\ heap \cap sleeping = {}
    /\ \A e, f \in Waiting : e.job = f.job => e = f
    /\ \A p, q \in Procs : \A t \in tasks[p] : \A u \in tasks[q] :
          t.job = u.job => p = q /\ t = u
    /\ \A p \in Procs : \A t \in tasks[p] : \A e \in Waiting : t.job # e.job

(* A copy is of a job that enqueue was called for.                         *)
Enqueued ==
    /\ \A e \in Waiting : e.job \in submitted
    /\ \A p \in Procs : \A t \in tasks[p] : t.job \in submitted

(* The members of the heap carry different numbers that were drawn.        *)
Numbered ==
    /\ \A e \in heap : e.seq =< sequence
    /\ \A e, f \in heap : e.seq = f.seq => e = f

(* Who is in enqueue_retry has an attempt left.                            *)
RetryHasAttempts ==
    \A p \in Procs : \A t \in tasks[p] :
       t.st # "run" => t.attempt + 1 < MaxAttempts[t.job]

IInv == Types /\ SingleCopy /\ Enqueued /\ Numbered /\ RetryHasAttempts

USE PriorityAssumption, MaxAttemptsAssumption, MaxConcurrentAssumption, BoundsAssumption

-----------------------------------------------------------------------------
(* Copies only disappear.                                                  *)
LEMMA FewerCopies ==
    ASSUME IInv, Types',
           \A q \in Procs : tasks'[q] \subseteq tasks[q],
           heap' \subseteq heap, sleeping' \subseteq sleeping, submitted' = submitted,
           sequence' = sequence \/ heap' = {}
    PROVE  IInv'
<1>1. SingleCopy'
  BY DEF IInv, SingleCopy, Waiting
<1>2. Enqueued'
  BY DEF IInv, Enqueued, Waiting
<1>3. Numbered'
  BY DEF IInv, Numbered
<1>4. RetryHasAttempts'
  BY DEF IInv, RetryHasAttempts
<1> QED
  BY <1>1, <1>2, <1>3, <1>4 DEF IInv

(* A job that has no other copy is pushed on the heap.                     *)
LEMMA PushIInv ==
    ASSUME IInv, NEW j \in Jobs, NEW a \in Nat, PushJob(j, a),
           UNCHANGED engineVars, sleeping' \subseteq sleeping,
           submitted' = submitted \cup {j},
           \A f \in heap \cup sleeping' : f.job # j,
           \A q \in Procs : \A t \in tasks[q] : t.job # j
    PROVE  IInv'
<1>1. PICK e : e = [job |-> j, attempt |-> a, seq |-> sequence + 1]
  OBVIOUS
<1>2. /\ e \in [job: Jobs, attempt: Nat, seq: Nat] /\ e.job = j /\ e.seq = sequence + 1
      /\ heap' = heap \cup {e} /\ sequence' = sequence + 1 /\ tasks' = tasks
  BY <1>1 DEF PushJob, engineVars, IInv, Types
<1>3. Types'
  BY <1>2 DEF IInv, Types, engineVars
<1>4. SingleCopy'
  <2>1. e \notin heap /\ e \notin sleeping'
    BY <1>2
  <2> QED
    BY <1>2, <2>1 DEF IInv, SingleCopy, Waiting
<1>5. Enqueued'
  BY <1>2 DEF IInv, Enqueued, Waiting
<1>6. Numbered'
  <2>1. \A f \in heap : f.seq \in Nat /\ f.seq =< sequence /\ f.seq # sequence + 1
    BY DEF IInv, Numbered, Types
  <2>2. sequence \in Nat /\ \A e1, e2 \in heap : e1.seq = e2.seq => e1 = e2
    BY DEF IInv, Numbered, Types
  <2> QED
    BY <1>2, <2>1, <2>2 DEF Numbered
<1>7. RetryHasAttempts'
  BY <1>2 DEF IInv, RetryHasAttempts
<1> QED
  BY <1>3, <1>4, <1>5, <1>6, <1>7 DEF IInv

(* A future t of p becomes u, which is of the same job.                    *)
LEMMA ReplaceTask ==
    ASSUME IInv, NEW p \in Procs, NEW t \in tasks[p], NEW u \in Tasks, u.job = t.job,
           u.st # "run" => u.attempt + 1 < MaxAttempts[u.job],
           tasks' = [tasks EXCEPT ![p] = (@ \ {t}) \cup {u}],
           UNCHANGED <<pc, shutdown, permits, fate, queueVars>>
    PROVE  IInv'
<1>1. \A q \in Procs : \A x \in tasks'[q] :
         \/ x \in tasks[q] /\ (q = p => x # t)
         \/ q = p /\ x = u
  BY DEF IInv, Types
<1>2. \A q \in Procs : \A x \in tasks[q] : x.job = t.job => q = p /\ x = t
  BY DEF IInv, SingleCopy
<1>3. Types'
  BY DEF IInv, Types, queueVars
<1>4. SingleCopy'
  <2>1. (heap \cap sleeping = {} /\ \A e, f \in Waiting : e.job = f.job => e = f)'
    BY DEF IInv, SingleCopy, Waiting, queueVars
  <2>2. ASSUME NEW q \in Procs, NEW r \in Procs, NEW x \in tasks'[q], NEW y \in tasks'[r],
               x.job = y.job
        PROVE  q = r /\ x = y
    BY <1>1, <1>2, <2>2 DEF IInv, SingleCopy
  <2>3. ASSUME NEW q \in Procs, NEW x \in tasks'[q], NEW e \in Waiting'
        PROVE  x.job # e.job
    BY <1>1, <2>3 DEF IInv, SingleCopy, Waiting, queueVars
  <2> QED
    BY <2>1, <2>2, <2>3 DEF SingleCopy
<1>5. Enqueued'
  BY <1>1 DEF IInv, Enqueued, Waiting, queueVars
<1>6. Numbered'
  BY DEF IInv, Numbered, queueVars
<1>7. RetryHasAttempts'
  BY <1>1 DEF IInv, RetryHasAttempts
<1> QED
  BY <1>3, <1>4, <1>5, <1>6, <1>7 DEF IInv

-----------------------------------------------------------------------------
LEMMA InitIInv == Init => IInv
<1> SUFFICES ASSUME Init PROVE IInv
  OBVIOUS
<1>1. Types
  BY DEF Init, EngineInit, Types, Locations, Fates
<1>2. heap = {} /\ sleeping = {} /\ \A p \in Procs : tasks[p] = {}
  BY DEF Init, EngineInit
<1> QED
  BY <1>1, <1>2 DEF IInv, SingleCopy, Enqueued, Numbered, RetryHasAttempts, Waiting

LEMMA EngineIInv ==
    ASSUME IInv, NEW p \in Procs, EngineStep(p)
    PROVE  IInv'
<1>0. UNCHANGED queueVars
  BY DEF EngineStep
<1>1. CASE AcquirePermit(p) \/ StopAcquiring(p) \/ Drained(p) \/ RequestShutdown(p)
  <2>1. CASE AcquirePermit(p)
    BY <1>0, <2>1, FewerCopies DEF AcquirePermit, Locations, InDequeue, IInv, Types, queueVars
  <2>2. CASE StopAcquiring(p)
    BY <1>0, <2>2, FewerCopies DEF StopAcquiring, Locations, IInv, Types, queueVars
  <2>3. CASE Drained(p)
    BY <1>0, <2>3, FewerCopies DEF Drained, Locations, IInv, Types, queueVars
  <2>4. CASE RequestShutdown(p)
    BY <1>0, <2>4, FewerCopies DEF RequestShutdown, IInv, Types, queueVars
  <2> QED
    BY <1>1, <2>1, <2>2, <2>3, <2>4
<1>2. ASSUME NEW t \in tasks[p], HandlerOk(p, t) \/ HandlerDiscard(p, t) \/ HandlerPanic(p, t)
      PROVE  IInv'
  <2>1. Types' /\ \A q \in Procs : tasks'[q] \subseteq tasks[q]
    BY <1>0, <1>2 DEF HandlerOk, HandlerDiscard, HandlerPanic, EndTask, Fates, IInv, Types, queueVars
  <2> QED
    BY <1>0, <2>1, FewerCopies DEF queueVars
<1>3. ASSUME NEW t \in tasks[p], HandlerTransient(p, t)
      PROVE  IInv'
  <2>1. PICK u : u = [t EXCEPT !.st = "retry"]
    OBVIOUS
  <2>2. u \in Tasks /\ u.job = t.job /\ u.attempt = t.attempt
    BY <2>1 DEF IInv, Types, Tasks
  <2>3. /\ tasks' = [tasks EXCEPT ![p] = (@ \ {t}) \cup {u}]
        /\ t.attempt + 1 < MaxAttempts[t.job]
        /\ UNCHANGED <<pc, shutdown, permits, fate, queueVars>>
    BY <1>0, <1>3, <2>1 DEF HandlerTransient, MayRetry
  <2> QED
    BY <2>2, <2>3, ReplaceTask
<1> QED
  BY <1>1, <1>2, <1>3 DEF EngineStep

LEMMA DequeueIInv ==
    ASSUME IInv, NEW p \in Procs, Dequeue(p)
    PROVE  IInv'
<1>1. CASE FindEmpty(p) \/ Notified(p) \/ Cancelled(p)
  <2>1. Types' /\ tasks' = tasks /\ heap' = heap /\ sleeping' = sleeping
        /\ submitted' = submitted /\ sequence' = sequence
    BY <1>1 DEF FindEmpty, Notified, Cancelled, DequeueNone, Locations, InDequeue, IInv, Types, queueVars
  <2> QED
    BY <2>1, FewerCopies
<1>2. CASE PopSpawn(p)
  <2>1. PICK e \in heap : heap' = heap \ {e} /\ Spawn(p, e)
    BY <1>2 DEF PopSpawn
  <2>2. PICK u : u = SpawnedTask(e)
    OBVIOUS
  <2>3. u \in Tasks /\ u.job = e.job /\ u.st = "run"
    BY <2>2 DEF SpawnedTask, Tasks, IInv, Types
  <2>4. /\ tasks' = [tasks EXCEPT ![p] = @ \cup {u}] /\ pc' = [pc EXCEPT ![p] = "acquire"]
        /\ UNCHANGED <<shutdown, permits, fate, submitted, sequence, sleeping>>
    BY <1>2, <2>1, <2>2 DEF PopSpawn, Spawn
  <2>5. Types'
    BY <2>1, <2>3, <2>4 DEF IInv, Types, Locations
  <2>6. \A q \in Procs : \A x \in tasks'[q] : x \in tasks[q] \/ (q = p /\ x = u)
    <3>1. tasks'[p] = tasks[p] \cup {u} /\ \A q \in Procs \ {p} : tasks'[q] = tasks[q]
      BY <2>4 DEF IInv, Types
    <3>2. ASSUME NEW q \in Procs, NEW x \in tasks'[q] PROVE x \in tasks[q] \/ (q = p /\ x = u)
      <4>1. CASE q = p
        BY <3>1, <3>2, <4>1
      <4>2. CASE q # p
        BY <3>1, <3>2, <4>2
      <4> QED
        BY <4>1, <4>2
    <3> QED
      BY <3>2
  <2>7. SingleCopy'
    <3>1. /\ Waiting' \subseteq Waiting /\ heap' \cap sleeping' = {}
          /\ \A f \in Waiting' : f.job # e.job
      BY <2>1, <2>4 DEF IInv, SingleCopy, Waiting
    <3>2. \A q \in Procs : \A x \in tasks[q] : x.job # e.job
      BY DEF IInv, SingleCopy, Waiting
    <3> QED
      BY <2>3, <2>6, <3>1, <3>2 DEF IInv, SingleCopy
  <2>8. Enqueued'
    BY <2>1, <2>3, <2>4, <2>6 DEF IInv, Enqueued, Waiting
  <2>9. Numbered'
    BY <2>1, <2>4 DEF IInv, Numbered
  <2>10. RetryHasAttempts'
    BY <2>3, <2>6 DEF IInv, RetryHasAttempts
  <2> QED
    BY <2>5, <2>7, <2>8, <2>9, <2>10 DEF IInv
<1> QED
  BY <1>1, <1>2 DEF Dequeue

LEMMA RetryIInv ==
    ASSUME IInv, NEW p \in Procs, NEW t \in tasks[p], EnqueueRetry(p, t)
    PROVE  IInv'
<1>1. PICK s : s = [job |-> t.job, attempt |-> t.attempt + 1]
  OBVIOUS
<1>2. s \in [job: Jobs, attempt: Nat] /\ s.job = t.job
  BY <1>1 DEF IInv, Types, Tasks
<1>3. /\ sleeping' = sleeping \cup {s} /\ tasks' = [tasks EXCEPT ![p] = @ \ {t}]
      /\ permits' = [permits EXCEPT ![p] = @ + 1]
      /\ UNCHANGED <<pc, shutdown, fate, submitted, heap, sequence>>
  BY <1>1 DEF EnqueueRetry, EndTask
<1>4. Types'
  BY <1>2, <1>3 DEF IInv, Types
<1>5. \A q \in Procs : tasks'[q] \subseteq tasks[q] /\ (q = p => t \notin tasks'[q])
  BY <1>3 DEF IInv, Types
<1>6. SingleCopy'
  <2>1. \A f \in Waiting : f.job # s.job
    BY <1>2 DEF IInv, SingleCopy
  <2>2. \A q \in Procs : \A x \in tasks'[q] : x.job # s.job
    BY <1>2, <1>5 DEF IInv, SingleCopy
  <2>3. Waiting' = Waiting \cup {s} /\ s \notin heap
    BY <1>3, <2>1 DEF Waiting
  <2> QED
    BY <1>3, <1>5, <2>1, <2>2, <2>3 DEF IInv, SingleCopy
<1>7. Enqueued'
  BY <1>2, <1>3, <1>5 DEF IInv, Enqueued, Waiting
<1>8. Numbered'
  BY <1>3 DEF IInv, Numbered
<1>9. RetryHasAttempts'
  BY <1>5 DEF IInv, RetryHasAttempts
<1> QED
  BY <1>4, <1>6, <1>7, <1>8, <1>9 DEF IInv

LEMMA NextIInv == IInv /\ [Next]_vars => IInv'
<1> SUFFICES ASSUME IInv, [Next]_vars PROVE IInv'
  OBVIOUS
<1>1. ASSUME NEW j \in Jobs, Enqueue(j) PROVE IInv'
  <2>1. /\ \A f \in Waiting : f.job # j
        /\ \A q \in Procs : \A t \in tasks[q] : t.job # j
    BY <1>1 DEF Enqueue, IInv, Enqueued
  <2> QED
    BY <1>1, <2>1, PushIInv DEF Enqueue, Waiting
<1>2. ASSUME NEW s \in sleeping, SleepOver(s) PROVE IInv'
  <2>1. /\ \A f \in heap \cup (sleeping \ {s}) : f.job # s.job
        /\ \A q \in Procs : \A t \in tasks[q] : t.job # s.job
    BY DEF IInv, SingleCopy, Waiting
  <2>2. s.job \in Jobs /\ s.attempt \in Nat /\ submitted = submitted \cup {s.job}
    BY DEF IInv, Types, Enqueued, Waiting
  <2> QED
    BY <1>2, <2>1, <2>2, PushIInv DEF SleepOver
<1>3. ASSUME NEW p \in Procs, EngineStep(p) PROVE IInv'
  BY <1>3, EngineIInv
<1>4. ASSUME NEW p \in Procs, Dequeue(p) PROVE IInv'
  BY <1>4, DequeueIInv
<1>5. ASSUME NEW p \in Procs, NEW t \in tasks[p], EnqueueRetry(p, t) PROVE IInv'
  BY <1>5, RetryIInv
<1>6. ASSUME NEW p \in Procs, Exit(p) \/ ProcessDies(p) PROVE IInv'
  <2>1. /\ heap' = {} /\ sleeping' = {} /\ submitted' = submitted /\ sequence' = 0
        /\ \A q \in Procs : tasks'[q] \subseteq tasks[q]
    BY <1>6 DEF Exit, ProcessDies, Forget, Crash, DrainTimeout, Die, engineVars, IInv, Types
  <2>2. Types'
    BY <1>6, <2>1 DEF Exit, ProcessDies, Crash, DrainTimeout, Die, engineVars, Locations, IInv, Types
  <2> QED
    BY <2>1, <2>2, FewerCopies
<1>7. ASSUME NEW p \in Procs, ProcessStarts(p) PROVE IInv'
  <2>1. Types' /\ tasks' = tasks /\ UNCHANGED queueVars
    BY <1>7 DEF ProcessStarts, Restart, Locations, IInv, Types, queueVars
  <2> QED
    BY <2>1, FewerCopies DEF queueVars
<1>8. CASE UNCHANGED vars
  <2>1. Types' /\ tasks' = tasks /\ UNCHANGED queueVars
    BY <1>8 DEF vars, engineVars, queueVars, IInv, Types
  <2> QED
    BY <2>1, FewerCopies DEF queueVars
<1> QED
  BY <1>1, <1>2, <1>3, <1>4, <1>5, <1>6, <1>7, <1>8 DEF Next

(* The in-memory queue holds a job once: no retry and no wakeup makes a    *)
(* second copy of it, waiting or running (queue/memory.rs).                *)
THEOREM SingleCopyAlways == Spec => []SingleCopy
<1>1. IInv => SingleCopy
  BY DEF IInv
<1> QED
  BY InitIInv, NextIInv, <1>1, PTL DEF Spec

(* PrioritizedJob.sequence keeps its promise across retries and restarts:  *)
(* what starts is ahead of all that waits (queue/memory.rs, Ord for        *)
(* PrioritizedJob).                                                        *)
THEOREM StartsInOrderAlways == Spec => StartsInOrder
<1> DEFINE Ordered == \A p \in Procs : \A t \in tasks'[p] \ tasks[p] :
          t.st = "run" =>
             \A f \in heap :
                \/ f = [job |-> t.job, attempt |-> t.attempt, seq |-> t.seq]
                \/ Priority[f.job] < Priority[t.job]
                \/ Priority[f.job] = Priority[t.job] /\ f.seq > t.seq
<1>1. ASSUME IInv, [Next]_vars PROVE Ordered
  <2> SUFFICES ASSUME NEW p \in Procs, NEW t \in tasks'[p] \ tasks[p], t.st = "run", NEW f \in heap
               PROVE  \/ f = [job |-> t.job, attempt |-> t.attempt, seq |-> t.seq]
                      \/ Priority[f.job] < Priority[t.job]
                      \/ Priority[f.job] = Priority[t.job] /\ f.seq > t.seq
    OBVIOUS
  <2>1. PICK q \in Procs : PopSpawn(q)
    <3>1. ASSUME NEW q \in Procs, NEW x \in tasks[q], HandlerTransient(q, x) PROVE FALSE
      <4>1. PICK u : u = [x EXCEPT !.st = "retry"]
        OBVIOUS
      <4>2. u.st = "retry"
        BY <1>1, <4>1 DEF IInv, Types, Tasks
      <4>3. t \in tasks[p] \/ t = u
        BY <1>1, <3>1, <4>1 DEF HandlerTransient, IInv, Types
      <4> QED
        BY <4>2, <4>3
    <3>2. ASSUME NEW q \in Procs, EngineStep(q), ~\E x \in tasks[q] : HandlerTransient(q, x) PROVE FALSE
      <4>1. tasks' = tasks \/ \E x \in tasks[q] : tasks' = [tasks EXCEPT ![q] = @ \ {x}]
        BY <3>2 DEF EngineStep, AcquirePermit, StopAcquiring, Drained, RequestShutdown, HandlerOk,
                    HandlerDiscard, HandlerPanic, EndTask
      <4> QED
        BY <1>1, <4>1, <3>2 DEF IInv, Types
    <3>3. ASSUME NEW q \in Procs, Dequeue(q), ~PopSpawn(q) PROVE FALSE
      BY <3>3 DEF Dequeue, FindEmpty, Notified, Cancelled, DequeueNone
    <3>4. ASSUME NEW q \in Procs, NEW x \in tasks[q], EnqueueRetry(q, x) PROVE FALSE
      BY <1>1, <3>4 DEF EnqueueRetry, EndTask, IInv, Types
    <3>5. ASSUME NEW q \in Procs, Exit(q) \/ ProcessDies(q) \/ ProcessStarts(q) PROVE FALSE
      <4>1. tasks' = tasks \/ tasks' = [tasks EXCEPT ![q] = {}]
        BY <3>5 DEF Exit, ProcessDies, ProcessStarts, Crash, DrainTimeout, Die, Restart, engineVars
      <4> QED
        BY <1>1, <4>1, <3>5 DEF IInv, Types
    <3>6. ASSUME NEW j \in Jobs, Enqueue(j) PROVE FALSE
      BY <3>6 DEF Enqueue, engineVars
    <3>7. ASSUME NEW s \in sleeping, SleepOver(s) PROVE FALSE
      BY <3>7 DEF SleepOver, engineVars
    <3>8. CASE UNCHANGED vars
      BY <3>8 DEF vars, engineVars
    <3> QED
      BY <1>1, <3>1, <3>2, <3>3, <3>4, <3>5, <3>6, <3>7, <3>8 DEF Next
  <2>2. PICK e \in heap : IsTop(e) /\ Spawn(q, e)
    BY <2>1 DEF PopSpawn
  <2>3. t = SpawnedTask(e)
    BY <2>2 DEF Spawn, IInv, Types
  <2>4. t.job = e.job /\ t.attempt = e.attempt /\ t.seq = e.seq
    BY <2>3 DEF SpawnedTask
  <2>5. /\ e.job \in Jobs /\ f.job \in Jobs /\ e.seq \in Nat /\ f.seq \in Nat
        /\ e = [job |-> e.job, attempt |-> e.attempt, seq |-> e.seq]
    BY <1>1 DEF IInv, Types
  <2>6. e.seq = f.seq => e = f
    BY <1>1 DEF IInv, Numbered
  <2>7. ~(Priority[f.job] > Priority[e.job]) /\ ~(Priority[f.job] = Priority[e.job] /\ f.seq < e.seq)
    BY <2>2 DEF IsTop, Greater
  <2>8. Priority[e.job] \in Int /\ Priority[f.job] \in Int
    BY <2>5
  <2> QED
    BY <2>4, <2>5, <2>6, <2>7, <2>8
<1> QED
  BY InitIInv, NextIInv, <1>1, PTL DEF Spec, StartsInOrder

-----------------------------------------------------------------------------
(* The permits of one process add up. *)
PermitsOf(p) ==
    /\ permits[p] >= 0
    /\ IsFiniteSet(tasks[p])
    /\ permits[p] + Cardinality(tasks[p]) + Held(p) = MaxConcurrent

PInv == \A p \in Procs : PermitsOf(p)

(* A process the step does not touch keeps its account.                    *)
LEMMA OtherProcess ==
    ASSUME IInv, PInv, NEW q \in Procs,
           permits'[q] = permits[q], tasks'[q] = tasks[q], pc'[q] = pc[q]
    PROVE  PermitsOf(q)'
BY DEF PInv, PermitsOf, Held

(* A future ends: its permit is free again.                                *)
LEMMA EndTaskPermits ==
    ASSUME IInv, PInv, NEW p \in Procs, NEW t \in tasks[p], EndTask(p, t)
    PROVE  PInv'
<1> SUFFICES ASSUME NEW q \in Procs PROVE PermitsOf(q)'
  BY DEF PInv
<1>1. CASE q = p
  <2>1. tasks'[p] = tasks[p] \ {t} /\ permits'[p] = permits[p] + 1 /\ pc' = pc
    BY DEF EndTask, IInv, Types
  <2>2. PermitsOf(p)
    BY DEF PInv
  <2>3. IsFiniteSet(tasks'[p]) /\ Cardinality(tasks'[p]) = Cardinality(tasks[p]) - 1
    <3>1. PICK T : T = tasks[p]
      OBVIOUS
    <3>2. IsFiniteSet(T) /\ t \in T
      BY <2>2, <3>1 DEF PermitsOf
    <3>3. IsFiniteSet(T \ {t}) /\ Cardinality(T \ {t}) = Cardinality(T) - 1
      BY ONLY <3>2, FS_RemoveElement
    <3> QED
      BY <2>1, <3>1, <3>3
  <2>4. Cardinality(tasks[p]) \in Nat /\ Held(p) \in {0, 1} /\ permits[p] \in Int
    BY <2>2, FS_CardinalityType DEF PermitsOf, Held, IInv, Types
  <2>5. QED
    BY <1>1, <2>1, <2>2, <2>3, <2>4 DEF PermitsOf, Held
<1>2. CASE q # p
  BY <1>2, OtherProcess DEF EndTask, IInv, Types
<1>3. QED
  BY <1>1, <1>2

(* A future changes its state but not its job: nothing to count.           *)
LEMMA ReplaceTaskPermits ==
    ASSUME IInv, PInv, NEW p \in Procs, NEW t \in tasks[p], NEW u, u.job = t.job,
           tasks' = [tasks EXCEPT ![p] = (@ \ {t}) \cup {u}],
           UNCHANGED <<permits, pc>>
    PROVE  PInv'
<1> SUFFICES ASSUME NEW q \in Procs PROVE PermitsOf(q)'
  BY DEF PInv
<1>1. CASE q = p
  <2>1. tasks'[p] = (tasks[p] \ {t}) \cup {u}
    BY DEF IInv, Types
  <2>2. u \notin tasks[p] \ {t}
    BY DEF IInv, SingleCopy
  <2>3. PermitsOf(p)
    BY DEF PInv
  <2>4. /\ IsFiniteSet(tasks[p] \ {t})
        /\ Cardinality(tasks[p] \ {t}) = Cardinality(tasks[p]) - 1
        /\ Cardinality(tasks[p]) \in Nat
    BY <2>3, FS_RemoveElement, FS_CardinalityType DEF PermitsOf
  <2>5. IsFiniteSet(tasks'[p]) /\ Cardinality(tasks'[p]) = Cardinality(tasks[p])
    <3> DEFINE D == tasks[p] \ {t}
    <3>1. IsFiniteSet(D) /\ u \notin D /\ tasks'[p] = D \cup {u}
      BY <2>1, <2>2, <2>4
    <3> HIDE DEF D
    <3>2. IsFiniteSet(D \cup {u}) /\ Cardinality(D \cup {u}) = Cardinality(D) + 1
      BY <3>1, FS_AddElement
    <3>3. Cardinality(D) = Cardinality(tasks[p]) - 1 /\ Cardinality(tasks[p]) \in Nat
      BY <2>4 DEF D
    <3>4. Cardinality(D) + 1 = Cardinality(tasks[p])
      BY <3>3
    <3>5. QED
      BY <3>1, <3>2, <3>4
  <2>6. QED
    BY <1>1, <2>3, <2>5 DEF PermitsOf, Held
<1>2. CASE q # p
  BY <1>2, OtherProcess DEF IInv, Types
<1>3. QED
  BY <1>1, <1>2

(* Steps that move the loop of p and leave its futures alone.              *)
LEMMA MoveLoopPermits ==
    ASSUME IInv, PInv, NEW p \in Procs, tasks' = tasks,
           NEW l \in Locations, pc' = [pc EXCEPT ![p] = l],
           NEW n \in Nat, permits' = [permits EXCEPT ![p] = n],
           n + (IF l \in InDequeue THEN 1 ELSE 0) = permits[p] + Held(p)
    PROVE  PInv'
<1> SUFFICES ASSUME NEW q \in Procs PROVE PermitsOf(q)'
  BY DEF PInv
<1>1. CASE q = p
  <2>1. permits'[p] = n /\ pc'[p] = l /\ Held(p)' = (IF l \in InDequeue THEN 1 ELSE 0)
    BY DEF IInv, Types, Held
  <2>2. PermitsOf(p)
    BY DEF PInv
  <2>3. Cardinality(tasks[p]) \in Nat /\ Held(p) \in {0, 1} /\ permits[p] \in Int
    BY <2>2, FS_CardinalityType DEF PermitsOf, Held, IInv, Types
  <2>4. QED
    BY <1>1, <2>1, <2>2, <2>3 DEF PermitsOf
<1>2. CASE q # p
  BY <1>2, OtherProcess DEF IInv, Types
<1>3. QED
  BY <1>1, <1>2

(* A process dies: all its permits die with it.                            *)
LEMMA DiePermits ==
    ASSUME IInv, PInv, NEW p \in Procs, Die(p)
    PROVE  PInv'
<1> SUFFICES ASSUME NEW q \in Procs PROVE PermitsOf(q)'
  BY DEF PInv
<1>1. CASE q = p
  <2>1. tasks'[p] = {} /\ permits'[p] = MaxConcurrent /\ Held(p)' = 0
    BY DEF Die, IInv, Types, Held, InDequeue
  <2>2. QED
    BY <1>1, <2>1, FS_EmptySet DEF PermitsOf
<1>2. CASE q # p
  BY <1>2, OtherProcess DEF Die, IInv, Types
<1>3. QED
  BY <1>1, <1>2

(* Every step of every process keeps its account of permits.               *)
LEMMA NextPInv == IInv /\ PInv /\ [Next]_vars => PInv'
<1> SUFFICES ASSUME IInv, PInv, [Next]_vars PROVE PInv'
  OBVIOUS
<1>0. ASSUME NEW p \in Procs PROVE permits[p] \in Nat /\ Held(p) \in {0, 1}
  BY DEF PInv, PermitsOf, Held, IInv, Types
<1>1. ASSUME UNCHANGED <<permits, tasks, pc>> PROVE PInv'
  BY <1>1, OtherProcess DEF PInv
<1>2. CASE (\E j \in Jobs : Enqueue(j)) \/ (\E s \in sleeping : SleepOver(s)) \/ UNCHANGED vars
  BY <1>1, <1>2 DEF Enqueue, SleepOver, vars, engineVars
<1>3. ASSUME NEW p \in Procs, EngineStep(p) PROVE PInv'
  <2>1. CASE AcquirePermit(p)
    <3>1. permits[p] - 1 \in Nat /\ Held(p) = 0
      BY <1>0, <2>1 DEF AcquirePermit, Held, InDequeue
    <3>2. "dequeue" \in Locations /\ "dequeue" \in InDequeue
      BY DEF Locations, InDequeue
    <3> DEFINE n == permits[p] - 1
    <3>3. /\ pc' = [pc EXCEPT ![p] = "dequeue"] /\ tasks' = tasks
          /\ permits' = [permits EXCEPT ![p] = n]
          /\ n + 1 = permits[p] + Held(p)
      BY <1>0, <2>1, <3>1 DEF AcquirePermit
    <3>4. n \in Nat
      BY <3>1
    <3> HIDE DEF n
    <3> QED
      BY <3>2, <3>3, <3>4, MoveLoopPermits
  <2>2. CASE StopAcquiring(p) \/ Drained(p)
    <3>1. PICK l \in {"drain", "stopped"} :
             pc' = [pc EXCEPT ![p] = l] /\ UNCHANGED <<permits, tasks>>
      BY <2>2 DEF StopAcquiring, Drained
    <3>2. Held(p) = 0 /\ l \in Locations /\ l \notin InDequeue
      BY <2>2 DEF StopAcquiring, Drained, Held, Locations, InDequeue
    <3>3. permits' = [permits EXCEPT ![p] = permits[p]]
      BY <3>1 DEF IInv, Types
    <3> QED
      BY <1>0, <3>1, <3>2, <3>3, MoveLoopPermits
  <2>3. CASE RequestShutdown(p)
    BY <1>1, <2>3 DEF RequestShutdown
  <2>4. ASSUME NEW t \in tasks[p], HandlerOk(p, t) \/ HandlerDiscard(p, t) \/ HandlerPanic(p, t)
        PROVE  PInv'
    BY <2>4, EndTaskPermits DEF HandlerOk, HandlerDiscard, HandlerPanic
  <2>5. ASSUME NEW t \in tasks[p], HandlerTransient(p, t)
        PROVE  PInv'
    <3> DEFINE u == [t EXCEPT !.st = "retry"]
    <3>1. u.job = t.job
      BY DEF IInv, Types, Tasks
    <3>2. /\ tasks' = [tasks EXCEPT ![p] = (@ \ {t}) \cup {u}]
          /\ UNCHANGED <<permits, pc>>
      BY <2>5 DEF HandlerTransient
    <3> HIDE DEF u
    <3> QED
      BY <3>1, <3>2, ReplaceTaskPermits
  <2> QED
    BY <1>3, <2>1, <2>2, <2>3, <2>4, <2>5 DEF EngineStep
<1>4. ASSUME NEW p \in Procs, NEW t \in tasks[p], EnqueueRetry(p, t) PROVE PInv'
  BY <1>4, EndTaskPermits DEF EnqueueRetry
<1>5. ASSUME NEW p \in Procs, Dequeue(p) PROVE PInv'
  <2>1. CASE Cancelled(p)
    <3>1. Held(p) = 1 /\ "drain" \in Locations /\ "drain" \notin InDequeue
      BY <2>1 DEF Cancelled, Held, Locations, InDequeue
    <3>2. PICK n \in Nat : n = permits[p] + 1
      BY <1>0
    <3>3. /\ pc' = [pc EXCEPT ![p] = "drain"] /\ tasks' = tasks
          /\ permits' = [permits EXCEPT ![p] = n]
          /\ n + (IF "drain" \in InDequeue THEN 1 ELSE 0) = permits[p] + Held(p)
      BY <2>1, <3>1, <3>2 DEF Cancelled, DequeueNone
    <3> QED
      BY <3>1, <3>2, <3>3, MoveLoopPermits
  <2>2. CASE FindEmpty(p) \/ Notified(p)
    <3>1. PICK l \in InDequeue :
             pc' = [pc EXCEPT ![p] = l] /\ UNCHANGED <<permits, tasks>>
      BY <2>2 DEF FindEmpty, Notified, InDequeue
    <3>2. Held(p) = 1
      BY <2>2 DEF FindEmpty, Notified, InDequeue, Held
    <3>3. permits' = [permits EXCEPT ![p] = permits[p]] /\ l \in Locations
      BY <3>1 DEF IInv, Types, Locations
    <3> QED
      BY <1>0, <3>1, <3>2, <3>3, MoveLoopPermits
  <2>3. CASE PopSpawn(p)
    <3>1. PICK e \in heap : Spawn(p, e)
      BY <2>3 DEF PopSpawn
    <3> DEFINE u == SpawnedTask(e)
    <3>2. /\ tasks'[p] = tasks[p] \cup {u}
          /\ pc'[p] = "acquire"
          /\ permits' = permits
          /\ Held(p) = 1
      BY <2>3, <3>1 DEF Spawn, PopSpawn, Held, InDequeue, IInv, Types
    <3>3. u \notin tasks[p]
      BY DEF SpawnedTask, IInv, SingleCopy, Waiting
    <3> HIDE DEF u
    <3>4. PermitsOf(p)
      BY DEF PInv
    <3>5. /\ IsFiniteSet(tasks'[p])
          /\ Cardinality(tasks'[p]) = Cardinality(tasks[p]) + 1
          /\ Cardinality(tasks[p]) \in Nat
      BY <3>2, <3>3, <3>4, FS_AddElement, FS_CardinalityType DEF PermitsOf
    <3>6. PermitsOf(p)'
      BY <1>0, <3>2, <3>4, <3>5 DEF PermitsOf, Held, InDequeue
    <3>7. ASSUME NEW q \in Procs, q # p PROVE PermitsOf(q)'
      BY <3>1, <3>7, OtherProcess DEF Spawn, IInv, Types
    <3> QED
      BY <3>6, <3>7 DEF PInv
  <2> QED
    BY <1>5, <2>1, <2>2, <2>3 DEF Dequeue
<1>6. ASSUME NEW p \in Procs, Exit(p) \/ ProcessDies(p) \/ ProcessStarts(p) PROVE PInv'
  <2>1. CASE Exit(p)
    BY <1>1, <2>1 DEF Exit, engineVars
  <2>2. CASE ProcessDies(p)
    BY <2>2, DiePermits DEF ProcessDies, Crash, DrainTimeout
  <2>3. CASE ProcessStarts(p)
    <3>1. /\ pc' = [pc EXCEPT ![p] = "acquire"] /\ UNCHANGED <<permits, tasks>>
          /\ Held(p) = 0 /\ "acquire" \in Locations /\ "acquire" \notin InDequeue
      BY <2>3 DEF ProcessStarts, Restart, Held, Locations, InDequeue
    <3>2. permits' = [permits EXCEPT ![p] = permits[p]]
      BY <3>1 DEF IInv, Types
    <3> QED
      BY <1>0, <3>1, <3>2, MoveLoopPermits
  <2> QED
    BY <1>6, <2>1, <2>2, <2>3
<1> QED
  BY <1>2, <1>3, <1>4, <1>5, <1>6 DEF Next

(* No permit of the semaphore leaks when retries sleep outside of it       *)
(* (WorkerEngine::run, execute_with_retry over queue/memory.rs).           *)
THEOREM PermitsAccountedAlways == Spec => []PermitsAccounted
<1>1. Init => PInv
  BY FS_EmptySet DEF Init, EngineInit, PInv, PermitsOf, Held, InDequeue
<1>2. PInv => PermitsAccounted
  BY DEF PInv, PermitsOf, PermitsAccounted
<1> QED
  BY InitIInv, NextIInv, <1>1, NextPInv, <1>2, PTL DEF Spec

-----------------------------------------------------------------------------
(* The phase and the attempt of a job, from where its copies are, before   *)
(* and after a step.                                                       *)
NotEnqueued(j) == j \notin submitted

LEMMA LifeQueued ==
    ASSUME NEW j \in Jobs, NEW e
    PROVE  /\ Queued(j) = {e} /\ Running(j) = {} => PhaseOf(j) = "queued" /\ AttemptOf(j) = e.attempt
           /\ Queued(j)' = {e} /\ Running(j)' = {} => PhaseOf(j)' = "queued" /\ AttemptOf(j)' = e.attempt
<1>0. ~(Cardinality({e}) > 1)
  <2>1. Cardinality({e}) = 1
    BY FS_Singleton
  <2> QED
    BY <2>1
<1>1. {e} # {} /\ {e} \cup {} = {e} /\ (CHOOSE c \in {e} : TRUE) = e
  OBVIOUS
<1>2. Queued(j) = {e} /\ Running(j) = {} => PhaseOf(j) = "queued" /\ AttemptOf(j) = e.attempt
  BY <1>0, <1>1 DEF PhaseOf, AttemptOf
<1>3. Queued(j)' = {e} /\ Running(j)' = {} => PhaseOf(j)' = "queued" /\ AttemptOf(j)' = e.attempt
  BY <1>0, <1>1 DEF PhaseOf, AttemptOf
<1> QED
  BY <1>2, <1>3

LEMMA LifeRunning ==
    ASSUME NEW j \in Jobs, NEW t
    PROVE  /\ Queued(j) = {} /\ Running(j) = {t} => PhaseOf(j) = "running" /\ AttemptOf(j) = t.attempt
           /\ Queued(j)' = {} /\ Running(j)' = {t} => PhaseOf(j)' = "running" /\ AttemptOf(j)' = t.attempt
<1>0. ~(Cardinality({t}) > 1)
  <2>1. Cardinality({t}) = 1
    BY FS_Singleton
  <2> QED
    BY <2>1
<1>1. {t} # {} /\ {} \cup {t} = {t} /\ (CHOOSE c \in {t} : TRUE) = t
  OBVIOUS
<1>2. Queued(j) = {} /\ Running(j) = {t} => PhaseOf(j) = "running" /\ AttemptOf(j) = t.attempt
  BY <1>0, <1>1 DEF PhaseOf, AttemptOf
<1>3. Queued(j)' = {} /\ Running(j)' = {t} => PhaseOf(j)' = "running" /\ AttemptOf(j)' = t.attempt
  BY <1>0, <1>1 DEF PhaseOf, AttemptOf
<1> QED
  BY <1>2, <1>3

LEMMA LifeNowhere ==
    ASSUME NEW j \in Jobs
    PROVE  /\ Queued(j) = {} /\ Running(j) = {} =>
                 PhaseOf(j) = (IF NotEnqueued(j) THEN "new" ELSE "gone") /\ AttemptOf(j) = 0
           /\ Queued(j)' = {} /\ Running(j)' = {} =>
                 PhaseOf(j)' = (IF NotEnqueued(j)' THEN "new" ELSE "gone") /\ AttemptOf(j)' = 0
<1>0. {} \cup {} = {} /\ ~(Cardinality({}) > 1)
  BY FS_EmptySet
<1>1. Queued(j) = {} /\ Running(j) = {} =>
         PhaseOf(j) = (IF NotEnqueued(j) THEN "new" ELSE "gone") /\ AttemptOf(j) = 0
  BY <1>0 DEF PhaseOf, AttemptOf, NotEnqueued
<1>2. Queued(j)' = {} /\ Running(j)' = {} =>
         PhaseOf(j)' = (IF NotEnqueued(j)' THEN "new" ELSE "gone") /\ AttemptOf(j)' = 0
  BY <1>0 DEF PhaseOf, AttemptOf, NotEnqueued
<1> QED
  BY <1>1, <1>2

LEMMA LifeStays ==
    ASSUME NEW j \in Jobs, Queued(j)' = Queued(j), Running(j)' = Running(j),
           NotEnqueued(j)' <=> NotEnqueued(j)
    PROVE  PhaseOf(j)' = PhaseOf(j) /\ AttemptOf(j)' = AttemptOf(j)
  BY DEF PhaseOf, AttemptOf, NotEnqueued

(* The copies of a job under the invariant.                                *)
LEMMA OneMember ==
    ASSUME IInv, NEW e \in Waiting
    PROVE  e.job \in Jobs /\ Queued(e.job) = {e} /\ Running(e.job) = {} /\ ~NotEnqueued(e.job)
<1>1. e.job \in Jobs
  BY DEF IInv, Types, Waiting
<1>2. Queued(e.job) = {e}
  BY DEF IInv, SingleCopy, Queued, Waiting
<1>3. Running(e.job) = {}
  BY DEF IInv, SingleCopy, Running, Waiting
<1>4. ~NotEnqueued(e.job)
  BY <1>1 DEF IInv, Enqueued, NotEnqueued
<1> QED
  BY <1>1, <1>2, <1>3, <1>4

LEMMA OneFuture ==
    ASSUME IInv, NEW p \in Procs, NEW t \in tasks[p]
    PROVE  t.job \in Jobs /\ Queued(t.job) = {} /\ Running(t.job) = {t} /\ ~NotEnqueued(t.job)
<1>1. t.job \in Jobs
  BY DEF IInv, Types, Tasks
<1>2. Queued(t.job) = {}
  BY DEF IInv, SingleCopy, Queued, Waiting
<1>3. Running(t.job) = {t}
  BY DEF IInv, SingleCopy, Running, Waiting
<1>4. ~NotEnqueued(t.job)
  BY <1>1 DEF IInv, Enqueued, NotEnqueued
<1> QED
  BY <1>1, <1>2, <1>3, <1>4

-----------------------------------------------------------------------------
(* Steps that change the copies of one job, or of none.                    *)
OthersStay(j) == \A k \in Jobs \ {j} :
    Queued(k)' = Queued(k) /\ Running(k)' = Running(k) /\ (NotEnqueued(k)' <=> NotEnqueued(k))

LifeStep(j) ==
    \/ Lifecycle!Submit(j) \/ Lifecycle!Start(j) \/ Lifecycle!Requeue(j) \/ Lifecycle!Leave(j)
    \/ UNCHANGED Lifecycle!vars

LEMMA OneJobSteps ==
    ASSUME NEW j \in Jobs, OthersStay(j),
           \/ PhaseOf(j)' = PhaseOf(j) /\ AttemptOf(j)' = AttemptOf(j)
           \/ PhaseOf(j) = "new" /\ PhaseOf(j)' = "queued" /\ AttemptOf(j)' = AttemptOf(j)
           \/ PhaseOf(j) = "queued" /\ PhaseOf(j)' = "running" /\ AttemptOf(j)' = AttemptOf(j)
           \/ /\ PhaseOf(j) = "running" /\ PhaseOf(j)' = "queued"
              /\ AttemptOf(j)' = AttemptOf(j) + 1 /\ AttemptOf(j) + 1 < MaxAttempts[j]
           \/ PhaseOf(j) # "gone" /\ PhaseOf(j)' = "gone" /\ AttemptOf(j)' = 0
    PROVE  LifeStep(j)
<1>1. \A k \in Jobs \ {j} : PhaseOf(k)' = PhaseOf(k) /\ AttemptOf(k)' = AttemptOf(k)
  BY LifeStays DEF OthersStay
<1>2. CASE PhaseOf(j)' = PhaseOf(j) /\ AttemptOf(j)' = AttemptOf(j)
  BY <1>1, <1>2 DEF LifeStep, Lifecycle!vars
<1>3. CASE PhaseOf(j) = "new" /\ PhaseOf(j)' = "queued" /\ AttemptOf(j)' = AttemptOf(j)
  BY <1>1, <1>3 DEF LifeStep, Lifecycle!Submit
<1>4. CASE PhaseOf(j) = "queued" /\ PhaseOf(j)' = "running" /\ AttemptOf(j)' = AttemptOf(j)
  BY <1>1, <1>4 DEF LifeStep, Lifecycle!Start
<1>5. CASE /\ PhaseOf(j) = "running" /\ PhaseOf(j)' = "queued"
           /\ AttemptOf(j)' = AttemptOf(j) + 1 /\ AttemptOf(j) + 1 < MaxAttempts[j]
  BY <1>1, <1>5 DEF LifeStep, Lifecycle!Requeue
<1>6. CASE PhaseOf(j) # "gone" /\ PhaseOf(j)' = "gone" /\ AttemptOf(j)' = 0
  BY <1>1, <1>6 DEF LifeStep, Lifecycle!Leave
<1> QED
  BY <1>2, <1>3, <1>4, <1>5, <1>6

(* The queue and the futures are what they were.                           *)
LEMMA QueueSame ==
    ASSUME Waiting' = Waiting
    PROVE  \A k \in Jobs : Queued(k)' = Queued(k)
  BY DEF Queued, Waiting

LEMMA FuturesSame ==
    ASSUME tasks' = tasks
    PROVE  \A k \in Jobs : Running(k)' = Running(k)
  BY DEF Running

(* A member comes to the queue, or leaves it.                              *)
LEMMA QueueGains ==
    ASSUME NEW e, Waiting' = Waiting \cup {e}
    PROVE  /\ Queued(e.job)' = Queued(e.job) \cup {e}
           /\ \A k \in Jobs \ {e.job} : Queued(k)' = Queued(k)
  BY DEF Queued, Waiting

LEMMA QueueLoses ==
    ASSUME NEW e, Waiting' = Waiting \ {e}
    PROVE  /\ Queued(e.job)' = Queued(e.job) \ {e}
           /\ \A k \in Jobs \ {e.job} : Queued(k)' = Queued(k)
  BY DEF Queued, Waiting

(* The futures of p become those in T, which differ from them in job j.    *)
LEMMA FuturesChange ==
    ASSUME Types, NEW p \in Procs, NEW T, tasks' = [tasks EXCEPT ![p] = T], NEW j,
           \A x : x.job # j => (x \in T <=> x \in tasks[p])
    PROVE  \A k \in Jobs \ {j} : Running(k)' = Running(k)
<1> SUFFICES ASSUME NEW k \in Jobs \ {j} PROVE Running(k)' = Running(k)
  OBVIOUS
<1>1. tasks'[p] = T /\ \A q \in Procs \ {p} : tasks'[q] = tasks[q]
  BY DEF Types
<1>2. ASSUME NEW x PROVE x \in Running(k)' <=> x \in Running(k)
  <2>1. x \in Running(k) <=> x.job = k /\ \E q \in Procs : x \in tasks[q]
    BY DEF Running
  <2>2. x \in Running(k)' <=> x.job = k /\ \E q \in Procs : x \in tasks'[q]
    BY DEF Running
  <2> QED
    BY <1>1, <2>1, <2>2
<1> QED
  BY <1>2

-----------------------------------------------------------------------------
LEMMA InitLife == Init => Lifecycle!Init
<1> SUFFICES ASSUME Init PROVE Lifecycle!Init
  OBVIOUS
<1>1. \A j \in Jobs : Queued(j) = {} /\ Running(j) = {} /\ NotEnqueued(j)
  BY DEF Init, EngineInit, Queued, Waiting, Running, NotEnqueued
<1>2. \A j \in Jobs : PhaseOf(j) = "new" /\ AttemptOf(j) = 0
  BY <1>1, LifeNowhere
<1> QED
  BY <1>2 DEF Lifecycle!Init

LEMMA EnqueueLife ==
    ASSUME IInv, NEW j \in Jobs, Enqueue(j)
    PROVE  LifeStep(j)
<1>1. /\ tasks' = tasks /\ NotEnqueued(j) /\ \A k \in Jobs \ {j} : NotEnqueued(k)' <=> NotEnqueued(k)
  BY DEF Enqueue, engineVars, NotEnqueued
<1>2. Queued(j) = {} /\ Running(j) = {} /\ Running(j)' = {}
  BY <1>1, FuturesSame DEF IInv, Enqueued, NotEnqueued, Waiting, Queued, Running
<1>3. PhaseOf(j) = "new" /\ AttemptOf(j) = 0
  BY <1>1, <1>2, LifeNowhere
<1>4. PICK e : e = [job |-> j, attempt |-> 0, seq |-> sequence + 1]
  OBVIOUS
<1>5. e.job = j /\ e.attempt = 0
  BY <1>4
<1>6. Waiting' = Waiting \cup {e}
  BY <1>4 DEF Enqueue, PushJob, Waiting
<1>7. OthersStay(j) /\ Queued(j)' = {e}
  BY <1>1, <1>2, <1>5, <1>6, QueueGains, FuturesSame DEF OthersStay
<1>8. PhaseOf(j)' = "queued" /\ AttemptOf(j)' = 0
  BY <1>2, <1>5, <1>7, LifeQueued
<1> QED
  BY <1>3, <1>7, <1>8, OneJobSteps

(* A future t of p ends, and may have gone back to the queue as e.         *)
LEMMA FutureEndsLife ==
    ASSUME IInv, NEW p \in Procs, NEW t \in tasks[p], tasks' = [tasks EXCEPT ![p] = @ \ {t}],
           submitted' = submitted, Waiting' = Waiting
    PROVE  t.job \in Jobs /\ LifeStep(t.job)
<1>1. t.job \in Jobs /\ Queued(t.job) = {} /\ Running(t.job) = {t} /\ ~NotEnqueued(t.job)
  BY OneFuture
<1>2. PhaseOf(t.job) = "running"
  BY <1>1, LifeRunning
<1>3. \A k \in Jobs \ {t.job} : Running(k)' = Running(k)
  <2>1. PICK T : T = tasks[p] \ {t}
    OBVIOUS
  <2>2. tasks' = [tasks EXCEPT ![p] = T] /\ \A x : x.job # t.job => (x \in T <=> x \in tasks[p])
    BY <2>1
  <2> QED
    BY <2>2, FuturesChange DEF IInv
<1>4. Running(t.job)' = {}
  <2>1. tasks'[p] = tasks[p] \ {t} /\ \A q \in Procs \ {p} : tasks'[q] = tasks[q]
    BY DEF IInv, Types
  <2>2. \A q \in Procs : \A x \in tasks[q] : x.job = t.job => q = p /\ x = t
    BY DEF IInv, SingleCopy
  <2> QED
    BY <2>1, <2>2 DEF Running
<1>5. OthersStay(t.job) /\ Queued(t.job)' = {} /\ ~NotEnqueued(t.job)'
  BY <1>1, <1>3, QueueSame DEF OthersStay, NotEnqueued
<1>6. PhaseOf(t.job)' = "gone" /\ AttemptOf(t.job)' = 0
  BY <1>1, <1>4, <1>5, LifeNowhere
<1> QED
  BY <1>1, <1>2, <1>5, <1>6, OneJobSteps

LEMMA FutureRequeuesLife ==
    ASSUME IInv, NEW p \in Procs, NEW t \in tasks[p], tasks' = [tasks EXCEPT ![p] = @ \ {t}],
           submitted' = submitted, t.st = "retry",
           Waiting' = Waiting \cup {[job |-> t.job, attempt |-> t.attempt + 1]}
    PROVE  t.job \in Jobs /\ LifeStep(t.job)
<1>1. t.job \in Jobs /\ Queued(t.job) = {} /\ Running(t.job) = {t} /\ ~NotEnqueued(t.job)
  BY OneFuture
<1>2. PhaseOf(t.job) = "running" /\ AttemptOf(t.job) = t.attempt
  BY <1>1, LifeRunning
<1>3. \A k \in Jobs \ {t.job} : Running(k)' = Running(k)
  <2>1. PICK T : T = tasks[p] \ {t}
    OBVIOUS
  <2>2. tasks' = [tasks EXCEPT ![p] = T] /\ \A x : x.job # t.job => (x \in T <=> x \in tasks[p])
    BY <2>1
  <2>3. Types /\ p \in Procs /\ t.job = t.job
    BY DEF IInv
  <2>4. tasks' = [tasks EXCEPT ![p] = T]
    BY <2>2
  <2>5. \A x : x.job # t.job => (x \in T <=> x \in tasks[p])
    BY <2>2
  <2> QED
    BY ONLY <2>3, <2>4, <2>5, FuturesChange
<1>4. Running(t.job)' = {}
  <2>1. tasks'[p] = tasks[p] \ {t} /\ \A q \in Procs \ {p} : tasks'[q] = tasks[q]
    BY DEF IInv, Types
  <2>2. \A q \in Procs : \A x \in tasks[q] : x.job = t.job => q = p /\ x = t
    BY DEF IInv, SingleCopy
  <2> QED
    BY <2>1, <2>2 DEF Running
<1>5. PICK e : e = [job |-> t.job, attempt |-> t.attempt + 1]
  OBVIOUS
<1>6. e.job = t.job /\ e.attempt = t.attempt + 1
  BY <1>5
<1>7. OthersStay(t.job) /\ Queued(t.job)' = {e}
  BY <1>1, <1>3, <1>5, <1>6, QueueGains DEF OthersStay, NotEnqueued
<1>8. PhaseOf(t.job)' = "queued" /\ AttemptOf(t.job)' = t.attempt + 1
  BY <1>1, <1>4, <1>6, <1>7, LifeQueued
<1>9. t.attempt + 1 < MaxAttempts[t.job]
  BY DEF IInv, RetryHasAttempts
<1> QED
  BY <1>1, <1>2, <1>7, <1>8, <1>9, OneJobSteps

(* A future changes in what its job does not show.                         *)
LEMMA FutureGoesOnLife ==
    ASSUME IInv, NEW p \in Procs, NEW t \in tasks[p], NEW u, u.job = t.job, u.attempt = t.attempt,
           tasks' = [tasks EXCEPT ![p] = (@ \ {t}) \cup {u}],
           submitted' = submitted, Waiting' = Waiting
    PROVE  t.job \in Jobs /\ LifeStep(t.job)
<1>1. t.job \in Jobs /\ Queued(t.job) = {} /\ Running(t.job) = {t}
  BY OneFuture
<1>2. PhaseOf(t.job) = "running" /\ AttemptOf(t.job) = t.attempt
  BY <1>1, LifeRunning
<1>3. \A k \in Jobs \ {t.job} : Running(k)' = Running(k)
  <2>1. PICK T : T = (tasks[p] \ {t}) \cup {u}
    OBVIOUS
  <2>2. tasks' = [tasks EXCEPT ![p] = T] /\ \A x : x.job # t.job => (x \in T <=> x \in tasks[p])
    BY <2>1
  <2> QED
    BY <2>2, FuturesChange DEF IInv
<1>4. Running(t.job)' = {u}
  <2>1. tasks'[p] = (tasks[p] \ {t}) \cup {u} /\ \A q \in Procs \ {p} : tasks'[q] = tasks[q]
    BY DEF IInv, Types
  <2>2. \A q \in Procs : \A x \in tasks[q] : x.job = t.job => q = p /\ x = t
    BY DEF IInv, SingleCopy
  <2> QED
    BY <2>1, <2>2 DEF Running
<1>5. OthersStay(t.job) /\ Queued(t.job)' = {}
  BY <1>1, <1>3, QueueSame DEF OthersStay, NotEnqueued
<1>6. PhaseOf(t.job)' = "running" /\ AttemptOf(t.job)' = t.attempt
  BY <1>1, <1>4, <1>5, LifeRunning
<1> QED
  BY <1>1, <1>2, <1>5, <1>6, OneJobSteps

(* A member of the queue is popped and its future spawned.                 *)
LEMMA MemberStartsLife ==
    ASSUME IInv, NEW p \in Procs, NEW e \in heap, heap' = heap \ {e}, sleeping' = sleeping,
           tasks' = [tasks EXCEPT ![p] = @ \cup {SpawnedTask(e)}], submitted' = submitted
    PROVE  e.job \in Jobs /\ LifeStep(e.job)
<1>1. e.job \in Jobs /\ Queued(e.job) = {e} /\ Running(e.job) = {}
  BY OneMember DEF Waiting
<1>2. PhaseOf(e.job) = "queued" /\ AttemptOf(e.job) = e.attempt
  BY <1>1, LifeQueued
<1>3. PICK u : u = SpawnedTask(e)
  OBVIOUS
<1>4. u.job = e.job /\ u.attempt = e.attempt
  BY <1>3 DEF SpawnedTask
<1>5. \A k \in Jobs \ {e.job} : Running(k)' = Running(k)
  <2>1. PICK T : T = tasks[p] \cup {u}
    OBVIOUS
  <2>2. tasks' = [tasks EXCEPT ![p] = T] /\ \A x : x.job # e.job => (x \in T <=> x \in tasks[p])
    BY <1>3, <1>4, <2>1
  <2> QED
    BY <2>2, FuturesChange DEF IInv
<1>6. Running(e.job)' = {u}
  <2>1. tasks'[p] = tasks[p] \cup {u} /\ \A q \in Procs \ {p} : tasks'[q] = tasks[q]
    BY <1>3 DEF IInv, Types
  <2>2. \A q \in Procs : \A x \in tasks[q] : x.job # e.job
    BY DEF IInv, SingleCopy, Waiting
  <2> QED
    BY <1>4, <2>1, <2>2 DEF Running
<1>7. Waiting' = Waiting \ {e}
  BY DEF IInv, SingleCopy, Waiting
<1>8. OthersStay(e.job) /\ Queued(e.job)' = {}
  BY <1>1, <1>5, <1>7, QueueLoses DEF OthersStay, NotEnqueued
<1>9. PhaseOf(e.job)' = "running" /\ AttemptOf(e.job)' = e.attempt
  BY <1>1, <1>4, <1>6, <1>8, LifeRunning
<1> QED
  BY <1>1, <1>2, <1>8, <1>9, OneJobSteps

(* A sleeping job is pushed on the heap: it waits as before.               *)
LEMMA SleepOverLife ==
    ASSUME IInv, NEW s \in sleeping, SleepOver(s)
    PROVE  s.job \in Jobs /\ LifeStep(s.job)
<1>1. s.job \in Jobs /\ Queued(s.job) = {s} /\ Running(s.job) = {}
  BY OneMember DEF Waiting
<1>2. PhaseOf(s.job) = "queued" /\ AttemptOf(s.job) = s.attempt
  BY <1>1, LifeQueued
<1>3. PICK e : e = [job |-> s.job, attempt |-> s.attempt, seq |-> sequence + 1]
  OBVIOUS
<1>4. e.job = s.job /\ e.attempt = s.attempt
  BY <1>3
<1>5. heap' = heap \cup {e} /\ sleeping' = sleeping \ {s} /\ tasks' = tasks /\ submitted' = submitted
  BY <1>3 DEF SleepOver, PushJob, engineVars
<1>6. \A k \in Jobs \ {s.job} : Queued(k)' = Queued(k)
  BY <1>4, <1>5 DEF Queued
<1>7. Queued(s.job)' = {e}
  <2>1. \A f \in Waiting : f.job = s.job => f = s
    BY DEF IInv, SingleCopy, Waiting
  <2>2. s \notin heap
    BY DEF IInv, SingleCopy
  <2> QED
    BY <1>4, <1>5, <2>1, <2>2 DEF Queued, Waiting
<1>8. OthersStay(s.job) /\ Running(s.job)' = {}
  BY <1>1, <1>5, <1>6, FuturesSame DEF OthersStay, NotEnqueued
<1>9. PhaseOf(s.job)' = "queued" /\ AttemptOf(s.job)' = s.attempt
  BY <1>1, <1>4, <1>7, <1>8, LifeQueued
<1> QED
  BY <1>1, <1>2, <1>8, <1>9, OneJobSteps

(* Nothing happens to any job.                                             *)
LEMMA NothingHappensLife ==
    ASSUME heap' = heap, sleeping' = sleeping, tasks' = tasks, submitted' = submitted
    PROVE  UNCHANGED Lifecycle!vars
<1>1. \A k \in Jobs : PhaseOf(k)' = PhaseOf(k) /\ AttemptOf(k)' = AttemptOf(k)
  BY QueueSame, FuturesSame, LifeStays DEF NotEnqueued, Waiting
<1> QED
  BY <1>1 DEF Lifecycle!vars

(* The process ends: its heap and its sleepers are gone, and the futures   *)
(* of p where it was cut off.                                              *)
LEMMA ProcessEndsLife ==
    ASSUME IInv, NEW p \in Procs, Forget,
           tasks' = tasks \/ tasks' = [tasks EXCEPT ![p] = {}]
    PROVE  Lifecycle!LeaveTogether
<1>1. PICK S \in SUBSET Jobs : S = {j \in Jobs :
              (\E e \in Waiting : e.job = j) \/ (Running(j) # {} /\ Running(j)' = {})}
  OBVIOUS
<1>2. \A j \in Jobs : Queued(j)' = {} /\ (NotEnqueued(j)' <=> NotEnqueued(j))
  BY DEF Forget, Queued, NotEnqueued
<1>3. \A j \in Jobs : Running(j)' = Running(j) \/ Running(j)' = {}
  <2> SUFFICES ASSUME NEW j \in Jobs, tasks' = [tasks EXCEPT ![p] = {}]
               PROVE  Running(j)' = Running(j) \/ Running(j)' = {}
    BY FuturesSame
  <2>1. tasks'[p] = {} /\ \A q \in Procs \ {p} : tasks'[q] = tasks[q]
    BY DEF IInv, Types
  <2>2. CASE \E t \in tasks[p] : t.job = j
    BY <2>1, <2>2 DEF IInv, SingleCopy, Running
  <2>3. CASE \A t \in tasks[p] : t.job # j
    BY <2>1, <2>3 DEF Running
  <2> QED
    BY <2>2, <2>3
<1>4. ASSUME NEW j \in S
      PROVE  /\ PhaseOf(j) = "running" \/ (~FALSE /\ PhaseOf(j) = "queued")
             /\ PhaseOf(j)' = "gone" /\ AttemptOf(j)' = 0
  <2>1. CASE \E e \in Waiting : e.job = j
    <3>1. PICK e \in Waiting : e.job = j
      BY <2>1
    <3>2. Queued(j) = {e} /\ Running(j) = {} /\ ~NotEnqueued(j)
      BY <3>1, OneMember
    <3>3. Running(j)' = {}
      BY <1>3, <3>2
    <3> QED
      BY <1>2, <3>2, <3>3, LifeQueued, LifeNowhere
  <2>2. CASE Running(j) # {} /\ Running(j)' = {}
    <3>1. PICK t : t \in Running(j)
      BY <2>2
    <3>2. PICK q \in Procs : t \in tasks[q] /\ t.job = j
      BY <3>1 DEF Running
    <3>3. Queued(j) = {} /\ Running(j) = {t} /\ ~NotEnqueued(j)
      BY <3>2, OneFuture
    <3> QED
      BY <1>2, <2>2, <3>3, LifeRunning, LifeNowhere
  <2> QED
    BY <1>1, <2>1, <2>2
<1>5. ASSUME NEW j \in Jobs \ S
      PROVE  PhaseOf(j)' = PhaseOf(j) /\ AttemptOf(j)' = AttemptOf(j)
  <2>1. Queued(j) = {} /\ Running(j)' = Running(j)
    BY <1>1, <1>3 DEF Queued, Waiting
  <2> QED
    BY <1>2, <2>1, LifeStays
<1> QED
  BY <1>4, <1>5 DEF Lifecycle!LeaveTogether

-----------------------------------------------------------------------------
LEMMA NextLife == IInv /\ [Next]_vars => [Lifecycle!Next]_(Lifecycle!vars)
<1> SUFFICES ASSUME IInv, [Next]_vars PROVE Lifecycle!Next \/ UNCHANGED Lifecycle!vars
  OBVIOUS
<1>0. \A j \in Jobs : LifeStep(j) => Lifecycle!Next \/ UNCHANGED Lifecycle!vars
  BY DEF LifeStep, Lifecycle!Next
<1>1. ASSUME NEW j \in Jobs, Enqueue(j) PROVE LifeStep(j)
  BY <1>1, EnqueueLife
<1>2. ASSUME NEW s \in sleeping, SleepOver(s) PROVE \E j \in Jobs : LifeStep(j)
  BY <1>2, SleepOverLife
<1>3. ASSUME NEW p \in Procs, EngineStep(p)
      PROVE  (\E j \in Jobs : LifeStep(j)) \/ UNCHANGED Lifecycle!vars
  <2>0. heap' = heap /\ sleeping' = sleeping /\ submitted' = submitted /\ Waiting' = Waiting
    BY <1>3 DEF EngineStep, queueVars, Waiting
  <2>1. CASE AcquirePermit(p) \/ StopAcquiring(p) \/ Drained(p) \/ RequestShutdown(p)
    BY <2>0, <2>1, NothingHappensLife DEF AcquirePermit, StopAcquiring, Drained, RequestShutdown
  <2>2. ASSUME NEW t \in tasks[p], HandlerOk(p, t) \/ HandlerDiscard(p, t) \/ HandlerPanic(p, t)
        PROVE  \E j \in Jobs : LifeStep(j)
    BY <2>0, <2>2, FutureEndsLife DEF HandlerOk, HandlerDiscard, HandlerPanic, EndTask
  <2>3. ASSUME NEW t \in tasks[p], HandlerTransient(p, t)
        PROVE  \E j \in Jobs : LifeStep(j)
    <3>1. PICK u : u = [t EXCEPT !.st = "retry"]
      OBVIOUS
    <3>2. u.job = t.job /\ u.attempt = t.attempt
      BY <3>1 DEF IInv, Types, Tasks
    <3> QED
      BY <2>0, <2>3, <3>1, <3>2, FutureGoesOnLife DEF HandlerTransient
  <2> QED
    BY <1>3, <2>1, <2>2, <2>3 DEF EngineStep
<1>4. ASSUME NEW p \in Procs, NEW t \in tasks[p], EnqueueRetry(p, t)
      PROVE  \E j \in Jobs : LifeStep(j)
  BY <1>4, FutureRequeuesLife DEF EnqueueRetry, EndTask, Waiting
<1>5. ASSUME NEW p \in Procs, Dequeue(p)
      PROVE  (\E j \in Jobs : LifeStep(j)) \/ UNCHANGED Lifecycle!vars
  <2>1. CASE FindEmpty(p) \/ Notified(p) \/ Cancelled(p)
    BY <2>1, NothingHappensLife DEF FindEmpty, Notified, Cancelled, DequeueNone, queueVars
  <2>2. CASE PopSpawn(p)
    BY <2>2, MemberStartsLife DEF PopSpawn, Spawn
  <2> QED
    BY <1>5, <2>1, <2>2 DEF Dequeue
<1>6. ASSUME NEW p \in Procs, Exit(p) \/ ProcessDies(p) PROVE Lifecycle!LeaveTogether
  BY <1>6, ProcessEndsLife DEF Exit, ProcessDies, Crash, DrainTimeout, Die, engineVars
<1>7. ASSUME NEW p \in Procs, ProcessStarts(p) PROVE UNCHANGED Lifecycle!vars
  BY <1>7, NothingHappensLife DEF ProcessStarts, Restart, queueVars
<1>8. CASE UNCHANGED vars
  BY <1>8, NothingHappensLife DEF vars, engineVars, queueVars
<1>9. Lifecycle!LeaveTogether => Lifecycle!Next
  BY DEF Lifecycle!Next
<1> QED
  BY <1>0, <1>1, <1>2, <1>3, <1>4, <1>5, <1>6, <1>7, <1>8, <1>9 DEF Next

(* The in-memory queue implements the same life of a job: at most once,    *)
(* and what waits or runs when the process ends is gone (queue/memory.rs). *)
THEOREM MemoryImplementsLifecycle == Spec => ImplementsLifecycle
<1>1. Init => Lifecycle!Init
  BY InitLife
<1>2. IInv /\ [Next]_vars => [Lifecycle!Next]_(Lifecycle!vars)
  BY NextLife
<1> QED
  BY InitIInv, NextIInv, <1>1, <1>2, PTL DEF Spec, ImplementsLifecycle, Lifecycle!Spec

-----------------------------------------------------------------------------
(* Leader: what holds in every state.                                      *)
LeaderTypes ==
    /\ at \in [Processes -> {"try", "sleep", "lead", "ping", "stop", "close", "down", "dead"}]
    /\ timer \in [Processes -> 0 .. (AcquireRetryInterval + OverlapLimit)]
    /\ task \in [Processes -> {"none", "runs", "told", "aborted"}]
    /\ holder \subseteq Processes
    /\ stopping \subseteq Processes
    /\ age \in [Processes -> Nat]
    /\ losses \in Nat

OneHolder == \A p, q \in holder : p = q

(* A task that was not aborted is watched by lead, and is without the lock *)
(* only after a session was lost.                                          *)
Watched ==
    \A p \in Processes : task[p] \in {"runs", "told"} =>
        /\ at[p] \in {"lead", "ping", "stop"}
        /\ p \in holder \/ losses > 0

(* What is left of the check, then of the ping, and then of the stop       *)
(* timeout pays for every tick that the task of p has run without the lock. *)
Budget(p) ==
    /\ p \in holder => age[p] = 0
    /\ at[p] = "lead" => /\ timer[p] =< LockCheckInterval
                         /\ age[p] + timer[p] =< LockCheckInterval \/ p \in holder
    /\ at[p] = "ping" => /\ timer[p] =< PingTime
                         /\ \/ age[p] + timer[p] =< LockCheckInterval + PingTime
                            \/ p \in holder
    /\ at[p] = "stop" => /\ timer[p] =< StopTimeout
                         /\ age[p] + timer[p] =< OverlapLimit \/ p \in holder
    /\ at[p] = "sleep" => timer[p] = AcquireRetryInterval \/ age[p] = 0
    /\ at[p] = "try" => p \in stopping \/ age[p] = 0
    /\ age[p] =< OverlapLimit

LInv ==
    /\ LeaderTypes
    /\ OneHolder
    /\ HolderLeads
    /\ Watched
    /\ \A p \in Processes : Budget(p)

USE IntervalsAssumption DEF OverlapLimit

-----------------------------------------------------------------------------
(* Before any process has tried the lock the invariant holds.              *)
LEMMA InitLInv == LeaderInit => LInv
  BY DEF LeaderInit, LInv, LeaderTypes, OneHolder, HolderLeads, Watched, Budget

(* A step that moves only process p, and gives the lock to nobody else:    *)
(* what holds of the other processes is untouched.                         *)
LEMMA OneMoves ==
    ASSUME LInv, NEW p \in Processes, LeaderTypes',
           \A q \in Processes \ {p} :
               at'[q] = at[q] /\ timer'[q] = timer[q] /\ task'[q] = task[q],
           age' = age,
           holder' \in {holder, holder \ {p}},
           stopping \subseteq stopping',
           losses =< losses',
           p \in holder' => at'[p] \in {"lead", "ping", "stop", "close"},
           task'[p] \in {"runs", "told"} =>
               at'[p] \in {"lead", "ping", "stop"} /\ (p \in holder' \/ losses' > 0),
           Budget(p)'
    PROVE  LInv'
<1>1. OneHolder' /\ HolderLeads'
  BY DEF LInv, LeaderTypes, OneHolder, HolderLeads
<1>2. Watched'
  BY DEF LInv, LeaderTypes, Watched
<1>3. ASSUME NEW q \in Processes, q # p
      PROVE  Budget(q)'
  BY <1>3 DEF LInv, LeaderTypes, Budget
<1>4. QED
  BY <1>1, <1>2, <1>3 DEF LInv

(* A tick moves every timer down by one and an unlocked task's age up by   *)
(* at most one, and only when nothing is due.                              *)
LEMMA TickLInv == LInv /\ Tick => LInv'
<1> SUFFICES ASSUME LInv, Tick PROVE LInv'
  OBVIOUS
<1>1. LeaderTypes'
  BY DEF LInv, LeaderTypes, Tick, counters
<1>2. OneHolder' /\ HolderLeads' /\ Watched'
  BY DEF LInv, Tick, OneHolder, HolderLeads, Watched, counters
<1>3. ASSUME NEW p \in Processes
      PROVE  Budget(p)'
  <2>1. /\ at'[p] = at[p] /\ holder' = holder /\ stopping' = stopping
        /\ timer'[p] = IF timer[p] > 0 THEN timer[p] - 1 ELSE 0
        /\ timer[p] \in Nat /\ age[p] \in Nat
    BY DEF Tick, LInv, LeaderTypes
  <2>2. /\ at[p] \notin {"try", "close"}
        /\ at[p] \in {"sleep", "lead", "ping", "stop"} => timer[p] > 0
        /\ task[p] # "aborted"
    BY <2>1 DEF Tick, Due
  <2>3. HasTask(p) => at[p] \in {"lead", "ping", "stop"}
    BY <2>2 DEF LInv, LeaderTypes, Watched, HasTask
  <2>4. /\ age'[p] \in Nat
        /\ age'[p] =< age[p] + 1
        /\ (~HasTask(p) \/ p \in holder) => age'[p] = 0
    BY <2>1 DEF Tick, LInv, LeaderTypes
  <2>5. Budget(p)
    BY DEF LInv
  <2>6. QED
    BY <2>1, <2>2, <2>3, <2>4, <2>5 DEF Budget, LInv, LeaderTypes
<1>4. QED
  BY <1>1, <1>2, <1>3 DEF LInv

(* run_as_leader: trying, sleeping, leaving the loop.                      *)
LEMMA LoopLInv ==
    ASSUME LInv, NEW p \in Processes,
           TryAcquire(p) \/ TryAcquireFails(p) \/ SleepEnds(p) \/ LoopEnds(p)
    PROVE  LInv'
<1>1. Budget(p) /\ timer[p] \in Nat /\ age[p] \in Nat
  BY DEF LInv, LeaderTypes
<1>2. CASE TryAcquire(p) /\ holder = {}
  <2>1. LeaderTypes'
    BY <1>2 DEF TryAcquire, LInv, LeaderTypes, Goto, Set, counters
  <2>2. OneHolder' /\ HolderLeads' /\ Watched'
    BY <1>2 DEF TryAcquire, LInv, LeaderTypes, Goto, counters, OneHolder, HolderLeads, Watched
  <2>3. ASSUME NEW q \in Processes
        PROVE  Budget(q)'
    <3>1. CASE q = p
      BY <1>1, <1>2, <3>1 DEF TryAcquire, LInv, LeaderTypes, Goto, Set, Budget
    <3>2. CASE q # p
      BY <1>2, <3>2 DEF TryAcquire, LInv, LeaderTypes, Goto, Set, Budget
    <3>3. QED
      BY <3>1, <3>2
  <2>4. QED
    BY <2>1, <2>2, <2>3 DEF LInv
<1>3. CASE (TryAcquire(p) /\ holder # {}) \/ TryAcquireFails(p)
  <2>1. /\ at' = [at EXCEPT ![p] = "sleep"]
        /\ timer' = [timer EXCEPT ![p] = AcquireRetryInterval]
        /\ task' = [task EXCEPT ![p] = task[p]]
        /\ age' = age /\ holder' = holder /\ stopping' = stopping /\ losses' = losses
        /\ at[p] = "try"
    BY <1>3 DEF TryAcquire, TryAcquireFails, LInv, LeaderTypes, Goto, Set, counters
  <2>2. p \notin holder /\ task[p] \notin {"runs", "told"}
    BY <2>1 DEF LInv, HolderLeads, Watched
  <2>3. Budget(p)'
    BY <1>1, <2>1, <2>2 DEF Budget, LInv, LeaderTypes
  <2>4. QED
    BY <2>1, <2>2, <2>3, OneMoves DEF LInv, LeaderTypes
<1>4. CASE SleepEnds(p) \/ LoopEnds(p)
  <2>1. PICK l \in {"try", "down"} : at' = [at EXCEPT ![p] = l]
    BY <1>4 DEF SleepEnds, LoopEnds, Goto
  <2>2. /\ timer' = [timer EXCEPT ![p] = timer[p]]
        /\ task' = [task EXCEPT ![p] = task[p]]
        /\ age' = age /\ holder' = holder /\ stopping' = stopping /\ losses' = losses
        /\ at[p] \in {"sleep", "try"}
        /\ (at[p] = "sleep" /\ timer[p] = 0) \/ p \in stopping
    BY <1>4 DEF SleepEnds, LoopEnds, LInv, LeaderTypes, counters
  <2>3. p \notin holder /\ task[p] \notin {"runs", "told"}
    BY <2>2 DEF LInv, HolderLeads, Watched
  <2>4. Budget(p)'
    BY <1>1, <2>1, <2>2, <2>3 DEF Budget, LInv, LeaderTypes
  <2>5. QED
    BY <2>1, <2>2, <2>3, <2>4, OneMoves DEF LInv, LeaderTypes
<1>5. QED
  BY <1>2, <1>3, <1>4

(* lead: the ping, the ways out, the abort and the close.                  *)
LEMMA LeadLInv ==
    ASSUME LInv, NEW p \in Processes,
           \/ CheckTick(p) \/ PingAnswers(p) \/ PingFails(p) \/ StepDown(p)
           \/ TaskReturns(p) \/ HandleReady(p) \/ StopTimesOut(p) \/ AbortTakesEffect(p) \/ CloseConn(p)
    PROVE  LInv'
<1>1. /\ Budget(p) /\ timer[p] \in Nat /\ age[p] \in Nat
      /\ timer[p] \in 0 .. (AcquireRetryInterval + OverlapLimit)
  BY DEF LInv, LeaderTypes
<1>2. CASE CheckTick(p)
  <2>1. /\ at' = [at EXCEPT ![p] = "ping"]
        /\ timer' = [timer EXCEPT ![p] = PingTime]
        /\ task' = [task EXCEPT ![p] = task[p]]
        /\ age' = age /\ holder' = holder /\ stopping' = stopping /\ losses' = losses
        /\ at[p] = "lead" /\ timer[p] = 0
    BY <1>2 DEF CheckTick, LInv, LeaderTypes, Goto, Set, counters
  <2>2. Budget(p)'
    BY <1>1, <2>1 DEF Budget, LInv, LeaderTypes
  <2>3. task[p] \in {"runs", "told"} => p \in holder \/ losses > 0
    BY DEF LInv, Watched
  <2>4. QED
    BY <1>1, <2>1, <2>2, <2>3, OneMoves DEF LInv, LeaderTypes
<1>3. CASE PingAnswers(p)
  <2> DEFINE n == IF PingTime - timer[p] < LockCheckInterval
                  THEN LockCheckInterval - (PingTime - timer[p]) ELSE 0
  <2>1. n \in 0 .. LockCheckInterval
    BY <1>1, <1>3 DEF PingAnswers, Budget
  <2>2. /\ at' = [at EXCEPT ![p] = "lead"]
        /\ timer' = [timer EXCEPT ![p] = n]
        /\ task' = [task EXCEPT ![p] = task[p]]
        /\ age' = age /\ holder' = holder /\ stopping' = stopping /\ losses' = losses
        /\ p \in holder
    BY <1>3 DEF PingAnswers, LInv, LeaderTypes, Goto, Set, counters
  <2> HIDE DEF n
  <2>3. Budget(p)'
    BY <1>1, <2>1, <2>2 DEF Budget, LInv, LeaderTypes
  <2>4. QED
    BY <2>1, <2>2, <2>3, OneMoves DEF LInv, LeaderTypes
<1>4. CASE PingFails(p) \/ StepDown(p)
  <2> DEFINE t == IF task[p] = "runs" THEN "told" ELSE task[p]
  <2>1. /\ at' = [at EXCEPT ![p] = "stop"]
        /\ timer' = [timer EXCEPT ![p] = StopTimeout]
        /\ task' = [task EXCEPT ![p] = t]
        /\ age' = age /\ holder' = holder /\ stopping' = stopping /\ losses' = losses
        /\ at[p] \in {"lead", "ping"}
    BY <1>4 DEF PingFails, StepDown, ToldToStop, LInv, LeaderTypes, Set, Goto, counters
  <2>2. /\ t \in {"none", "runs", "told", "aborted"}
        /\ t \in {"runs", "told"} => p \in holder \/ losses > 0
    BY DEF LInv, LeaderTypes, Watched
  <2> HIDE DEF t
  <2>3. Budget(p)'
    BY <1>1, <2>1 DEF Budget, LInv, LeaderTypes
  <2>4. QED
    BY <2>1, <2>2, <2>3, OneMoves DEF LInv, LeaderTypes
<1>5. CASE HandleReady(p) \/ StopTimesOut(p)
  <2>1. PICK t \in {"none", "aborted"} : task' = [task EXCEPT ![p] = t]
    BY <1>5 DEF HandleReady, StopTimesOut, HasTask, LInv, LeaderTypes
  <2>2. /\ at' = [at EXCEPT ![p] = "close"]
        /\ timer' = [timer EXCEPT ![p] = timer[p]]
        /\ age' = age /\ holder' = holder /\ stopping' = stopping /\ losses' = losses
    BY <1>5 DEF HandleReady, StopTimesOut, LInv, LeaderTypes, Goto, counters
  <2>3. Budget(p)'
    BY <1>1, <2>2 DEF Budget, LInv, LeaderTypes
  <2>4. QED
    BY <1>1, <2>1, <2>2, <2>3, OneMoves DEF LInv, LeaderTypes
<1>6. CASE AbortTakesEffect(p) \/ TaskReturns(p)
  <2>1. /\ at' = [at EXCEPT ![p] = at[p]]
        /\ timer' = [timer EXCEPT ![p] = timer[p]]
        /\ task' = [task EXCEPT ![p] = "none"]
        /\ age' = age /\ holder' = holder /\ stopping' = stopping /\ losses' = losses
    BY <1>6 DEF AbortTakesEffect, TaskReturns, LInv, LeaderTypes, counters
  <2>2. Budget(p)'
    BY <1>1, <2>1 DEF Budget, LInv, LeaderTypes
  <2>3. p \in holder => at[p] \in {"lead", "ping", "stop", "close"}
    BY DEF LInv, HolderLeads
  <2>4. QED
    BY <1>1, <2>1, <2>2, <2>3, OneMoves DEF LInv, LeaderTypes
<1>7. CASE CloseConn(p)
  <2>1. /\ at' = [at EXCEPT ![p] = "sleep"]
        /\ timer' = [timer EXCEPT ![p] = AcquireRetryInterval]
        /\ task' = [task EXCEPT ![p] = task[p]]
        /\ age' = age /\ holder' = holder \ {p} /\ stopping' = stopping /\ losses' = losses
        /\ at[p] = "close"
    BY <1>7 DEF CloseConn, LInv, LeaderTypes, Set, Goto, counters
  <2>2. task[p] \notin {"runs", "told"}
    BY <2>1 DEF LInv, Watched
  <2>3. Budget(p)'
    BY <1>1, <2>1 DEF Budget, LInv, LeaderTypes
  <2>4. QED
    BY <2>1, <2>2, <2>3, OneMoves DEF LInv, LeaderTypes
<1>8. QED
  BY <1>2, <1>3, <1>4, <1>5, <1>6, <1>7

(* A lost session, a shutdown, the death of a process.                     *)
LEMMA FaultLInv ==
    ASSUME LInv, NEW p \in Processes,
           SessionLost(p) \/ Shutdown(p) \/ ServerDies(p)
    PROVE  LInv'
<1>1. /\ Budget(p) /\ timer[p] \in Nat /\ age[p] \in Nat
      /\ timer[p] \in 0 .. (AcquireRetryInterval + OverlapLimit)
  BY DEF LInv, LeaderTypes
<1>2. CASE SessionLost(p)
  <2>1. /\ at' = [at EXCEPT ![p] = at[p]]
        /\ timer' = [timer EXCEPT ![p] = timer[p]]
        /\ task' = [task EXCEPT ![p] = task[p]]
        /\ age' = age /\ holder' = holder \ {p} /\ stopping' = stopping
        /\ losses' = losses + 1 /\ losses \in Nat /\ p \in holder
    BY <1>2 DEF SessionLost, LInv, LeaderTypes
  <2>2. at[p] \in {"lead", "ping", "stop", "close"}
    BY <2>1 DEF LInv, HolderLeads
  <2>3. Budget(p)'
    BY <1>1, <2>1, <2>2 DEF Budget, LInv, LeaderTypes
  <2>4. task[p] \in {"runs", "told"} => at[p] \in {"lead", "ping", "stop"}
    BY DEF LInv, Watched
  <2>5. QED
    BY <1>1, <2>1, <2>2, <2>3, <2>4, OneMoves DEF LInv, LeaderTypes
<1>3. CASE Shutdown(p)
  <2>1. /\ at' = [at EXCEPT ![p] = at[p]]
        /\ timer' = [timer EXCEPT ![p] = timer[p]]
        /\ task' = [task EXCEPT ![p] = task[p]]
        /\ age' = age /\ holder' = holder /\ stopping' = stopping \cup {p}
        /\ losses' = losses
    BY <1>3 DEF Shutdown, LInv, LeaderTypes
  <2>2. Budget(p)'
    BY <1>1, <2>1 DEF Budget, LInv, LeaderTypes
  <2>3. /\ p \in holder => at[p] \in {"lead", "ping", "stop", "close"}
        /\ task[p] \in {"runs", "told"} => /\ at[p] \in {"lead", "ping", "stop"}
                                           /\ p \in holder \/ losses > 0
    BY DEF LInv, HolderLeads, Watched
  <2>4. QED
    BY <1>1, <2>1, <2>2, <2>3, OneMoves DEF LInv, LeaderTypes
<1>4. CASE ServerDies(p)
  <2>1. /\ at' = [at EXCEPT ![p] = "dead"]
        /\ timer' = [timer EXCEPT ![p] = timer[p]]
        /\ task' = [task EXCEPT ![p] = "none"]
        /\ age' = age /\ holder' = holder \ {p} /\ stopping' = stopping
        /\ losses' = losses
    BY <1>4 DEF ServerDies, Goto, LInv, LeaderTypes
  <2>2. Budget(p)'
    BY <1>1, <2>1 DEF Budget, LInv, LeaderTypes
  <2>3. QED
    BY <1>1, <2>1, <2>2, OneMoves DEF LInv, LeaderTypes
<1>5. QED
  BY <1>2, <1>3, <1>4

(* LInv is inductive.                                                      *)
LEMMA NextLInv == LInv /\ [LeaderNext]_leaderVars => LInv'
<1>1. ASSUME LInv, LeaderNext PROVE LInv'
  BY <1>1, TickLInv, LoopLInv, LeadLInv, FaultLInv DEF LeaderNext, Step
<1>2. ASSUME LInv, UNCHANGED leaderVars PROVE LInv'
  BY <1>2 DEF leaderVars, counters, LInv, LeaderTypes, OneHolder, HolderLeads, Watched, Budget
<1>3. QED
  BY <1>1, <1>2

(* At most one session holds the lock, only inside lead, and what lead's   *)
(* timers have left bounds how long a task without the lock has run.       *)
THEOREM LInvAlways == LeaderSpec => []LInv
  BY InitLInv, NextLInv, PTL DEF LeaderSpec

-----------------------------------------------------------------------------
(* The variables of leader.rs keep their types, and no two sessions hold   *)
(* the advisory lock.                                                      *)
THEOREM LeaderTypeCorrect == LeaderSpec => []TypeOK
<1>1. LInv => TypeOK
  <2> SUFFICES ASSUME LInv PROVE TypeOK
    OBVIOUS
  <2>1. Cardinality(holder) =< 1
    <3>1. CASE holder = {}
      BY <3>1, FS_EmptySet
    <3>2. CASE holder # {}
      <4>1. PICK p \in holder : TRUE
        BY <3>2
      <4>2. holder = {p}
        BY <4>1 DEF LInv, OneHolder
      <4>3. Cardinality({p}) = 1
        BY FS_Singleton
      <4>4. QED
        BY <4>2, <4>3
    <3>3. QED
      BY <3>1, <3>2
  <2>2. QED
    BY <2>1 DEF LInv, LeaderTypes, TypeOK
<1>2. QED
  BY <1>1, LInvAlways, PTL

(* The task of run_as_leader runs in two processes at once only after a    *)
(* session was lost or while an aborted task has not reached an await.     *)
THEOREM OneRunnerAlways == LeaderSpec => []OneRunner
<1>1. LInv => OneRunner
  BY DEF LInv, LeaderTypes, OneHolder, Watched, OneRunner, HasTask
<1>2. QED
  BY <1>1, LInvAlways, PTL

(* lead ends a task that lost the lock within LOCK_CHECK_INTERVAL, the     *)
(* time its ping hangs and STOP_TIMEOUT.                                   *)
THEOREM OverlapBoundedAlways == LeaderSpec => []OverlapBounded
<1>1. LInv => OverlapBounded
  BY DEF LInv, Budget, OverlapBounded
<1>2. QED
  BY <1>1, LInvAlways, PTL

(* The advisory lock is held only by a process inside lead.                *)
THEOREM HolderLeadsAlways == LeaderSpec => []HolderLeads
<1>1. LInv => HolderLeads
  BY DEF LInv
<1>2. QED
  BY <1>1, LInvAlways, PTL

(* The leader election is safe: one process runs the task while sessions   *)
(* are intact, an overlap after a lost session is bounded, and whoever     *)
(* holds the lock leads (leader.rs).                                       *)
THEOREM LeaderSafeAlways == LeaderSpec => []LeaderSafe
<1>1. OneRunner /\ OverlapBounded /\ HolderLeads => LeaderSafe
  BY DEF LeaderSafe
<1>2. QED
  BY OneRunnerAlways, OverlapBoundedAlways, HolderLeadsAlways, <1>1, PTL
=============================================================================

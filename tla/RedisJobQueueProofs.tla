------------------------ MODULE RedisJobQueueProofs ------------------------
(***************************************************************************)
(* Theorems about RedisJobQueue for every set of processes and jobs, every *)
(* number of permits and attempts, and every bound on faults and stops.    *)
(***************************************************************************)
EXTENDS RedisJobQueue, FiniteSetTheorems, TLAPS

(* The part of TypeOK that holds step by step without counting permits.    *)
Types ==
    /\ pc \in [Procs -> Locations]
    /\ shutdown \in [Procs -> BOOLEAN]
    /\ permits \in [Procs -> Int]
    /\ tasks \in [Procs -> SUBSET Tasks]
    /\ fate \in [Jobs -> Fates]
    /\ faults \in 0 .. MaxFaults
    /\ stops \in 0 .. MaxStops
    /\ seq \in Nat
    /\ ready \subseteq Envelopes
    /\ delayed \subseteq Envelopes
    /\ due \subseteq delayed
    /\ calls \in [Jobs -> [st: {"idle", "zadd", "ok", "err"}, seq: Nat]]

(* A job whose enqueue has not reached ZADD is nowhere yet.                *)
NotYetAnywhere ==
    \A j \in Jobs : calls[j].st \in {"idle", "zadd"} =>
        /\ \A e \in ready \cup delayed : e.job # j
        /\ \A p \in Procs : \A t \in tasks[p] : t.job # j

IInv == Types /\ SingleCopy /\ NotYetAnywhere

USE PriorityAssumption, MaxAttemptsAssumption, MaxConcurrentAssumption, BoundsAssumption

-----------------------------------------------------------------------------
(* One future t of p becomes u, which is of the same job: the copies of    *)
(* every job stay where they are.                                          *)
LEMMA ReplaceTask ==
    ASSUME IInv, NEW p \in Procs, NEW t \in tasks[p], NEW u \in Tasks, u.job = t.job,
           tasks' = [tasks EXCEPT ![p] = (@ \ {t}) \cup {u}],
           ready' = ready, delayed' = delayed, calls' = calls
    PROVE  SingleCopy' /\ NotYetAnywhere'
<1>1. \A q \in Procs : \A x \in tasks'[q] :
         \/ x \in tasks[q] /\ (q = p => x # t)
         \/ q = p /\ x = u
  BY DEF IInv, Types
<1>2. \A q \in Procs : \A x \in tasks[q] : x.job = t.job => q = p /\ x = t
  BY DEF IInv, SingleCopy
<1>3. SingleCopy'
  <2>1. (ready \cap delayed = {})'
    BY DEF IInv, SingleCopy
  <2>2. (\A e, f \in ready \cup delayed : e.job = f.job => e = f)'
    BY DEF IInv, SingleCopy
  <2>3. ASSUME NEW q \in Procs, NEW r \in Procs, NEW x \in tasks'[q], NEW y \in tasks'[r],
               x.job = y.job
        PROVE  q = r /\ x = y
    BY <1>1, <1>2, <2>3 DEF IInv, SingleCopy
  <2>4. ASSUME NEW q \in Procs, NEW x \in tasks'[q], NEW e \in ready' \cup delayed'
        PROVE  x.job # e.job
    BY <1>1, <2>4 DEF IInv, SingleCopy
  <2>5. QED
    BY <2>1, <2>2, <2>3, <2>4 DEF SingleCopy
<1>4. NotYetAnywhere'
  BY <1>1 DEF IInv, NotYetAnywhere
<1>5. QED
  BY <1>3, <1>4

(* Copies only disappear: what is left is still single.                    *)
LEMMA FewerCopies ==
    ASSUME IInv,
           \A q \in Procs : tasks'[q] \subseteq tasks[q],
           ready' \subseteq ready, delayed' \subseteq delayed,
           \A j \in Jobs : calls'[j].st \in {"idle", "zadd"}
                              => calls[j].st \in {"idle", "zadd"}
    PROVE  SingleCopy' /\ NotYetAnywhere'
<1>1. SingleCopy'
  BY DEF IInv, SingleCopy
<1>2. NotYetAnywhere'
  BY DEF IInv, NotYetAnywhere
<1>3. QED
  BY <1>1, <1>2

(* A member e is added to the queue for a job that has no other copy.      *)
LEMMA AddMember ==
    ASSUME IInv, NEW e \in Envelopes,
           \/ ready' = ready \cup {e} /\ delayed' = delayed
           \/ delayed' = delayed \cup {e} /\ ready' = ready,
           \A f \in ready \cup delayed : f.job # e.job,
           \A q \in Procs : tasks'[q] \subseteq tasks[q],
           \A q \in Procs : \A t \in tasks'[q] : t.job # e.job,
           \A j \in Jobs : calls'[j].st \in {"idle", "zadd"}
                              => calls[j].st \in {"idle", "zadd"} /\ j # e.job
    PROVE  SingleCopy' /\ NotYetAnywhere'
<1>1. ready' \cup delayed' = ready \cup delayed \cup {e}
  OBVIOUS
<1>2. e \notin ready /\ e \notin delayed
  OBVIOUS
<1>3. (ready \cap delayed = {})'
  BY <1>2 DEF IInv, SingleCopy
<1>4. SingleCopy'
  BY <1>1, <1>3 DEF IInv, SingleCopy
<1>5. NotYetAnywhere'
  BY <1>1 DEF IInv, NotYetAnywhere
<1>6. QED
  BY <1>4, <1>5

-----------------------------------------------------------------------------
(* Steps of the engine keep the copies of every job single.                *)
LEMMA EngineStepIInv ==
    ASSUME IInv, NEW p \in Procs, EngineStep(p)
    PROVE  IInv'
<1>0. UNCHANGED redisVars
  BY DEF EngineStep
<1>1. CASE AcquirePermit(p)
  <2>1. Types'
    BY <1>0, <1>1 DEF AcquirePermit, Locations, InDequeue, IInv, Types, redisVars
  <2>2. SingleCopy' /\ NotYetAnywhere'
    BY <1>0, <1>1, FewerCopies DEF AcquirePermit, Locations, InDequeue, IInv, Types, redisVars
  <2>3. QED
    BY <2>1, <2>2 DEF IInv
<1>2. CASE StopAcquiring(p)
  <2>1. Types'
    BY <1>0, <1>2 DEF StopAcquiring, Locations, IInv, Types, redisVars
  <2>2. SingleCopy' /\ NotYetAnywhere'
    BY <1>0, <1>2, FewerCopies DEF StopAcquiring, Locations, IInv, Types, redisVars
  <2>3. QED
    BY <2>1, <2>2 DEF IInv
<1>3. CASE Drained(p)
  <2>1. Types'
    BY <1>0, <1>3 DEF Drained, Locations, IInv, Types, redisVars
  <2>2. SingleCopy' /\ NotYetAnywhere'
    BY <1>0, <1>3, FewerCopies DEF Drained, Locations, IInv, Types, redisVars
  <2>3. QED
    BY <2>1, <2>2 DEF IInv
<1>4. CASE DrainTimeout(p)
  <2>1. Types'
    BY <1>0, <1>4 DEF DrainTimeout, Die, Locations, IInv, Types, redisVars
  <2>2. SingleCopy' /\ NotYetAnywhere'
    BY <1>0, <1>4, FewerCopies DEF DrainTimeout, Die, Locations, IInv, Types, redisVars
  <2>3. QED
    BY <2>1, <2>2 DEF IInv
<1>5. CASE Crash(p)
  <2>1. Types'
    BY <1>0, <1>5 DEF Crash, Die, Locations, IInv, Types, redisVars
  <2>2. SingleCopy' /\ NotYetAnywhere'
    BY <1>0, <1>5, FewerCopies DEF Crash, Die, Locations, IInv, Types, redisVars
  <2>3. QED
    BY <2>1, <2>2 DEF IInv
<1>6. CASE RequestShutdown(p)
  <2>1. Types'
    BY <1>0, <1>6 DEF RequestShutdown, IInv, Types, redisVars
  <2>2. SingleCopy' /\ NotYetAnywhere'
    BY <1>0, <1>6, FewerCopies DEF RequestShutdown, IInv, Types, redisVars
  <2>3. QED
    BY <2>1, <2>2 DEF IInv
<1>7. CASE Restart(p)
  <2>1. Types'
    BY <1>0, <1>7 DEF Restart, Locations, IInv, Types, redisVars
  <2>2. SingleCopy' /\ NotYetAnywhere'
    BY <1>0, <1>7, FewerCopies DEF Restart, Locations, IInv, Types, redisVars
  <2>3. QED
    BY <2>1, <2>2 DEF IInv
<1>8. ASSUME NEW t \in tasks[p], HandlerOk(p, t)
     PROVE  IInv'
  <2>0. t.job \in Jobs
    BY DEF IInv, Types, Tasks
  <2>1. Types'
    BY <1>0, <1>8, <2>0 DEF HandlerOk, EndTask, Fates, IInv, Types, redisVars
  <2>2. SingleCopy' /\ NotYetAnywhere'
    BY <1>0, <1>8, FewerCopies DEF HandlerOk, EndTask, IInv, Types, redisVars
  <2>3. QED
    BY <2>1, <2>2 DEF IInv
<1>9. ASSUME NEW t \in tasks[p], HandlerDiscard(p, t)
     PROVE  IInv'
  <2>0. t.job \in Jobs
    BY DEF IInv, Types, Tasks
  <2>1. Types'
    BY <1>0, <1>9, <2>0 DEF HandlerDiscard, EndTask, Fates, IInv, Types, redisVars
  <2>2. SingleCopy' /\ NotYetAnywhere'
    BY <1>0, <1>9, FewerCopies DEF HandlerDiscard, EndTask, IInv, Types, redisVars
  <2>3. QED
    BY <2>1, <2>2 DEF IInv
<1>10. ASSUME NEW t \in tasks[p], HandlerPanic(p, t)
     PROVE  IInv'
  <2>0. t.job \in Jobs
    BY DEF IInv, Types, Tasks
  <2>1. Types'
    BY <1>0, <1>10, <2>0 DEF HandlerPanic, EndTask, Fates, IInv, Types, redisVars
  <2>2. SingleCopy' /\ NotYetAnywhere'
    BY <1>0, <1>10, FewerCopies DEF HandlerPanic, EndTask, IInv, Types, redisVars
  <2>3. QED
    BY <2>1, <2>2 DEF IInv
<1>11. ASSUME NEW t \in tasks[p], HandlerTransient(p, t)
     PROVE  IInv'
  <2> DEFINE u == [t EXCEPT !.st = "retry"]
  <2>0. u \in Tasks /\ u.job = t.job
    BY DEF IInv, Types, Tasks
  <2>1. Types'
    BY <1>0, <1>11, <2>0 DEF HandlerTransient, IInv, Types, redisVars
  <2>2. SingleCopy' /\ NotYetAnywhere'
    <3> HIDE DEF u
    <3>1. tasks' = [tasks EXCEPT ![p] = (@ \ {t}) \cup {u}]
      BY <1>11 DEF HandlerTransient, u
    <3>2. QED
      BY <1>0, <2>0, <3>1, ReplaceTask DEF redisVars
  <2>3. QED
    BY <2>1, <2>2 DEF IInv
<1>12. QED
  BY <1>1, <1>2, <1>3, <1>4, <1>5, <1>6, <1>7, <1>8, <1>9, <1>10, <1>11 DEF EngineStep

-----------------------------------------------------------------------------
(* Steps of enqueue. *)
LEMMA CallerIInv ==
    ASSUME IInv, NEW j \in Jobs, Caller(j)
    PROVE  IInv'
<1>1. CASE EnqueueIncr(j)
  <2>1. Types'
    BY <1>1 DEF EnqueueIncr, engineVars, IInv, Types
  <2>2. SingleCopy' /\ NotYetAnywhere'
    BY <1>1, FewerCopies DEF EnqueueIncr, engineVars, IInv, Types
  <2>3. QED
    BY <2>1, <2>2 DEF IInv
<1>2. FirstEnvelope(j) \in Envelopes
  BY DEF FirstEnvelope, Envelopes, IInv, Types
<1>3. CASE EnqueueZadd(j)
  <2>1. Types'
    BY <1>2, <1>3 DEF EnqueueZadd, engineVars, IInv, Types
  <2>2. \A k \in Jobs : calls'[k].st \in {"idle", "zadd"}
                           => calls[k].st \in {"idle", "zadd"} /\ k # j
    BY <1>3 DEF EnqueueZadd, IInv, Types
  <2>3. SingleCopy' /\ NotYetAnywhere'
    BY <1>2, <1>3, <2>2, AddMember
    DEF EnqueueZadd, engineVars, FirstEnvelope, IInv, NotYetAnywhere
  <2>4. QED
    BY <2>1, <2>3 DEF IInv
<1>4. CASE EnqueueError(j)
  <2>1. \/ ready' = ready
        \/ calls[j].st = "zadd" /\ ready' = ready \cup {FirstEnvelope(j)}
    BY <1>4 DEF EnqueueError
  <2>2. Types'
    BY <1>2, <1>4, <2>1 DEF EnqueueError, IInv, Types
  <2>3. \A k \in Jobs : calls'[k].st \in {"idle", "zadd"}
                           => calls[k].st \in {"idle", "zadd"} /\ k # j
    BY <1>4 DEF EnqueueError, IInv, Types
  <2>4. CASE ready' = ready
    BY <1>4, <2>2, <2>3, <2>4, FewerCopies DEF EnqueueError, IInv
  <2>5. CASE calls[j].st = "zadd" /\ ready' = ready \cup {FirstEnvelope(j)}
    <3>1. SingleCopy' /\ NotYetAnywhere'
      BY <1>2, <1>4, <2>3, <2>5, AddMember
      DEF EnqueueError, FirstEnvelope, IInv, NotYetAnywhere
    <3>2. QED
      BY <2>2, <3>1 DEF IInv
  <2>6. QED
    BY <2>1, <2>4, <2>5
<1>5. QED
  BY <1>1, <1>3, <1>4 DEF Caller

(* Steps of enqueue_retry. *)
LEMMA RetryIInv ==
    ASSUME IInv, NEW p \in Procs, Retry(p)
    PROVE  IInv'
<1>1. ASSUME NEW t \in tasks[p], RetryIncr(p, t)
      PROVE  IInv'
  <2> DEFINE n == seq + 1
             u == [t EXCEPT !.st = "zadd", !.newSeq = n]
  <2>0. u \in Tasks /\ u.job = t.job
    <3>1. n \in Nat /\ t \in Tasks
      BY DEF IInv, Types
    <3> HIDE DEF n
    <3>2. QED
      BY <3>1 DEF Tasks
  <2>1. tasks' = [tasks EXCEPT ![p] = (@ \ {t}) \cup {u}]
    BY <1>1 DEF RetryIncr
  <2> HIDE DEF u
  <2>2. Types'
    BY <1>1, <2>0, <2>1 DEF RetryIncr, IInv, Types
  <2>3. SingleCopy' /\ NotYetAnywhere'
    BY <1>1, <2>0, <2>1, ReplaceTask DEF RetryIncr
  <2>4. QED
    BY <2>2, <2>3 DEF IInv
<1>2. ASSUME NEW t \in tasks[p], RetryZadd(p, t) \/ RetryError(p, t)
      PROVE  IInv'
  <2> DEFINE e == RetryEnvelope(t)
  <2>0. e \in Envelopes /\ e.job = t.job /\ t.job \in Jobs
    BY DEF RetryEnvelope, Envelopes, IInv, Types, Tasks
  <2>1. \/ delayed' = delayed
        \/ delayed' = delayed \cup {e}
    BY <1>2 DEF RetryZadd, RetryError
  <2>2. tasks' = [tasks EXCEPT ![p] = @ \ {t}]
    BY <1>2 DEF RetryZadd, RetryError, EndTask
  <2>3. UNCHANGED <<pc, shutdown, stops, seq, ready, due, calls>>
    BY <1>2 DEF RetryZadd, RetryError, EndTask
  <2>4. fate' \in [Jobs -> Fates] /\ faults' \in 0 .. MaxFaults
        /\ permits' \in [Procs -> Int]
    BY <1>2, <2>0 DEF RetryZadd, RetryError, EndTask, IInv, Types, Fates
  <2> HIDE DEF e
  <2>5. Types'
    BY <2>0, <2>1, <2>2, <2>3, <2>4 DEF IInv, Types
  <2>6. \A q \in Procs : tasks'[q] \subseteq tasks[q]
    BY <2>2 DEF IInv, Types
  <2>7. CASE delayed' = delayed
    BY <2>3, <2>5, <2>6, <2>7, FewerCopies DEF IInv
  <2>8. CASE delayed' = delayed \cup {e}
    <3>1. \A f \in ready \cup delayed : f.job # e.job
      BY <2>0 DEF IInv, SingleCopy
    <3>2. \A q \in Procs : \A x \in tasks'[q] : x.job # e.job
      BY <2>0, <2>2 DEF IInv, Types, SingleCopy
    <3>3. \A k \in Jobs : calls[k].st \in {"idle", "zadd"} => k # e.job
      BY <2>0 DEF IInv, NotYetAnywhere
    <3>4. SingleCopy' /\ NotYetAnywhere'
      BY <2>0, <2>3, <2>6, <2>8, <3>1, <3>2, <3>3, AddMember
    <3>5. QED
      BY <2>5, <3>4 DEF IInv
  <2>9. QED
    BY <2>1, <2>7, <2>8
<1>3. QED
  BY <1>1, <1>2 DEF Retry

(* Steps of dequeue. *)
LEMMA DequeueIInv ==
    ASSUME IInv, NEW p \in Procs, Dequeue(p)
    PROVE  IInv'
<1>1. CASE DequeueCheckShutdown(p)
  <2>1. Types'
    BY <1>1 DEF DequeueCheckShutdown, DequeueNone, redisVars, Locations, InDequeue, IInv, Types
  <2>2. SingleCopy' /\ NotYetAnywhere'
    BY <1>1, FewerCopies DEF DequeueCheckShutdown, DequeueNone, redisVars
  <2>3. QED
    BY <2>1, <2>2 DEF IInv
<1>2. CASE PromoteDue(p) \/ PromoteError(p)
  <2>1. PICK S \in {{}} \cup Promotable :
           ready' = ready \cup S /\ delayed' = delayed \ S /\ due' = due \ S
    BY <1>2 DEF PromoteDue, PromoteError
  <2>2. S \subseteq due
    BY DEF Promotable
  <2>3. Types'
    BY <1>2, <2>1, <2>2 DEF PromoteDue, PromoteError, Locations, InDequeue, IInv, Types
  <2>4. ready' \cup delayed' = ready \cup delayed
    BY <2>1, <2>2 DEF IInv, Types
  <2>5. ready' \cap delayed' = {}
    BY <2>1, <2>2 DEF IInv, Types, SingleCopy
  <2>6. SingleCopy'
    BY <1>2, <2>4, <2>5 DEF PromoteDue, PromoteError, IInv, SingleCopy
  <2>7. NotYetAnywhere'
    BY <1>2, <2>4 DEF PromoteDue, PromoteError, IInv, NotYetAnywhere
  <2>8. QED
    BY <2>3, <2>6, <2>7 DEF IInv
<1>3. CASE PopSpawn(p)
  <2>1. PICK e \in ready : ready' = ready \ {e} /\ Spawn(p, e)
    BY <1>3 DEF PopSpawn
  <2> DEFINE u == SpawnedTask(e)
  <2>2. u \in Tasks /\ u.job = e.job /\ e.job \in Jobs
    BY DEF SpawnedTask, Tasks, IInv, Types, Envelopes
  <2>3. tasks' = [tasks EXCEPT ![p] = @ \cup {u}]
    BY <2>1 DEF Spawn
  <2>4. UNCHANGED <<shutdown, permits, fate, faults, stops, seq, delayed, due, calls>>
    BY <1>3, <2>1 DEF PopSpawn, Spawn
  <2>5. pc' \in [Procs -> Locations]
    BY <2>1 DEF Spawn, IInv, Types, Locations
  <2> HIDE DEF u
  <2>6. Types'
    BY <2>1, <2>2, <2>3, <2>4, <2>5 DEF IInv, Types
  <2>7. \A q \in Procs : \A x \in tasks'[q] : x \in tasks[q] \/ (q = p /\ x = u)
    BY <2>3 DEF IInv, Types
  <2>8. \A f \in ready' \cup delayed' : f \in ready \cup delayed /\ f # e
    BY <2>1, <2>4 DEF IInv, SingleCopy
  <2>9. \A q \in Procs : \A x \in tasks[q] : x.job # u.job
    BY <2>2 DEF IInv, SingleCopy
  <2>10. SingleCopy'
    <3>1. (ready \cap delayed = {})'
      BY <2>1, <2>4 DEF IInv, SingleCopy
    <3>2. (\A d, f \in ready \cup delayed : d.job = f.job => d = f)'
      BY <2>8 DEF IInv, SingleCopy
    <3>3. (\A q, r \in Procs : \A x \in tasks[q], y \in tasks[r] :
             x.job = y.job => q = r /\ x = y)'
      BY <2>7, <2>9 DEF IInv, SingleCopy
    <3>4. (\A q \in Procs : \A x \in tasks[q], f \in ready \cup delayed : x.job # f.job)'
      BY <2>2, <2>7, <2>8 DEF IInv, SingleCopy
    <3>5. QED
      BY <3>1, <3>2, <3>3, <3>4 DEF SingleCopy
  <2>11. NotYetAnywhere'
    BY <2>2, <2>4, <2>7, <2>8 DEF IInv, NotYetAnywhere
  <2>12. QED
    BY <2>6, <2>10, <2>11 DEF IInv
<1>4. CASE PopUndecodable(p) \/ PopTimeout(p) \/ PopError(p)
  <2>1. /\ ready' \subseteq ready
        /\ UNCHANGED <<shutdown, permits, tasks, fate, stops, seq, delayed, due, calls>>
    BY <1>4 DEF PopUndecodable, PopTimeout, PopError, redisVars
  <2>2. pc' \in [Procs -> Locations] /\ faults' \in 0 .. MaxFaults
    BY <1>4 DEF PopUndecodable, PopTimeout, PopError,
                Locations, InDequeue, IInv, Types
  <2>3. Types'
    BY <2>1, <2>2 DEF IInv, Types
  <2>4. SingleCopy' /\ NotYetAnywhere'
    BY <2>1, FewerCopies
  <2>5. QED
    BY <2>3, <2>4 DEF IInv
<1>5. QED
  BY <1>1, <1>2, <1>3, <1>4 DEF Dequeue

(* The invariant holds at the start and every step keeps it.               *)
LEMMA InitIInv == Init => IInv
BY DEF Init, EngineInit, IInv, Types, SingleCopy, NotYetAnywhere, Locations, Fates

(* IInv is inductive.                                                      *)
LEMMA NextIInv == IInv /\ [Next]_vars => IInv'
<1> SUFFICES ASSUME IInv, [Next]_vars PROVE IInv'
  OBVIOUS
<1>1. ASSUME NEW j \in Jobs, Caller(j) PROVE IInv'
  BY <1>1, CallerIInv
<1>2. ASSUME NEW p \in Procs, EngineStep(p) PROVE IInv'
  BY <1>2, EngineStepIInv
<1>3. ASSUME NEW p \in Procs, Retry(p) PROVE IInv'
  BY <1>3, RetryIInv
<1>4. ASSUME NEW p \in Procs, Dequeue(p) PROVE IInv'
  BY <1>4, DequeueIInv
<1>5. ASSUME NEW e \in delayed, BecomeDue(e) PROVE IInv'
  <2>1. Types'
    BY <1>5 DEF BecomeDue, engineVars, IInv, Types
  <2>2. SingleCopy' /\ NotYetAnywhere'
    BY <1>5, FewerCopies DEF BecomeDue, engineVars
  <2>3. QED
    BY <2>1, <2>2 DEF IInv
<1>6. CASE UNCHANGED vars
  BY <1>6 DEF vars, engineVars, redisVars, IInv, Types, SingleCopy, NotYetAnywhere
<1>7. QED
  BY <1>1, <1>2, <1>3, <1>4, <1>5, <1>6 DEF Next

(* At most one copy of a job exists in the deployment (ZSET member or      *)
(* running future), for any number of worker processes, with crashes,      *)
(* failed commands and lost replies (queue/redis.rs, queue/worker.rs).     *)
THEOREM SingleCopyAlways == Spec => []SingleCopy
<1>1. IInv => SingleCopy
  BY DEF IInv
<1>2. QED
  BY InitIInv, NextIInv, <1>1, PTL DEF Spec

-----------------------------------------------------------------------------
(* The permits of one process add up. *)
PermitsOf(p) ==
    /\ permits[p] >= 0
    /\ IsFiniteSet(tasks[p])
    /\ permits[p] + Cardinality(tasks[p]) + Held(p) = MaxConcurrent

PInv == \A p \in Procs : PermitsOf(p)

(* A process the step does not touch keeps its account.                    *)
LEMMA OtherProcess ==
    ASSUME IInv, PInv, NEW q \in Procs,
           permits'[q] = permits[q], tasks'[q] = tasks[q], pc'[q] = pc[q]
    PROVE  PermitsOf(q)'
BY DEF PInv, PermitsOf, Held

(* A future ends: its permit is free again.                                *)
LEMMA EndTaskPermits ==
    ASSUME IInv, PInv, NEW p \in Procs, NEW t \in tasks[p], EndTask(p, t)
    PROVE  PInv'
<1> SUFFICES ASSUME NEW q \in Procs PROVE PermitsOf(q)'
  BY DEF PInv
<1>1. CASE q = p
  <2>1. tasks'[p] = tasks[p] \ {t} /\ permits'[p] = permits[p] + 1 /\ pc' = pc
    BY DEF EndTask, IInv, Types
  <2>2. PermitsOf(p)
    BY DEF PInv
  <2>3. IsFiniteSet(tasks'[p]) /\ Cardinality(tasks'[p]) = Cardinality(tasks[p]) - 1
    BY <2>1, <2>2, FS_RemoveElement DEF PermitsOf
  <2>4. Cardinality(tasks[p]) \in Nat /\ Held(p) \in {0, 1} /\ permits[p] \in Int
    BY <2>2, FS_CardinalityType DEF PermitsOf, Held, IInv, Types
  <2>5. QED
    BY <1>1, <2>1, <2>2, <2>3, <2>4 DEF PermitsOf, Held
<1>2. CASE q # p
  BY <1>2, OtherProcess DEF EndTask, IInv, Types
<1>3. QED
  BY <1>1, <1>2

(* A future changes its state but not its job: nothing to count.           *)
LEMMA ReplaceTaskPermits ==
    ASSUME IInv, PInv, NEW p \in Procs, NEW t \in tasks[p], NEW u, u.job = t.job,
           tasks' = [tasks EXCEPT ![p] = (@ \ {t}) \cup {u}],
           UNCHANGED <<permits, pc>>
    PROVE  PInv'
<1> SUFFICES ASSUME NEW q \in Procs PROVE PermitsOf(q)'
  BY DEF PInv
<1>1. CASE q = p
  <2>1. tasks'[p] = (tasks[p] \ {t}) \cup {u}
    BY DEF IInv, Types
  <2>2. u \notin tasks[p] \ {t}
    BY DEF IInv, SingleCopy
  <2>3. PermitsOf(p)
    BY DEF PInv
  <2>4. /\ IsFiniteSet(tasks[p] \ {t})
        /\ Cardinality(tasks[p] \ {t}) = Cardinality(tasks[p]) - 1
        /\ Cardinality(tasks[p]) \in Nat
    BY <2>3, FS_RemoveElement, FS_CardinalityType DEF PermitsOf
  <2>5. IsFiniteSet(tasks'[p]) /\ Cardinality(tasks'[p]) = Cardinality(tasks[p])
    <3> DEFINE D == tasks[p] \ {t}
    <3>1. IsFiniteSet(D) /\ u \notin D /\ tasks'[p] = D \cup {u}
      BY <2>1, <2>2, <2>4
    <3> HIDE DEF D
    <3>2. IsFiniteSet(D \cup {u}) /\ Cardinality(D \cup {u}) = Cardinality(D) + 1
      BY <3>1, FS_AddElement
    <3>3. Cardinality(D) = Cardinality(tasks[p]) - 1 /\ Cardinality(tasks[p]) \in Nat
      BY <2>4 DEF D
    <3>4. Cardinality(D) + 1 = Cardinality(tasks[p])
      BY <3>3
    <3>5. QED
      BY <3>1, <3>2, <3>4
  <2>6. QED
    BY <1>1, <2>3, <2>5 DEF PermitsOf, Held
<1>2. CASE q # p
  BY <1>2, OtherProcess DEF IInv, Types
<1>3. QED
  BY <1>1, <1>2

(* Steps that move the loop of p and leave its futures alone.              *)
LEMMA MoveLoopPermits ==
    ASSUME IInv, PInv, NEW p \in Procs, tasks' = tasks,
           NEW l \in Locations, pc' = [pc EXCEPT ![p] = l],
           NEW n \in Nat, permits' = [permits EXCEPT ![p] = n],
           n + (IF l \in InDequeue THEN 1 ELSE 0) = permits[p] + Held(p)
    PROVE  PInv'
<1> SUFFICES ASSUME NEW q \in Procs PROVE PermitsOf(q)'
  BY DEF PInv
<1>1. CASE q = p
  <2>1. permits'[p] = n /\ pc'[p] = l /\ Held(p)' = (IF l \in InDequeue THEN 1 ELSE 0)
    BY DEF IInv, Types, Held
  <2>2. PermitsOf(p)
    BY DEF PInv
  <2>3. Cardinality(tasks[p]) \in Nat /\ Held(p) \in {0, 1} /\ permits[p] \in Int
    BY <2>2, FS_CardinalityType DEF PermitsOf, Held, IInv, Types
  <2>4. QED
    BY <1>1, <2>1, <2>2, <2>3 DEF PermitsOf
<1>2. CASE q # p
  BY <1>2, OtherProcess DEF IInv, Types
<1>3. QED
  BY <1>1, <1>2

(* A process dies: all its permits die with it.                            *)
LEMMA DiePermits ==
    ASSUME IInv, PInv, NEW p \in Procs, Die(p)
    PROVE  PInv'
<1> SUFFICES ASSUME NEW q \in Procs PROVE PermitsOf(q)'
  BY DEF PInv
<1>1. CASE q = p
  <2>1. tasks'[p] = {} /\ permits'[p] = MaxConcurrent /\ Held(p)' = 0
    BY DEF Die, IInv, Types, Held, InDequeue
  <2>2. QED
    BY <1>1, <2>1, FS_EmptySet DEF PermitsOf
<1>2. CASE q # p
  BY <1>2, OtherProcess DEF Die, IInv, Types
<1>3. QED
  BY <1>1, <1>2

(* Every step of every process keeps its account of permits.               *)
LEMMA NextPInv == IInv /\ PInv /\ [Next]_vars => PInv'
<1> SUFFICES ASSUME IInv, PInv, [Next]_vars PROVE PInv'
  OBVIOUS
<1>0. ASSUME NEW p \in Procs PROVE permits[p] \in Nat /\ Held(p) \in {0, 1}
  BY DEF PInv, PermitsOf, Held, IInv, Types
<1>1. ASSUME UNCHANGED <<permits, tasks, pc>> PROVE PInv'
  BY <1>1, OtherProcess DEF PInv
<1>2. ASSUME NEW j \in Jobs, Caller(j) PROVE PInv'
  BY <1>1, <1>2 DEF Caller, EnqueueIncr, EnqueueZadd, EnqueueError, engineVars
<1>3. ASSUME NEW p \in Procs, EngineStep(p) PROVE PInv'
  <2>1. CASE AcquirePermit(p)
    <3>1. permits[p] - 1 \in Nat /\ Held(p) = 0
      BY <1>0, <2>1 DEF AcquirePermit, Held, InDequeue
    <3>2. "dequeue" \in Locations /\ "dequeue" \in InDequeue
      BY DEF Locations, InDequeue
    <3> DEFINE n == permits[p] - 1
    <3>3. /\ pc' = [pc EXCEPT ![p] = "dequeue"] /\ tasks' = tasks
          /\ permits' = [permits EXCEPT ![p] = n]
          /\ n + 1 = permits[p] + Held(p)
      BY <1>0, <2>1, <3>1 DEF AcquirePermit
    <3>4. n \in Nat
      BY <3>1
    <3> HIDE DEF n
    <3>5. QED
      BY <3>2, <3>3, <3>4, MoveLoopPermits
  <2>2. CASE StopAcquiring(p) \/ Drained(p) \/ Restart(p)
    <3>1. PICK l \in {"acquire", "drain", "stopped"} :
             pc' = [pc EXCEPT ![p] = l] /\ UNCHANGED <<permits, tasks>>
      BY <2>2 DEF StopAcquiring, Drained, Restart
    <3>2. Held(p) = 0 /\ l \in Locations /\ l \notin InDequeue
      BY <2>2 DEF StopAcquiring, Drained, Restart, Held, Locations, InDequeue
    <3>3. permits' = [permits EXCEPT ![p] = permits[p]]
      BY <3>1 DEF IInv, Types
    <3>4. QED
      BY <1>0, <3>1, <3>2, <3>3, MoveLoopPermits
  <2>3. CASE DrainTimeout(p) \/ Crash(p)
    BY <2>3, DiePermits DEF DrainTimeout, Crash
  <2>4. CASE RequestShutdown(p)
    BY <1>1, <2>4 DEF RequestShutdown
  <2>5. ASSUME NEW t \in tasks[p],
               HandlerOk(p, t) \/ HandlerDiscard(p, t) \/ HandlerPanic(p, t)
        PROVE  PInv'
    BY <2>5, EndTaskPermits DEF HandlerOk, HandlerDiscard, HandlerPanic
  <2>6. ASSUME NEW t \in tasks[p], HandlerTransient(p, t)
        PROVE  PInv'
    <3> DEFINE u == [t EXCEPT !.st = "retry"]
    <3>1. u.job = t.job
      BY DEF IInv, Types, Tasks
    <3>2. /\ tasks' = [tasks EXCEPT ![p] = (@ \ {t}) \cup {u}]
          /\ UNCHANGED <<permits, pc>>
      BY <2>6 DEF HandlerTransient
    <3> HIDE DEF u
    <3>3. QED
      BY <3>1, <3>2, ReplaceTaskPermits
  <2>7. QED
    BY <1>3, <2>1, <2>2, <2>3, <2>4, <2>5, <2>6 DEF EngineStep
<1>4. ASSUME NEW p \in Procs, Retry(p) PROVE PInv'
  <2>1. ASSUME NEW t \in tasks[p], RetryIncr(p, t) PROVE PInv'
    <3> DEFINE n == seq + 1
               u == [t EXCEPT !.st = "zadd", !.newSeq = n]
    <3>1. /\ tasks' = [tasks EXCEPT ![p] = (@ \ {t}) \cup {u}]
          /\ UNCHANGED <<permits, pc>>
      BY <2>1 DEF RetryIncr
    <3>2. u.job = t.job
      <4> HIDE DEF n
      <4>1. QED
        BY DEF IInv, Types, Tasks
    <3> HIDE DEF u
    <3>3. QED
      BY <3>1, <3>2, ReplaceTaskPermits
  <2>2. ASSUME NEW t \in tasks[p], RetryZadd(p, t) \/ RetryError(p, t) PROVE PInv'
    BY <2>2, EndTaskPermits DEF RetryZadd, RetryError
  <2>3. QED
    BY <1>4, <2>1, <2>2 DEF Retry
<1>5. ASSUME NEW p \in Procs, Dequeue(p) PROVE PInv'
  <2>1. CASE DequeueCheckShutdown(p) /\ shutdown[p]
    <3>1. Held(p) = 1 /\ "drain" \in Locations /\ "drain" \notin InDequeue
      BY <2>1 DEF DequeueCheckShutdown, Held, Locations, InDequeue
    <3>2. QED
      BY <1>0, <2>1, <3>1, MoveLoopPermits DEF DequeueCheckShutdown, DequeueNone
  <2>2. CASE \/ DequeueCheckShutdown(p) /\ ~shutdown[p]
             \/ PromoteDue(p) \/ PromoteError(p)
             \/ PopUndecodable(p) \/ PopTimeout(p) \/ PopError(p)
    <3>1. PICK l \in InDequeue :
             pc' = [pc EXCEPT ![p] = l] /\ UNCHANGED <<permits, tasks>>
      BY <2>2 DEF DequeueCheckShutdown, PromoteDue, PromoteError,
                  PopUndecodable, PopTimeout, PopError, InDequeue
    <3>2. Held(p) = 1
      BY <2>2 DEF DequeueCheckShutdown, PromoteDue, PromoteError,
                  PopUndecodable, PopTimeout, PopError, InDequeue, Held
    <3>3. permits' = [permits EXCEPT ![p] = permits[p]] /\ l \in Locations
      BY <3>1 DEF IInv, Types, Locations
    <3>4. QED
      BY <1>0, <3>1, <3>2, <3>3, MoveLoopPermits
  <2>3. CASE PopSpawn(p)
    <3>1. PICK e \in ready : Spawn(p, e)
      BY <2>3 DEF PopSpawn
    <3> DEFINE u == SpawnedTask(e)
    <3>2. /\ tasks'[p] = tasks[p] \cup {u}
          /\ pc'[p] = "acquire"
          /\ permits' = permits
          /\ Held(p) = 1
      BY <2>3, <3>1 DEF Spawn, PopSpawn, Held, InDequeue, IInv, Types
    <3>3. u \notin tasks[p]
      BY DEF SpawnedTask, IInv, SingleCopy
    <3> HIDE DEF u
    <3>4. PermitsOf(p)
      BY DEF PInv
    <3>5. /\ IsFiniteSet(tasks'[p])
          /\ Cardinality(tasks'[p]) = Cardinality(tasks[p]) + 1
          /\ Cardinality(tasks[p]) \in Nat
      BY <3>2, <3>3, <3>4, FS_AddElement, FS_CardinalityType DEF PermitsOf
    <3>6. PermitsOf(p)'
      BY <1>0, <3>2, <3>4, <3>5 DEF PermitsOf, Held, InDequeue
    <3>7. ASSUME NEW q \in Procs, q # p PROVE PermitsOf(q)'
      BY <3>1, <3>7, OtherProcess DEF Spawn, IInv, Types
    <3>8. QED
      BY <3>6, <3>7 DEF PInv
  <2>4. QED
    BY <1>5, <2>1, <2>2, <2>3 DEF Dequeue
<1>6. ASSUME NEW e \in delayed, BecomeDue(e) PROVE PInv'
  BY <1>1, <1>6 DEF BecomeDue, engineVars
<1>7. CASE UNCHANGED vars
  BY <1>1, <1>7 DEF vars, engineVars
<1>8. QED
  BY <1>2, <1>3, <1>4, <1>5, <1>6, <1>7 DEF Next

(* All permits are free at the start.                                      *)
LEMMA InitPInv == Init => PInv
BY FS_EmptySet DEF Init, EngineInit, PInv, PermitsOf, Held, InDequeue

(* The state has the types the module declares; in particular no more than *)
(* MaxConcurrent permits exist and none is given away twice.               *)
THEOREM TypeCorrect == Spec => []TypeOK
<1>1. IInv /\ PInv => TypeOK
  <2> SUFFICES ASSUME IInv, PInv PROVE TypeOK
    OBVIOUS
  <2>1. ASSUME NEW p \in Procs PROVE permits[p] \in 0 .. MaxConcurrent
    <3>1. Cardinality(tasks[p]) \in Nat /\ Held(p) \in {0, 1} /\ permits[p] \in Int
      BY FS_CardinalityType DEF PInv, PermitsOf, Held, IInv, Types
    <3>2. QED
      BY <3>1 DEF PInv, PermitsOf
  <2>2. QED
    BY <2>1 DEF TypeOK, IInv, Types
<1>2. QED
  BY InitIInv, NextIInv, InitPInv, NextPInv, <1>1, PTL DEF Spec

(* No permit of the worker's semaphore leaks or is counted twice           *)
(* (WorkerEngine::run, execute_with_retry).                                *)
THEOREM PermitsAccountedAlways == Spec => []PermitsAccounted
<1>1. PInv => PermitsAccounted
  BY DEF PInv, PermitsOf, PermitsAccounted
<1>2. QED
  BY InitIInv, NextIInv, InitPInv, NextPInv, <1>1, PTL DEF Spec

(* acquire_many(all) succeeds only when no future is left: a process that  *)
(* stops without a fault has finished every job it took.                   *)
THEOREM CleanStopAlways == Spec => CleanStop
<1> DEFINE Stop == \A p \in Procs :
              pc[p] = "drain" /\ pc'[p] = "stopped" /\ faults' = faults => tasks[p] = {}
<1>1. IInv /\ PInv /\ [Next]_vars => [Stop]_vars
  <2> SUFFICES ASSUME IInv, PInv, Next, NEW p \in Procs,
                      pc[p] = "drain", pc'[p] = "stopped", faults' = faults
               PROVE  tasks[p] = {}
    OBVIOUS
  <2>1. Drained(p)
    <3>0. faults \in Nat
      BY DEF IInv, Types
    <3>1. ASSUME NEW j \in Jobs, Caller(j) PROVE FALSE
      BY <3>1 DEF Caller, EnqueueIncr, EnqueueZadd, EnqueueError, engineVars
    <3>2. ASSUME NEW q \in Procs, Retry(q) PROVE FALSE
      BY <3>2 DEF Retry, RetryIncr, RetryZadd, RetryError, EndTask
    <3>3. ASSUME NEW q \in Procs, Dequeue(q) PROVE FALSE
      BY <3>3 DEF Dequeue, DequeueCheckShutdown, DequeueNone, PromoteDue, PromoteError,
                  PopSpawn, Spawn, PopUndecodable, PopTimeout, PopError, IInv, Types
    <3>4. ASSUME NEW e \in delayed, BecomeDue(e) PROVE FALSE
      BY <3>4 DEF BecomeDue, engineVars
    <3>5. ASSUME NEW q \in Procs, EngineStep(q) PROVE Drained(p)
      <4>1. ~DrainTimeout(q) /\ ~Crash(q)
        BY <3>0 DEF DrainTimeout, Crash
      <4>2. \A t \in tasks[q] : /\ ~HandlerOk(q, t) /\ ~HandlerDiscard(q, t)
                                /\ ~HandlerTransient(q, t) /\ ~HandlerPanic(q, t)
        BY DEF HandlerOk, HandlerDiscard, HandlerTransient, HandlerPanic, EndTask
      <4>3. ~AcquirePermit(q) /\ ~StopAcquiring(q) /\ ~RequestShutdown(q) /\ ~Restart(q)
        BY DEF AcquirePermit, StopAcquiring, RequestShutdown, Restart, IInv, Types
      <4>4. Drained(q)
        BY <3>5, <4>1, <4>2, <4>3 DEF EngineStep
      <4>5. QED
        BY <4>4 DEF Drained, IInv, Types
    <3>6. QED
      BY <3>1, <3>2, <3>3, <3>4, <3>5 DEF Next
  <2>2. Cardinality(tasks[p]) = 0
    <3>1. /\ permits[p] + Cardinality(tasks[p]) + Held(p) = MaxConcurrent
          /\ permits[p] = MaxConcurrent
          /\ Cardinality(tasks[p]) \in Nat
          /\ Held(p) = 0
      BY <2>1, FS_CardinalityType DEF PInv, PermitsOf, Drained, Held, InDequeue
    <3>2. QED
      BY <3>1
  <2>3. QED
    BY <2>2, FS_EmptySet DEF PInv, PermitsOf
<1>2. QED
  BY InitIInv, NextIInv, InitPInv, NextPInv, <1>1, PTL DEF Spec, CleanStop

-----------------------------------------------------------------------------
(* Where a job is, in the form the provers use.                            *)
Present(j) ==
    \/ \E e \in ready \cup delayed : e.job = j
    \/ \E p \in Procs : \E t \in tasks[p] : t.job = j

Settled(j) == fate[j] \in {"ok", "discarded"}

Decodable(j) == \A p \in Procs : <<p, j>> \notin Undecodable

LInv == faults = 0 =>
          \A j \in Jobs : calls[j].st = "ok" /\ Decodable(j) => Present(j) \/ Settled(j)

(* A step that is no fault takes the last copy of a job away only when the *)
(* worker logs it as completed or discarded.                               *)
LEMMA NextLInv == IInv /\ LInv /\ [Next]_vars => LInv'
<1> SUFFICES ASSUME IInv, LInv, [Next]_vars, faults' = 0,
                    NEW k \in Jobs, calls'[k].st = "ok", Decodable(k)
             PROVE  (Present(k) \/ Settled(k))'
  BY DEF LInv, Decodable
<1>0. faults \in Nat
  BY DEF IInv, Types
<1>1. ASSUME faults = 0, calls[k].st = "ok" PROVE Present(k) \/ Settled(k)
  BY <1>1 DEF LInv
<1>2. ASSUME UNCHANGED <<ready, delayed, tasks, fate, faults, calls>>
      PROVE  (Present(k) \/ Settled(k))'
  BY <1>1, <1>2 DEF Present, Settled
<1>3. ASSUME NEW j \in Jobs, Caller(j) PROVE (Present(k) \/ Settled(k))'
  <2>1. CASE EnqueueIncr(j)
    BY <1>1, <2>1 DEF EnqueueIncr, engineVars, IInv, Types, Present, Settled
  <2>2. CASE EnqueueZadd(j)
    <3>1. CASE k = j
      <4>1. FirstEnvelope(j) \in ready' /\ FirstEnvelope(j).job = k
        BY <2>2, <3>1 DEF EnqueueZadd, FirstEnvelope
      <4>2. QED
        BY <4>1 DEF Present
    <3>2. CASE k # j
      BY <1>1, <2>2, <3>2 DEF EnqueueZadd, engineVars, IInv, Types, Present, Settled
    <3>3. QED
      BY <3>1, <3>2
  <2>3. CASE EnqueueError(j)
    BY <1>0, <2>3 DEF EnqueueError
  <2>4. QED
    BY <1>3, <2>1, <2>2, <2>3 DEF Caller
<1>4. ASSUME NEW p \in Procs, EngineStep(p) PROVE (Present(k) \/ Settled(k))'
  <2>0. UNCHANGED redisVars
    BY <1>4 DEF EngineStep
  <2>1. CASE AcquirePermit(p) \/ StopAcquiring(p) \/ Drained(p)
             \/ RequestShutdown(p) \/ Restart(p)
    BY <1>2, <2>0, <2>1
    DEF redisVars, AcquirePermit, StopAcquiring, Drained, RequestShutdown, Restart
  <2>2. CASE DrainTimeout(p) \/ Crash(p)
    BY <1>0, <2>2 DEF DrainTimeout, Crash
  <2>3. ASSUME NEW t \in tasks[p], HandlerPanic(p, t)
        PROVE  (Present(k) \/ Settled(k))'
    BY <1>0, <2>3 DEF HandlerPanic
  <2>4. ASSUME NEW t \in tasks[p], HandlerOk(p, t) \/ HandlerDiscard(p, t)
        PROVE  (Present(k) \/ Settled(k))'
    <3>1. t.job \in Jobs /\ faults' = faults
      BY <2>4 DEF IInv, Types, Tasks, HandlerOk, HandlerDiscard
    <3>2. CASE k = t.job
      BY <2>4, <3>1, <3>2 DEF HandlerOk, HandlerDiscard, Settled, IInv, Types
    <3>3. CASE k # t.job
      <4>1. fate'[k] = fate[k]
        BY <2>4, <3>1, <3>3 DEF HandlerOk, HandlerDiscard, IInv, Types
      <4>2. \A q \in Procs : \A x \in tasks[q] : x.job = k => x \in tasks'[q]
        <5>1. tasks' = [tasks EXCEPT ![p] = @ \ {t}]
          BY <2>4 DEF HandlerOk, HandlerDiscard, EndTask
        <5>2. QED
          BY <3>3, <5>1 DEF IInv, Types
      <4>3. QED
        BY <1>1, <2>0, <3>1, <4>1, <4>2 DEF Present, Settled, redisVars
    <3>4. QED
      BY <3>2, <3>3
  <2>5. ASSUME NEW t \in tasks[p], HandlerTransient(p, t)
        PROVE  (Present(k) \/ Settled(k))'
    <3> DEFINE u == [t EXCEPT !.st = "retry"]
    <3>1. u.job = t.job
      BY DEF IInv, Types, Tasks
    <3>2. /\ tasks' = [tasks EXCEPT ![p] = (@ \ {t}) \cup {u}]
          /\ UNCHANGED <<fate, faults>>
      BY <2>5 DEF HandlerTransient
    <3> HIDE DEF u
    <3>3. \A q \in Procs : \A x \in tasks[q] :
             x \in tasks'[q] \/ (q = p /\ x.job = u.job /\ u \in tasks'[q])
      BY <3>1, <3>2 DEF IInv, Types
    <3>4. QED
      BY <1>1, <2>0, <3>2, <3>3 DEF Present, Settled, redisVars
  <2>6. QED
    BY <1>4, <2>1, <2>2, <2>3, <2>4, <2>5 DEF EngineStep
<1>5. ASSUME NEW p \in Procs, Retry(p) PROVE (Present(k) \/ Settled(k))'
  <2>1. ASSUME NEW t \in tasks[p], RetryIncr(p, t)
        PROVE  (Present(k) \/ Settled(k))'
    <3> DEFINE n == seq + 1
               u == [t EXCEPT !.st = "zadd", !.newSeq = n]
    <3>1. /\ tasks' = [tasks EXCEPT ![p] = (@ \ {t}) \cup {u}]
          /\ UNCHANGED <<fate, faults, ready, delayed, calls>>
      BY <2>1 DEF RetryIncr
    <3>2. u.job = t.job
      <4> HIDE DEF n
      <4>1. QED
        BY DEF IInv, Types, Tasks
    <3> HIDE DEF u
    <3>3. \A q \in Procs : \A x \in tasks[q] :
             x \in tasks'[q] \/ (q = p /\ x.job = u.job /\ u \in tasks'[q])
      BY <3>1, <3>2 DEF IInv, Types
    <3>4. QED
      BY <1>1, <3>1, <3>3 DEF Present, Settled
  <2>2. ASSUME NEW t \in tasks[p], RetryZadd(p, t)
        PROVE  (Present(k) \/ Settled(k))'
    <3>1. CASE k = t.job
      <4>1. RetryEnvelope(t) \in delayed' /\ RetryEnvelope(t).job = k
        BY <2>2, <3>1 DEF RetryZadd, RetryEnvelope
      <4>2. QED
        BY <4>1 DEF Present
    <3>2. CASE k # t.job
      <4>1. \A q \in Procs : \A x \in tasks[q] : x.job = k => x \in tasks'[q]
        BY <2>2, <3>2 DEF RetryZadd, EndTask, IInv, Types
      <4>2. QED
        BY <1>1, <2>2, <4>1 DEF RetryZadd, Present, Settled
    <3>3. QED
      BY <3>1, <3>2
  <2>3. ASSUME NEW t \in tasks[p], RetryError(p, t)
        PROVE  (Present(k) \/ Settled(k))'
    BY <1>0, <2>3 DEF RetryError
  <2>4. QED
    BY <1>5, <2>1, <2>2, <2>3 DEF Retry
<1>6. ASSUME NEW p \in Procs, Dequeue(p) PROVE (Present(k) \/ Settled(k))'
  <2>1. CASE DequeueCheckShutdown(p) \/ PopTimeout(p)
    BY <1>2, <2>1 DEF DequeueCheckShutdown, DequeueNone, PopTimeout, redisVars
  <2>2. CASE PromoteDue(p)
    <3>1. PICK S \in Promotable :
             ready' = ready \cup S /\ delayed' = delayed \ S /\ due' = due \ S
      BY <2>2 DEF PromoteDue
    <3>2. ready' \cup delayed' = ready \cup delayed
      BY <3>1 DEF Promotable, IInv, Types
    <3>3. QED
      BY <1>1, <2>2, <3>2 DEF PromoteDue, Present, Settled
  <2>3. CASE PromoteError(p) \/ PopError(p)
    BY <1>0, <2>3 DEF PromoteError, PopError
  <2>4. CASE PopSpawn(p)
    <3>1. PICK e \in ready : ready' = ready \ {e} /\ Spawn(p, e)
      BY <2>4 DEF PopSpawn
    <3> DEFINE u == SpawnedTask(e)
    <3>2. /\ tasks' = [tasks EXCEPT ![p] = @ \cup {u}]
          /\ u.job = e.job
          /\ UNCHANGED <<fate, faults, delayed, calls>>
      BY <2>4, <3>1 DEF Spawn, PopSpawn, SpawnedTask
    <3> HIDE DEF u
    <3>3. \A q \in Procs : tasks[q] \subseteq tasks'[q]
      BY <3>2 DEF IInv, Types
    <3>4. u \in tasks'[p]
      BY <3>2 DEF IInv, Types
    <3>5. QED
      BY <1>1, <3>1, <3>2, <3>3, <3>4 DEF Present, Settled
  <2>5. CASE PopUndecodable(p)
    <3>1. PICK e \in ready : ready' = ready \ {e} /\ <<p, e.job>> \in Undecodable
      BY <2>5 DEF PopUndecodable
    <3>2. e.job # k
      BY <3>1 DEF Decodable
    <3>3. QED
      BY <1>1, <2>5, <3>1, <3>2 DEF PopUndecodable, Present, Settled
  <2>6. QED
    BY <1>6, <2>1, <2>2, <2>3, <2>4, <2>5 DEF Dequeue
<1>7. ASSUME NEW e \in delayed, BecomeDue(e) PROVE (Present(k) \/ Settled(k))'
  BY <1>2, <1>7 DEF BecomeDue, engineVars
<1>8. CASE UNCHANGED vars
  BY <1>2, <1>8 DEF vars, engineVars, redisVars
<1>9. QED
  BY <1>3, <1>4, <1>5, <1>6, <1>7, <1>8 DEF Next

(* Without crashes, panics, drain timeouts and Redis errors no job is      *)
(* lost, however workers are stopped and restarted (queue/redis.rs,        *)
(* dequeue; queue/worker.rs, WorkerEngine::run).                           *)
THEOREM NothingLostAlways == Spec => []NothingLostWithoutFault
<1>1. Init => LInv
  BY DEF Init, EngineInit, LInv
<1>2. IInv /\ LInv => NothingLostWithoutFault
  <2>1. ASSUME NEW j \in Jobs, Present(j) PROVE Queued(j) # {} \/ Running(j) # {}
    BY <2>1 DEF Present, Queued, Running
  <2>2. QED
    BY <2>1 DEF LInv, NothingLostWithoutFault, Decodable, Settled
<1>3. QED
  BY InitIInv, NextIInv, <1>1, NextLInv, <1>2, PTL DEF Spec


-----------------------------------------------------------------------------
(* The numbers drawn from Redis.  Members is what BZPOPMIN and the script  *)
(* can see; a number is pending between INCR and ZADD.                     *)
Members == ready \cup delayed

(* No number is in use twice, by members, by calls of enqueue or by        *)
(* retries between their INCR and their ZADD.                              *)
SInv ==
    /\ \A e \in Members : e.seq =< seq
    /\ \A e, f \in Members : e.seq = f.seq => e = f
    /\ \A j \in Jobs : calls[j].st = "zadd" =>
          calls[j].seq =< seq /\ \A e \in Members : e.seq # calls[j].seq
    /\ \A p \in Procs : \A t \in tasks[p] : t.st = "zadd" =>
          t.newSeq =< seq /\ \A e \in Members : e.seq # t.newSeq
    /\ \A j, k \in Jobs :
          calls[j].st = "zadd" /\ calls[k].st = "zadd" /\ calls[j].seq = calls[k].seq => j = k
    /\ \A j \in Jobs, p \in Procs : \A t \in tasks[p] :
          calls[j].st = "zadd" /\ t.st = "zadd" => calls[j].seq # t.newSeq
    /\ \A p, q \in Procs : \A t \in tasks[p], u \in tasks[q] :
          t.st = "zadd" /\ u.st = "zadd" /\ t.newSeq = u.newSeq => p = q /\ t = u

(* A step that draws no number and adds no member.                         *)
LEMMA FewerNumbers ==
    ASSUME SInv, seq' = seq, Members' \subseteq Members,
           \A j \in Jobs : calls'[j].st = "zadd" => calls'[j] = calls[j],
           \A p \in Procs : \A t \in tasks'[p] : t.st = "zadd" => t \in tasks[p]
    PROVE  SInv'
  BY DEF SInv

(* A step that turns a pending number into that of a member.               *)
LEMMA NumberUsed ==
    ASSUME SInv, NEW e, seq' = seq, Members' = Members \cup {e}, e.seq =< seq,
           \A f \in Members : f.seq # e.seq,
           \A j \in Jobs : calls'[j].st = "zadd" => calls'[j] = calls[j] /\ calls[j].seq # e.seq,
           \A p \in Procs : \A t \in tasks'[p] : t.st = "zadd" => t \in tasks[p] /\ t.newSeq # e.seq
    PROVE  SInv'
  BY DEF SInv

(* Steps of enqueue.                                                       *)
LEMMA CallerSInv ==
    ASSUME IInv, SInv, NEW j \in Jobs, Caller(j)
    PROVE  SInv'
<1>0. calls \in [Jobs -> [st: {"idle", "zadd", "ok", "err"}, seq: Nat]] /\ seq \in Nat
  BY DEF IInv, Types
<1>1. CASE EnqueueIncr(j)
  <2>1. calls' = [calls EXCEPT ![j] = [st |-> "zadd", seq |-> seq + 1]]
    BY <1>1 DEF EnqueueIncr
  <2>2. seq' = seq + 1 /\ Members' = Members /\ tasks' = tasks
    BY <1>1 DEF EnqueueIncr, engineVars, Members
  <2>3. calls'[j].st = "zadd" /\ calls'[j].seq = seq + 1
    BY <1>0, <2>1
  <2>4. \A k \in Jobs : k # j => calls'[k] = calls[k]
    BY <1>0, <2>1
  <2>5. /\ \A e \in Members : e.seq \in Nat
        /\ \A k \in Jobs : calls[k].seq \in Nat
        /\ \A p \in Procs : \A t \in tasks[p] : t.newSeq \in Nat
    BY DEF IInv, Types, Envelopes, Tasks, Members
  <2>6. QED
    BY <1>0, <2>2, <2>3, <2>4, <2>5 DEF SInv
<1>2. CASE (EnqueueZadd(j) \/ EnqueueError(j)) /\ ready' = ready
  <2>1. QED
    BY <1>0, <1>2, FewerNumbers DEF EnqueueZadd, EnqueueError, engineVars, Members
<1>3. CASE /\ EnqueueZadd(j) \/ EnqueueError(j)
           /\ calls[j].st = "zadd" /\ ready' = ready \cup {FirstEnvelope(j)}
  <2> DEFINE e == FirstEnvelope(j)
  <2>1. e.seq = calls[j].seq
    BY DEF FirstEnvelope
  <2>2. seq' = seq /\ Members' = Members \cup {e} /\ tasks' = tasks
    BY <1>3 DEF EnqueueZadd, EnqueueError, engineVars, Members
  <2>3. \A k \in Jobs : calls'[k].st = "zadd" => calls'[k] = calls[k] /\ k # j
    BY <1>0, <1>3 DEF EnqueueZadd, EnqueueError
  <2> HIDE DEF e
  <2>4. QED
    BY <1>3, <2>1, <2>2, <2>3, NumberUsed DEF SInv
<1>4. QED
  BY <1>1, <1>2, <1>3 DEF Caller, EnqueueZadd, EnqueueError

(* Steps of enqueue_retry.                                                 *)
LEMMA RetrySInv ==
    ASSUME IInv, SInv, NEW p \in Procs, Retry(p)
    PROVE  SInv'
<1>0. tasks \in [Procs -> SUBSET Tasks] /\ seq \in Nat
  BY DEF IInv, Types
<1>1. ASSUME NEW t \in tasks[p], RetryIncr(p, t)
      PROVE  SInv'
  <2> DEFINE u == [t EXCEPT !.st = "zadd", !.newSeq = seq + 1]
  <2>1. tasks' = [tasks EXCEPT ![p] = (@ \ {t}) \cup {u}]
    BY <1>1 DEF RetryIncr
  <2>2. seq' = seq + 1 /\ Members' = Members /\ calls' = calls
    BY <1>1 DEF RetryIncr, Members
  <2>3. u.st = "zadd" /\ u.newSeq = seq + 1
    BY <1>0 DEF Tasks
  <2> HIDE DEF u
  <2>4. \A q \in Procs : \A x \in tasks'[q] : x \in tasks[q] \/ (q = p /\ x = u)
    BY <1>0, <2>1
  <2>5. /\ \A e \in Members : e.seq \in Nat
        /\ \A k \in Jobs : calls[k].seq \in Nat
        /\ \A q \in Procs : \A x \in tasks[q] : x.newSeq \in Nat
    BY DEF IInv, Types, Envelopes, Tasks, Members
  <2>6. QED
    BY <1>0, <2>2, <2>3, <2>4, <2>5 DEF SInv
<1>2. ASSUME NEW t \in tasks[p], RetryZadd(p, t) \/ RetryError(p, t)
      PROVE  SInv'
  <2> DEFINE e == RetryEnvelope(t)
  <2>1. \A q \in Procs : \A x \in tasks'[q] : x \in tasks[q] /\ (q = p => x # t)
    BY <1>0, <1>2 DEF RetryZadd, RetryError, EndTask
  <2>2. seq' = seq /\ calls' = calls
    BY <1>2 DEF RetryZadd, RetryError
  <2>3. CASE delayed' = delayed
    BY <1>2, <2>1, <2>2, <2>3, FewerNumbers DEF RetryZadd, RetryError, Members
  <2>4. CASE t.st = "zadd" /\ delayed' = delayed \cup {e}
    <3>1. e.seq = t.newSeq
      BY DEF RetryEnvelope
    <3>2. Members' = Members \cup {e}
      BY <1>2, <2>4 DEF RetryZadd, RetryError, Members
    <3> HIDE DEF e
    <3>3. QED
      BY <2>1, <2>2, <2>4, <3>1, <3>2, NumberUsed DEF SInv
  <2>5. QED
    BY <1>2, <2>3, <2>4 DEF RetryZadd, RetryError
<1>3. QED
  BY <1>1, <1>2 DEF Retry

(* Steps of the engine and of dequeue draw no number.                      *)
LEMMA OthersSInv ==
    ASSUME IInv, SInv, NEW p \in Procs, EngineStep(p) \/ Dequeue(p)
    PROVE  SInv'
<1>0. tasks \in [Procs -> SUBSET Tasks] /\ due \subseteq delayed
  BY DEF IInv, Types
<1>1. CASE EngineStep(p)
  <2>1. seq' = seq /\ calls' = calls /\ Members' = Members
    BY <1>1 DEF EngineStep, redisVars, Members
  <2>2. \A q \in Procs : \A t \in tasks'[q] : t.st = "zadd" => t \in tasks[q]
    <3>1. ASSUME NEW t \in tasks[p], HandlerTransient(p, t), NEW q \in Procs, NEW x \in tasks'[q],
                 x.st = "zadd"
          PROVE  x \in tasks[q]
      <4>1. [t EXCEPT !.st = "retry"].st = "retry"
        BY <1>0 DEF Tasks
      <4>2. QED
        BY <1>0, <3>1, <4>1 DEF HandlerTransient
    <3>2. ASSUME NEW t \in tasks[p], HandlerOk(p, t) \/ HandlerDiscard(p, t) \/ HandlerPanic(p, t)
          PROVE  \A q \in Procs : tasks'[q] \subseteq tasks[q]
      BY <1>0, <3>2 DEF HandlerOk, HandlerDiscard, HandlerPanic, EndTask
    <3>3. ASSUME AcquirePermit(p) \/ StopAcquiring(p) \/ Drained(p) \/ DrainTimeout(p) \/ Crash(p)
                    \/ RequestShutdown(p) \/ Restart(p)
          PROVE  \A q \in Procs : tasks'[q] \subseteq tasks[q]
      BY <1>0, <3>3 DEF AcquirePermit, StopAcquiring, Drained, DrainTimeout, Crash, Die, RequestShutdown, Restart
    <3>4. QED
      BY <1>1, <3>1, <3>2, <3>3 DEF EngineStep
  <2>3. QED
    BY <2>1, <2>2, FewerNumbers
<1>2. CASE PopSpawn(p)
  <2>1. PICK e \in ready : ready' = ready \ {e} /\ Spawn(p, e)
    BY <1>2 DEF PopSpawn
  <2>2. SpawnedTask(e).st = "run"
    BY DEF SpawnedTask
  <2>3. \A q \in Procs : \A x \in tasks'[q] : x.st = "zadd" => x \in tasks[q]
    BY <1>0, <2>1, <2>2 DEF Spawn
  <2>4. QED
    BY <1>2, <2>1, <2>3, FewerNumbers DEF PopSpawn, Members
<1>3. CASE DequeueCheckShutdown(p)
  BY <1>3, FewerNumbers DEF DequeueCheckShutdown, DequeueNone, redisVars, Members
<1>4. CASE PromoteDue(p) \/ PromoteError(p)
  <2>1. PICK S \in {{}} \cup Promotable :
           ready' = ready \cup S /\ delayed' = delayed \ S /\ due' = due \ S
    BY <1>4 DEF PromoteDue, PromoteError
  <2>2. S \subseteq due
    BY DEF Promotable
  <2>3. Members' = Members
    BY <1>0, <2>1, <2>2 DEF Members
  <2>4. QED
    BY <1>4, <2>3, FewerNumbers DEF PromoteDue, PromoteError
<1>5. CASE PopUndecodable(p) \/ PopTimeout(p) \/ PopError(p)
  <2>1. Members' \subseteq Members
    BY <1>5 DEF PopUndecodable, PopTimeout, PopError, redisVars, Members
  <2>2. QED
    BY <1>5, <2>1, FewerNumbers DEF PopUndecodable, PopTimeout, PopError, redisVars
<1>6. QED
  BY <1>1, <1>2, <1>3, <1>4, <1>5 DEF Dequeue

(* Whatever processes, callers and retries interleave, a number drawn from *)
(* Redis is in use once: two members never are the same JSON, so ZADD      *)
(* never overwrites one (queue/redis.rs, next_seq before ZADD).            *)
THEOREM DrawnSeqsFreshAlways == Spec => []DrawnSeqsFresh
<1>1. Init => SInv
  BY DEF Init, EngineInit, SInv, Members
<1>2. IInv /\ SInv /\ [Next]_vars => SInv'
  <2> SUFFICES ASSUME IInv, SInv, [Next]_vars PROVE SInv'
    OBVIOUS
  <2>1. ASSUME NEW j \in Jobs, Caller(j) PROVE SInv'
    BY <2>1, CallerSInv
  <2>2. ASSUME NEW p \in Procs, EngineStep(p) \/ Dequeue(p) PROVE SInv'
    BY <2>2, OthersSInv
  <2>3. ASSUME NEW p \in Procs, Retry(p) PROVE SInv'
    BY <2>3, RetrySInv
  <2>4. ASSUME NEW e \in delayed, BecomeDue(e) PROVE SInv'
    BY <2>4, FewerNumbers DEF BecomeDue, engineVars, Members
  <2>5. CASE UNCHANGED vars
    BY <2>5, FewerNumbers DEF vars, engineVars, redisVars, Members
  <2>6. QED
    BY <2>1, <2>2, <2>3, <2>4, <2>5 DEF Next
<1>3. SInv => DrawnSeqsFresh
  BY DEF SInv, DrawnSeqsFresh, Members
<1>4. QED
  BY InitIInv, NextIInv, <1>1, <1>2, <1>3, PTL DEF Spec

(* The queue is safe: a job is in one place, numbers and permits are used  *)
(* once, and nothing is lost without a fault (queue/redis.rs, worker.rs).  *)
THEOREM QueueSafeAlways == Spec => []QueueSafe
<1>1. SingleCopy /\ PermitsAccounted /\ NothingLostWithoutFault /\ DrawnSeqsFresh => QueueSafe
  BY DEF QueueSafe
<1>2. QED
  BY SingleCopyAlways, PermitsAccountedAlways, NothingLostAlways, DrawnSeqsFreshAlways, <1>1, PTL

-----------------------------------------------------------------------------
(* A future only asks for a retry that it has.                             *)
RInv ==
    \A p \in Procs : \A t \in tasks[p] :
        t.st \in {"retry", "zadd"} => t.attempt + 1 < MaxAttempts[t.job]

LEMMA NextRInv == IInv /\ RInv /\ [Next]_vars => RInv'
<1> SUFFICES ASSUME IInv, RInv, [Next]_vars PROVE RInv'
  OBVIOUS
<1>1. ASSUME NEW p \in Procs, EngineStep(p) PROVE RInv'
  <2>1. ASSUME NEW t \in tasks[p], HandlerTransient(p, t)
        PROVE  RInv'
    <3>1. \A q \in Procs : \A x \in tasks'[q] :
             x \in tasks[q] \/ x = [t EXCEPT !.st = "retry"]
      BY <2>1 DEF HandlerTransient, IInv, Types
    <3>2. t \in Tasks /\ t.attempt + 1 < MaxAttempts[t.job]
      BY <2>1 DEF HandlerTransient, MayRetry, IInv, Types
    <3> QED
      BY <3>1, <3>2 DEF RInv, Tasks
  <2>2. CASE ~\E t \in tasks[p] : HandlerTransient(p, t)
    <3>1. \A q \in Procs : tasks'[q] \subseteq tasks[q]
      BY <1>1, <2>2 DEF EngineStep, AcquirePermit, StopAcquiring, Drained, DrainTimeout, Crash, Die,
                        RequestShutdown, Restart, HandlerOk, HandlerDiscard, HandlerPanic, EndTask, IInv, Types
    <3> QED
      BY <3>1 DEF RInv
  <2> QED
    BY <2>1, <2>2
<1>2. ASSUME NEW p \in Procs, Retry(p) PROVE RInv'
  <2>1. ASSUME NEW t \in tasks[p], RetryIncr(p, t)
        PROVE  RInv'
    <3>1. PICK u : u = [t EXCEPT !.st = "zadd", !.newSeq = seq + 1]
      OBVIOUS
    <3>2. t \in Tasks /\ t.st = "retry"
      BY <2>1 DEF RetryIncr, IInv, Types
    <3>3. u.job = t.job /\ u.attempt = t.attempt
      BY <3>1, <3>2 DEF Tasks
    <3>4. \A q \in Procs : \A x \in tasks'[q] : x \in tasks[q] \/ x = u
      BY <2>1, <3>1 DEF RetryIncr, IInv, Types
    <3> QED
      BY <3>2, <3>3, <3>4 DEF RInv
  <2>2. ASSUME NEW t \in tasks[p], RetryZadd(p, t) \/ RetryError(p, t)
        PROVE  RInv'
    BY <2>2 DEF RetryZadd, RetryError, EndTask, IInv, Types, RInv
  <2> QED
    BY <1>2, <2>1, <2>2 DEF Retry
<1>3. ASSUME NEW p \in Procs, Dequeue(p) PROVE RInv'
  <2>1. CASE PopSpawn(p)
    <3>1. \A q \in Procs : \A x \in tasks'[q] : x \in tasks[q] \/ x.st = "run"
      BY <2>1 DEF PopSpawn, Spawn, SpawnedTask, IInv, Types
    <3> QED
      BY <3>1 DEF RInv
  <2>2. CASE ~PopSpawn(p)
    BY <1>3, <2>2 DEF Dequeue, DequeueCheckShutdown, DequeueNone, PromoteDue, PromoteError, PopUndecodable,
                      PopTimeout, PopError, RInv
  <2> QED
    BY <2>1, <2>2
<1>4. CASE UNCHANGED tasks
  BY <1>4 DEF RInv
<1> QED
  BY <1>1, <1>2, <1>3, <1>4 DEF Next, Caller, EnqueueIncr, EnqueueZadd, EnqueueError, BecomeDue, engineVars, vars

-----------------------------------------------------------------------------
(* The phase and the attempt of a job, from where its copies are, before   *)
(* and after a step.                                                       *)
NotEnqueued(j) == calls[j].st \in {"idle", "zadd"}

LEMMA LifeQueued ==
    ASSUME NEW j \in Jobs, NEW e
    PROVE  /\ Queued(j) = {e} /\ Running(j) = {} => PhaseOf(j) = "queued" /\ AttemptOf(j) = e.attempt
           /\ Queued(j)' = {e} /\ Running(j)' = {} => PhaseOf(j)' = "queued" /\ AttemptOf(j)' = e.attempt
<1>1. {e} # {} /\ {e} \cup {} = {e} /\ {e} \cup {} # {} /\ (CHOOSE c \in {e} : TRUE) = e
  OBVIOUS
<1>2. Queued(j) = {e} /\ Running(j) = {} => PhaseOf(j) = "queued" /\ AttemptOf(j) = e.attempt
  BY <1>1 DEF PhaseOf, AttemptOf
<1>3. Queued(j)' = {e} /\ Running(j)' = {} => PhaseOf(j)' = "queued" /\ AttemptOf(j)' = e.attempt
  BY <1>1 DEF PhaseOf, AttemptOf
<1> QED
  BY <1>2, <1>3

LEMMA LifeRunning ==
    ASSUME NEW j \in Jobs, NEW t
    PROVE  /\ Queued(j) = {} /\ Running(j) = {t} => PhaseOf(j) = "running" /\ AttemptOf(j) = t.attempt
           /\ Queued(j)' = {} /\ Running(j)' = {t} => PhaseOf(j)' = "running" /\ AttemptOf(j)' = t.attempt
<1>1. {t} # {} /\ {} \cup {t} = {t} /\ {} \cup {t} # {} /\ (CHOOSE c \in {t} : TRUE) = t
  OBVIOUS
<1>2. Queued(j) = {} /\ Running(j) = {t} => PhaseOf(j) = "running" /\ AttemptOf(j) = t.attempt
  BY <1>1 DEF PhaseOf, AttemptOf
<1>3. Queued(j)' = {} /\ Running(j)' = {t} => PhaseOf(j)' = "running" /\ AttemptOf(j)' = t.attempt
  BY <1>1 DEF PhaseOf, AttemptOf
<1> QED
  BY <1>2, <1>3

LEMMA LifeNowhere ==
    ASSUME NEW j \in Jobs
    PROVE  /\ Queued(j) = {} /\ Running(j) = {} =>
                 PhaseOf(j) = (IF NotEnqueued(j) THEN "new" ELSE "gone") /\ AttemptOf(j) = 0
           /\ Queued(j)' = {} /\ Running(j)' = {} =>
                 PhaseOf(j)' = (IF NotEnqueued(j)' THEN "new" ELSE "gone") /\ AttemptOf(j)' = 0
  BY DEF PhaseOf, AttemptOf, NotEnqueued

LEMMA LifeStays ==
    ASSUME NEW j \in Jobs, Queued(j)' = Queued(j), Running(j)' = Running(j),
           NotEnqueued(j)' <=> NotEnqueued(j)
    PROVE  PhaseOf(j)' = PhaseOf(j) /\ AttemptOf(j)' = AttemptOf(j)
  BY DEF PhaseOf, AttemptOf, NotEnqueued

(* The copies of a job under the invariant.                                *)
LEMMA OneMember ==
    ASSUME IInv, NEW e \in ready \cup delayed
    PROVE  e.job \in Jobs /\ Queued(e.job) = {e} /\ Running(e.job) = {} /\ ~NotEnqueued(e.job)
<1>1. e.job \in Jobs
  BY DEF IInv, Types, Envelopes
<1>2. Queued(e.job) = {e}
  BY DEF IInv, SingleCopy, Queued
<1>3. Running(e.job) = {}
  BY DEF IInv, SingleCopy, Running
<1>4. ~NotEnqueued(e.job)
  BY <1>1 DEF IInv, NotYetAnywhere, NotEnqueued
<1> QED
  BY <1>1, <1>2, <1>3, <1>4

LEMMA OneFuture ==
    ASSUME IInv, NEW p \in Procs, NEW t \in tasks[p]
    PROVE  t.job \in Jobs /\ Queued(t.job) = {} /\ Running(t.job) = {t} /\ ~NotEnqueued(t.job)
<1>1. t.job \in Jobs
  BY DEF IInv, Types, Tasks
<1>2. Queued(t.job) = {}
  BY DEF IInv, SingleCopy, Queued
<1>3. Running(t.job) = {t}
  BY DEF IInv, SingleCopy, Running
<1>4. ~NotEnqueued(t.job)
  BY <1>1 DEF IInv, NotYetAnywhere, NotEnqueued
<1> QED
  BY <1>1, <1>2, <1>3, <1>4

-----------------------------------------------------------------------------
(* Steps that change the copies of one job, or of none.                    *)
OthersStay(j) == \A k \in Jobs \ {j} :
    Queued(k)' = Queued(k) /\ Running(k)' = Running(k) /\ (NotEnqueued(k)' <=> NotEnqueued(k))

LifeStep(j) ==
    \/ Lifecycle!Submit(j) \/ Lifecycle!Start(j) \/ Lifecycle!Requeue(j) \/ Lifecycle!Leave(j)
    \/ UNCHANGED Lifecycle!vars

LEMMA OneJobSteps ==
    ASSUME NEW j \in Jobs, OthersStay(j),
           \/ PhaseOf(j)' = PhaseOf(j) /\ AttemptOf(j)' = AttemptOf(j)
           \/ PhaseOf(j) = "new" /\ PhaseOf(j)' = "queued" /\ AttemptOf(j)' = AttemptOf(j)
           \/ PhaseOf(j) = "queued" /\ PhaseOf(j)' = "running" /\ AttemptOf(j)' = AttemptOf(j)
           \/ /\ PhaseOf(j) = "running" /\ PhaseOf(j)' = "queued"
              /\ AttemptOf(j)' = AttemptOf(j) + 1 /\ AttemptOf(j) + 1 < MaxAttempts[j]
           \/ PhaseOf(j) # "gone" /\ PhaseOf(j)' = "gone" /\ AttemptOf(j)' = 0
    PROVE  LifeStep(j)
<1>1. \A k \in Jobs \ {j} : PhaseOf(k)' = PhaseOf(k) /\ AttemptOf(k)' = AttemptOf(k)
  BY LifeStays DEF OthersStay
<1>2. CASE PhaseOf(j)' = PhaseOf(j) /\ AttemptOf(j)' = AttemptOf(j)
  BY <1>1, <1>2 DEF LifeStep, Lifecycle!vars
<1>3. CASE PhaseOf(j) = "new" /\ PhaseOf(j)' = "queued" /\ AttemptOf(j)' = AttemptOf(j)
  BY <1>1, <1>3 DEF LifeStep, Lifecycle!Submit
<1>4. CASE PhaseOf(j) = "queued" /\ PhaseOf(j)' = "running" /\ AttemptOf(j)' = AttemptOf(j)
  BY <1>1, <1>4 DEF LifeStep, Lifecycle!Start
<1>5. CASE /\ PhaseOf(j) = "running" /\ PhaseOf(j)' = "queued"
           /\ AttemptOf(j)' = AttemptOf(j) + 1 /\ AttemptOf(j) + 1 < MaxAttempts[j]
  BY <1>1, <1>5 DEF LifeStep, Lifecycle!Requeue
<1>6. CASE PhaseOf(j) # "gone" /\ PhaseOf(j)' = "gone" /\ AttemptOf(j)' = 0
  BY <1>1, <1>6 DEF LifeStep, Lifecycle!Leave
<1> QED
  BY <1>2, <1>3, <1>4, <1>5, <1>6

(* The queue and the futures are what they were.                           *)
LEMMA QueueSame ==
    ASSUME ready' \cup delayed' = ready \cup delayed
    PROVE  \A k \in Jobs : Queued(k)' = Queued(k)
  BY DEF Queued

LEMMA FuturesSame ==
    ASSUME tasks' = tasks
    PROVE  \A k \in Jobs : Running(k)' = Running(k)
  BY DEF Running

(* A member comes to the queue, or leaves it.                              *)
LEMMA QueueGains ==
    ASSUME NEW e, ready' \cup delayed' = (ready \cup delayed) \cup {e}
    PROVE  /\ Queued(e.job)' = Queued(e.job) \cup {e}
           /\ \A k \in Jobs \ {e.job} : Queued(k)' = Queued(k)
  BY DEF Queued

LEMMA QueueLoses ==
    ASSUME NEW e, ready' \cup delayed' = (ready \cup delayed) \ {e}
    PROVE  /\ Queued(e.job)' = Queued(e.job) \ {e}
           /\ \A k \in Jobs \ {e.job} : Queued(k)' = Queued(k)
  BY DEF Queued

(* The futures of p become those in T, which differ from them in job j.    *)
LEMMA FuturesChange ==
    ASSUME Types, NEW p \in Procs, NEW T, tasks' = [tasks EXCEPT ![p] = T], NEW j,
           \A x : x.job # j => (x \in T <=> x \in tasks[p])
    PROVE  \A k \in Jobs \ {j} : Running(k)' = Running(k)
<1> SUFFICES ASSUME NEW k \in Jobs \ {j} PROVE Running(k)' = Running(k)
  OBVIOUS
<1>1. tasks'[p] = T /\ \A q \in Procs \ {p} : tasks'[q] = tasks[q]
  BY DEF Types
<1>2. ASSUME NEW x PROVE x \in Running(k)' <=> x \in Running(k)
  <2>1. x \in Running(k) <=> x.job = k /\ \E q \in Procs : x \in tasks[q]
    BY DEF Running
  <2>2. x \in Running(k)' <=> x.job = k /\ \E q \in Procs : x \in tasks'[q]
    BY DEF Running
  <2> QED
    BY <1>1, <2>1, <2>2
<1> QED
  BY <1>2

-----------------------------------------------------------------------------
LEMMA InitLife == Init => Lifecycle!Init
<1> SUFFICES ASSUME Init PROVE Lifecycle!Init
  OBVIOUS
<1>1. \A j \in Jobs : Queued(j) = {} /\ Running(j) = {} /\ NotEnqueued(j)
  BY DEF Init, EngineInit, Queued, Running, NotEnqueued
<1>2. \A j \in Jobs : PhaseOf(j) = "new" /\ AttemptOf(j) = 0
  BY <1>1, LifeNowhere
<1> QED
  BY <1>2 DEF Lifecycle!Init

LEMMA CallerLife ==
    ASSUME IInv, NEW j \in Jobs, Caller(j)
    PROVE  LifeStep(j)
<1>1. tasks' = tasks /\ NotEnqueued(j) /\ \A k \in Jobs \ {j} : NotEnqueued(k)' <=> NotEnqueued(k)
  BY DEF Caller, EnqueueIncr, EnqueueZadd, EnqueueError, engineVars, NotEnqueued, IInv, Types
<1>2. Queued(j) = {} /\ Running(j) = {} /\ Running(j)' = {}
  BY <1>1, FuturesSame DEF IInv, NotYetAnywhere, NotEnqueued, Queued, Running
<1>3. PhaseOf(j) = "new" /\ AttemptOf(j) = 0
  BY <1>1, <1>2, LifeNowhere
<1>4. CASE ready' = ready /\ delayed' = delayed
  <2>1. OthersStay(j) /\ Queued(j)' = {}
    BY <1>1, <1>2, <1>4, QueueSame, FuturesSame DEF OthersStay
  <2>2. AttemptOf(j)' = 0 /\ PhaseOf(j)' \in {"new", "gone"}
    BY <1>2, <2>1, LifeNowhere
  <2> QED
    BY <1>3, <2>1, <2>2, OneJobSteps
<1>5. CASE ready' = ready \cup {FirstEnvelope(j)} /\ delayed' = delayed
  <2>1. PICK e : e = FirstEnvelope(j)
    OBVIOUS
  <2>2. e.job = j /\ e.attempt = 0
    BY <2>1 DEF FirstEnvelope
  <2>3. ready' \cup delayed' = (ready \cup delayed) \cup {e}
    BY <1>5, <2>1
  <2>4. OthersStay(j) /\ Queued(j)' = {e}
    BY <1>1, <1>2, <2>2, <2>3, QueueGains, FuturesSame DEF OthersStay
  <2>5. PhaseOf(j)' = "queued" /\ AttemptOf(j)' = 0
    BY <1>2, <2>2, <2>4, LifeQueued
  <2> QED
    BY <1>3, <2>4, <2>5, OneJobSteps
<1> QED
  BY <1>4, <1>5 DEF Caller, EnqueueIncr, EnqueueZadd, EnqueueError

(* A future t of p ends, and may have gone back to the queue as e.         *)
LEMMA FutureEndsLife ==
    ASSUME IInv, NEW p \in Procs, NEW t \in tasks[p], tasks' = [tasks EXCEPT ![p] = @ \ {t}],
           calls' = calls, ready' \cup delayed' = ready \cup delayed
    PROVE  t.job \in Jobs /\ LifeStep(t.job)
<1>1. t.job \in Jobs /\ Queued(t.job) = {} /\ Running(t.job) = {t} /\ ~NotEnqueued(t.job)
  BY OneFuture
<1>2. PhaseOf(t.job) = "running"
  BY <1>1, LifeRunning
<1>3. \A k \in Jobs \ {t.job} : Running(k)' = Running(k)
  <2>1. PICK T : T = tasks[p] \ {t}
    OBVIOUS
  <2>2. tasks' = [tasks EXCEPT ![p] = T] /\ \A x : x.job # t.job => (x \in T <=> x \in tasks[p])
    BY <2>1
  <2> QED
    BY <2>2, FuturesChange DEF IInv
<1>4. Running(t.job)' = {}
  <2>1. tasks'[p] = tasks[p] \ {t} /\ \A q \in Procs \ {p} : tasks'[q] = tasks[q]
    BY DEF IInv, Types
  <2>2. \A q \in Procs : \A x \in tasks[q] : x.job = t.job => q = p /\ x = t
    BY DEF IInv, SingleCopy
  <2> QED
    BY <2>1, <2>2 DEF Running
<1>5. OthersStay(t.job) /\ Queued(t.job)' = {} /\ ~NotEnqueued(t.job)'
  BY <1>1, <1>3, QueueSame DEF OthersStay, NotEnqueued
<1>6. PhaseOf(t.job)' = "gone" /\ AttemptOf(t.job)' = 0
  BY <1>1, <1>4, <1>5, LifeNowhere
<1> QED
  BY <1>1, <1>2, <1>5, <1>6, OneJobSteps

LEMMA FutureRequeuesLife ==
    ASSUME IInv, RInv, NEW p \in Procs, NEW t \in tasks[p], tasks' = [tasks EXCEPT ![p] = @ \ {t}],
           calls' = calls, t.st \in {"retry", "zadd"},
           ready' \cup delayed' = (ready \cup delayed) \cup {RetryEnvelope(t)}
    PROVE  t.job \in Jobs /\ LifeStep(t.job)
<1>1. t.job \in Jobs /\ Queued(t.job) = {} /\ Running(t.job) = {t} /\ ~NotEnqueued(t.job)
  BY OneFuture
<1>2. PhaseOf(t.job) = "running" /\ AttemptOf(t.job) = t.attempt
  BY <1>1, LifeRunning
<1>3. \A k \in Jobs \ {t.job} : Running(k)' = Running(k)
  <2>1. PICK T : T = tasks[p] \ {t}
    OBVIOUS
  <2>2. tasks' = [tasks EXCEPT ![p] = T] /\ \A x : x.job # t.job => (x \in T <=> x \in tasks[p])
    BY <2>1
  <2>3. Types /\ p \in Procs /\ t.job = t.job
    BY DEF IInv
  <2>4. tasks' = [tasks EXCEPT ![p] = T]
    BY <2>2
  <2>5. \A x : x.job # t.job => (x \in T <=> x \in tasks[p])
    BY <2>2
  <2> QED
    BY ONLY <2>3, <2>4, <2>5, FuturesChange
<1>4. Running(t.job)' = {}
  <2>1. tasks'[p] = tasks[p] \ {t} /\ \A q \in Procs \ {p} : tasks'[q] = tasks[q]
    BY DEF IInv, Types
  <2>2. \A q \in Procs : \A x \in tasks[q] : x.job = t.job => q = p /\ x = t
    BY DEF IInv, SingleCopy
  <2> QED
    BY <2>1, <2>2 DEF Running
<1>5. PICK e : e = RetryEnvelope(t)
  OBVIOUS
<1>6. e.job = t.job /\ e.attempt = t.attempt + 1
  BY <1>5 DEF RetryEnvelope
<1>7. OthersStay(t.job) /\ Queued(t.job)' = {e}
  BY <1>1, <1>3, <1>5, <1>6, QueueGains DEF OthersStay, NotEnqueued
<1>8. PhaseOf(t.job)' = "queued" /\ AttemptOf(t.job)' = t.attempt + 1
  BY <1>1, <1>4, <1>6, <1>7, LifeQueued
<1>9. t.attempt + 1 < MaxAttempts[t.job]
  BY DEF RInv
<1> QED
  BY <1>1, <1>2, <1>7, <1>8, <1>9, OneJobSteps

(* A future changes in what its job does not show.                         *)
LEMMA FutureGoesOnLife ==
    ASSUME IInv, NEW p \in Procs, NEW t \in tasks[p], NEW u, u.job = t.job, u.attempt = t.attempt,
           tasks' = [tasks EXCEPT ![p] = (@ \ {t}) \cup {u}],
           calls' = calls, ready' \cup delayed' = ready \cup delayed
    PROVE  t.job \in Jobs /\ LifeStep(t.job)
<1>1. t.job \in Jobs /\ Queued(t.job) = {} /\ Running(t.job) = {t}
  BY OneFuture
<1>2. PhaseOf(t.job) = "running" /\ AttemptOf(t.job) = t.attempt
  BY <1>1, LifeRunning
<1>3. \A k \in Jobs \ {t.job} : Running(k)' = Running(k)
  <2>1. PICK T : T = (tasks[p] \ {t}) \cup {u}
    OBVIOUS
  <2>2. tasks' = [tasks EXCEPT ![p] = T] /\ \A x : x.job # t.job => (x \in T <=> x \in tasks[p])
    BY <2>1
  <2> QED
    BY <2>2, FuturesChange DEF IInv
<1>4. Running(t.job)' = {u}
  <2>1. tasks'[p] = (tasks[p] \ {t}) \cup {u} /\ \A q \in Procs \ {p} : tasks'[q] = tasks[q]
    BY DEF IInv, Types
  <2>2. \A q \in Procs : \A x \in tasks[q] : x.job = t.job => q = p /\ x = t
    BY DEF IInv, SingleCopy
  <2> QED
    BY <2>1, <2>2 DEF Running
<1>5. OthersStay(t.job) /\ Queued(t.job)' = {}
  BY <1>1, <1>3, QueueSame DEF OthersStay, NotEnqueued
<1>6. PhaseOf(t.job)' = "running" /\ AttemptOf(t.job)' = t.attempt
  BY <1>1, <1>4, <1>5, LifeRunning
<1> QED
  BY <1>1, <1>2, <1>5, <1>6, OneJobSteps

(* A member of the queue is popped and its future spawned.                 *)
LEMMA MemberStartsLife ==
    ASSUME IInv, NEW p \in Procs, NEW e \in ready, ready' = ready \ {e}, delayed' = delayed,
           tasks' = [tasks EXCEPT ![p] = @ \cup {SpawnedTask(e)}], calls' = calls
    PROVE  e.job \in Jobs /\ LifeStep(e.job)
<1>1. e.job \in Jobs /\ Queued(e.job) = {e} /\ Running(e.job) = {}
  BY OneMember
<1>2. PhaseOf(e.job) = "queued" /\ AttemptOf(e.job) = e.attempt
  BY <1>1, LifeQueued
<1>3. PICK u : u = SpawnedTask(e)
  OBVIOUS
<1>4. u.job = e.job /\ u.attempt = e.attempt
  BY <1>3 DEF SpawnedTask
<1>5. \A k \in Jobs \ {e.job} : Running(k)' = Running(k)
  <2>1. PICK T : T = tasks[p] \cup {u}
    OBVIOUS
  <2>2. tasks' = [tasks EXCEPT ![p] = T] /\ \A x : x.job # e.job => (x \in T <=> x \in tasks[p])
    BY <1>3, <1>4, <2>1
  <2> QED
    BY <2>2, FuturesChange DEF IInv
<1>6. Running(e.job)' = {u}
  <2>1. tasks'[p] = tasks[p] \cup {u} /\ \A q \in Procs \ {p} : tasks'[q] = tasks[q]
    BY <1>3 DEF IInv, Types
  <2>2. \A q \in Procs : \A x \in tasks[q] : x.job # e.job
    BY DEF IInv, SingleCopy
  <2> QED
    BY <1>4, <2>1, <2>2 DEF Running
<1>7. ready' \cup delayed' = (ready \cup delayed) \ {e}
  BY DEF IInv, SingleCopy
<1>8. OthersStay(e.job) /\ Queued(e.job)' = {}
  BY <1>1, <1>5, <1>7, QueueLoses DEF OthersStay, NotEnqueued
<1>9. PhaseOf(e.job)' = "running" /\ AttemptOf(e.job)' = e.attempt
  BY <1>1, <1>4, <1>6, <1>8, LifeRunning
<1> QED
  BY <1>1, <1>2, <1>8, <1>9, OneJobSteps

(* A member is popped and lost.                                            *)
LEMMA MemberLeavesLife ==
    ASSUME IInv, NEW e \in ready, ready' = ready \ {e}, delayed' = delayed, tasks' = tasks, calls' = calls
    PROVE  e.job \in Jobs /\ LifeStep(e.job)
<1>1. e.job \in Jobs /\ Queued(e.job) = {e} /\ Running(e.job) = {} /\ ~NotEnqueued(e.job)
  BY OneMember
<1>2. PhaseOf(e.job) = "queued"
  BY <1>1, LifeQueued
<1>3. ready' \cup delayed' = (ready \cup delayed) \ {e}
  BY DEF IInv, SingleCopy
<1>4. /\ OthersStay(e.job) /\ Queued(e.job)' = {} /\ Running(e.job)' = {}
      /\ ~NotEnqueued(e.job)'
  BY <1>1, <1>3, QueueLoses, FuturesSame DEF OthersStay, NotEnqueued
<1>5. PhaseOf(e.job)' = "gone" /\ AttemptOf(e.job)' = 0
  BY <1>1, <1>4, LifeNowhere
<1> QED
  BY <1>1, <1>2, <1>4, <1>5, OneJobSteps

(* Nothing happens to any job.                                             *)
LEMMA NothingHappensLife ==
    ASSUME ready' \cup delayed' = ready \cup delayed, tasks' = tasks, calls' = calls
    PROVE  UNCHANGED Lifecycle!vars
<1>1. \A k \in Jobs : PhaseOf(k)' = PhaseOf(k) /\ AttemptOf(k)' = AttemptOf(k)
  BY QueueSame, FuturesSame, LifeStays DEF NotEnqueued
<1> QED
  BY <1>1 DEF Lifecycle!vars

(* A process takes the jobs of its futures with it.                        *)
LEMMA ProcessEndsLife ==
    ASSUME IInv, NEW p \in Procs, tasks' = [tasks EXCEPT ![p] = {}], redisVars' = redisVars
    PROVE  Lifecycle!LeaveTogether
<1>1. PICK S \in SUBSET Jobs : S = {j \in Jobs : \E t \in tasks[p] : t.job = j}
  OBVIOUS
<1>2. ASSUME NEW j \in S
      PROVE  PhaseOf(j) = "running" /\ PhaseOf(j)' = "gone" /\ AttemptOf(j)' = 0
  <2>1. PICK t \in tasks[p] : t.job = j
    BY <1>1
  <2>2. Queued(j) = {} /\ Running(j) = {t} /\ ~NotEnqueued(j)
    BY <2>1, OneFuture
  <2>3. Queued(j)' = {} /\ ~NotEnqueued(j)'
    BY <2>2, QueueSame DEF redisVars, NotEnqueued
  <2>4. Running(j)' = {}
    BY <2>1 DEF Running, IInv, Types, SingleCopy
  <2> QED
    BY <2>2, <2>3, <2>4, LifeRunning, LifeNowhere
<1>3. ASSUME NEW j \in Jobs \ S
      PROVE  PhaseOf(j)' = PhaseOf(j) /\ AttemptOf(j)' = AttemptOf(j)
  <2>1. \A t \in tasks[p] : t.job # j
    BY <1>1
  <2>2. Running(j)' = Running(j)
    <3>1. tasks'[p] = {} /\ \A q \in Procs \ {p} : tasks'[q] = tasks[q]
      BY DEF IInv, Types
    <3> QED
      BY <2>1, <3>1 DEF Running
  <2> QED
    BY <2>2, QueueSame, LifeStays DEF redisVars, NotEnqueued
<1> QED
  BY <1>2, <1>3 DEF Lifecycle!LeaveTogether

-----------------------------------------------------------------------------
LEMMA NextLife == IInv /\ RInv /\ [Next]_vars => [Lifecycle!Next]_(Lifecycle!vars)
<1> SUFFICES ASSUME IInv, RInv, [Next]_vars PROVE Lifecycle!Next \/ UNCHANGED Lifecycle!vars
  OBVIOUS
<1>0. \A j \in Jobs : LifeStep(j) => Lifecycle!Next \/ UNCHANGED Lifecycle!vars
  BY DEF LifeStep, Lifecycle!Next
<1>1. ASSUME NEW j \in Jobs, Caller(j) PROVE LifeStep(j)
  BY <1>1, CallerLife
<1>2. ASSUME NEW p \in Procs, EngineStep(p)
      PROVE  \/ \E j \in Jobs : LifeStep(j)
             \/ Lifecycle!LeaveTogether
             \/ UNCHANGED Lifecycle!vars
  <2>0. redisVars' = redisVars
    BY <1>2 DEF EngineStep
  <2>1. CASE AcquirePermit(p) \/ StopAcquiring(p) \/ Drained(p) \/ RequestShutdown(p) \/ Restart(p)
    BY <2>0, <2>1, NothingHappensLife DEF redisVars, AcquirePermit, StopAcquiring, Drained, RequestShutdown, Restart
  <2>2. CASE DrainTimeout(p) \/ Crash(p)
    BY <2>0, <2>2, ProcessEndsLife DEF DrainTimeout, Crash, Die
  <2>3. ASSUME NEW t \in tasks[p], HandlerOk(p, t) \/ HandlerDiscard(p, t) \/ HandlerPanic(p, t)
        PROVE  \E j \in Jobs : LifeStep(j)
    BY <2>0, <2>3, FutureEndsLife DEF redisVars, HandlerOk, HandlerDiscard, HandlerPanic, EndTask
  <2>4. ASSUME NEW t \in tasks[p], HandlerTransient(p, t)
        PROVE  \E j \in Jobs : LifeStep(j)
    <3>1. PICK u : u = [t EXCEPT !.st = "retry"]
      OBVIOUS
    <3>2. u.job = t.job /\ u.attempt = t.attempt
      BY <3>1 DEF IInv, Types, Tasks
    <3> QED
      BY <2>0, <2>4, <3>1, <3>2, FutureGoesOnLife DEF redisVars, HandlerTransient
  <2> QED
    BY <1>2, <2>1, <2>2, <2>3, <2>4 DEF EngineStep
<1>3. ASSUME NEW p \in Procs, Retry(p)
      PROVE  \E j \in Jobs : LifeStep(j)
  <2>1. ASSUME NEW t \in tasks[p], RetryIncr(p, t)
        PROVE  \E j \in Jobs : LifeStep(j)
    <3>1. PICK u : u = [t EXCEPT !.st = "zadd", !.newSeq = seq + 1]
      OBVIOUS
    <3>2. u.job = t.job /\ u.attempt = t.attempt
      BY <3>1 DEF IInv, Types, Tasks
    <3> QED
      BY <2>1, <3>1, <3>2, FutureGoesOnLife DEF RetryIncr
  <2>2. ASSUME NEW t \in tasks[p], RetryZadd(p, t) \/ RetryError(p, t)
        PROVE  \E j \in Jobs : LifeStep(j)
    <3>1. /\ tasks' = [tasks EXCEPT ![p] = @ \ {t}]
          /\ calls' = calls /\ ready' = ready /\ t.st \in {"retry", "zadd"}
          /\ delayed' = delayed \/ delayed' = delayed \cup {RetryEnvelope(t)}
      BY <2>2 DEF RetryZadd, RetryError, EndTask
    <3>2. CASE delayed' = delayed
      BY <3>1, <3>2, FutureEndsLife
    <3>3. CASE delayed' = delayed \cup {RetryEnvelope(t)}
      BY <3>1, <3>3, FutureRequeuesLife
    <3> QED
      BY <3>1, <3>2, <3>3
  <2> QED
    BY <1>3, <2>1, <2>2 DEF Retry
<1>4. ASSUME NEW p \in Procs, Dequeue(p)
      PROVE  (\E j \in Jobs : LifeStep(j)) \/ UNCHANGED Lifecycle!vars
  <2>1. CASE DequeueCheckShutdown(p) \/ PopTimeout(p)
    BY <2>1, NothingHappensLife DEF DequeueCheckShutdown, DequeueNone, PopTimeout, redisVars
  <2>2. CASE PromoteDue(p) \/ PromoteError(p)
    <3>1. PICK S \in {{}} \cup Promotable : ready' = ready \cup S /\ delayed' = delayed \ S
      BY <2>2 DEF PromoteDue, PromoteError
    <3>2. S \subseteq delayed
      BY <3>1 DEF Promotable, IInv, Types
    <3> QED
      BY <2>2, <3>1, <3>2, NothingHappensLife DEF PromoteDue, PromoteError
  <2>3. CASE PopSpawn(p)
    BY <2>3, MemberStartsLife DEF PopSpawn, Spawn
  <2>4. CASE PopUndecodable(p) \/ PopError(p)
    <3>1. tasks' = tasks /\ calls' = calls /\ delayed' = delayed
          /\ (ready' = ready \/ \E e \in ready : ready' = ready \ {e})
      BY <2>4 DEF PopUndecodable, PopError
    <3> QED
      BY <3>1, MemberLeavesLife, NothingHappensLife
  <2> QED
    BY <1>4, <2>1, <2>2, <2>3, <2>4 DEF Dequeue
<1>5. ASSUME NEW e \in delayed, BecomeDue(e)
      PROVE  UNCHANGED Lifecycle!vars
  BY <1>5, NothingHappensLife DEF BecomeDue, engineVars
<1>6. CASE UNCHANGED vars
  BY <1>6, NothingHappensLife DEF vars, engineVars, redisVars
<1>7. Lifecycle!LeaveTogether => Lifecycle!Next
  BY DEF Lifecycle!Next
<1> QED
  BY <1>0, <1>1, <1>2, <1>3, <1>4, <1>5, <1>6, <1>7 DEF Next

(* The Redis queue and its workers implement the life of a job that the    *)
(* JobQueue trait promises, at most once, whatever crashes, fails or runs  *)
(* at the same time (queue/redis.rs, queue/worker.rs).                     *)
THEOREM QueueImplementsLifecycle == Spec => ImplementsLifecycle
<1>1. Init => Lifecycle!Init
  BY InitLife
<1>2. Init => RInv
  BY DEF Init, EngineInit, RInv
<1>3. IInv /\ RInv /\ [Next]_vars => IInv' /\ RInv'
  BY NextIInv, NextRInv
<1>4. IInv /\ RInv /\ [Next]_vars => [Lifecycle!Next]_(Lifecycle!vars)
  BY NextLife
<1> QED
  BY InitIInv, <1>1, <1>2, <1>3, <1>4, PTL DEF Spec, ImplementsLifecycle, Lifecycle!Spec

=============================================================================

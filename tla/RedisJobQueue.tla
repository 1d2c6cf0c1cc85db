--------------------------- MODULE RedisJobQueue ---------------------------
(***************************************************************************)
(* queue/redis.rs under the worker engine: the Sorted Sets ready and       *)
(* delayed and the counter seq live in Redis and outlive every process;    *)
(* enqueue and enqueue_retry are two commands each (INCR, then ZADD);      *)
(* dequeue checks the token, promotes due retries with one Lua script, and *)
(* pops with BZPOPMIN.  Every command may fail, and a command whose reply  *)
(* is lost may have been carried out.                                      *)
(***************************************************************************)
EXTENDS WorkerEngine

CONSTANTS
    PromoteBatchLimit,  \* PROMOTE_BATCH_LIMIT
    Undecodable         \* pairs <<p, j>>: the binary of p has no variant for j

ASSUME PromoteBatchLimitAssumption == PromoteBatchLimit \in Nat \ {0}
ASSUME UndecodableAssumption == Undecodable \subseteq Procs \X Jobs

VARIABLES
    seq,      \* seiran:jobs:seq
    ready,    \* seiran:jobs:ready, a set of envelopes
    delayed,  \* seiran:jobs:delayed, a set of envelopes
    due,      \* members of delayed whose score (ready_at_ms) has passed
    calls     \* calls[j]: progress of the call of enqueue(j, Priority[j])

redisVars == <<seq, ready, delayed, due, calls>>
vars == <<engineVars, redisVars>>

-----------------------------------------------------------------------------
(* Envelope.  Its priority is Priority[job]: both pushes copy it.          *)
Envelopes == [job: Jobs, attempt: Nat, seq: Nat]

(* ready_score: a higher priority comes first.  Within one priority the    *)
(* f64 rounds seq, and any member may be next (ReadyScore has the order).  *)
Before(a, b) == Priority[a.job] > Priority[b.job]

(* BZPOPMIN takes a member no other member comes before.                   *)
IsMin(e) == e \in ready /\ \A f \in ready : ~Before(f, e)

Init ==
    /\ EngineInit
    /\ seq = 0
    /\ ready = {}
    /\ delayed = {}
    /\ due = {}
    /\ calls = [j \in Jobs |-> [st |-> "idle", seq |-> 0]]

-----------------------------------------------------------------------------
(* enqueue = push_ready with attempt 0, called by handlers of any process. *)

EnqueueIncr(j) ==
    /\ calls[j].st = "idle"
    /\ seq' = seq + 1
    /\ calls' = [calls EXCEPT ![j] = [st |-> "zadd", seq |-> seq + 1]]
    /\ UNCHANGED <<engineVars, ready, delayed, due>>

FirstEnvelope(j) == [job |-> j, attempt |-> 0, seq |-> calls[j].seq]

EnqueueZadd(j) ==
    /\ calls[j].st = "zadd"
    /\ ready' = ready \cup {FirstEnvelope(j)}
    /\ calls' = [calls EXCEPT ![j].st = "ok"]
    /\ UNCHANGED <<engineVars, seq, delayed, due>>

(* INCR or ZADD failed, or the caller died; ZADD may have been carried out.*)
EnqueueError(j) ==
    /\ calls[j].st \in {"idle", "zadd"}
    /\ faults < MaxFaults
    /\ faults' = faults + 1
    /\ ready' \in {ready} \cup
                  (IF calls[j].st = "zadd" THEN {ready \cup {FirstEnvelope(j)}} ELSE {})
    /\ calls' = [calls EXCEPT ![j].st = "err"]
    /\ UNCHANGED <<pc, shutdown, permits, tasks, fate, stops, seq, delayed, due>>

-----------------------------------------------------------------------------
(* enqueue_retry = push_delayed, called by execute_with_retry.             *)

RetryIncr(p, t) ==
    /\ t \in tasks[p]
    /\ t.st = "retry"
    /\ seq' = seq + 1
    /\ tasks' = [tasks EXCEPT ![p] =
                    (@ \ {t}) \cup {[t EXCEPT !.st = "zadd", !.newSeq = seq + 1]}]
    /\ UNCHANGED <<pc, shutdown, permits, fate, faults, stops,
                   ready, delayed, due, calls>>

(* Faulty variant: the retry keeps the attempt number.                     *)
RetrySameAttempt(t) == [job |-> t.job, attempt |-> t.attempt, seq |-> t.newSeq]

RetryEnvelope(t) == [job |-> t.job, attempt |-> t.attempt + 1, seq |-> t.newSeq]

RetryZadd(p, t) ==
    /\ t \in tasks[p]
    /\ t.st = "zadd"
    /\ delayed' = delayed \cup {RetryEnvelope(t)}
    /\ EndTask(p, t)
    /\ UNCHANGED <<fate, faults, seq, ready, due, calls>>

(* enqueue_retry returned Err: the worker logs that the job is lost, which *)
(* is not so when only the reply to ZADD was.                              *)
RetryError(p, t) ==
    /\ t \in tasks[p]
    /\ t.st \in {"retry", "zadd"}
    /\ faults < MaxFaults
    /\ faults' = faults + 1
    /\ delayed' \in {delayed} \cup
                    (IF t.st = "zadd" THEN {delayed \cup {RetryEnvelope(t)}} ELSE {})
    /\ fate' = [fate EXCEPT ![t.job] = "lost"]
    /\ EndTask(p, t)
    /\ UNCHANGED <<seq, ready, due, calls>>

(* The clock passes ready_at_ms of a delayed member.                       *)
BecomeDue(e) ==
    /\ e \in delayed \ due
    /\ due' = due \cup {e}
    /\ UNCHANGED <<engineVars, seq, ready, delayed, calls>>

-----------------------------------------------------------------------------
(* dequeue *)

(* The token is looked at between two rounds only.                         *)
DequeueCheckShutdown(p) ==
    /\ pc[p] = "dequeue"
    /\ \/ shutdown[p] /\ DequeueNone(p)
       \/ /\ ~shutdown[p]
          /\ pc' = [pc EXCEPT ![p] = "promote"]
          /\ UNCHANGED <<shutdown, permits, tasks, fate, faults, stops>>
    /\ UNCHANGED redisVars

(* PROMOTE_DUE_LUA: at most a batch of the due members, in one step.       *)
Promotable == {S \in SUBSET due :
                 \/ S = due /\ Cardinality(due) =< PromoteBatchLimit
                 \/ Cardinality(S) = PromoteBatchLimit}

(* Faulty variant: ZADD without the ZREM that decides who moves a member.  *)
PromoteDueCopies(p) ==
    /\ pc[p] = "promote"
    /\ \E S \in Promotable : ready' = ready \cup S
    /\ pc' = [pc EXCEPT ![p] = "pop"]
    /\ UNCHANGED <<shutdown, permits, tasks, fate, faults, stops, seq, delayed, due, calls>>

PromoteDue(p) ==
    /\ pc[p] = "promote"
    /\ \E S \in Promotable :
          /\ ready' = ready \cup S
          /\ delayed' = delayed \ S
          /\ due' = due \ S
    /\ pc' = [pc EXCEPT ![p] = "pop"]
    /\ UNCHANGED <<shutdown, permits, tasks, fate, faults, stops, seq, calls>>

(* An error of the script is logged and the round goes on; the script may  *)
(* have run and only its reply be lost.                                    *)
PromoteError(p) ==
    /\ pc[p] = "promote"
    /\ faults < MaxFaults
    /\ faults' = faults + 1
    /\ \E S \in {{}} \cup Promotable :
          /\ ready' = ready \cup S
          /\ delayed' = delayed \ S
          /\ due' = due \ S
    /\ pc' = [pc EXCEPT ![p] = "pop"]
    /\ UNCHANGED <<shutdown, permits, tasks, fate, stops, seq, calls>>

(* BZPOPMIN returned a member this binary can parse.                       *)
PopSpawn(p) ==
    /\ pc[p] = "pop"
    /\ \E e \in ready :
          /\ IsMin(e)
          /\ <<p, e.job>> \notin Undecodable
          /\ ready' = ready \ {e}
          /\ Spawn(p, e)
    /\ UNCHANGED <<seq, delayed, due, calls>>

(* BZPOPMIN returned a member this binary cannot parse: it is thrown away. *)
PopUndecodable(p) ==
    /\ pc[p] = "pop"
    /\ \E e \in ready :
          /\ IsMin(e)
          /\ <<p, e.job>> \in Undecodable
          /\ ready' = ready \ {e}
    /\ pc' = [pc EXCEPT ![p] = "dequeue"]
    /\ UNCHANGED <<shutdown, permits, tasks, fate, faults, stops,
                   seq, delayed, due, calls>>

(* BLOCK_TIMEOUT_SECS passed with nothing to pop.                          *)
PopTimeout(p) ==
    /\ pc[p] = "pop"
    /\ ready = {}
    /\ pc' = [pc EXCEPT ![p] = "dequeue"]
    /\ UNCHANGED <<shutdown, permits, tasks, fate, faults, stops, redisVars>>

(* BZPOPMIN failed: the round is over, and if Redis had already popped a   *)
(* member, no process has it.                                              *)
PopError(p) ==
    /\ pc[p] = "pop"
    /\ faults < MaxFaults
    /\ faults' = faults + 1
    /\ ready' \in {ready} \cup {ready \ {e} : e \in {f \in ready : IsMin(f)}}
    /\ pc' = [pc EXCEPT ![p] = "dequeue"]
    /\ UNCHANGED <<shutdown, permits, tasks, fate, stops, seq, delayed, due, calls>>

-----------------------------------------------------------------------------
EngineStep(p) ==
    /\ \/ AcquirePermit(p)
       \/ StopAcquiring(p)
       \/ Drained(p)
       \/ DrainTimeout(p)
       \/ Crash(p)
       \/ RequestShutdown(p)
       \/ Restart(p)
       \/ \E t \in tasks[p] : \/ HandlerOk(p, t)
                              \/ HandlerDiscard(p, t)
                              \/ HandlerTransient(p, t)
                              \/ HandlerPanic(p, t)
    /\ UNCHANGED redisVars

Caller(j) == EnqueueIncr(j) \/ EnqueueZadd(j) \/ EnqueueError(j)

Retry(p) == \E t \in tasks[p] : RetryIncr(p, t) \/ RetryZadd(p, t) \/ RetryError(p, t)

Dequeue(p) ==
    \/ DequeueCheckShutdown(p)
    \/ PromoteDue(p)
    \/ PromoteError(p)
    \/ PopSpawn(p)
    \/ PopUndecodable(p)
    \/ PopTimeout(p)
    \/ PopError(p)

Next ==
    \/ \E j \in Jobs : Caller(j)
    \/ \E p \in Procs : EngineStep(p) \/ Retry(p) \/ Dequeue(p)
    \/ \E e \in delayed : BecomeDue(e)

Spec == Init /\ [][Next]_vars

(* Tokio polls every future, Redis answers, handlers end (their I/O has    *)
(* time limits), the clock advances, and stopped containers are restarted. *)
Fairness ==
    /\ \A j \in Jobs : WF_vars(EnqueueZadd(j))
    /\ \A p \in Procs :
          /\ WF_vars((AcquirePermit(p) \/ StopAcquiring(p)) /\ UNCHANGED redisVars)
          /\ WF_vars(DequeueCheckShutdown(p))
          /\ WF_vars(PromoteDue(p))
          /\ WF_vars(PopSpawn(p) \/ PopUndecodable(p) \/ PopTimeout(p))
          /\ WF_vars((Drained(p) \/ Restart(p)) /\ UNCHANGED redisVars)
          /\ \A j \in Jobs : WF_vars(
                \E t \in tasks[p] :
                   /\ t.job = j
                   /\ \/ /\ HandlerOk(p, t) \/ HandlerDiscard(p, t) \/ HandlerTransient(p, t)
                         /\ UNCHANGED redisVars
                      \/ RetryIncr(p, t)
                      \/ RetryZadd(p, t))
    /\ \A j \in Jobs : WF_vars(\E e \in delayed : e.job = j /\ BecomeDue(e))

FairSpec == Spec /\ Fairness

-----------------------------------------------------------------------------
(* Where a job is. *)
Queued(j) == {e \in ready \cup delayed : e.job = j}
Running(j) == UNION {{t \in tasks[p] : t.job = j} : p \in Procs}

TypeOK ==
    /\ pc \in [Procs -> Locations]
    /\ shutdown \in [Procs -> BOOLEAN]
    /\ permits \in [Procs -> 0 .. MaxConcurrent]
    /\ tasks \in [Procs -> SUBSET Tasks]
    /\ fate \in [Jobs -> Fates]
    /\ faults \in 0 .. MaxFaults
    /\ stops \in 0 .. MaxStops
    /\ seq \in Nat
    /\ ready \subseteq Envelopes
    /\ delayed \subseteq Envelopes
    /\ due \subseteq delayed
    /\ calls \in [Jobs -> [st: {"idle", "zadd", "ok", "err"}, seq: Nat]]

(* At most one copy of a job exists in the whole deployment, whatever the  *)
(* interleaving of callers, promotions, pops, retries, crashes and lost    *)
(* replies: one ZSET member or one running future (queue/redis.rs,         *)
(* PROMOTE_DUE_LUA and BZPOPMIN under several worker processes).           *)
SingleCopy ==
    /\ ready \cap delayed = {}
    /\ \A e, f \in ready \cup delayed : e.job = f.job => e = f
    /\ \A p, q \in Procs : \A t \in tasks[p], u \in tasks[q] :
          t.job = u.job => p = q /\ t = u
    /\ \A p \in Procs : \A t \in tasks[p], e \in ready \cup delayed : t.job # e.job

(* A behaviour without faults loses nothing: a job whose enqueue returned  *)
(* Ok is in Redis, in a future, or was logged as completed or discarded,   *)
(* also while workers stop and restart (the permit is taken before the     *)
(* job, and the token is not looked at between BZPOPMIN and spawn).        *)
NothingLostWithoutFault ==
    faults = 0 =>
        \A j \in Jobs :
            calls[j].st = "ok" /\ (\A p \in Procs : <<p, j>> \notin Undecodable)
                => Queued(j) # {} \/ Running(j) # {} \/ fate[j] \in {"ok", "discarded"}

(* A process that stops without a crash or a drain timeout has finished    *)
(* every job it had taken (acquire_many at the end of WorkerEngine::run).  *)
CleanStop ==
    [][\A p \in Procs :
          pc[p] = "drain" /\ pc'[p] = "stopped" /\ faults' = faults => tasks[p] = {}]_vars

(* Each numbered envelope is alive at most once: seq is drawn from Redis,  *)
(* so two members never serialise to the same JSON, and a number drawn for *)
(* a push in flight is not in use yet (next_seq before ZADD).              *)
DrawnSeqsFresh ==
    /\ \A e \in ready \cup delayed : e.seq =< seq
    /\ \A e, f \in ready \cup delayed : e.seq = f.seq => e = f
    /\ \A j \in Jobs : calls[j].st = "zadd" =>
          /\ calls[j].seq =< seq
          /\ \A e \in ready \cup delayed : e.seq # calls[j].seq
    /\ \A p \in Procs : \A t \in tasks[p] : t.st = "zadd" =>
          /\ t.newSeq =< seq
          /\ \A e \in ready \cup delayed : e.seq # t.newSeq

(* A job is in one place, every permit is accounted for, and nothing is     *)
(* lost without a fault.                                                   *)
QueueSafe == SingleCopy /\ PermitsAccounted /\ NothingLostWithoutFault /\ DrawnSeqsFresh

(* Every job whose enqueue returned Ok, and which every binary can decode, *)
(* is eventually completed or discarded, also a retry that waits in        *)
(* delayed, while workers are stopped and restarted (dequeue promotes on   *)
(* every round).  A fault may end a job: delivery is at most once.         *)
EveryJobSettles ==
    \A j \in Jobs :
        calls[j].st = "ok" /\ (\A p \in Procs : <<p, j>> \notin Undecodable)
            ~> fate[j] \in {"ok", "discarded"} \/ faults > 0

(* A worker whose token has fired does stop (WorkerEngine::run returns).   *)
ShutdownCompletes ==
    \A p \in Procs : shutdown[p] ~> pc[p] = "stopped"

(* Accepted jobs settle and stopping workers stop.                         *)
QueueProgresses == EveryJobSettles /\ ShutdownCompletes

-----------------------------------------------------------------------------
(* The abstract life of each job, computed from where its copies are.      *)
PhaseOf(j) ==
    CASE Queued(j) # {} /\ Running(j) # {} -> "twice"
      [] Queued(j) # {} /\ Running(j) = {} -> "queued"
      [] Queued(j) = {} /\ Running(j) # {} -> "running"
      [] OTHER -> IF calls[j].st \in {"idle", "zadd"} THEN "new" ELSE "gone"

AttemptOf(j) ==
    IF Queued(j) \cup Running(j) = {} THEN 0
    ELSE (CHOOSE c \in Queued(j) \cup Running(j) : TRUE).attempt

Lifecycle == INSTANCE JobLifecycle WITH
    Durable <- TRUE,
    phase <- [j \in Jobs |-> PhaseOf(j)],
    attempt <- [j \in Jobs |-> AttemptOf(j)]

(* The Redis queue and its workers implement the life of a job that the    *)
(* JobQueue trait promises (traits.rs, JobQueue).                          *)
ImplementsLifecycle == Lifecycle!Spec

=============================================================================

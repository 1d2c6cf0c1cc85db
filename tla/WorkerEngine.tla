---------------------------- MODULE WorkerEngine ----------------------------
(***************************************************************************)
(* The part of queue/worker.rs that does not depend on the queue backend:  *)
(* the loop of WorkerEngine::run in every worker process, the permits of   *)
(* its semaphore, and execute_with_retry for every spawned job.            *)
(*                                                                         *)
(* RedisJobQueue and MemoryJobQueue extend this module with the state of   *)
(* their queue and with the steps of enqueue, enqueue_retry and dequeue.   *)
(* A job is an identity: what its handler does is not modelled here, only  *)
(* whether it returns Ok, a transient or a permanent error, or panics.     *)
(***************************************************************************)
EXTENDS Integers, FiniteSets

CONSTANTS
    Procs,          \* worker processes (--role worker or --role all)
    Jobs,           \* jobs that callers enqueue, each of them once
    Priority,       \* Priority[j]: the priority j is enqueued with
    MaxAttempts,    \* MaxAttempts[j]: retry_config_for(j).max_attempts
    MaxConcurrent,  \* permits of the semaphore of one process
    MaxFaults,      \* bound: crashes, panics, Redis errors in a behaviour
    MaxStops        \* bound: graceful stops (shutdown tokens fired)

ASSUME PriorityAssumption == Priority \in [Jobs -> Int]
ASSUME MaxAttemptsAssumption == MaxAttempts \in [Jobs -> Nat \ {0}]
ASSUME MaxConcurrentAssumption == MaxConcurrent \in Nat \ {0}
ASSUME BoundsAssumption == MaxFaults \in Nat /\ MaxStops \in Nat

VARIABLES
    pc,        \* pc[p]: where the loop of process p is
    shutdown,  \* shutdown[p]: the shutdown token of p has fired
    permits,   \* permits[p]: free permits of the semaphore of p
    tasks,     \* tasks[p]: spawned execute_with_retry futures of p
    fate,      \* fate[j]: the last line the worker logs about j, if any
    faults,    \* faults so far (bounded by MaxFaults)
    stops      \* graceful stops so far (bounded by MaxStops)

engineVars == <<pc, shutdown, permits, tasks, fate, faults, stops>>

-----------------------------------------------------------------------------
(* "acquire" waits for a permit, "dequeue", "promote" and "pop" are inside *)
(* JobQueue::dequeue of Redis with the permit held, "notified" the wait of *)
(* the in-memory one, "drain" waits in acquire_many.                       *)
InDequeue == {"dequeue", "promote", "pop", "notified"}
Locations == {"acquire", "drain", "stopped"} \cup InDequeue
Alive(p) == pc[p] # "stopped"

Fates == {"none", "ok", "discarded", "lost"}

(* QueuedJob as the future owns it: seq names the envelope it was popped   *)
(* from; "run" is inside dispatch_job, "retry" and "zadd" inside           *)
(* enqueue_retry, newSeq being the number the retry drew from the queue.   *)
Tasks == [job: Jobs, attempt: Nat, seq: Nat,
          st: {"run", "retry", "zadd"}, newSeq: Nat]

SpawnedTask(e) ==
    [job |-> e.job, attempt |-> e.attempt, seq |-> e.seq, st |-> "run", newSeq |-> 0]

Held(p) == IF pc[p] \in InDequeue THEN 1 ELSE 0

EngineInit ==
    /\ pc = [p \in Procs |-> "acquire"]
    /\ shutdown = [p \in Procs |-> FALSE]
    /\ permits = [p \in Procs |-> MaxConcurrent]
    /\ tasks = [p \in Procs |-> {}]
    /\ fate = [j \in Jobs |-> "none"]
    /\ faults = 0
    /\ stops = 0

-----------------------------------------------------------------------------
(* WorkerEngine::run *)

(* The permit is taken before a job is: a job is never held without one.   *)
AcquirePermit(p) ==
    /\ pc[p] = "acquire"
    /\ permits[p] > 0
    /\ pc' = [pc EXCEPT ![p] = "dequeue"]
    /\ permits' = [permits EXCEPT ![p] = @ - 1]
    /\ UNCHANGED <<shutdown, tasks, fate, faults, stops>>

(* The other branch of the select!: the token has fired, leave the loop.   *)
StopAcquiring(p) ==
    /\ pc[p] = "acquire"
    /\ shutdown[p]
    /\ pc' = [pc EXCEPT ![p] = "drain"]
    /\ UNCHANGED <<shutdown, permits, tasks, fate, faults, stops>>

(* Faulty variant: the permit is forgotten on the way out of the loop.     *)
DequeueNoneKeepsPermit(p) ==
    /\ pc' = [pc EXCEPT ![p] = "drain"]
    /\ UNCHANGED <<shutdown, permits, tasks, fate, faults, stops>>

(* dequeue returned None: break, which drops the permit held for the job.  *)
DequeueNone(p) ==
    /\ pc' = [pc EXCEPT ![p] = "drain"]
    /\ permits' = [permits EXCEPT ![p] = @ + 1]
    /\ UNCHANGED <<shutdown, tasks, fate, faults, stops>>

(* dequeue returned a job: spawn its future with the permit, loop.         *)
Spawn(p, e) ==
    /\ tasks' = [tasks EXCEPT ![p] = @ \cup {SpawnedTask(e)}]
    /\ pc' = [pc EXCEPT ![p] = "acquire"]
    /\ UNCHANGED <<shutdown, permits, fate, faults, stops>>

(* Faulty variant: run returns as soon as it has left the loop.            *)
DrainedAtOnce(p) ==
    /\ pc[p] = "drain"
    /\ pc' = [pc EXCEPT ![p] = "stopped"]
    /\ UNCHANGED <<shutdown, permits, tasks, fate, faults, stops>>

(* acquire_many(all) returned: every future has given its permit back.     *)
Drained(p) ==
    /\ pc[p] = "drain"
    /\ permits[p] = MaxConcurrent
    /\ pc' = [pc EXCEPT ![p] = "stopped"]
    /\ UNCHANGED <<shutdown, permits, tasks, fate, faults, stops>>

(* The end of the process, whatever the reason: its futures are gone.      *)
Die(p) ==
    /\ pc' = [pc EXCEPT ![p] = "stopped"]
    /\ permits' = [permits EXCEPT ![p] = MaxConcurrent]
    /\ tasks' = [tasks EXCEPT ![p] = {}]
    /\ UNCHANGED <<shutdown, fate, stops>>

(* DRAIN_TIMEOUT expired with futures still running: they are cut off.     *)
DrainTimeout(p) ==
    /\ pc[p] = "drain"
    /\ permits[p] < MaxConcurrent
    /\ faults < MaxFaults
    /\ faults' = faults + 1
    /\ Die(p)

(* kill -9, out of memory, power loss.                                     *)
Crash(p) ==
    /\ Alive(p)
    /\ faults < MaxFaults
    /\ faults' = faults + 1
    /\ Die(p)

(* SIGTERM or SIGINT fires the token (seiran-server main).                 *)
RequestShutdown(p) ==
    /\ Alive(p)
    /\ ~shutdown[p]
    /\ stops < MaxStops
    /\ stops' = stops + 1
    /\ shutdown' = [shutdown EXCEPT ![p] = TRUE]
    /\ UNCHANGED <<pc, permits, tasks, fate, faults>>

(* The container is started again: WorkerEngine::run from the top.         *)
Restart(p) ==
    /\ pc[p] = "stopped"
    /\ pc' = [pc EXCEPT ![p] = "acquire"]
    /\ shutdown' = [shutdown EXCEPT ![p] = FALSE]
    /\ UNCHANGED <<permits, tasks, fate, faults, stops>>

-----------------------------------------------------------------------------
(* execute_with_retry *)

(* The future ends: its OwnedSemaphorePermit is dropped with it.           *)
EndTask(p, t) ==
    /\ tasks' = [tasks EXCEPT ![p] = @ \ {t}]
    /\ permits' = [permits EXCEPT ![p] = @ + 1]
    /\ UNCHANGED <<pc, shutdown, stops>>

(* The handler returned Ok.                                                *)
HandlerOk(p, t) ==
    /\ t \in tasks[p]
    /\ t.st = "run"
    /\ EndTask(p, t)
    /\ fate' = [fate EXCEPT ![t.job] = "ok"]
    /\ UNCHANGED faults

(* Faulty variant: one attempt too many.                                   *)
MayRetryOnceMore(t) == t.attempt + 1 =< MaxAttempts[t.job]

(* JobError::Permanent, or the last attempt failed: the job is discarded.  *)
MayRetry(t) == t.attempt + 1 < MaxAttempts[t.job]

HandlerDiscard(p, t) ==
    /\ t \in tasks[p]
    /\ t.st = "run"
    /\ EndTask(p, t)
    /\ fate' = [fate EXCEPT ![t.job] = "discarded"]
    /\ UNCHANGED faults

(* JobError::Transient with attempts left: enqueue_retry is called.        *)
HandlerTransient(p, t) ==
    /\ t \in tasks[p]
    /\ t.st = "run"
    /\ MayRetry(t)
    /\ tasks' = [tasks EXCEPT ![p] = (@ \ {t}) \cup {[t EXCEPT !.st = "retry"]}]
    /\ UNCHANGED <<pc, shutdown, permits, fate, faults, stops>>

(* A panic unwinds the future: no retry, no log line, the permit returns.  *)
HandlerPanic(p, t) ==
    /\ t \in tasks[p]
    /\ t.st = "run"
    /\ faults < MaxFaults
    /\ faults' = faults + 1
    /\ EndTask(p, t)
    /\ UNCHANGED fate

-----------------------------------------------------------------------------
(* A permit is free, or held by the loop inside dequeue, or held by one    *)
(* future: none leaks on any path out of the loop or of a future, panics   *)
(* and failed retries included (WorkerEngine::run).                        *)
PermitsAccounted ==
    \A p \in Procs :
        permits[p] + Cardinality(tasks[p]) + Held(p) = MaxConcurrent
=============================================================================

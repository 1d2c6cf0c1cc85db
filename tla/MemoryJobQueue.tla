--------------------------- MODULE MemoryJobQueue ---------------------------
(***************************************************************************)
(* queue/memory.rs under the worker engine, as `--role all` runs it: one   *)
(* process holds a heap of jobs behind a mutex, a Notify that wakes its    *)
(* worker, and one sleeping future per delayed retry.  All of it is gone   *)
(* when the process ends.  The code between two awaits with the mutex held *)
(* is one step: push and notify_one, or the pop.                           *)
(***************************************************************************)
EXTENDS WorkerEngine

(* What the model is for: MCWorkers assumes it.                            *)
OneProcess == \E p \in Procs : Procs = {p}

VARIABLES
    up,         \* the process exists (its worker loop may have returned)
    submitted,  \* jobs for which enqueue was called
    heap,       \* InnerQueue.heap, a set of PrioritizedJob
    sequence,   \* InnerQueue.sequence
    notify,     \* the permit that notify_one leaves for the next notified()
    sleeping    \* the futures spawned by enqueue_retry that still sleep

queueVars == <<submitted, heap, sequence, notify, sleeping>>
vars == <<engineVars, up, queueVars>>

-----------------------------------------------------------------------------
(* Faulty variant: other.sequence and self.sequence swapped.               *)
GreaterLifo(a, b) ==
    \/ Priority[a.job] > Priority[b.job]
    \/ Priority[a.job] = Priority[b.job] /\ a.seq > b.seq

(* Ord::cmp of PrioritizedJob.                                             *)
Greater(a, b) ==
    \/ Priority[a.job] > Priority[b.job]
    \/ Priority[a.job] = Priority[b.job] /\ a.seq < b.seq

(* BinaryHeap::pop returns a greatest element.                             *)
IsTop(e) == e \in heap /\ \A f \in heap : ~Greater(f, e)

Init ==
    /\ EngineInit
    /\ up = TRUE
    /\ submitted = {}
    /\ heap = {}
    /\ sequence = 0
    /\ notify = FALSE
    /\ sleeping = {}

(* Faulty variant: no notify_one after the push.                           *)
PushSilent(j, a) ==
    /\ sequence' = sequence + 1
    /\ heap' = heap \cup {[job |-> j, attempt |-> a, seq |-> sequence + 1]}
    /\ UNCHANGED notify

(* push, with the mutex held: number, insert, notify_one.                  *)
PushJob(j, a) ==
    /\ sequence' = sequence + 1
    /\ heap' = heap \cup {[job |-> j, attempt |-> a, seq |-> sequence + 1]}
    /\ notify' = TRUE

Enqueue(j) ==
    /\ up
    /\ j \notin submitted
    /\ submitted' = submitted \cup {j}
    /\ PushJob(j, 0)
    /\ UNCHANGED <<engineVars, up, sleeping>>

(* enqueue_retry: spawn the sleeper and return Ok at once.                 *)
EnqueueRetry(p, t) ==
    /\ t \in tasks[p]
    /\ t.st = "retry"
    /\ sleeping' = sleeping \cup {[job |-> t.job, attempt |-> t.attempt + 1]}
    /\ EndTask(p, t)
    /\ UNCHANGED <<fate, faults, up, submitted, heap, sequence, notify>>

(* The sleep is over: push again.  The permit of the worker is not held    *)
(* meanwhile, so this may also come after the worker has stopped.          *)
SleepOver(s) ==
    /\ s \in sleeping
    /\ sleeping' = sleeping \ {s}
    /\ PushJob(s.job, s.attempt)
    /\ UNCHANGED <<engineVars, up, submitted>>

-----------------------------------------------------------------------------
(* dequeue *)

PopSpawn(p) ==
    /\ pc[p] = "dequeue"
    /\ \E e \in heap :
          /\ IsTop(e)
          /\ heap' = heap \ {e}
          /\ Spawn(p, e)
    /\ UNCHANGED <<up, submitted, sequence, notify, sleeping>>

(* The heap is empty: unlock, go and wait.  A push may come before the     *)
(* select! polls notified(): its permit is kept.                           *)
FindEmpty(p) ==
    /\ pc[p] = "dequeue"
    /\ heap = {}
    /\ pc' = [pc EXCEPT ![p] = "notified"]
    /\ UNCHANGED <<shutdown, permits, tasks, fate, faults, stops, up, queueVars>>

Notified(p) ==
    /\ pc[p] = "notified"
    /\ notify
    /\ notify' = FALSE
    /\ pc' = [pc EXCEPT ![p] = "dequeue"]
    /\ UNCHANGED <<shutdown, permits, tasks, fate, faults, stops,
                   up, submitted, heap, sequence, sleeping>>

Cancelled(p) ==
    /\ pc[p] = "notified"
    /\ shutdown[p]
    /\ DequeueNone(p)
    /\ UNCHANGED <<up, queueVars>>

-----------------------------------------------------------------------------
(* The end of the process. *)

Forget ==
    /\ up' = FALSE
    /\ heap' = {} /\ sequence' = 0 /\ notify' = FALSE /\ sleeping' = {}
    /\ UNCHANGED submitted

(* run_all returns: HTTP, firehose and worker have stopped.                *)
Exit(p) ==
    /\ up
    /\ pc[p] = "stopped"
    /\ Forget
    /\ UNCHANGED engineVars

ProcessDies(p) == (Crash(p) \/ DrainTimeout(p)) /\ Forget

ProcessStarts(p) ==
    /\ ~up
    /\ Restart(p)
    /\ up' = TRUE
    /\ UNCHANGED queueVars

-----------------------------------------------------------------------------
EngineStep(p) ==
    /\ \/ AcquirePermit(p)
       \/ StopAcquiring(p)
       \/ Drained(p)
       \/ RequestShutdown(p)
       \/ \E t \in tasks[p] : \/ HandlerOk(p, t)
                              \/ HandlerDiscard(p, t)
                              \/ HandlerTransient(p, t)
                              \/ HandlerPanic(p, t)
    /\ UNCHANGED <<up, queueVars>>

Dequeue(p) == PopSpawn(p) \/ FindEmpty(p) \/ Notified(p) \/ Cancelled(p)

Next ==
    \/ \E j \in Jobs : Enqueue(j)
    \/ \E s \in sleeping : SleepOver(s)
    \/ \E p \in Procs :
          \/ EngineStep(p)
          \/ Dequeue(p)
          \/ \E t \in tasks[p] : EnqueueRetry(p, t)
          \/ Exit(p) \/ ProcessDies(p) \/ ProcessStarts(p)

Spec == Init /\ [][Next]_vars

(* What the future of job j goes on with.                                  *)
TaskStep(p, j) ==
    \E t \in tasks[p] :
       /\ t.job = j
       /\ \/ /\ HandlerOk(p, t) \/ HandlerDiscard(p, t) \/ HandlerTransient(p, t)
             /\ UNCHANGED <<up, queueVars>>
          \/ EnqueueRetry(p, t)

(* Tokio polls every future that is woken; a handler ends; a sleep ends; a *)
(* process whose worker has stopped ends (stop_grace_period).              *)
(* The select! of run and of dequeue is fair to neither branch.            *)
Fairness ==
    /\ \A p \in Procs :
          /\ WF_vars((AcquirePermit(p) \/ StopAcquiring(p)) /\ UNCHANGED <<up, queueVars>>)
          /\ WF_vars(Dequeue(p))
          /\ WF_vars(Drained(p) /\ UNCHANGED <<up, queueVars>>)
          /\ WF_vars(Exit(p))
          /\ \A j \in Jobs : WF_vars(TaskStep(p, j))
    /\ \A j \in Jobs : WF_vars(\E s \in sleeping : s.job = j /\ SleepOver(s))

FairSpec == Spec /\ Fairness

-----------------------------------------------------------------------------
(* A future only starts when no job of higher priority waits, and none of  *)
(* the same priority that was pushed before it (the FIFO guarantee of      *)
(* PrioritizedJob.sequence, across retries too).                           *)
StartsInOrder ==
    [][\A p \in Procs : \A t \in tasks'[p] \ tasks[p] :
          t.st = "run" =>
             \A f \in heap :
                \/ f = [job |-> t.job, attempt |-> t.attempt, seq |-> t.seq]
                \/ Priority[f.job] < Priority[t.job]
                \/ Priority[f.job] = Priority[t.job] /\ f.seq > t.seq]_vars

Present(j) ==
    \/ \E e \in heap : e.job = j
    \/ \E s \in sleeping : s.job = j
    \/ \E p \in Procs : \E t \in tasks[p] : t.job = j

(* The queue drains: every job that waits, sleeps or runs is eventually    *)
(* gone, completed or discarded, or taken along by the end of the process. *)
(* No other job, no retry and no lost wakeup keeps it for ever.            *)
JobsSettle == []<>(\A j \in Jobs : ~Present(j))

-----------------------------------------------------------------------------
Queued(j) == {e \in heap : e.job = j} \cup {s \in sleeping : s.job = j}
Running(j) == UNION {{t \in tasks[p] : t.job = j} : p \in Procs}

PhaseOf(j) ==
    CASE Cardinality(Queued(j) \cup Running(j)) > 1 -> "twice"
      [] Queued(j) # {} /\ Running(j) = {} -> "queued"
      [] Queued(j) = {} /\ Running(j) # {} -> "running"
      [] OTHER -> IF j \in submitted THEN "gone" ELSE "new"

AttemptOf(j) ==
    IF Queued(j) \cup Running(j) = {} THEN 0
    ELSE (CHOOSE c \in Queued(j) \cup Running(j) : TRUE).attempt

Lifecycle == INSTANCE JobLifecycle WITH
    Durable <- FALSE,
    phase <- [j \in Jobs |-> PhaseOf(j)],
    attempt <- [j \in Jobs |-> AttemptOf(j)]

(* The in-memory queue implements the same life of a job as Redis does,    *)
(* but for what waits when the process ends (traits.rs, JobQueue).         *)
ImplementsLifecycle == Lifecycle!Spec
=============================================================================

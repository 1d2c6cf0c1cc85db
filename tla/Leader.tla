------------------------------- MODULE Leader -------------------------------
(***************************************************************************)
(* leader.rs: one resident task (Jetstream, a poller) that several         *)
(* processes would run and only the holder of a PostgreSQL advisory lock   *)
(* does.  The lock belongs to a database session; a process that loses the *)
(* session finds out at its next ping.  Time advances in ticks; what is    *)
(* due happens before the next tick.                                       *)
(***************************************************************************)
EXTENDS Integers, FiniteSets

CONSTANTS
    Processes,
    AcquireRetryInterval,   \* ACQUIRE_RETRY_INTERVAL
    LockCheckInterval,      \* LOCK_CHECK_INTERVAL
    StopTimeout,            \* STOP_TIMEOUT
    PingTime,               \* what the network takes to give up a ping: lead has no limit
    MaxLosses,              \* bound: sessions that end under their process
    MaxErrors,              \* bound: try_acquire calls that fail
    MaxExits                \* bound: processes that die or are told to shut down

ASSUME IntervalsAssumption ==
    /\ AcquireRetryInterval \in Nat \ {0}
    /\ LockCheckInterval \in Nat \ {0}
    /\ StopTimeout \in Nat \ {0}
    /\ PingTime \in Nat

VARIABLES
    at,        \* at[p]: "try", "sleep", "lead", "ping", "stop", "close", "down" or "dead"
    timer,     \* timer[p]: ticks to the end of the sleep, to the next ping, of the ping,
               \* or of the timeout
    task,      \* task[p]: "none", "runs", "told" (stop cancelled) or "aborted"
    holder,    \* the processes whose session holds the lock
    stopping,  \* processes whose shutdown token is cancelled
    age,       \* age[p]: ticks the task of p has run without the lock
    losses, errors, exits

counters == <<losses, errors, exits>>
leaderVars == <<at, timer, task, holder, stopping, age, counters>>

HasTask(p) == task[p] # "none"
Goto(p, l) == at' = [at EXCEPT ![p] = l]
Set(p, t) == timer' = [timer EXCEPT ![p] = t]

LeaderInit ==
    /\ at = [p \in Processes |-> "try"]
    /\ timer = [p \in Processes |-> 0]
    /\ task = [p \in Processes |-> "none"]
    /\ holder = {}
    /\ stopping = {}
    /\ age = [p \in Processes |-> 0]
    /\ losses = 0 /\ errors = 0 /\ exits = 0

-----------------------------------------------------------------------------
(* run_as_leader *)

(* pg_try_advisory_lock, and lead spawns the task.                         *)
TryAcquire(p) ==
    /\ at[p] = "try"
    /\ p \notin stopping
    /\ IF holder = {}
       THEN /\ holder' = {p}
            /\ task' = [task EXCEPT ![p] = "runs"]
            /\ Goto(p, "lead")
            /\ Set(p, LockCheckInterval)
       ELSE /\ Goto(p, "sleep")
            /\ Set(p, AcquireRetryInterval)
            /\ UNCHANGED <<holder, task>>
    /\ UNCHANGED <<stopping, age, counters>>

TryAcquireFails(p) ==
    /\ at[p] = "try"
    /\ p \notin stopping
    /\ errors < MaxErrors
    /\ errors' = errors + 1
    /\ Goto(p, "sleep")
    /\ Set(p, AcquireRetryInterval)
    /\ UNCHANGED <<task, holder, stopping, age, losses, exits>>

(* Faulty variant: a process tries once and does not try again.            *)
SleepEndsLoop(p) ==
    /\ at[p] = "sleep"
    /\ timer[p] = 0 \/ p \in stopping
    /\ Goto(p, "down")
    /\ UNCHANGED <<timer, task, holder, stopping, age, counters>>

(* The sleep is over; shutdown.cancelled() ends it early.                  *)
SleepEnds(p) ==
    /\ at[p] = "sleep"
    /\ timer[p] = 0 \/ p \in stopping
    /\ Goto(p, "try")
    /\ UNCHANGED <<timer, task, holder, stopping, age, counters>>

LoopEnds(p) ==
    /\ at[p] = "try"
    /\ p \in stopping
    /\ Goto(p, "down")
    /\ UNCHANGED <<timer, task, holder, stopping, age, counters>>

-----------------------------------------------------------------------------
(* lead *)

ToldToStop(p) == task' = [task EXCEPT ![p] = IF @ = "runs" THEN "told" ELSE @]

(* check.tick(): from here on lead hears nothing but the answer.           *)
CheckTick(p) ==
    /\ at[p] = "lead"
    /\ timer[p] = 0
    /\ Goto(p, "ping")
    /\ Set(p, PingTime)
    /\ UNCHANGED <<task, holder, stopping, age, counters>>

(* The interval goes on from where it was when the ping began.             *)
PingAnswers(p) ==
    /\ at[p] = "ping"
    /\ p \in holder
    /\ Goto(p, "lead")
    /\ LET elapsed == PingTime - timer[p]
       IN  Set(p, IF elapsed < LockCheckInterval THEN LockCheckInterval - elapsed ELSE 0)
    /\ UNCHANGED <<task, holder, stopping, age, counters>>

PingFails(p) ==
    /\ at[p] = "ping"
    /\ p \notin holder
    /\ Goto(p, "stop")
    /\ Set(p, StopTimeout)
    /\ ToldToStop(p)
    /\ UNCHANGED <<holder, stopping, age, counters>>

(* Faulty variant: the lock is given back while the task is stopping.      *)
StepDownCloses(p) ==
    /\ at[p] = "lead"
    /\ p \in stopping
    /\ Goto(p, "close")
    /\ ToldToStop(p)
    /\ UNCHANGED <<timer, holder, stopping, age, counters>>

(* shutdown.cancelled(): stop.cancel() (the child token fires with it).    *)
StepDown(p) ==
    /\ at[p] = "lead"
    /\ p \in stopping
    /\ Goto(p, "stop")
    /\ Set(p, StopTimeout)
    /\ ToldToStop(p)
    /\ UNCHANGED <<holder, stopping, age, counters>>

(* The task comes back, of its own or because it was told to; lead learns  *)
(* of it in a select or in the timeout, not while it waits for a ping.     *)
TaskReturns(p) ==
    /\ at[p] \in {"lead", "ping", "stop"}
    /\ task[p] \in {"runs", "told"}
    /\ task' = [task EXCEPT ![p] = "none"]
    /\ UNCHANGED <<at, timer, holder, stopping, age, counters>>

HandleReady(p) ==
    /\ at[p] \in {"lead", "stop"}
    /\ ~HasTask(p)
    /\ Goto(p, "close")
    /\ UNCHANGED <<timer, task, holder, stopping, age, counters>>

(* timeout(STOP_TIMEOUT): handle.abort(), which is not waited for: the     *)
(* task goes on up to its next await.                                      *)
StopTimesOut(p) ==
    /\ at[p] = "stop"
    /\ timer[p] = 0
    /\ HasTask(p)
    /\ task' = [task EXCEPT ![p] = "aborted"]
    /\ Goto(p, "close")
    /\ UNCHANGED <<timer, holder, stopping, age, counters>>

AbortTakesEffect(p) ==
    /\ task[p] = "aborted"
    /\ task' = [task EXCEPT ![p] = "none"]
    /\ UNCHANGED <<at, timer, holder, stopping, age, counters>>

(* conn.detach().close(): the session ends, and with it the lock.          *)
CloseConn(p) ==
    /\ at[p] = "close"
    /\ holder' = holder \ {p}
    /\ Goto(p, "sleep")
    /\ Set(p, AcquireRetryInterval)
    /\ UNCHANGED <<task, stopping, age, counters>>

-----------------------------------------------------------------------------
(* What happens to a process. *)

(* The database ends the session (a restart, the network).                 *)
SessionLost(p) ==
    /\ p \in holder
    /\ losses < MaxLosses
    /\ losses' = losses + 1
    /\ holder' = holder \ {p}
    /\ UNCHANGED <<at, timer, task, stopping, age, errors, exits>>

Shutdown(p) ==
    /\ p \notin stopping
    /\ at[p] # "dead"
    /\ exits < MaxExits
    /\ exits' = exits + 1
    /\ stopping' = stopping \cup {p}
    /\ UNCHANGED <<at, timer, task, holder, age, losses, errors>>

ServerDies(p) ==
    /\ at[p] \notin {"down", "dead"}
    /\ exits < MaxExits
    /\ exits' = exits + 1
    /\ Goto(p, "dead")
    /\ task' = [task EXCEPT ![p] = "none"]
    /\ holder' = holder \ {p}
    /\ UNCHANGED <<timer, stopping, age, losses, errors>>

(* Something of p is due now.                                              *)
Due(p) ==
    \/ at[p] \in {"try", "close"}
    \/ at[p] \in {"sleep", "lead", "ping", "stop"} /\ timer[p] = 0
    \/ at[p] \in {"lead", "stop"} /\ ~HasTask(p)
    \/ p \in stopping /\ at[p] \in {"sleep", "lead"}
    \/ task[p] = "aborted"

(* How long a task may run without the lock.                               *)
OverlapLimit == LockCheckInterval + PingTime + StopTimeout

Tick ==
    /\ \A p \in Processes : ~Due(p)
    /\ timer' = [p \in Processes |-> IF timer[p] > 0 THEN timer[p] - 1 ELSE 0]
    /\ age' = [p \in Processes |->
                 IF HasTask(p) /\ p \notin holder
                 THEN IF age[p] =< OverlapLimit THEN age[p] + 1 ELSE age[p]
                 ELSE 0]
    /\ UNCHANGED <<at, task, holder, stopping, counters>>

-----------------------------------------------------------------------------
Step(p) ==
    \/ TryAcquire(p) \/ SleepEnds(p) \/ LoopEnds(p)
    \/ CheckTick(p) \/ PingAnswers(p) \/ PingFails(p) \/ StepDown(p) \/ HandleReady(p)
    \/ StopTimesOut(p) \/ AbortTakesEffect(p) \/ CloseConn(p)

LeaderNext ==
    \/ Tick
    \/ \E p \in Processes :
          \/ Step(p) \/ TaskReturns(p) \/ TryAcquireFails(p)
          \/ SessionLost(p) \/ Shutdown(p) \/ ServerDies(p)

LeaderSpec == LeaderInit /\ [][LeaderNext]_leaderVars

(* Processes that are up go on and time passes; no task has to return.     *)
(* Enough for TakenOver while a ping is shorter than the interval; longer  *)
(* ones, back to back, leave it to the random choice of select!.           *)
LeaderFairSpec ==
    /\ LeaderSpec
    /\ WF_leaderVars(Tick)
    /\ \A p \in Processes : WF_leaderVars(Step(p))

-----------------------------------------------------------------------------
TypeOK ==
    /\ at \in [Processes -> {"try", "sleep", "lead", "ping", "stop", "close", "down", "dead"}]
    /\ \A p \in Processes :
          timer[p] \in 0 .. (AcquireRetryInterval + OverlapLimit)
    /\ task \in [Processes -> {"none", "runs", "told", "aborted"}]
    /\ holder \subseteq Processes /\ Cardinality(holder) =< 1
    /\ stopping \subseteq Processes
    /\ age \in [Processes -> Nat]

(* Two processes run the task at the same time only when one of them has   *)
(* lost its session, or was aborted and has not reached an await yet.      *)
OneRunner ==
    \A p, q \in Processes :
        p # q /\ HasTask(p) /\ HasTask(q) =>
            \E r \in {p, q} :
                (r \notin holder /\ losses > 0) \/ task[r] = "aborted"

(* A process that has lost the lock stops its task within one check, the   *)
(* time the ping hangs and one stop timeout, whether or not it listens.    *)
OverlapBounded == \A p \in Processes : age[p] =< OverlapLimit

(* The session that holds the lock belongs to a process that leads or is   *)
(* about to close it: a process that is done never keeps the others out.   *)
HolderLeads == \A p \in holder : at[p] \in {"lead", "ping", "stop", "close"}

(* One runner, but for a bounded time, and no lock left behind.            *)
LeaderSafe == OneRunner /\ OverlapBounded /\ HolderLeads

(* The task is always taken over, while a process is left that may run it. *)
TakenOver ==
    []<>(\/ \E p \in Processes : HasTask(p)
         \/ \A p \in Processes : at[p] = "dead" \/ p \in stopping)
=============================================================================

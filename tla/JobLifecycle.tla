---------------------------- MODULE JobLifecycle ----------------------------
(***************************************************************************)
(* What the JobQueue trait (traits.rs) and the worker promise about one    *)
(* enqueued job, whatever the backend: at any time it waits in the queue   *)
(* or one future runs it, never both and never twice; it goes back to the  *)
(* queue only with the next attempt number, at most MaxAttempts times; and *)
(* it leaves for good.  Delivery is at most once: a job may also be lost.  *)
(***************************************************************************)
EXTENDS Integers

CONSTANTS
    Jobs,
    MaxAttempts,
    Durable       \* TRUE: queued jobs outlive the processes (Redis)

VARIABLES
    phase,    \* phase[j]: "new", "queued", "running" or "gone"
    attempt   \* attempt[j]: the attempt j waits for, or is at

vars == <<phase, attempt>>

Init ==
    /\ phase = [j \in Jobs |-> "new"]
    /\ attempt = [j \in Jobs |-> 0]

(* enqueue: attempt 0. *)
Submit(j) ==
    /\ phase[j] = "new"
    /\ phase' = [phase EXCEPT ![j] = "queued"]
    /\ UNCHANGED attempt

(* dequeue hands the job to one worker. *)
Start(j) ==
    /\ phase[j] = "queued"
    /\ phase' = [phase EXCEPT ![j] = "running"]
    /\ UNCHANGED attempt

(* enqueue_retry: the same job with the next attempt number. *)
Requeue(j) ==
    /\ phase[j] = "running"
    /\ attempt[j] + 1 < MaxAttempts[j]
    /\ phase' = [phase EXCEPT ![j] = "queued"]
    /\ attempt' = [attempt EXCEPT ![j] = @ + 1]

(* Done, discarded or lost. *)
Leave(j) ==
    /\ phase[j] # "gone"
    /\ phase' = [phase EXCEPT ![j] = "gone"]
    /\ attempt' = [attempt EXCEPT ![j] = 0]

(* A process that ends takes all the jobs it runs with it, and those that  *)
(* wait in its memory.                                                     *)
LeaveTogether ==
    \E S \in SUBSET Jobs :
        /\ \A j \in S : phase[j] = "running" \/ (~Durable /\ phase[j] = "queued")
        /\ phase' = [j \in Jobs |-> IF j \in S THEN "gone" ELSE phase[j]]
        /\ attempt' = [j \in Jobs |-> IF j \in S THEN 0 ELSE attempt[j]]

Next ==
    \/ \E j \in Jobs : Submit(j) \/ Start(j) \/ Requeue(j) \/ Leave(j)
    \/ LeaveTogether

Spec == Init /\ [][Next]_vars
=============================================================================

---------------------------- MODULE FollowImport ----------------------------
(***************************************************************************)
(* The self re-enqueueing job FollowImportProcess of one import request    *)
(* (jobs/follow_import.rs) with the request and item rows it works on      *)
(* (repository/follow_import.rs), the advisory lock that keeps two chains  *)
(* apart (advisory_lock.rs), the API calls that start and cancel it        *)
(* (seiran-api handlers/follow_import.rs) and the startup recovery that    *)
(* enqueues it again (seiran-api resume_running_follow_imports).           *)
(*                                                                         *)
(* The queue is what RedisJobQueue and MemoryJobQueue promise: tokens that *)
(* are taken once, in any order; a delay is a token taken later.           *)
(***************************************************************************)
EXTENDS Integers, FiniteSets

CONSTANTS
    Workers,        \* futures that may run the job at the same time
    Items,          \* ids of the follow_import_items rows, taken in order
    MaxAttempts,    \* retry_config_for(FollowImportProcess).max_attempts
    MaxTokens,      \* bound: queued copies of the job
    MaxFaults,      \* bound: DB errors, failed enqueues, panics, crashes
    MaxLockLosses,  \* bound: lock connections that die under a handler
    MaxRecoveries,  \* bound: API restarts while the workers go on
    MaxLimited      \* bound: times the follow rate limit is found exceeded

ASSUME ItemsAssumption == Items \subseteq Nat
ASSUME AttemptsAssumption == MaxAttempts \in Nat \ {0}
ASSUME WorkersAssumption == "free" \notin Workers

VARIABLES
    monolith,    \* TRUE: --role all with the in-memory queue; FALSE: split roles
    status,      \* follow_import_requests.status ("none": no such row)
    items,       \* items[i]: follow_import_items.status
    executed,    \* executed[i]: times execute_follow ran for i
    tokens,      \* tokens[a]: queued copies of the job with attempt a
    api,         \* "enqueue": start_import has committed but not enqueued
    pc,          \* pc[w]: where the handler of w is
    attempt,     \* attempt[w]: the attempt w runs
    item,        \* item[w]: the item w has claimed (0: none)
    next,        \* next[w]: NextAction of process_locked, or "err"
    lock,        \* the session that holds the advisory lock of the request
    faults, lockLosses, recoveries, limited

rows == <<status, items, executed>>
handler == <<pc, attempt, item, next>>
counters == <<faults, lockLosses, recoveries, limited>>
vars == <<monolith, rows, tokens, api, handler, lock, counters>>

-----------------------------------------------------------------------------
(* Between pg_try_advisory_lock and pg_advisory_unlock. *)
Locked == {"read", "claim", "claiming", "complete", "rate", "exec", "mark", "marking", "unlock"}
Attempts == 0 .. MaxAttempts - 1

NoToken == [a \in Attempts |-> 0]
Push(a) == tokens' = [tokens EXCEPT ![a] = @ + 1]
Queued == \E a \in Attempts : tokens[a] > 0
Pending == {i \in Items : items[i] = "pending"}
(* An UPDATE of a row is under way: other statements wait for it or skip it. *)
RowLocked(i) == \E v \in Workers : pc[v] \in {"claiming", "marking"} /\ item[v] = i
Fault == faults < MaxFaults /\ faults' = faults + 1

Init ==
    /\ monolith \in BOOLEAN
    /\ status = "none"
    /\ items = [i \in Items |-> "pending"]
    /\ executed = [i \in Items |-> 0]
    /\ tokens = NoToken
    /\ api = "idle"
    /\ pc = [w \in Workers |-> "idle"]
    /\ attempt = [w \in Workers |-> 0]
    /\ item = [w \in Workers |-> 0]
    /\ next = [w \in Workers |-> "stop"]
    /\ lock = "free"
    /\ faults = 0 /\ lockLosses = 0 /\ recoveries = 0 /\ limited = 0

Goto(w, l) == pc' = [pc EXCEPT ![w] = l]
(* The handler returns, and its variables are gone.                        *)
Returns(w) == Goto(w, "idle") /\ attempt' = [attempt EXCEPT ![w] = 0]

-----------------------------------------------------------------------------
(* API *)

(* start_import: create_request in one transaction, then the enqueue.      *)
StartImport ==
    /\ status = "none"
    /\ status' = "running"
    /\ api' = "enqueue"
    /\ UNCHANGED <<monolith, items, executed, tokens, handler, lock, counters>>

StartEnqueue ==
    /\ api = "enqueue"
    /\ api' = "idle"
    /\ Push(0)
    /\ UNCHANGED <<monolith, rows, handler, lock, counters>>

(* The enqueue failed (Redis only; the in-memory push cannot fail): the    *)
(* handler logs it and answers Ok.                                         *)
StartEnqueueFails ==
    /\ ~monolith
    /\ api = "enqueue"
    /\ Fault
    /\ api' = "idle"
    /\ UNCHANGED <<monolith, rows, tokens, handler, lock, lockLosses,
                   recoveries, limited>>

(* cancel_import: only a running request is cancelled.                     *)
Cancel ==
    /\ status = "running"
    /\ status' = "cancelled"
    /\ UNCHANGED <<monolith, items, executed, tokens, api, handler, lock, counters>>

(* resume_running_follow_imports, when an API process starts.              *)
Recover ==
    /\ ~monolith
    /\ recoveries < MaxRecoveries
    /\ recoveries' = recoveries + 1
    /\ \/ status = "running" /\ tokens[0] < MaxTokens /\ Push(0)
       \/ status # "running" /\ UNCHANGED tokens
    /\ UNCHANGED <<monolith, rows, api, handler, lock, faults, lockLosses, limited>>

-----------------------------------------------------------------------------
(* handle and process_locked *)

TakeJob(w) ==
    /\ pc[w] = "idle"
    /\ \E a \in Attempts :
          /\ tokens[a] > 0
          /\ tokens' = [tokens EXCEPT ![a] = @ - 1]
          /\ attempt' = [attempt EXCEPT ![w] = a]
    /\ Goto(w, "lock")
    /\ UNCHANGED <<monolith, rows, api, item, next, lock, counters>>

(* try_acquire: without the lock the job ends, and is not enqueued again.  *)
TryLock(w) ==
    /\ pc[w] = "lock"
    /\ IF lock = "free"
       THEN lock' = w /\ Goto(w, "read") /\ UNCHANGED attempt
       ELSE UNCHANGED lock /\ Returns(w)
    /\ UNCHANGED <<monolith, rows, tokens, api, item, next, counters>>

(* get_request: anything but a running request stops the chain.            *)
ReadRequest(w) ==
    /\ pc[w] = "read"
    /\ \/ status = "running" /\ Goto(w, "claim") /\ UNCHANGED next
       \/ /\ status # "running"
          /\ Goto(w, "unlock")
          /\ next' = [next EXCEPT ![w] = "stop"]
    /\ UNCHANGED <<monolith, rows, tokens, api, attempt, item, lock, counters>>

(* claim_next_item, FOR UPDATE SKIP LOCKED: the pending row with the        *)
(* smallest id that no other statement has locked; none, although rows are  *)
(* pending, when all of them are locked.  The UPDATE sets the status to     *)
(* 'pending' again, so the row is claimable as soon as it has committed.    *)
ClaimNextItem(w) ==
    /\ pc[w] = "claim"
    /\ LET free == {i \in Pending : ~RowLocked(i)}
       IN  \/ free = {} /\ Goto(w, "complete") /\ UNCHANGED item
           \/ \E i \in free :
                 /\ \A k \in free : i =< k
                 /\ item' = [item EXCEPT ![w] = i]
                 /\ Goto(w, "claiming")
    /\ UNCHANGED <<monolith, rows, tokens, api, attempt, next, lock, counters>>
ClaimCommits(w) ==
    /\ pc[w] = "claiming"
    /\ Goto(w, "rate")
    /\ UNCHANGED <<monolith, rows, tokens, api, attempt, item, next, lock, counters>>

(* mark_completed: a cancelled request stays cancelled.                    *)
MarkCompleted(w) ==
    /\ pc[w] = "complete"
    /\ status' = IF status = "running" THEN "completed" ELSE status
    /\ Goto(w, "unlock")
    /\ next' = [next EXCEPT ![w] = "stop"]
    /\ UNCHANGED <<monolith, items, executed, tokens, api, attempt, item, lock,
                   counters>>

(* check_follow_rate_limit: exceeded leaves the item pending.              *)
CheckRateLimit(w) ==
    /\ pc[w] = "rate"
    /\ \/ /\ Goto(w, "exec")
          /\ UNCHANGED <<item, next, limited>>
       \/ /\ limited < MaxLimited
          /\ limited' = limited + 1
          /\ Goto(w, "unlock")
          /\ item' = [item EXCEPT ![w] = 0]
          /\ next' = [next EXCEPT ![w] = "retryAfter"]
    /\ UNCHANGED <<monolith, rows, tokens, api, attempt, lock, faults,
                   lockLosses, recoveries>>

(* execute_follow: the follow is made, found to exist, or refused.         *)
ExecuteFollow(w) ==
    /\ pc[w] = "exec"
    /\ executed' = [executed EXCEPT ![item[w]] = @ + 1]
    /\ Goto(w, "mark")
    /\ UNCHANGED <<monolith, status, items, tokens, api, attempt, item, next,
                   lock, counters>>

(* Faulty variant: the UPDATE without its condition.                        *)
MarkItemResultAlways(w) ==
    /\ pc[w] = "mark" /\ ~RowLocked(item[w])
    /\ Goto(w, "marking")
    /\ UNCHANGED <<monolith, rows, tokens, api, attempt, item, next, lock, counters>>

Marked(w) ==
    /\ item' = [item EXCEPT ![w] = 0]
    /\ Goto(w, "unlock")
    /\ next' = [next EXCEPT ![w] = "continue"]
(* mark_item_result: only a pending row gets a result; the UPDATE waits for  *)
(* another one of the row.                                                  *)
MarkItemResult(w) ==
    /\ pc[w] = "mark" /\ ~RowLocked(item[w])
    /\ \/ items[item[w]] = "pending" /\ Goto(w, "marking") /\ UNCHANGED <<item, next>>
       \/ items[item[w]] # "pending" /\ Marked(w)
    /\ UNCHANGED <<monolith, rows, tokens, api, attempt, lock, counters>>
MarkCommits(w) ==
    /\ pc[w] = "marking"
    /\ \E r \in {"succeeded", "failed"} : items' = [items EXCEPT ![item[w]] = r]
    /\ Marked(w)
    /\ UNCHANGED <<monolith, status, executed, tokens, api, attempt, lock, counters>>

(* Faulty variant: the next link is enqueued before the unlock.            *)
ReleaseAfterEnqueue(w) ==
    /\ pc[w] = "unlock"
    /\ \/ /\ next[w] \in {"continue", "retryAfter"}
          /\ Push(0)
          /\ next' = [next EXCEPT ![w] = "stop"]
          /\ UNCHANGED <<lock, pc>>
       \/ /\ next[w] \notin {"continue", "retryAfter"}
          /\ lock' = IF lock = w THEN "free" ELSE lock
          /\ Goto(w, "post")
          /\ UNCHANGED <<tokens, next>>
    /\ UNCHANGED <<monolith, rows, api, attempt, item, counters>>

(* release, on the connection that took the lock.                          *)
Release(w) ==
    /\ pc[w] = "unlock"
    /\ lock' = IF lock = w THEN "free" ELSE lock
    /\ Goto(w, "post")
    /\ UNCHANGED <<monolith, rows, tokens, api, attempt, item, next, counters>>

(* What handle does after the unlock, and what execute_with_retry does     *)
(* with its Err: attempt + 1 while there is one.                           *)
AfterRelease(w) ==
    /\ pc[w] = "post"
    /\ CASE next[w] \in {"continue", "retryAfter"} -> Push(0)
         [] next[w] = "stop" -> UNCHANGED tokens
         [] next[w] = "err" -> IF attempt[w] + 1 < MaxAttempts
                               THEN Push(attempt[w] + 1)
                               ELSE UNCHANGED tokens
    /\ Returns(w)
    /\ next' = [next EXCEPT ![w] = "stop"]
    /\ UNCHANGED <<monolith, rows, api, item, lock, counters>>

-----------------------------------------------------------------------------
(* Faults *)

(* A database call of process_locked failed.                               *)
DbError(w) ==
    /\ pc[w] \in Locked \ {"unlock"}
    /\ Fault
    /\ item' = [item EXCEPT ![w] = 0]
    /\ next' = [next EXCEPT ![w] = "err"]
    /\ Goto(w, "unlock")
    /\ UNCHANGED <<monolith, rows, tokens, api, attempt, lock, lockLosses,
                   recoveries, limited>>

(* try_acquire failed: Err without a lock.                                 *)
LockError(w) ==
    /\ pc[w] = "lock"
    /\ Fault
    /\ next' = [next EXCEPT ![w] = "err"]
    /\ Goto(w, "post")
    /\ UNCHANGED <<monolith, rows, tokens, api, attempt, item, lock,
                   lockLosses, recoveries, limited>>

(* The enqueue of the next link failed (Redis only): handle returns Err.   *)
EnqueueError(w) ==
    /\ ~monolith
    /\ pc[w] = "post"
    /\ next[w] \in {"continue", "retryAfter"}
    /\ Fault
    /\ next' = [next EXCEPT ![w] = "err"]
    /\ UNCHANGED <<monolith, rows, tokens, api, pc, attempt, item, lock,
                   lockLosses, recoveries, limited>>

(* The connection that holds the lock dies: PostgreSQL releases the lock,  *)
(* the handler goes on with other connections of the pool.                 *)
LoseLock(w) ==
    /\ lock = w
    /\ lockLosses < MaxLockLosses
    /\ lockLosses' = lockLosses + 1
    /\ lock' = "free"
    /\ UNCHANGED <<monolith, rows, tokens, api, handler, faults, recoveries, limited>>

(* A worker process dies: its job is gone, its session ends.               *)
CrashWorker(w) ==
    /\ ~monolith
    /\ pc[w] # "idle"
    /\ Fault
    /\ lock' = IF lock = w THEN "free" ELSE lock
    /\ item' = [item EXCEPT ![w] = 0]
    /\ next' = [next EXCEPT ![w] = "stop"]
    /\ Returns(w)
    /\ UNCHANGED <<monolith, rows, tokens, api, lockLosses,
                   recoveries, limited>>

(* Faulty variant: the restarted process does not look for its requests.   *)
CrashMonolithForgets ==
    /\ monolith
    /\ Fault
    /\ lock' = "free"
    /\ api' = "idle"
    /\ pc' = [w \in Workers |-> "idle"]
    /\ item' = [w \in Workers |-> 0]
    /\ next' = [w \in Workers |-> "stop"]
    /\ attempt' = [w \in Workers |-> 0]
    /\ tokens' = NoToken
    /\ UNCHANGED <<monolith, rows, lockLosses, recoveries, limited>>

(* The single process dies with its in-memory queue, and starts again:     *)
(* resume_running_follow_imports finds the request by its status.          *)
CrashMonolith ==
    /\ monolith
    /\ Fault
    /\ lock' = "free"
    /\ api' = "idle"
    /\ pc' = [w \in Workers |-> "idle"]
    /\ item' = [w \in Workers |-> 0]
    /\ next' = [w \in Workers |-> "stop"]
    /\ attempt' = [w \in Workers |-> 0]
    /\ tokens' = IF status = "running" THEN [NoToken EXCEPT ![0] = 1] ELSE NoToken
    /\ UNCHANGED <<monolith, rows, lockLosses, recoveries, limited>>

-----------------------------------------------------------------------------
HandlerStep(w) ==
    \/ TakeJob(w)
    \/ TryLock(w)
    \/ ReadRequest(w)
    \/ ClaimNextItem(w)
    \/ ClaimCommits(w)
    \/ MarkCompleted(w)
    \/ CheckRateLimit(w)
    \/ ExecuteFollow(w)
    \/ MarkItemResult(w)
    \/ MarkCommits(w)
    \/ Release(w)
    \/ AfterRelease(w)

FaultStep(w) ==
    DbError(w) \/ LockError(w) \/ EnqueueError(w) \/ LoseLock(w) \/ CrashWorker(w)

Next ==
    \/ StartImport \/ StartEnqueue \/ StartEnqueueFails \/ Cancel \/ Recover
    \/ CrashMonolith
    \/ \E w \in Workers : HandlerStep(w) \/ FaultStep(w)

Spec == Init /\ [][Next]_vars

(* Every future is polled, every call of a handler returns.                *)
FairSpec ==
    /\ Spec
    /\ WF_vars(StartEnqueue)
    /\ \A w \in Workers : WF_vars(HandlerStep(w))

-----------------------------------------------------------------------------
Driving(w) ==
    \/ pc[w] \in Locked \cup {"post"}
    \/ pc[w] = "lock" /\ lock = "free"

(* The chain of a running request never breaks: some copy of the job is    *)
(* queued, or about to take the free lock, or between its lock and the     *)
(* enqueue of the next link, so that a copy that finds the lock taken may  *)
(* end silently (jobs/follow_import.rs: unlock before enqueue).            *)
ChainAlive ==
    status = "running" /\ faults = 0 =>
        api = "enqueue" \/ Queued \/ \E w \in Workers : Driving(w)

(* As long as no lock connection dies, one handler at most is inside       *)
(* process_locked, however many chains recovery has started.               *)
OneProcessor ==
    lockLosses = 0 =>
        \A v, w \in Workers : pc[v] \in Locked /\ pc[w] \in Locked => v = w

(* Without faults and lost locks no target is followed twice.              *)
ExecutedOnce ==
    faults = 0 /\ lockLosses = 0 => \A i \in Items : executed[i] =< 1

(* A completed request has a result for every item, as long as no lock      *)
(* connection died.  After that a chain may find the last rows locked by    *)
(* another one and complete the request over them; then they are in the     *)
(* hands of a handler that will write their results, unless it is stopped   *)
(* by the rate limit or a fault (claim_next_item, mark_completed).          *)
Handles(w, i) == pc[w] \in {"claiming", "rate", "exec", "mark", "marking"} /\ item[w] = i
AllHandled ==
    /\ lockLosses = 0 => Pending = {}
    /\ faults = 0 /\ limited = 0 => \A i \in Pending : \E w \in Workers : Handles(w, i)
CompletedMeansAll == status = "completed" => AllHandled

(* The chain is never broken, never runs twice at a time, follows nobody   *)
(* twice, and leaves nothing behind when it says it is complete.           *)
ImportSafe == ChainAlive /\ OneProcessor /\ ExecutedOnce /\ CompletedMeansAll

(* A recorded result is never overwritten by a second chain, and a request *)
(* that has left running never comes back (mark_item_result, cancel,       *)
(* mark_completed: conditional UPDATEs).                                   *)
ResultsFinal ==
    [][/\ \A i \in Items : items[i] # "pending" => items'[i] = items[i]
       /\ status \in {"completed", "cancelled"} => status' = status]_vars

(* Every import ends: it is completed or cancelled, also when errors and   *)
(* crashes interrupt it.  Under split roles a fault may take the last copy *)
(* of the job, and nothing brings it back before the API starts again.     *)
ImportEnds ==
    status = "running" ~>
        status \in {"completed", "cancelled"} \/ (~monolith /\ faults > 0)

(* After the end all copies of the job drain away.                         *)
ChainEnds ==
    status \in {"completed", "cancelled"}
        ~> ~Queued /\ \A w \in Workers : pc[w] = "idle"

(* An import comes to its end, and so do the copies of its job.            *)
ChainSettles == ImportEnds /\ ChainEnds
=============================================================================

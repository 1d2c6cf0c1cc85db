----------------------------- MODULE JobsProofs -----------------------------
(***************************************************************************)
(* Theorems about two components that work through jobs: the follow import, *)
(* for every set of workers and of items and any number of faults, lost     *)
(* locks, recoveries and rate limits; and direct messages, for every script *)
(* of requests and of what happens in the chat service, any page size and   *)
(* any failures of jobs and of the poll.                                    *)
(***************************************************************************)
EXTENDS FollowImport, Dm, FiniteSetTheorems, SequenceTheorems, NaturalsInduction, WellFoundedInduction, TLAPS

Places == {"idle", "lock", "post"} \cup Locked

Types ==
    /\ status \in {"none", "running", "completed", "cancelled"}
    /\ items \in [Items -> {"pending", "succeeded", "failed"}]
    /\ executed \in [Items -> Nat]
    /\ tokens \in [Attempts -> Nat]
    /\ api \in {"idle", "enqueue"}
    /\ pc \in [Workers -> Places]
    /\ attempt \in [Workers -> Attempts]
    /\ item \in [Workers -> Items \cup {0}]
    /\ next \in [Workers -> {"stop", "continue", "retryAfter", "err"}]
    /\ lock \in Workers \cup {"free"}
    /\ faults \in Nat /\ lockLosses \in Nat /\ limited \in Nat

(* Before start_import there is no copy of the job anywhere.               *)
NotStarted ==
    status = "none" =>
        api = "idle" /\ tokens = NoToken /\ \A w \in Workers : pc[w] = "idle"

(* Whoever holds the advisory lock is inside process_locked; whoever is    *)
(* inside holds the lock, unless its connection has died.                  *)
LockHeld ==
    /\ lock # "free" => pc[lock] \in Locked
    /\ lockLosses = 0 => \A w \in Workers : pc[w] \in Locked => lock = w

(* A handler ends the chain only of a request that runs no longer, and     *)
(* "err" is the trace of a fault.                                          *)
StopsRightly ==
    /\ \A w \in Workers :
          pc[w] \in {"unlock", "post"} /\ next[w] = "stop" => status # "running"
    /\ faults = 0 => \A w \in Workers : next[w] # "err"

(* What a handler has read of the items still holds when it acts on it.    *)
ClaimsHold ==
    \A w \in Workers :
        /\ pc[w] \in {"claiming", "rate", "exec", "mark", "marking"} => item[w] \in Items
        /\ pc[w] = "complete" => AllHandled

(* A row that a statement has locked is pending, and locked by it alone.   *)
RowsHeld ==
    \A w \in Workers : pc[w] \in {"claiming", "marking"} =>
        /\ items[item[w]] = "pending"
        /\ \A v \in Workers : pc[v] \in {"claiming", "marking"} /\ item[v] = item[w] => v = w

(* The result of the item that was followed is written by the handler that *)
(* followed it: every other pending item was not followed yet.             *)
Marks(w, i) == pc[w] \in {"mark", "marking"} /\ item[w] = i
FollowedOnce ==
    faults = 0 /\ lockLosses = 0 =>
        /\ \A i \in Items : executed[i] =< 1
        /\ \A i \in Items : items[i] = "pending" /\ executed[i] > 0
                               => \E w \in Workers : Marks(w, i)
        /\ \A w \in Workers : pc[w] \in {"claiming", "rate", "exec", "mark", "marking"}
                                 => items[item[w]] = "pending"

IInv ==
    /\ Types
    /\ NotStarted
    /\ LockHeld
    /\ StopsRightly
    /\ ClaimsHold
    /\ RowsHeld
    /\ FollowedOnce
    /\ ChainAlive
    /\ CompletedMeansAll

USE AttemptsAssumption, WorkersAssumption

-----------------------------------------------------------------------------
(* An enqueue adds one copy of the job.                                    *)
LEMMA PushTypes ==
    ASSUME tokens \in [Attempts -> Nat], NEW a \in Attempts, Push(a)
    PROVE  tokens' \in [Attempts -> Nat]
BY DEF Push

(* Nobody moves, nothing is written: what was in hand still is. *)
LEMMA HandledKept ==
    ASSUME UNCHANGED <<items, pc, item>>, AllHandled,
           lockLosses' = 0 => lockLosses = 0,
           faults' = 0 /\ limited' = 0 => faults = 0 /\ limited = 0
    PROVE  AllHandled'
<1>1. Pending' = Pending
  BY DEF Pending
<1>2. ASSUME NEW w \in Workers, NEW i PROVE Handles(w, i)' = Handles(w, i)
  BY DEF Handles
<1>3. QED
  BY <1>1, <1>2 DEF AllHandled

LEMMA RowsKept ==
    ASSUME UNCHANGED <<items, pc, item>>, RowsHeld
    PROVE  RowsHeld'
BY DEF RowsHeld

(* start_import: no copy of the job existed, one is about to be queued. *)
LEMMA StartImportInv ==
    ASSUME IInv, StartImport
    PROVE  IInv'
<1> USE DEF IInv, Types, StartImport, rows, handler, counters
<1>h. AllHandled => AllHandled'
  BY HandledKept
<1>r. RowsHeld'
  BY RowsKept
<1>1. Types'
  BY DEF Places, Locked, Attempts
<1>2. LockHeld' /\ ClaimsHold' /\ FollowedOnce'
  BY <1>h DEF LockHeld, ClaimsHold, Pending, FollowedOnce, Marks
<1>3. NotStarted'
  BY DEF NotStarted
<1>4. StopsRightly'
  BY DEF StopsRightly, NotStarted
<1>5. ChainAlive'
  BY DEF ChainAlive, Driving, Queued, Locked, LockHeld, StopsRightly,
     NotStarted, Attempts
<1>6. CompletedMeansAll'
  BY <1>h DEF CompletedMeansAll, ClaimsHold
<1>7. QED
  BY <1>r, <1>1, <1>2, <1>3, <1>4, <1>5, <1>6

(* The first copy of the job: the request is running or already over. *)
LEMMA StartEnqueueInv ==
    ASSUME IInv, StartEnqueue
    PROVE  IInv'
<1> USE DEF IInv, Types, StartEnqueue, Push, rows, handler, counters
<1>h. AllHandled => AllHandled'
  BY HandledKept
<1>r. RowsHeld'
  BY RowsKept
<1>1. Types'
  BY DEF Places, Locked, Attempts
<1>2. LockHeld' /\ StopsRightly' /\ ClaimsHold' /\ FollowedOnce' /\ CompletedMeansAll'
  BY <1>h DEF LockHeld, StopsRightly, ClaimsHold, Pending, FollowedOnce, Marks,
     CompletedMeansAll
<1>3. NotStarted'
  BY DEF NotStarted
<1>4. ChainAlive'
  BY DEF ChainAlive, Driving, Queued, Locked, LockHeld, StopsRightly,
     NotStarted, Attempts
<1>5. QED
  BY <1>r, <1>1, <1>2, <1>3, <1>4

(* Lost with its fault. *)
LEMMA StartEnqueueFailsInv ==
    ASSUME IInv, StartEnqueueFails
    PROVE  IInv'
<1> USE DEF IInv, Types, StartEnqueueFails, Fault, rows, handler, counters
<1>h. AllHandled => AllHandled'
  BY HandledKept
<1>r. RowsHeld'
  BY RowsKept
<1>1. Types'
  BY DEF Places, Locked, Attempts
<1>2. LockHeld' /\ ClaimsHold' /\ CompletedMeansAll'
  BY <1>h DEF LockHeld, ClaimsHold, Pending, CompletedMeansAll
<1>3. NotStarted'
  BY DEF NotStarted
<1>4. StopsRightly'
  BY DEF StopsRightly, NotStarted
<1>5. FollowedOnce'
  BY DEF FollowedOnce, Marks, ClaimsHold, LockHeld, Locked, Pending
<1>6. ChainAlive'
  BY DEF ChainAlive, Driving, Queued, Locked, LockHeld, StopsRightly,
     NotStarted, Attempts
<1>7. QED
  BY <1>r, <1>1, <1>2, <1>3, <1>4, <1>5, <1>6

(* A cancelled request needs no chain. *)
LEMMA CancelInv ==
    ASSUME IInv, Cancel
    PROVE  IInv'
<1> USE DEF IInv, Types, Cancel, rows, handler, counters
<1>h. AllHandled => AllHandled'
  BY HandledKept
<1>r. RowsHeld'
  BY RowsKept
<1>1. Types'
  BY DEF Places, Locked, Attempts
<1>2. LockHeld' /\ ClaimsHold' /\ FollowedOnce'
  BY <1>h DEF LockHeld, ClaimsHold, Pending, FollowedOnce, Marks
<1>3. NotStarted'
  BY DEF NotStarted
<1>4. StopsRightly'
  BY DEF StopsRightly, NotStarted
<1>5. ChainAlive'
  BY DEF ChainAlive, Driving, Queued, Locked, LockHeld, StopsRightly,
     NotStarted, Attempts
<1>6. CompletedMeansAll'
  BY <1>h DEF CompletedMeansAll, ClaimsHold
<1>7. QED
  BY <1>r, <1>1, <1>2, <1>3, <1>4, <1>5, <1>6

(* resume_running_follow_imports adds a copy, to a running request only. *)
LEMMA RecoverInv ==
    ASSUME IInv, Recover
    PROVE  IInv'
<1>1. Types'
  <2>1. /\ tokens \in [Attempts -> Nat] /\ 0 \in Attempts
        /\ Push(0) \/ UNCHANGED tokens
    BY DEF IInv, Types, Recover, Attempts
  <2>2. tokens' \in [Attempts -> Nat]
    BY <2>1, PushTypes
  <2>3. UNCHANGED <<rows, api, handler, lock, faults, lockLosses, limited>>
    BY DEF Recover
  <2>4. QED
    BY <2>2, <2>3 DEF IInv, Types, rows, handler
<1> USE DEF IInv, Types, Recover, Push, rows, handler, counters
<1>h. AllHandled => AllHandled'
  BY HandledKept
<1>r. RowsHeld'
  BY RowsKept
<1>2. LockHeld' /\ StopsRightly' /\ ClaimsHold' /\ FollowedOnce' /\ CompletedMeansAll'
  BY <1>h DEF LockHeld, StopsRightly, ClaimsHold, Pending, FollowedOnce, Marks,
     CompletedMeansAll
<1>3. NotStarted'
  BY DEF NotStarted
<1>4. ChainAlive'
  BY DEF ChainAlive, Driving, Queued, Locked, LockHeld, StopsRightly,
     NotStarted, Attempts
<1>5. QED
  BY <1>r, <1>1, <1>2, <1>3, <1>4

(* The process dies with everything in its memory. *)
LEMMA CrashMonolithInv ==
    ASSUME IInv, CrashMonolith
    PROVE  IInv'
<1> USE DEF IInv, Types, CrashMonolith, Fault, NoToken, rows, handler, counters
<1>h. AllHandled => AllHandled'
  BY DEF AllHandled, Handles, Pending, RowsHeld, ClaimsHold, NotStarted
<1>r. RowsHeld'
  BY DEF RowsHeld, ClaimsHold, NotStarted, RowLocked, Pending
<1>1. Types'
  BY DEF Places, Locked, Attempts
<1>2. CompletedMeansAll'
  BY <1>h DEF CompletedMeansAll, ClaimsHold
<1>3. NotStarted'
  BY DEF NotStarted
<1>4. LockHeld'
  BY DEF LockHeld, Locked
<1>5. StopsRightly'
  BY DEF StopsRightly, NotStarted
<1>6. ClaimsHold'
  BY <1>h DEF ClaimsHold
<1>7. FollowedOnce'
  BY DEF FollowedOnce, Marks, ClaimsHold, LockHeld, Locked, Pending
<1>8. ChainAlive'
  BY DEF ChainAlive, Driving, Queued, Locked, LockHeld, StopsRightly,
     NotStarted, Attempts
<1>9. QED
  BY <1>r, <1>1, <1>2, <1>3, <1>4, <1>5, <1>6, <1>7, <1>8

(* A copy leaves the queue: it is about to take the free lock, or there
   is another handler inside. *)
LEMMA TakeJobInv ==
    ASSUME IInv, NEW w \in Workers, TakeJob(w)
    PROVE  IInv'
<1> USE DEF IInv, Types, TakeJob, Goto, rows, handler, counters
<1>h. AllHandled => AllHandled'
  BY DEF AllHandled, Handles, Pending, RowsHeld, ClaimsHold, NotStarted
<1>r. RowsHeld'
  BY DEF RowsHeld, ClaimsHold, NotStarted, RowLocked, Pending
<1>1. Types'
  <2>1. tokens' \in [Attempts -> Nat]
    BY DEF Attempts
  <2>2. pc' \in [Workers -> Places] /\ attempt' \in [Workers -> Attempts]
    BY DEF Places, Locked, Attempts
  <2>3. QED
    BY <2>1, <2>2
<1>2. CompletedMeansAll'
  BY <1>h DEF CompletedMeansAll, ClaimsHold
<1>3. NotStarted'
  BY DEF NotStarted, NoToken, Attempts
<1>4. LockHeld'
  BY DEF LockHeld, Locked
<1>5. StopsRightly'
  BY DEF StopsRightly, NotStarted
<1>6. ClaimsHold'
  BY <1>h DEF ClaimsHold
<1>7. FollowedOnce'
  BY DEF FollowedOnce, Marks, ClaimsHold, LockHeld, Locked, Pending
<1>8. ChainAlive'
  BY DEF ChainAlive, Driving, Queued, Locked, LockHeld, StopsRightly,
     NotStarted, Attempts
<1>9. QED
  BY <1>r, <1>1, <1>2, <1>3, <1>4, <1>5, <1>6, <1>7, <1>8

(* The lock is taken, or its holder goes on with the chain. *)
LEMMA TryLockInv ==
    ASSUME IInv, NEW w \in Workers, TryLock(w)
    PROVE  IInv'
<1> USE DEF IInv, Types, TryLock, Goto, Returns, rows, handler, counters
<1>h. AllHandled => AllHandled'
  BY DEF AllHandled, Handles, Pending, RowsHeld, ClaimsHold, NotStarted
<1>r. RowsHeld'
  BY DEF RowsHeld, ClaimsHold, NotStarted, RowLocked, Pending
<1>1. Types'
  <2>1. 0 \in Attempts
    BY AttemptsAssumption DEF Attempts
  <2>2. pc' \in [Workers -> Places]
    BY DEF Places, Locked
  <2>3. attempt' \in [Workers -> Attempts]
    BY <2>1
  <2>4. QED
    BY <2>2, <2>3
<1>2. CompletedMeansAll'
  BY <1>h DEF CompletedMeansAll, ClaimsHold
<1>3. NotStarted'
  BY DEF NotStarted
<1>4. LockHeld'
  BY DEF LockHeld, Locked
<1>5. StopsRightly'
  BY DEF StopsRightly, NotStarted
<1>6. ClaimsHold'
  BY <1>h DEF ClaimsHold
<1>7. FollowedOnce'
  BY DEF FollowedOnce, Marks, ClaimsHold, LockHeld, Locked, Pending
<1>8. ChainAlive'
  BY DEF ChainAlive, Driving, Queued, Locked, LockHeld, StopsRightly,
     NotStarted, Attempts
<1>9. QED
  BY <1>r, <1>1, <1>2, <1>3, <1>4, <1>5, <1>6, <1>7, <1>8

(* The chain stops here only for a request that runs no longer. *)
LEMMA ReadRequestInv ==
    ASSUME IInv, NEW w \in Workers, ReadRequest(w)
    PROVE  IInv'
<1> USE DEF IInv, Types, ReadRequest, Goto, rows, handler, counters
<1>h. AllHandled => AllHandled'
  BY DEF AllHandled, Handles, Pending, RowsHeld, ClaimsHold, NotStarted
<1>r. RowsHeld'
  BY DEF RowsHeld, ClaimsHold, NotStarted, RowLocked, Pending
<1>1. Types'
  BY DEF Places, Locked, Attempts
<1>2. CompletedMeansAll'
  BY <1>h DEF CompletedMeansAll, ClaimsHold
<1>3. NotStarted'
  BY DEF NotStarted
<1>4. LockHeld'
  BY DEF LockHeld, Locked
<1>5. StopsRightly'
  BY DEF StopsRightly, NotStarted
<1>6. ClaimsHold'
  BY <1>h DEF ClaimsHold
<1>7. FollowedOnce'
  BY DEF FollowedOnce, Marks, ClaimsHold, LockHeld, Locked, Pending
<1>8. ChainAlive'
  BY DEF ChainAlive, Driving, Queued, Locked, LockHeld, StopsRightly,
     NotStarted, Attempts
<1>9. QED
  BY <1>r, <1>1, <1>2, <1>3, <1>4, <1>5, <1>6, <1>7, <1>8

(* The claimed item is pending, "complete" is reached without one. *)
LEMMA ClaimNextItemInv ==
    ASSUME IInv, NEW w \in Workers, ClaimNextItem(w)
    PROVE  IInv'
<1> USE DEF IInv, Types, ClaimNextItem, Goto, rows, handler, counters
<1>h. AllHandled => AllHandled'
  BY DEF AllHandled, Handles, Pending, RowsHeld, ClaimsHold, NotStarted
<1>r. RowsHeld'
  BY DEF RowsHeld, ClaimsHold, NotStarted, RowLocked, Pending
<1>1. Types'
  <2>1. /\ pc' \in [Workers -> Places]
        /\ item' \in [Workers -> Items \cup {0}]
    BY DEF Places, Locked, Pending
  <2>2. QED
    BY <2>1
<1>2. CompletedMeansAll'
  BY <1>h DEF CompletedMeansAll, ClaimsHold
<1>3. NotStarted'
  BY DEF NotStarted
<1>4. LockHeld'
  BY DEF LockHeld, Locked
<1>5. StopsRightly'
  BY DEF StopsRightly, NotStarted
<1>6. ClaimsHold'
  <2>1. CASE {i \in Pending : ~RowLocked(i)} = {}
    <3>1. ASSUME NEW i \in Pending
          PROVE  /\ \E v \in Workers : Handles(v, i)
                 /\ lockLosses # 0
      <4>1. PICK v \in Workers : pc[v] \in {"claiming", "marking"} /\ item[v] = i
        BY <2>1, <3>1 DEF RowLocked
      <4>2. QED
        BY <4>1 DEF Handles, LockHeld, Locked
    <3>2. AllHandled
      BY <3>1 DEF AllHandled
    <3>3. pc' = [pc EXCEPT ![w] = "complete"] /\ item' = item
      BY <2>1
    <3>4. QED
      BY <1>h, <3>2, <3>3 DEF ClaimsHold
  <2>2. CASE {i \in Pending : ~RowLocked(i)} # {}
    <3>1. pc' = [pc EXCEPT ![w] = "claiming"] /\ item'[w] \in Items
          /\ \A v \in Workers \ {w} : item'[v] = item[v]
      BY <2>2 DEF Pending
    <3>2. QED
      BY <1>h, <3>1 DEF ClaimsHold
  <2>3. QED
    BY <2>1, <2>2
<1>7. FollowedOnce'
  BY DEF FollowedOnce, Marks, ClaimsHold, LockHeld, Locked, Pending
<1>8. ChainAlive'
  BY DEF ChainAlive, Driving, Queued, Locked, LockHeld, StopsRightly,
     NotStarted, Attempts
<1>9. QED
  BY <1>r, <1>1, <1>2, <1>3, <1>4, <1>5, <1>6, <1>7, <1>8

(* The row was locked; nothing else changes. *)
LEMMA ClaimCommitsInv ==
    ASSUME IInv, NEW w \in Workers, ClaimCommits(w)
    PROVE  IInv'
<1> USE DEF IInv, Types, ClaimCommits, Goto, rows, handler, counters
<1>h. AllHandled => AllHandled'
  BY DEF AllHandled, Handles, Pending, RowsHeld, ClaimsHold, NotStarted
<1>r. RowsHeld'
  BY DEF RowsHeld, ClaimsHold, NotStarted, RowLocked, Pending
<1>1. Types'
  BY DEF Places, Locked, Attempts
<1>2. CompletedMeansAll'
  BY <1>h DEF CompletedMeansAll, ClaimsHold
<1>3. NotStarted'
  BY DEF NotStarted
<1>4. LockHeld'
  BY DEF LockHeld, Locked
<1>5. StopsRightly'
  BY DEF StopsRightly, NotStarted
<1>6. ClaimsHold'
  BY <1>h DEF ClaimsHold
<1>7. FollowedOnce'
  BY DEF FollowedOnce, Marks, ClaimsHold, LockHeld, Locked, Pending
<1>8. ChainAlive'
  BY DEF ChainAlive, Driving, Queued, Locked, LockHeld, StopsRightly,
     NotStarted, Attempts
<1>9. QED
  BY <1>r, <1>1, <1>2, <1>3, <1>4, <1>5, <1>6, <1>7, <1>8

(* No item is pending when the request is completed, or others handle them. *)
LEMMA MarkCompletedInv ==
    ASSUME IInv, NEW w \in Workers, MarkCompleted(w)
    PROVE  IInv'
<1> USE DEF IInv, Types, MarkCompleted, Goto, rows, handler, counters
<1>h. AllHandled => AllHandled'
  BY DEF AllHandled, Handles, Pending, RowsHeld, ClaimsHold, NotStarted
<1>r. RowsHeld'
  BY DEF RowsHeld, ClaimsHold, NotStarted, RowLocked, Pending
<1>1. Types'
  BY DEF Places, Locked, Attempts
<1>2. NotStarted'
  BY DEF NotStarted
<1>3. LockHeld'
  BY DEF LockHeld, Locked
<1>4. StopsRightly'
  BY DEF StopsRightly, NotStarted
<1>5. ClaimsHold'
  BY <1>h DEF ClaimsHold
<1>6. FollowedOnce'
  BY DEF FollowedOnce, Marks, ClaimsHold, LockHeld, Locked, Pending
<1>7. ChainAlive'
  BY DEF ChainAlive, Driving, Queued, Locked, LockHeld, StopsRightly,
     NotStarted, Attempts
<1>8. CompletedMeansAll'
  BY <1>h DEF CompletedMeansAll, ClaimsHold
<1>9. QED
  BY <1>r, <1>1, <1>2, <1>3, <1>4, <1>5, <1>6, <1>7, <1>8

(* An exceeded limit lets go of the item and comes back. *)
LEMMA CheckRateLimitInv ==
    ASSUME IInv, NEW w \in Workers, CheckRateLimit(w)
    PROVE  IInv'
<1> USE DEF IInv, Types, CheckRateLimit, Goto, rows, handler, counters
<1>h. AllHandled => AllHandled'
  BY DEF AllHandled, Handles, Pending, RowsHeld, ClaimsHold, NotStarted
<1>r. RowsHeld'
  BY DEF RowsHeld, ClaimsHold, NotStarted, RowLocked, Pending
<1>1. Types'
  <2>1. /\ pc' \in [Workers -> Places]
        /\ item' \in [Workers -> Items \cup {0}]
        /\ next' \in [Workers -> {"stop", "continue", "retryAfter", "err"}]
    BY DEF Places, Locked
  <2>2. limited' \in Nat
    OBVIOUS
  <2>3. QED
    BY <2>1, <2>2
<1>2. CompletedMeansAll'
  BY <1>h DEF CompletedMeansAll, ClaimsHold
<1>3. NotStarted'
  BY DEF NotStarted
<1>4. LockHeld'
  BY DEF LockHeld, Locked
<1>5. StopsRightly'
  BY DEF StopsRightly, NotStarted
<1>6. ClaimsHold'
  BY <1>h DEF ClaimsHold
<1>7. FollowedOnce'
  BY DEF FollowedOnce, Marks, ClaimsHold, LockHeld, Locked, Pending
<1>8. ChainAlive'
  BY DEF ChainAlive, Driving, Queued, Locked, LockHeld, StopsRightly,
     NotStarted, Attempts
<1>9. QED
  BY <1>r, <1>1, <1>2, <1>3, <1>4, <1>5, <1>6, <1>7, <1>8

(* Nobody has followed the claimed item before, and only its handler
   marks it. *)
LEMMA ExecuteFollowInv ==
    ASSUME IInv, NEW w \in Workers, ExecuteFollow(w)
    PROVE  IInv'
<1> USE DEF IInv, Types, ExecuteFollow, Goto, rows, handler, counters
<1>h. AllHandled => AllHandled'
  BY DEF AllHandled, Handles, Pending, RowsHeld, ClaimsHold, NotStarted
<1>r. RowsHeld'
  BY DEF RowsHeld, ClaimsHold, NotStarted, RowLocked, Pending
<1>1. Types'
  <2>1. item[w] \in Items
    BY DEF ClaimsHold
  <2>2. executed' \in [Items -> Nat]
    BY <2>1
  <2>3. QED
    BY <2>2 DEF Places, Locked
<1>2. CompletedMeansAll'
  BY <1>h DEF CompletedMeansAll, ClaimsHold
<1>3. NotStarted'
  BY DEF NotStarted
<1>4. LockHeld'
  BY DEF LockHeld, Locked
<1>5. StopsRightly'
  BY DEF StopsRightly, NotStarted
<1>6. ClaimsHold'
  BY <1>h DEF ClaimsHold
<1>7. FollowedOnce'
  BY DEF FollowedOnce, Marks, ClaimsHold, LockHeld, Locked, Pending
<1>8. ChainAlive'
  BY DEF ChainAlive, Driving, Queued, Locked, LockHeld, StopsRightly,
     NotStarted, Attempts
<1>9. QED
  BY <1>r, <1>1, <1>2, <1>3, <1>4, <1>5, <1>6, <1>7, <1>8

(* The item is no longer pending. *)
LEMMA MarkItemResultInv ==
    ASSUME IInv, NEW w \in Workers, MarkItemResult(w)
    PROVE  IInv'
<1> USE DEF IInv, Types, MarkItemResult, Marked, Goto, rows, handler, counters
<1>h. AllHandled => AllHandled'
  BY DEF AllHandled, Handles, Pending, RowsHeld, ClaimsHold, NotStarted
<1>r. RowsHeld'
  BY DEF RowsHeld, ClaimsHold, NotStarted, RowLocked, Pending
<1>1. Types'
  <2>1. tokens' \in [Attempts -> Nat]
    BY DEF Attempts
  <2>2. pc' \in [Workers -> Places] /\ attempt' \in [Workers -> Attempts]
    BY DEF Places, Locked, Attempts
  <2>3. items' \in [Items -> {"pending", "succeeded", "failed"}]
    BY DEF ClaimsHold
  <2>4. QED
    BY <2>1, <2>2, <2>3
<1>2. NotStarted'
  BY DEF NotStarted
<1>3. LockHeld'
  BY DEF LockHeld, Locked
<1>4. StopsRightly'
  BY DEF StopsRightly, NotStarted
<1>5. ClaimsHold'
  BY <1>h DEF ClaimsHold
<1>6. FollowedOnce'
  BY DEF FollowedOnce, Marks, ClaimsHold, LockHeld, Locked, Pending
<1>7. ChainAlive'
  BY DEF ChainAlive, Driving, Queued, Locked, LockHeld, StopsRightly,
     NotStarted, Attempts
<1>8. CompletedMeansAll'
  BY <1>h DEF CompletedMeansAll, ClaimsHold
<1>9. QED
  BY <1>r, <1>1, <1>2, <1>3, <1>4, <1>5, <1>6, <1>7, <1>8

LEMMA MarkCommitsInv ==
    ASSUME IInv, NEW w \in Workers, MarkCommits(w)
    PROVE  IInv'
<1> USE DEF IInv, Types, MarkCommits, Marked, Goto, rows, handler, counters
<1>h. AllHandled => AllHandled'
  BY DEF AllHandled, Handles, Pending, RowsHeld, ClaimsHold, NotStarted
<1>r. RowsHeld'
  BY DEF RowsHeld, ClaimsHold, NotStarted, RowLocked, Pending
<1>1. Types'
  <2>1. tokens' \in [Attempts -> Nat]
    BY DEF Attempts
  <2>2. pc' \in [Workers -> Places] /\ attempt' \in [Workers -> Attempts]
    BY DEF Places, Locked, Attempts
  <2>3. items' \in [Items -> {"pending", "succeeded", "failed"}]
    BY DEF ClaimsHold
  <2>4. QED
    BY <2>1, <2>2, <2>3
<1>2. NotStarted'
  BY DEF NotStarted
<1>3. LockHeld'
  BY DEF LockHeld, Locked
<1>4. StopsRightly'
  BY DEF StopsRightly, NotStarted
<1>5. ClaimsHold'
  BY <1>h DEF ClaimsHold
<1>6. FollowedOnce'
  BY DEF FollowedOnce, Marks, ClaimsHold, LockHeld, Locked, Pending
<1>7. ChainAlive'
  BY DEF ChainAlive, Driving, Queued, Locked, LockHeld, StopsRightly,
     NotStarted, Attempts
<1>8. CompletedMeansAll'
  BY <1>h DEF CompletedMeansAll, ClaimsHold
<1>9. QED
  BY <1>r, <1>1, <1>2, <1>3, <1>4, <1>5, <1>6, <1>7, <1>8

(* The handler still owes the next link when it leaves the lock. *)
LEMMA ReleaseInv ==
    ASSUME IInv, NEW w \in Workers, Release(w)
    PROVE  IInv'
<1> USE DEF IInv, Types, Release, Goto, rows, handler, counters
<1>h. AllHandled => AllHandled'
  BY DEF AllHandled, Handles, Pending, RowsHeld, ClaimsHold, NotStarted
<1>r. RowsHeld'
  BY DEF RowsHeld, ClaimsHold, NotStarted, RowLocked, Pending
<1>1. Types'
  BY DEF Places, Locked, Attempts
<1>2. CompletedMeansAll'
  BY <1>h DEF CompletedMeansAll, ClaimsHold
<1>3. NotStarted'
  BY DEF NotStarted
<1>4. LockHeld'
  BY DEF LockHeld, Locked
<1>5. StopsRightly'
  BY DEF StopsRightly, NotStarted
<1>6. ClaimsHold'
  BY <1>h DEF ClaimsHold
<1>7. FollowedOnce'
  BY DEF FollowedOnce, Marks, ClaimsHold, LockHeld, Locked, Pending
<1>8. ChainAlive'
  BY DEF ChainAlive, Driving, Queued, Locked, LockHeld, StopsRightly,
     NotStarted, Attempts
<1>9. QED
  BY <1>r, <1>1, <1>2, <1>3, <1>4, <1>5, <1>6, <1>7, <1>8

(* The next link is queued, unless the request runs no longer. *)
LEMMA AfterReleaseInv ==
    ASSUME IInv, NEW w \in Workers, AfterRelease(w)
    PROVE  IInv'
<1> USE DEF IInv, Types, AfterRelease, Push, Goto, Returns, rows, handler, counters
<1>h. AllHandled => AllHandled'
  BY DEF AllHandled, Handles, Pending, RowsHeld, ClaimsHold, NotStarted
<1>r. RowsHeld'
  BY DEF RowsHeld, ClaimsHold, NotStarted, RowLocked, Pending
<1>1. Types'
  <2>1. /\ 0 \in Attempts
        /\ attempt[w] + 1 < MaxAttempts => attempt[w] + 1 \in Attempts
    BY DEF Attempts
  <2>2. tokens' = tokens \/ \E a \in Attempts : tokens' = [tokens EXCEPT ![a] = @ + 1]
    BY <2>1
  <2>3. tokens' \in [Attempts -> Nat]
    BY <2>2
  <2>4. pc' \in [Workers -> Places] /\ attempt' \in [Workers -> Attempts]
    BY <2>1 DEF Places
  <2>5. next' \in [Workers -> {"stop", "continue", "retryAfter", "err"}]
    OBVIOUS
  <2>6. QED
    BY <2>3, <2>4, <2>5
<1>2. CompletedMeansAll'
  BY <1>h DEF CompletedMeansAll, ClaimsHold
<1>3. NotStarted'
  BY DEF NotStarted
<1>4. LockHeld'
  BY DEF LockHeld, Locked
<1>5. StopsRightly'
  BY DEF StopsRightly, NotStarted
<1>6. ClaimsHold'
  BY <1>h DEF ClaimsHold
<1>7. FollowedOnce'
  BY DEF FollowedOnce, Marks, ClaimsHold, LockHeld, Locked, Pending
<1>8. ChainAlive'
  <2>1. CASE next[w] \in {"continue", "retryAfter"}
    <3>1. tokens' = [tokens EXCEPT ![0] = @ + 1]
      BY <2>1
    <3>2. 0 \in Attempts
      BY DEF Attempts
    <3>3. tokens'[0] > 0
      BY <3>1, <3>2
    <3>4. QED
      BY <3>2, <3>3 DEF ChainAlive, Queued
  <2>2. CASE next[w] = "stop"
    BY <2>2 DEF ChainAlive, StopsRightly
  <2>3. CASE next[w] = "err"
    BY <2>3 DEF ChainAlive, StopsRightly
  <2>4. QED
    BY <2>1, <2>2, <2>3
<1>9. QED
  BY <1>r, <1>1, <1>2, <1>3, <1>4, <1>5, <1>6, <1>7, <1>8

LEMMA DbErrorInv ==
    ASSUME IInv, NEW w \in Workers, DbError(w)
    PROVE  IInv'
<1> USE DEF IInv, Types, DbError, Fault, Goto, rows, handler, counters
<1>h. AllHandled => AllHandled'
  BY DEF AllHandled, Handles, Pending, RowsHeld, ClaimsHold, NotStarted
<1>r. RowsHeld'
  BY DEF RowsHeld, ClaimsHold, NotStarted, RowLocked, Pending
<1>1. Types'
  BY DEF Places, Locked, Attempts
<1>2. CompletedMeansAll'
  BY <1>h DEF CompletedMeansAll, ClaimsHold
<1>3. NotStarted'
  BY DEF NotStarted, Locked
<1>4. LockHeld'
  BY DEF LockHeld, Locked
<1>5. StopsRightly'
  BY DEF StopsRightly, NotStarted
<1>6. ClaimsHold'
  BY <1>h DEF ClaimsHold
<1>7. FollowedOnce'
  BY DEF FollowedOnce, Marks, ClaimsHold, LockHeld, Locked, Pending
<1>8. ChainAlive'
  BY DEF ChainAlive, Driving, Queued, Locked, LockHeld, StopsRightly,
     NotStarted, Attempts
<1>9. QED
  BY <1>r, <1>1, <1>2, <1>3, <1>4, <1>5, <1>6, <1>7, <1>8

LEMMA LockErrorInv ==
    ASSUME IInv, NEW w \in Workers, LockError(w)
    PROVE  IInv'
<1> USE DEF IInv, Types, LockError, Fault, Goto, rows, handler, counters
<1>h. AllHandled => AllHandled'
  BY DEF AllHandled, Handles, Pending, RowsHeld, ClaimsHold, NotStarted
<1>r. RowsHeld'
  BY DEF RowsHeld, ClaimsHold, NotStarted, RowLocked, Pending
<1>1. Types'
  BY DEF Places, Locked, Attempts
<1>2. CompletedMeansAll'
  BY <1>h DEF CompletedMeansAll, ClaimsHold
<1>3. NotStarted'
  BY DEF NotStarted
<1>4. LockHeld'
  BY DEF LockHeld, Locked
<1>5. StopsRightly'
  BY DEF StopsRightly, NotStarted
<1>6. ClaimsHold'
  BY <1>h DEF ClaimsHold
<1>7. FollowedOnce'
  BY DEF FollowedOnce, Marks, ClaimsHold, LockHeld, Locked, Pending
<1>8. ChainAlive'
  BY DEF ChainAlive, Driving, Queued, Locked, LockHeld, StopsRightly,
     NotStarted, Attempts
<1>9. QED
  BY <1>r, <1>1, <1>2, <1>3, <1>4, <1>5, <1>6, <1>7, <1>8

LEMMA EnqueueErrorInv ==
    ASSUME IInv, NEW w \in Workers, EnqueueError(w)
    PROVE  IInv'
<1> USE DEF IInv, Types, EnqueueError, Fault, rows, handler, counters
<1>h. AllHandled => AllHandled'
  BY HandledKept
<1>r. RowsHeld'
  BY RowsKept
<1>1. Types'
  BY DEF Places, Locked, Attempts
<1>2. NotStarted' /\ LockHeld' /\ ClaimsHold' /\ CompletedMeansAll'
  BY <1>h DEF NotStarted, LockHeld, ClaimsHold, Pending, CompletedMeansAll
<1>3. StopsRightly'
  BY DEF StopsRightly, NotStarted
<1>4. FollowedOnce'
  BY DEF FollowedOnce, Marks, ClaimsHold, LockHeld, Locked, Pending
<1>5. ChainAlive'
  BY DEF ChainAlive, Driving, Queued, Locked, LockHeld, StopsRightly,
     NotStarted, Attempts
<1>6. QED
  BY <1>r, <1>1, <1>2, <1>3, <1>4, <1>5

(* The handler goes on without its lock. *)
LEMMA LoseLockInv ==
    ASSUME IInv, NEW w \in Workers, LoseLock(w)
    PROVE  IInv'
<1> USE DEF IInv, Types, LoseLock, rows, handler, counters
<1>h. AllHandled => AllHandled'
  BY HandledKept
<1>r. RowsHeld'
  BY RowsKept
<1>1. Types'
  BY DEF Places, Locked, Attempts
<1>2. NotStarted' /\ StopsRightly' /\ ClaimsHold' /\ CompletedMeansAll'
  BY <1>h DEF NotStarted, StopsRightly, ClaimsHold, Pending, CompletedMeansAll
<1>3. LockHeld'
  BY DEF LockHeld, Locked
<1>4. FollowedOnce'
  BY DEF FollowedOnce, Marks, ClaimsHold, LockHeld, Locked, Pending
<1>5. ChainAlive'
  BY DEF ChainAlive, Driving, Queued, Locked, LockHeld, StopsRightly,
     NotStarted, Attempts
<1>6. QED
  BY <1>r, <1>1, <1>2, <1>3, <1>4, <1>5

LEMMA CrashWorkerInv ==
    ASSUME IInv, NEW w \in Workers, CrashWorker(w)
    PROVE  IInv'
<1> USE DEF IInv, Types, CrashWorker, Fault, Goto, Returns, rows, handler, counters
<1>h. AllHandled => AllHandled'
  BY DEF AllHandled, Handles, Pending, RowsHeld, ClaimsHold, NotStarted
<1>r. RowsHeld'
  BY DEF RowsHeld, ClaimsHold, NotStarted, RowLocked, Pending
<1>1. Types'
  BY DEF Places, Locked, Attempts
<1>2. CompletedMeansAll'
  BY <1>h DEF CompletedMeansAll, ClaimsHold
<1>3. NotStarted'
  BY DEF NotStarted
<1>4. LockHeld'
  BY DEF LockHeld, Locked
<1>5. StopsRightly'
  BY DEF StopsRightly, NotStarted
<1>6. ClaimsHold'
  BY <1>h DEF ClaimsHold
<1>7. FollowedOnce'
  BY DEF FollowedOnce, Marks, ClaimsHold, LockHeld, Locked, Pending
<1>8. ChainAlive'
  BY DEF ChainAlive, Driving, Queued, Locked, LockHeld, StopsRightly,
     NotStarted, Attempts
<1>9. QED
  BY <1>r, <1>1, <1>2, <1>3, <1>4, <1>5, <1>6, <1>7, <1>8

-----------------------------------------------------------------------------
LEMMA InitIInv == Init => IInv
  BY DEF Init, IInv, Types, Places, Locked, Attempts, NoToken, NotStarted, LockHeld,
         StopsRightly, ClaimsHold, RowsHeld, Pending, FollowedOnce, Marks, ChainAlive,
         CompletedMeansAll

(* Every step keeps the invariant.                                         *)
LEMMA NextIInv == IInv /\ [Next]_vars => IInv'
<1> SUFFICES ASSUME IInv, [Next]_vars PROVE IInv'
  OBVIOUS
<1>1. CASE StartImport \/ StartEnqueue \/ StartEnqueueFails \/ Cancel \/ Recover
  BY <1>1, StartImportInv, StartEnqueueInv, StartEnqueueFailsInv, CancelInv, RecoverInv
<1>2. CASE CrashMonolith
  BY <1>2, CrashMonolithInv
<1>3. ASSUME NEW w \in Workers, HandlerStep(w)
      PROVE  IInv'
  BY <1>3, TakeJobInv, TryLockInv, ReadRequestInv, ClaimNextItemInv, MarkCompletedInv,
     CheckRateLimitInv, ExecuteFollowInv, MarkItemResultInv, ClaimCommitsInv, MarkCommitsInv, ReleaseInv,
     AfterReleaseInv DEF HandlerStep
<1>4. ASSUME NEW w \in Workers, FaultStep(w)
      PROVE  IInv'
  BY <1>4, DbErrorInv, LockErrorInv, EnqueueErrorInv, LoseLockInv, CrashWorkerInv
     DEF FaultStep
<1>5. CASE UNCHANGED vars
  BY <1>5 DEF IInv, Types, NotStarted, LockHeld, StopsRightly, ClaimsHold, RowsHeld, AllHandled, Handles, Pending,
     FollowedOnce, Marks, ChainAlive, Driving, Queued, CompletedMeansAll, vars, rows,
     handler, counters
<1>6. QED
  BY <1>1, <1>2, <1>3, <1>4, <1>5 DEF Next

(* The invariant holds of every reachable state.                           *)
THEOREM ImportInvariant == Spec => []IInv
  BY InitIInv, NextIInv, PTL DEF Spec

(* follow_import.rs: while nothing fails the chain of a running import is  *)
(* never broken; one handler at most is inside process_locked; nobody is   *)
(* followed twice; a completed import has a result for every item.         *)
THEOREM ImportIsSafe == Spec => []ImportSafe
<1>1. IInv => ImportSafe
  BY DEF IInv, Types, ImportSafe, OneProcessor, LockHeld, ExecutedOnce, FollowedOnce
<1>2. QED
  BY <1>1, ImportInvariant, PTL

(* mark_item_result, cancel, mark_completed: a recorded result is never    *)
(* overwritten and a request that has ended stays ended, whatever fails.   *)
THEOREM ImportResultsFinal == Spec => ResultsFinal
<1> DEFINE Final == /\ \A i \in Items : items[i] # "pending" => items'[i] = items[i]
                    /\ status \in {"completed", "cancelled"} => status' = status
<1>1. IInv /\ [Next]_vars => [Final]_vars
  <2> SUFFICES ASSUME Types, RowsHeld, Next PROVE Final
    BY DEF IInv
  <2>1. ASSUME NEW w \in Workers, HandlerStep(w)
        PROVE  Final
    BY <2>1 DEF HandlerStep, TakeJob, TryLock, ReadRequest, ClaimNextItem, MarkCompleted,
       CheckRateLimit, ExecuteFollow, MarkItemResult, Marked, MarkCommits, ClaimCommits, Release, AfterRelease,
       rows, Types, RowsHeld
  <2>2. ASSUME NEW w \in Workers, FaultStep(w)
        PROVE  Final
    BY <2>2 DEF FaultStep, DbError, LockError, EnqueueError, LoseLock, CrashWorker, rows
  <2>3. QED
    BY <2>1, <2>2 DEF Next, StartImport, StartEnqueue, StartEnqueueFails, Cancel, Recover,
       CrashMonolith, rows
<1>2. QED
  BY <1>1, ImportInvariant, PTL DEF Spec, ResultsFinal

-----------------------------------------------------------------------------
(* Direct messages.  What the database and the chat service hold, what each *)
(* call, job and poll leaves of it, and the invariant: the cursor of a       *)
(* conversation has every message of the peer's page behind it.             *)
USE LocalAssumption, PageSizeAssumption, NullAssumption

TablesOk(d, ch, n) ==
    /\ n \in Nat
    /\ DbOk(d, n)
    /\ ChatOk(ch, n)
    /\ CursorsOk(d, ch)
    /\ SnowflakesOk(d, ch)

CallOk(c) ==
    \/ c.op = "none"
    \/ /\ DOMAIN c = {"op", "by", "on", "to", "content", "pc", "latest"}
       /\ RequestOk(c)
       /\ c.pc = "send" => c.op = "send"
       /\ c.pc = "mark" => c.latest \in Nat
CallsOk ==
    /\ \A r \in todo : RequestOk(r)
    /\ \A e \in events : e.convo \in Actors \X Actors
    /\ calls = [s \in Calls |-> calls[s]] /\ \A s \in Calls : CallOk(calls[s])

(* The post of a message that is being sent has no message id yet, and one  *)
(* job.                                                                     *)
JobOk(j, d) ==
    /\ DOMAIN j = {"kind", "post", "by", "content", "pc", "convo", "msg", "attempts"}
    /\ j.kind \in {"send", "add", "remove", "hide"}
    /\ j.by \in Local
    /\ j.pc \in {"save", "setid"} => j.kind = "send"
    /\ j.kind = "send" =>
          /\ j.post \in DOMAIN d.posts /\ d.posts[j.post].msg = None
          /\ j.pc \in {"save", "post"} => j.convo \in Actors \X Actors
JobsOk(js, d) ==
    /\ \A j \in js : JobOk(j, d)
    /\ \A j, k \in js : j.kind = "send" /\ k.kind = "send" /\ j.post = k.post => j = k

(* The poller: what it has fetched are the messages up to some newest one,  *)
(* newest first; what is older is covered or not of the page.               *)
Down(hi, lo) == [k \in 1..(hi - lo) |-> hi + 1 - k]
PollFetches(p, d, ch) ==
    /\ p.last = None \/ \E c \in DOMAIN ch : \E k \in 1..Len(ch[c]) : p.last = <<c, k>> /\ Covered(d, ch, c, k)
    /\ p.pages \in Nat
    /\ p.pages = 0 => p.news = <<>>
    /\ p.pages # 0 => /\ p.last = None
                      /\ \E hi \in 1..Len(ch[p.convo]) : p.upto \in 1..(hi - PageSize) /\ p.news = Down(hi, p.upto)
PollImports(p, d, ch) ==
    \E hi \in 0..Len(ch[p.convo]) : \E lo \in 0..hi : p.news = Down(hi, lo) /\ Covered(d, ch, p.convo, lo)
PollOk(p, d, ch) ==
    /\ DOMAIN p = {"pc", "left", "convo", "root", "last", "upto", "pages", "news", "fetched"}
    /\ p.pc \in {"idle", "convo", "fetch", "sync", "import"}
    /\ p.left \subseteq DOMAIN ch
    /\ p.pc \in {"fetch", "sync", "import"} => p.convo \in DOMAIN ch
    /\ p.pc = "fetch" => PollFetches(p, d, ch)
    /\ p.pc \in {"sync", "import"} => PollImports(p, d, ch)

DmInv ==
    /\ TablesOk(db, chat, clock)
    /\ CallsOk
    /\ JobsOk(jobs, db)
    /\ PollOk(poll, db, chat)
    /\ seen = db.read

-----------------------------------------------------------------------------
(* What steps keep. *)

Grown(ch, h) ==
    \A c \in DOMAIN ch :
        /\ c \in DOMAIN h
        /\ Len(ch[c]) \in Nat /\ Len(h[c]) \in Nat /\ Len(ch[c]) =< Len(h[c])
        /\ \A i \in 1..Len(ch[c]) : h[c][i].from = ch[c][i].from /\ h[c][i].at = ch[c][i].at
Kept(d, e) ==
    \A p \in DOMAIN d.posts :
        p \in DOMAIN e.posts /\ (d.posts[p].msg # None => e.posts[p].msg = d.posts[p].msg)
KeptNull(d, e) == \A p \in DOMAIN d.posts : d.posts[p].msg = None => e.posts[p].msg = None

LEMMA GrownSame ==
    ASSUME NEW ch, NEW n, ChatOk(ch, n)
    PROVE  Grown(ch, ch)
BY DEF ChatOk, Grown

LEMMA CoveredKept ==
    ASSUME NEW d, NEW e, NEW ch, NEW h, NEW n, ChatOk(ch, n), Grown(ch, h), Kept(d, e), NEW c, NEW k, Covered(d, ch, c, k)
    PROVE  Covered(e, h, c, k)
<1>1. c \in DOMAIN ch /\ c \in Actors \X Actors /\ c \in DOMAIN h
  BY DEF Covered, ChatOk, Grown
<1>2. Len(ch[c]) \in Nat /\ Len(h[c]) \in Nat /\ Len(ch[c]) =< Len(h[c]) /\ k \in 0..Len(ch[c])
  BY <1>1 DEF Grown, Covered
<1>3. ASSUME NEW i \in 1..k, h[c][i].from # c[1], Len(h[c]) - i < PageSize
      PROVE  Imported(e, c, i)
  <2>1. i \in 1..Len(ch[c]) /\ i \in Nat
    BY <1>2
  <2>2. ch[c][i].from # c[1]
    BY <1>1, <1>3, <2>1 DEF Grown
  <2>3. Len(ch[c]) - i < PageSize
    BY <1>2, <1>3, <2>1
  <2>4. PICK p \in DOMAIN d.posts : d.posts[p].msg = <<c, i>>
    BY <1>3, <2>2, <2>3 DEF Covered, Imported
  <2>5. <<c, i>> # None
    BY <1>1, <2>1
  <2> QED
    BY <2>4, <2>5 DEF Kept, Imported
<1> QED
  BY <1>1, <1>2, <1>3 DEF Covered

LEMMA CursorsKept ==
    ASSUME NEW d, NEW e, NEW ch, NEW h, NEW n, ChatOk(ch, n), Grown(ch, h), Kept(d, e), CursorsOk(d, ch),
           \A r \in DOMAIN e.links :
              \/ e.links[r].last = None
              \/ r \in DOMAIN d.links /\ e.links[r].last = d.links[r].last
    PROVE  CursorsOk(e, h)
<1> SUFFICES ASSUME NEW r \in DOMAIN e.links, e.links[r].last # None
             PROVE  \E c \in DOMAIN h : \E k \in 1..Len(h[c]) : e.links[r].last = <<c, k>> /\ Covered(e, h, c, k)
  BY DEF CursorsOk
<1>1. r \in DOMAIN d.links /\ e.links[r].last = d.links[r].last
  OBVIOUS
<1>2. PICK c \in DOMAIN ch : \E k \in 1..Len(ch[c]) : d.links[r].last = <<c, k>> /\ Covered(d, ch, c, k)
  BY <1>1 DEF CursorsOk
<1>3. PICK k \in 1..Len(ch[c]) : d.links[r].last = <<c, k>> /\ Covered(d, ch, c, k)
  BY <1>2
<1>4. Covered(e, h, c, k)
  BY <1>3, CoveredKept
<1>5. c \in DOMAIN h /\ k \in 1..Len(h[c])
  BY <1>2, <1>3 DEF Grown
<1> QED
  BY <1>1, <1>3, <1>4, <1>5

LEMMA PollKept ==
    ASSUME NEW d, NEW e, NEW ch, NEW h, NEW n, ChatOk(ch, n), Grown(ch, h), Kept(d, e), NEW p, PollOk(p, d, ch)
    PROVE  PollOk(p, e, h)
<1>1. p.left \subseteq DOMAIN h /\ (p.pc \in {"fetch", "sync", "import"} => p.convo \in DOMAIN h)
  BY DEF PollOk, Grown
<1>2. CASE p.pc = "fetch"
  <2>1. p.convo \in DOMAIN ch /\ PollFetches(p, d, ch)
    BY <1>2 DEF PollOk
  <2>2. Len(ch[p.convo]) \in Nat /\ Len(h[p.convo]) \in Nat /\ Len(ch[p.convo]) =< Len(h[p.convo])
    BY <2>1 DEF Grown
  <2>3. ASSUME p.pages # 0
        PROVE  \E hi \in 1..Len(h[p.convo]) : p.upto \in 1..(hi - PageSize) /\ p.news = Down(hi, p.upto)
    <3>1. PICK hi \in 1..Len(ch[p.convo]) : p.upto \in 1..(hi - PageSize) /\ p.news = Down(hi, p.upto)
      BY <2>1, <2>3 DEF PollFetches
    <3>2. hi \in 1..Len(h[p.convo])
      BY <2>2
    <3> QED
      BY <3>1, <3>2
  <2>4. ASSUME p.last # None
        PROVE  \E c \in DOMAIN h : \E k \in 1..Len(h[c]) : p.last = <<c, k>> /\ Covered(e, h, c, k)
    <3>1. PICK c \in DOMAIN ch : \E k \in 1..Len(ch[c]) : p.last = <<c, k>> /\ Covered(d, ch, c, k)
      BY <2>1, <2>4 DEF PollFetches
    <3>2. PICK k \in 1..Len(ch[c]) : p.last = <<c, k>> /\ Covered(d, ch, c, k)
      BY <3>1
    <3>3. Covered(e, h, c, k)
      BY <3>2, CoveredKept
    <3>4. c \in DOMAIN h /\ k \in 1..Len(h[c])
      BY <3>1, <3>2 DEF Grown
    <3> QED
      BY <3>2, <3>3, <3>4
  <2>5. PollFetches(p, e, h)
    BY <2>1, <2>3, <2>4 DEF PollFetches
  <2> QED
    BY <1>1, <1>2, <2>5 DEF PollOk
<1>3. CASE p.pc \in {"sync", "import"}
  <2>1. p.convo \in DOMAIN ch /\ PollImports(p, d, ch)
    BY <1>3 DEF PollOk
  <2>2. PICK hi \in 0..Len(ch[p.convo]) : \E lo \in 0..hi : p.news = Down(hi, lo) /\ Covered(d, ch, p.convo, lo)
    BY <2>1 DEF PollImports
  <2>3. PICK lo \in 0..hi : p.news = Down(hi, lo) /\ Covered(d, ch, p.convo, lo)
    BY <2>2
  <2>4. Covered(e, h, p.convo, lo)
    BY <2>3, CoveredKept
  <2>5. hi \in 0..Len(h[p.convo])
    BY <2>1 DEF Grown
  <2>6. PollImports(p, e, h)
    BY <2>3, <2>4, <2>5 DEF PollImports
  <2> QED
    BY <1>1, <1>3, <2>6 DEF PollOk
<1>4. CASE p.pc \in {"idle", "convo"}
  BY <1>1, <1>4 DEF PollOk
<1> QED
  BY <1>2, <1>3, <1>4 DEF PollOk

LEMMA JobsKept ==
    ASSUME NEW d, NEW e, Kept(d, e), KeptNull(d, e), NEW js, JobsOk(js, d)
    PROVE  JobsOk(js, e)
BY DEF JobsOk, JobOk, Kept, KeptNull

-----------------------------------------------------------------------------
(* What steps do to the tables and to the chat service. *)

LEMMA TablesSame ==
    ASSUME NEW d, NEW e, NEW ch, NEW n, TablesOk(d, ch, n),
           DOMAIN e = DOMAIN d, e.posts = d.posts, e.links = d.links, e.read = d.read
    PROVE  TablesOk(e, ch, n) /\ Kept(d, e) /\ KeptNull(d, e)
<1>1. Kept(d, e) /\ KeptNull(d, e)
  BY DEF Kept, KeptNull
<1>2. DbOk(e, n) /\ ChatOk(ch, n) /\ SnowflakesOk(e, ch) /\ n \in Nat
  BY DEF TablesOk, DbOk, SnowflakesOk
<1>3. CursorsOk(e, ch)
  BY <1>1, <1>2, GrownSame, CursorsKept DEF TablesOk
<1> QED
  BY <1>1, <1>2, <1>3 DEF TablesOk

(* Reactions and deletions in the chat service.                             *)
Edited(ch, h) ==
    /\ DOMAIN h = DOMAIN ch
    /\ \A c \in DOMAIN ch :
          /\ Len(h[c]) = Len(ch[c]) /\ h[c] = [i \in 1..Len(ch[c]) |-> h[c][i]]
          /\ \A i \in 1..Len(ch[c]) : DOMAIN h[c][i] = DOMAIN ch[c][i] /\ h[c][i].from = ch[c][i].from /\ h[c][i].at = ch[c][i].at

LEMMA EditedMessage ==
    ASSUME NEW ch, NEW n, ChatOk(ch, n), NEW c, NEW i, NEW m, NEW h,
           h = [ch EXCEPT ![c] = [@ EXCEPT ![i] = m]],
           c \in DOMAIN ch /\ i \in 1..Len(ch[c]) =>
              DOMAIN m = DOMAIN ch[c][i] /\ m.from = ch[c][i].from /\ m.at = ch[c][i].at
    PROVE  Edited(ch, h)
<1>1. DOMAIN h = DOMAIN ch
  OBVIOUS
<1>2. ASSUME NEW b \in DOMAIN ch
      PROVE  /\ Len(h[b]) = Len(ch[b]) /\ h[b] = [k \in 1..Len(ch[b]) |-> h[b][k]]
             /\ \A k \in 1..Len(ch[b]) : DOMAIN h[b][k] = DOMAIN ch[b][k] /\ h[b][k].from = ch[b][k].from /\ h[b][k].at = ch[b][k].at
  <2>0. ch[b] = [k \in 1..Len(ch[b]) |-> ch[b][k]] /\ Len(ch[b]) \in Nat
    BY DEF ChatOk
  <2>1. CASE b # c
    BY <2>0, <2>1
  <2>2. CASE b = c
    <3>1. h[b] = [ch[b] EXCEPT ![i] = m]
      BY <2>2
    <3>2. PICK s : s = ch[b]
      OBVIOUS
    <3>3. PICK t : t = [s EXCEPT ![i] = m]
      OBVIOUS
    <3>4. DOMAIN s = 1..Len(ch[b])
      BY <2>0, <3>2
    <3>5. /\ DOMAIN t = 1..Len(ch[b])
          /\ t = [k \in 1..Len(ch[b]) |-> t[k]]
          /\ \A k \in 1..Len(ch[b]) : t[k] = IF k = i THEN m ELSE s[k]
      BY <3>3, <3>4
    <3>6. Len(t) = Len(ch[b])
      <4>1. t \in Seq({t[k] : k \in 1..Len(ch[b])})
        BY <2>0, <3>5
      <4> QED
        BY <2>0, <3>5, <4>1
    <3>7. h[b] = t
      BY <3>1, <3>2, <3>3
    <3>8. \A k \in 1..Len(ch[b]) : DOMAIN t[k] = DOMAIN s[k] /\ t[k].from = s[k].from /\ t[k].at = s[k].at
      BY <2>2, <3>2, <3>5
    <3> QED
      BY <3>2, <3>5, <3>6, <3>7, <3>8
  <2> QED
    BY <2>1, <2>2
<1> QED
  BY <1>1, <1>2 DEF Edited

LEMMA EditedReactions ==
    ASSUME NEW ch, NEW n, ChatOk(ch, n), NEW c, NEW i, NEW R
    PROVE  /\ Edited(ch, [ch EXCEPT ![c][i].reactions = R])
           /\ Edited(ch, [ch EXCEPT ![c][i].gone = R])
<1>1. ASSUME c \in DOMAIN ch, i \in 1..Len(ch[c])
      PROVE  DOMAIN ch[c][i] = {"from", "at", "post", "reactions", "gone"}
  BY <1>1 DEF ChatOk, MessageOk
<1>2. PICK m : m = [ch[c][i] EXCEPT !.reactions = R]
  OBVIOUS
<1>3. PICK h : h = [ch EXCEPT ![c] = [@ EXCEPT ![i] = m]]
  OBVIOUS
<1>4. Edited(ch, h)
  <2>1. c \in DOMAIN ch /\ i \in 1..Len(ch[c]) =>
           DOMAIN m = DOMAIN ch[c][i] /\ m.from = ch[c][i].from /\ m.at = ch[c][i].at
    BY <1>1, <1>2
  <2> QED
    BY <1>3, <2>1, EditedMessage
<1>5. PICK x : x = [ch[c][i] EXCEPT !.gone = R]
  OBVIOUS
<1>6. PICK g : g = [ch EXCEPT ![c] = [@ EXCEPT ![i] = x]]
  OBVIOUS
<1>7. Edited(ch, g)
  <2>1. c \in DOMAIN ch /\ i \in 1..Len(ch[c]) =>
           DOMAIN x = DOMAIN ch[c][i] /\ x.from = ch[c][i].from /\ x.at = ch[c][i].at
    BY <1>1, <1>5
  <2> QED
    BY <1>6, <2>1, EditedMessage
<1> QED
  BY <1>2, <1>3, <1>4, <1>5, <1>6, <1>7

LEMMA TablesEdited ==
    ASSUME NEW d, NEW ch, NEW n, TablesOk(d, ch, n), NEW h, Edited(ch, h)
    PROVE  TablesOk(d, h, n) /\ Grown(ch, h)
<1>1. ChatOk(ch, n) /\ n \in Nat /\ DbOk(d, n) /\ CursorsOk(d, ch) /\ SnowflakesOk(d, ch)
  BY DEF TablesOk
<1>2. ASSUME NEW c \in DOMAIN ch
      PROVE  Len(ch[c]) \in Nat /\ Len(h[c]) = Len(ch[c]) /\ h[c] = [i \in 1..Len(ch[c]) |-> h[c][i]]
  BY <1>1 DEF ChatOk, Edited
<1>3. Grown(ch, h)
  BY <1>2 DEF Edited, Grown
<1>4. ChatOk(h, n)
  BY <1>1, <1>2 DEF Edited, ChatOk, MessageOk
<1>5. SnowflakesOk(d, h)
  BY <1>1, <1>2 DEF Edited, SnowflakesOk
<1>6. Kept(d, d)
  BY DEF Kept
<1>7. CursorsOk(d, h)
  BY <1>1, <1>3, <1>6, CursorsKept
<1> QED
  BY <1>1, <1>3, <1>4, <1>5, <1>7 DEF TablesOk

(* A message written in the chat service.                                   *)
LEMMA TablesWritten ==
    ASSUME NEW d, NEW ch, NEW n, TablesOk(d, ch, n), NEW c \in Actors \X Actors, NEW s, NEW m, MessageOk(m), m.at = n + 1,
           s = IF c \in DOMAIN ch THEN ch[c] ELSE <<>>
    PROVE  TablesOk(d, Put(ch, c, Append(s, m)), n + 1) /\ Grown(ch, Put(ch, c, Append(s, m)))
<1>1. ChatOk(ch, n) /\ n \in Nat /\ DbOk(d, n) /\ CursorsOk(d, ch) /\ SnowflakesOk(d, ch)
  BY DEF TablesOk
<1> DEFINE S == {s[i] : i \in 1..Len(s)} \cup {m}
<1>3. s \in Seq(S) /\ m \in S
  <2>1. ASSUME c \in DOMAIN ch PROVE s \in Seq(S)
    <3>1. s = ch[c]
      BY <2>1
    <3>2. s = [i \in 1..Len(s) |-> s[i]] /\ Len(s) \in Nat
      BY <1>1, <2>1, <3>1 DEF ChatOk
    <3>3. \A i \in 1..Len(s) : s[i] \in S
      OBVIOUS
    <3>4. s \in [1..Len(s) -> S]
      <4> HIDE DEF S
      <4> QED
        BY <3>2, <3>3
    <3>5. s \in Seq(S)
      <4> HIDE DEF S
      <4> QED
        BY <3>2, <3>4
    <3> HIDE DEF S
    <3> QED
      BY <3>5
  <2>2. ASSUME s = <<>> PROVE s \in Seq(S)
    <3> HIDE DEF S
    <3>1. <<>> \in Seq(S)
      BY EmptySeq
    <3> QED
      BY <2>2, <3>1
  <2>3. m \in S
    OBVIOUS
  <2> HIDE DEF S
  <2> QED
    BY <2>1, <2>2, <2>3
<1>2. Len(s) \in Nat
  <2> HIDE DEF S
  <2> QED
    BY <1>3
<1>4. PICK t : t = Append(s, m)
  OBVIOUS
<1>5. t \in Seq(S) /\ Len(t) = Len(s) + 1 /\ (\A i \in 1..Len(s) : t[i] = s[i]) /\ t[Len(s) + 1] = m
  <2> HIDE DEF S
  <2> QED
    BY <1>3, <1>4, AppendProperties
<1>6. t = [i \in 1..Len(t) |-> t[i]]
  BY <1>5
<1>7. PICK h : h = Put(ch, c, t)
  OBVIOUS
<1>8. DOMAIN h = DOMAIN ch \cup {c} /\ h[c] = t /\ \A b \in DOMAIN ch \ {c} : h[b] = ch[b]
  BY <1>7 DEF Put
<1> HIDE DEF S
<1>9. Grown(ch, h)
  <2> SUFFICES ASSUME NEW b \in DOMAIN ch
               PROVE  /\ b \in DOMAIN h
                      /\ Len(ch[b]) \in Nat /\ Len(h[b]) \in Nat /\ Len(ch[b]) =< Len(h[b])
                      /\ \A i \in 1..Len(ch[b]) : h[b][i].from = ch[b][i].from /\ h[b][i].at = ch[b][i].at
    BY DEF Grown
  <2>1. Len(ch[b]) \in Nat
    BY <1>1 DEF ChatOk
  <2>2. CASE b = c
    BY <1>2, <1>5, <1>8, <2>1, <2>2
  <2>3. CASE b # c
    BY <1>8, <2>1, <2>3
  <2> QED
    BY <2>2, <2>3
(* Every message is one of before or the new one.                           *)
<1>10. ASSUME NEW b \in DOMAIN h, NEW i \in 1..Len(h[b])
       PROVE  \/ b \in DOMAIN ch /\ i \in 1..Len(ch[b]) /\ h[b][i] = ch[b][i]
              \/ b = c /\ i = Len(s) + 1 /\ h[b][i] = m
  <2>1. CASE b # c
    BY <1>8, <1>10, <2>1
  <2>2. CASE b = c
    <3>1. i \in 1..(Len(s) + 1) /\ h[b][i] = t[i]
      BY <1>5, <1>8, <1>10, <2>2
    <3>2. CASE i = Len(s) + 1
      BY <1>5, <2>2, <3>1, <3>2
    <3>3. CASE i \in 1..Len(s)
      <4>1. c \in DOMAIN ch
        BY <1>2, <3>3
      <4> QED
        BY <1>5, <2>2, <3>1, <3>3, <4>1
    <3> QED
      BY <1>2, <3>1, <3>2, <3>3
  <2> QED
    BY <2>1, <2>2
<1>11. ChatOk(h, n + 1)
  <2>1. DOMAIN h \subseteq Actors \X Actors
    BY <1>1, <1>8 DEF ChatOk
  <2>2. ASSUME NEW b \in DOMAIN h
        PROVE  h[b] = [i \in 1..Len(h[b]) |-> h[b][i]] /\ Len(h[b]) \in Nat
    <3>1. CASE b = c
      BY <1>2, <1>5, <1>6, <1>8, <3>1
    <3>2. CASE b # c
      BY <1>1, <1>8, <3>2 DEF ChatOk
    <3> QED
      BY <3>1, <3>2
  <2>3. ASSUME NEW b \in DOMAIN h, NEW i \in 1..Len(h[b])
        PROVE  MessageOk(h[b][i]) /\ h[b][i].at \in 1..(n + 1)
    <3>1. CASE b = c /\ i = Len(s) + 1 /\ h[b][i] = m
      BY <1>1, <3>1
    <3>2. CASE b \in DOMAIN ch /\ i \in 1..Len(ch[b]) /\ h[b][i] = ch[b][i]
      BY <1>1, <3>2 DEF ChatOk
    <3> QED
      BY <1>10, <3>1, <3>2
  <2> QED
    BY <2>1, <2>2, <2>3 DEF ChatOk
<1>12. SnowflakesOk(d, h)
  <2>0. \A b \in DOMAIN ch : \A k \in 1..Len(ch[b]) : ch[b][k].at \in 1..n
    BY <1>1 DEF ChatOk
  <2>1. ASSUME NEW b \in DOMAIN h, NEW i \in 1..Len(h[b]), NEW a \in DOMAIN h, NEW k \in 1..Len(h[a]), h[a][k].at = h[b][i].at
        PROVE  a = b /\ k = i
    <3>1. n + 1 \notin 1..n
      BY <1>1
    <3>2. CASE b = c /\ i = Len(s) + 1 /\ h[b][i] = m
      <4>1. h[a][k].at = n + 1
        BY <2>1, <3>2
      <4>2. a = c /\ k = Len(s) + 1
        BY <1>10, <2>0, <3>1, <4>1
      <4> QED
        BY <3>2, <4>2
    <3>3. CASE b \in DOMAIN ch /\ i \in 1..Len(ch[b]) /\ h[b][i] = ch[b][i]
      <4>1. h[a][k].at # n + 1
        BY <2>0, <2>1, <3>1, <3>3
      <4>2. a \in DOMAIN ch /\ k \in 1..Len(ch[a]) /\ h[a][k] = ch[a][k]
        BY <1>10, <4>1
      <4> QED
        BY <1>1, <2>1, <3>3, <4>2 DEF SnowflakesOk
    <3> QED
      BY <1>10, <3>2, <3>3
  <2>2. ASSUME NEW b \in DOMAIN h, NEW i \in 1..Len(h[b]), h[b][i].at \in DOMAIN d.posts
        PROVE  d.posts[h[b][i].at].msg = <<b, i>>
    <3>1. h[b][i].at # n + 1
      BY <1>1, <2>2 DEF DbOk
    <3>2. b \in DOMAIN ch /\ i \in 1..Len(ch[b]) /\ h[b][i] = ch[b][i]
      BY <1>10, <3>1
    <3> QED
      BY <1>1, <2>2, <3>2 DEF SnowflakesOk
  <2> QED
    BY <2>1, <2>2 DEF SnowflakesOk
<1>13. DbOk(d, n + 1)
  <2>1. 1..n \subseteq 1..(n + 1)
    BY <1>1
  <2> QED
    BY <1>1, <2>1 DEF DbOk
<1>14. CursorsOk(d, h)
  <2>1. Kept(d, d)
    BY DEF Kept
  <2> QED
    BY <1>1, <1>9, <2>1, CursorsKept
<1> QED
  BY <1>1, <1>4, <1>7, <1>9, <1>11, <1>12, <1>13, <1>14 DEF TablesOk

(* A conversation the chat service is asked for.                            *)
LEMMA TablesOpened ==
    ASSUME NEW d, NEW ch, NEW n, TablesOk(d, ch, n), NEW c \in Actors \X Actors,
           NEW s, s = IF c \in DOMAIN ch THEN ch[c] ELSE <<>>
    PROVE  TablesOk(d, Put(ch, c, s), n) /\ Grown(ch, Put(ch, c, s))
<1>1. ChatOk(ch, n) /\ n \in Nat /\ DbOk(d, n) /\ CursorsOk(d, ch) /\ SnowflakesOk(d, ch)
  BY DEF TablesOk
<1>2. PICK h : h = Put(ch, c, s)
  OBVIOUS
<1>3. DOMAIN h = DOMAIN ch \cup {c} /\ (\A b \in DOMAIN ch : h[b] = ch[b]) /\ (c \notin DOMAIN ch => h[c] = <<>>)
  BY <1>2 DEF Put
<1>4. Grown(ch, h)
  BY <1>1, <1>3 DEF ChatOk, Grown
<1>5. \A b \in DOMAIN h : \A i \in 1..Len(h[b]) : b \in DOMAIN ch
  <2>1. \A b \in DOMAIN h : b \in DOMAIN ch \/ h[b] = <<>>
    BY <1>3
  <2> QED
    BY <2>1
<1>6. ChatOk(h, n)
  BY <1>1, <1>3, <1>5 DEF ChatOk
<1>7. SnowflakesOk(d, h)
  BY <1>1, <1>3, <1>5 DEF SnowflakesOk
<1>8. CursorsOk(d, h)
  <2>1. Kept(d, d)
    BY DEF Kept
  <2> QED
    BY <1>1, <1>4, <2>1, CursorsKept
<1> QED
  BY <1>1, <1>2, <1>4, <1>6, <1>7, <1>8 DEF TablesOk

(* A row whose message id is not known.                                      *)
LEMMA TablesPosted ==
    ASSUME NEW d, NEW ch, NEW n, TablesOk(d, ch, n), NEW row, RowOk(row), row.msg = None, NEW e,
           DOMAIN e = DOMAIN d, e.posts = Put(d.posts, n + 1, row), e.links = d.links, e.read = d.read
    PROVE  TablesOk(e, ch, n + 1) /\ Kept(d, e) /\ KeptNull(d, e)
<1>1. ChatOk(ch, n) /\ n \in Nat /\ DbOk(d, n) /\ CursorsOk(d, ch) /\ SnowflakesOk(d, ch)
  BY DEF TablesOk
<1>2. n + 1 \notin DOMAIN d.posts /\ DOMAIN d.posts \subseteq 1..(n + 1)
  BY <1>1 DEF DbOk
<1>3. /\ DOMAIN e.posts = DOMAIN d.posts \cup {n + 1}
      /\ e.posts[n + 1] = row
      /\ \A p \in DOMAIN d.posts : e.posts[p] = d.posts[p]
  BY <1>2 DEF Put
<1>4. Kept(d, e) /\ KeptNull(d, e)
  BY <1>3 DEF Kept, KeptNull
<1>5. DbOk(e, n + 1)
  BY <1>1, <1>2, <1>3 DEF DbOk
<1>6. ChatOk(ch, n + 1)
  <2>1. 1..n \subseteq 1..(n + 1)
    BY <1>1
  <2> QED
    BY <1>1, <2>1 DEF ChatOk
<1>7. SnowflakesOk(e, ch)
  <2>1. \A c \in DOMAIN ch : \A i \in 1..Len(ch[c]) : ch[c][i].at # n + 1
    BY <1>1 DEF ChatOk
  <2> QED
    BY <1>1, <1>3, <2>1 DEF SnowflakesOk
<1>8. CursorsOk(e, ch)
  BY <1>1, <1>4, GrownSame, CursorsKept
<1> QED
  BY <1>1, <1>4, <1>5, <1>6, <1>7, <1>8 DEF TablesOk

(* The message id of a row that had none.                                    *)
LEMMA TablesNamed ==
    ASSUME NEW d, NEW ch, NEW n, TablesOk(d, ch, n), NEW p \in DOMAIN d.posts, d.posts[p].msg = None, NEW e,
           DOMAIN e = DOMAIN d, e.links = d.links, e.read = d.read, DOMAIN e.posts = DOMAIN d.posts,
           RowOk(e.posts[p]), \A q \in DOMAIN d.posts \ {p} : e.posts[q] = d.posts[q]
    PROVE  /\ TablesOk(e, ch, n) /\ Kept(d, e)
           /\ \A q \in DOMAIN d.posts \ {p} : q \in DOMAIN e.posts /\ e.posts[q] = d.posts[q]
<1>1. ChatOk(ch, n) /\ n \in Nat /\ DbOk(d, n) /\ CursorsOk(d, ch) /\ SnowflakesOk(d, ch)
  BY DEF TablesOk
<1>5. Kept(d, e)
  BY DEF Kept
<1>6. DbOk(e, n)
  BY <1>1 DEF DbOk
<1>7. SnowflakesOk(e, ch)
  <2>1. ASSUME NEW c \in DOMAIN ch, NEW i \in 1..Len(ch[c]), ch[c][i].at \in DOMAIN e.posts
        PROVE  e.posts[ch[c][i].at].msg = <<c, i>>
    <3>1. d.posts[ch[c][i].at].msg = <<c, i>>
      BY <1>1, <2>1 DEF SnowflakesOk
    <3>2. <<c, i>> # None
      BY <1>1 DEF ChatOk
    <3> QED
      BY <2>1, <3>1, <3>2
  <2> QED
    BY <1>1, <2>1 DEF SnowflakesOk
<1>8. CursorsOk(e, ch)
  BY <1>1, <1>5, GrownSame, CursorsKept
<1> QED
  BY <1>1, <1>5, <1>6, <1>7, <1>8 DEF TablesOk

(* The conversation of a thread: its cursor stays.                           *)
LEMMA TablesLinked ==
    ASSUME NEW d, NEW ch, NEW n, TablesOk(d, ch, n), NEW e, DOMAIN e = DOMAIN d, e.posts = d.posts, e.read = d.read,
           NEW root, NEW c \in Actors \X Actors,
           e.links = Put(d.links, root, [convo |-> c, last |-> IF root \in DOMAIN d.links THEN d.links[root].last ELSE None])
    PROVE  TablesOk(e, ch, n) /\ Kept(d, e) /\ KeptNull(d, e)
<1>1. ChatOk(ch, n) /\ n \in Nat /\ DbOk(d, n) /\ CursorsOk(d, ch) /\ SnowflakesOk(d, ch)
  BY DEF TablesOk
<1>2. Kept(d, e) /\ KeptNull(d, e)
  BY DEF Kept, KeptNull
<1>3. \A r \in DOMAIN e.links : e.links[r].last = None \/ (r \in DOMAIN d.links /\ e.links[r].last = d.links[r].last)
  BY DEF Put
<1>4. CursorsOk(e, ch)
  BY <1>1, <1>2, <1>3, GrownSame, CursorsKept
<1>5. \A r \in DOMAIN e.links : e.links[r].convo \in Actors \X Actors
  BY <1>1 DEF Put, DbOk
<1> QED
  BY <1>1, <1>2, <1>4, <1>5 DEF TablesOk, DbOk, SnowflakesOk

(* A cursor moved to a message behind which everything is a post.            *)
LEMMA TablesAdvanced ==
    ASSUME NEW d, NEW ch, NEW n, TablesOk(d, ch, n), NEW root, NEW b \in Actors \X Actors, NEW c \in DOMAIN ch, NEW k \in 1..Len(ch[c]),
           Covered(d, ch, c, k), NEW e, e = AdvancedConvoCursor(d, root, b, <<c, k>>)
    PROVE  TablesOk(e, ch, n) /\ Kept(d, e) /\ KeptNull(d, e)
<1>1. ChatOk(ch, n) /\ n \in Nat /\ DbOk(d, n) /\ CursorsOk(d, ch) /\ SnowflakesOk(d, ch)
  BY DEF TablesOk
<1>2. DOMAIN e = DOMAIN d /\ e.posts = d.posts /\ e.read = d.read
  BY <1>1 DEF AdvancedConvoCursor, DbOk
<1>3. PICK x \in Actors \X Actors : e.links = Put(d.links, root, [convo |-> x, last |-> <<c, k>>])
  <2>1. PICK x : x = IF root \in DOMAIN d.links THEN d.links[root].convo ELSE b
    OBVIOUS
  <2>2. x \in Actors \X Actors
    BY <1>1, <2>1 DEF DbOk
  <2>3. PICK y : y = Put(d.links, root, [convo |-> x, last |-> <<c, k>>])
    OBVIOUS
  <2>4. e = [d EXCEPT !.links = y]
    BY <2>1, <2>3 DEF AdvancedConvoCursor
  <2>5. e.links = y
    BY <1>1, <2>4 DEF DbOk
  <2> QED
    BY <2>2, <2>3, <2>5
<1>4. Kept(d, e) /\ KeptNull(d, e)
  BY <1>2 DEF Kept, KeptNull
<1>5. CursorsOk(e, ch)
  <2> SUFFICES ASSUME NEW r \in DOMAIN e.links, e.links[r].last # None
               PROVE  \E a \in DOMAIN ch : \E i \in 1..Len(ch[a]) : e.links[r].last = <<a, i>> /\ Covered(e, ch, a, i)
    BY DEF CursorsOk
  <2>1. \A a, i : Covered(d, ch, a, i) => Covered(e, ch, a, i)
    BY <1>1, <1>4, GrownSame, CoveredKept
  <2>2. CASE r = root
    <3>1. e.links[r].last = <<c, k>>
      BY <1>3, <2>2 DEF Put
    <3> QED
      BY <2>1, <3>1
  <2>3. CASE r # root
    <3>1. r \in DOMAIN d.links /\ e.links[r] = d.links[r]
      BY <1>3, <2>3 DEF Put
    <3>2. PICK a \in DOMAIN ch : \E i \in 1..Len(ch[a]) : d.links[r].last = <<a, i>> /\ Covered(d, ch, a, i)
      BY <1>1, <3>1 DEF CursorsOk
    <3> QED
      BY <2>1, <3>1, <3>2
  <2> QED
    BY <2>2, <2>3
<1>6. \A r \in DOMAIN e.links : e.links[r].convo \in Actors \X Actors
  BY <1>1, <1>3 DEF Put, DbOk
<1>7. DbOk(e, n)
  BY <1>1, <1>2, <1>6 DEF DbOk
<1>8. SnowflakesOk(e, ch)
  BY ONLY <1>1, <1>2 DEF SnowflakesOk
<1> QED
  BY <1>1, <1>4, <1>5, <1>7, <1>8 DEF TablesOk

(* The post of a message, once.                                              *)
LEMMA TablesImported ==
    ASSUME NEW d, NEW ch, NEW n, TablesOk(d, ch, n), NEW c \in DOMAIN ch, NEW k \in 1..Len(ch[c]), NEW id, NEW row, NEW e,
           RowOk(row), row.msg = <<c, k>>,
           \/ id = ch[c][k].at /\ ~Imported(d, c, k)
           \/ id \in DOMAIN d.posts /\ d.posts[id].msg = <<c, k>>,
           DOMAIN e = DOMAIN d, e.links = d.links, e.read = d.read,
           DOMAIN e.posts = DOMAIN d.posts \cup {id}, e.posts[id] = row, \A p \in DOMAIN d.posts \ {id} : e.posts[p] = d.posts[p]
    PROVE  TablesOk(e, ch, n) /\ Kept(d, e) /\ KeptNull(d, e) /\ Imported(e, c, k)
<1>1. ChatOk(ch, n) /\ n \in Nat /\ DbOk(d, n) /\ CursorsOk(d, ch) /\ SnowflakesOk(d, ch)
  BY DEF TablesOk
<1>2. /\ DOMAIN e.posts = DOMAIN d.posts \cup {id}
      /\ e.posts[id] = row
      /\ \A p \in DOMAIN d.posts \ {id} : e.posts[p] = d.posts[p]
  OBVIOUS
<1>3. id \in DOMAIN d.posts => d.posts[id].msg = <<c, k>>
  BY <1>1 DEF SnowflakesOk
<1>4. <<c, k>> # None
  BY <1>1 DEF ChatOk
<1>5. Kept(d, e) /\ KeptNull(d, e)
  BY <1>2, <1>3, <1>4 DEF Kept, KeptNull
<1>6. Imported(e, c, k)
  BY <1>2 DEF Imported
<1>7. DbOk(e, n)
  <2>1. id \in 1..n
    BY <1>1 DEF ChatOk, DbOk
  <2> QED
    BY <1>1, <1>2, <2>1 DEF DbOk
<1>8. SnowflakesOk(e, ch)
  <2>1. ASSUME NEW b \in DOMAIN ch, NEW i \in 1..Len(ch[b]), ch[b][i].at \in DOMAIN e.posts
        PROVE  e.posts[ch[b][i].at].msg = <<b, i>>
    <3>1. CASE ch[b][i].at \in DOMAIN d.posts \ {id}
      BY <1>1, <1>2, <3>1 DEF SnowflakesOk
    <3>2. CASE ch[b][i].at = id
      <4>1. CASE id \in DOMAIN d.posts
        <5>1. d.posts[id].msg = <<b, i>>
          BY <1>1, <3>2, <4>1 DEF SnowflakesOk
        <5> QED
          BY <1>2, <1>3, <3>2, <4>1, <5>1
      <4>2. CASE id \notin DOMAIN d.posts
        <5>1. id = ch[c][k].at
          BY <4>2
        <5>2. b = c /\ i = k
          BY <1>1, <3>2, <5>1 DEF SnowflakesOk
        <5> QED
          BY <1>2, <3>2, <5>2
      <4> QED
        BY <4>1, <4>2
    <3> QED
      BY <1>2, <2>1, <3>1, <3>2
  <2> QED
    BY <1>1, <2>1 DEF SnowflakesOk
<1>9. CursorsOk(e, ch)
  BY <1>1, <1>5, GrownSame, CursorsKept
<1> QED
  BY <1>1, <1>5, <1>6, <1>7, <1>8, <1>9 DEF TablesOk

LEMMA TablesRead ==
    ASSUME NEW d, NEW ch, NEW n, TablesOk(d, ch, n), NEW e, DOMAIN e = DOMAIN d, e.posts = d.posts, e.links = d.links,
           NEW k, NEW m \in Nat, e.read = Put(d.read, k, m)
    PROVE  TablesOk(e, ch, n) /\ Kept(d, e) /\ KeptNull(d, e)
<1>1. ChatOk(ch, n) /\ n \in Nat /\ DbOk(d, n) /\ CursorsOk(d, ch) /\ SnowflakesOk(d, ch)
  BY DEF TablesOk
<1>2. Kept(d, e) /\ KeptNull(d, e)
  BY DEF Kept, KeptNull
<1>3. \A x \in DOMAIN e.read : e.read[x] \in Nat
  BY <1>1 DEF Put, DbOk
<1>4. DbOk(e, n) /\ SnowflakesOk(e, ch)
  BY <1>1, <1>3 DEF DbOk, SnowflakesOk
<1>5. CursorsOk(e, ch)
  BY <1>1, <1>2, GrownSame, CursorsKept
<1> QED
  BY <1>1, <1>2, <1>4, <1>5 DEF TablesOk

-----------------------------------------------------------------------------
(* Calls *)

LEMMA StepKeeps ==
    ASSUME DmInv, TablesOk(db', chat', clock'), Grown(chat, chat'), Kept(db, db'), poll' = poll, seen' = db'.read,
           CallsOk', JobsOk(jobs', db')
    PROVE  DmInv'
<1>1. ChatOk(chat, clock) /\ PollOk(poll, db, chat)
  BY DEF DmInv, TablesOk
<1>2. PollOk(poll, db', chat')
  BY <1>1, PollKept
<1> QED
  BY <1>2 DEF DmInv

LEMMA CallMoves ==
    ASSUME DmInv, NEW s \in Calls, NEW c, CallOk(c), calls' = [calls EXCEPT ![s] = c], todo' \subseteq todo, events' = events
    PROVE  CallsOk'
BY DEF DmInv, CallsOk

LEMMA CallsSame ==
    ASSUME DmInv, calls' = calls, todo' = todo, events' \subseteq events
    PROVE  CallsOk'
BY DEF DmInv, CallsOk

LEMMA EndOk == CallOk(NoCall)
BY DEF CallOk, NoCall

LEMMA JobAdded ==
    ASSUME NEW js, NEW d, JobsOk(js, d), NEW j, JobOk(j, d), j.kind = "send" => \A k \in js : k.kind = "send" => k.post # j.post
    PROVE  JobsOk(js \cup {j}, d)
BY DEF JobsOk

LEMMA JobDone ==
    ASSUME NEW js, NEW d, JobsOk(js, d), NEW j
    PROVE  JobsOk(js \ {j}, d)
BY DEF JobsOk

LEMMA JobReplaced ==
    ASSUME NEW js, NEW d, JobsOk(js, d), NEW j \in js, NEW k, JobOk(k, d), k.kind = j.kind, k.post = j.post
    PROVE  JobsOk((js \ {j}) \cup {k}, d)
BY DEF JobsOk

LEMMA NewJobOk ==
    ASSUME NEW kind \in {"add", "remove", "hide"}, NEW p, NEW a \in Local, NEW content, NEW d
    PROVE  JobOk(Job(kind, p, a, content), d) /\ Job(kind, p, a, content).kind # "send"
BY DEF JobOk, Job

(* A step of a call on tables that hold the same posts.                      *)
LEMMA CallStepKeeps ==
    ASSUME DmInv, NEW s \in Calls, NEW c, CallOk(c), calls' = [calls EXCEPT ![s] = c], todo' \subseteq todo,
           UNCHANGED <<chat, clock, events, poll>>, TablesOk(db', chat, clock), Kept(db, db'), KeptNull(db, db'),
           seen' = db'.read,
           jobs' = jobs \/ \E j : JobOk(j, db') /\ j.kind # "send" /\ jobs' = jobs \cup {j}
    PROVE  DmInv'
<1>1. CallsOk'
  BY CallMoves
<1>2. JobsOk(jobs, db')
  BY JobsKept DEF DmInv
<1>3. JobsOk(jobs', db')
  BY <1>2, JobAdded
<1>4. Grown(chat, chat')
  BY GrownSame DEF DmInv, TablesOk
<1> QED
  BY <1>1, <1>3, <1>4, StepKeeps

LEMMA Nothing ==
    ASSUME DmInv
    PROVE  TablesOk(db, chat, clock) /\ Kept(db, db) /\ KeptNull(db, db) /\ Grown(chat, chat) /\ seen = db.read
<1>1. TablesOk(db, chat, clock)
  BY DEF DmInv
<1>2. TablesOk(db, chat, clock) /\ Kept(db, db) /\ KeptNull(db, db)
  BY <1>1, TablesSame
<1>3. ChatOk(chat, clock)
  BY <1>1 DEF TablesOk
<1>4. Grown(chat, chat)
  BY <1>3, GrownSame
<1> QED
  BY <1>2, <1>4 DEF DmInv

LEMMA StartKeeps ==
    ASSUME DmInv, NEW s \in Calls, Start(s)
    PROVE  DmInv'
<1>1. PICK r \in todo : todo' = todo \ {r} /\ calls' = [calls EXCEPT ![s] = Called(r)]
  BY DEF Start
<1>2. UNCHANGED <<db, chat, clock, events, jobs, poll, seen>>
  BY DEF Start
<1>3. RequestOk(r)
  BY DEF DmInv, CallsOk
<1>4. CallOk(Called(r))
  BY <1>3 DEF CallOk, Called, RequestOk
<1>5. TablesOk(db', chat, clock) /\ Kept(db, db') /\ KeptNull(db, db') /\ seen' = db'.read
  BY <1>2, Nothing
<1> QED
  BY <1>1, <1>2, <1>4, <1>5, CallStepKeeps
LEMMA CallAt ==
    ASSUME DmInv, NEW s \in Calls, NEW l, At(s, l)
    PROVE  /\ DOMAIN calls[s] = {"op", "by", "on", "to", "content", "pc", "latest"}
           /\ CallOk(calls[s]) /\ calls[s].op # "none"
           /\ RequestOk(calls[s]) /\ calls[s].by \in Local /\ calls[s].pc = l
BY DEF DmInv, CallsOk, CallOk, RequestOk, At

LEMMA DbFields ==
    ASSUME NEW d, NEW n, DbOk(d, n), NEW x
    PROVE  /\ DOMAIN [d EXCEPT !.posts = x] = DOMAIN d /\ [d EXCEPT !.posts = x].posts = x
           /\ [d EXCEPT !.posts = x].links = d.links /\ [d EXCEPT !.posts = x].read = d.read
           /\ DOMAIN [d EXCEPT !.reactions = x] = DOMAIN d /\ [d EXCEPT !.reactions = x].posts = d.posts
           /\ [d EXCEPT !.reactions = x].links = d.links /\ [d EXCEPT !.reactions = x].read = d.read
           /\ DOMAIN [d EXCEPT !.hiddenDms = x] = DOMAIN d /\ [d EXCEPT !.hiddenDms = x].posts = d.posts
           /\ [d EXCEPT !.hiddenDms = x].links = d.links /\ [d EXCEPT !.hiddenDms = x].read = d.read
           /\ DOMAIN [d EXCEPT !.read = x] = DOMAIN d /\ [d EXCEPT !.read = x].posts = d.posts
           /\ [d EXCEPT !.read = x].links = d.links /\ [d EXCEPT !.read = x].read = x
           /\ DOMAIN [d EXCEPT !.links = x] = DOMAIN d /\ [d EXCEPT !.links = x].posts = d.posts
           /\ [d EXCEPT !.links = x].links = x /\ [d EXCEPT !.links = x].read = d.read
BY DEF DbOk

LEMMA SendDmKeeps ==
    ASSUME DmInv, NEW s \in Calls, SendDm(s)
    PROVE  DmInv'
<1>1. PICK c : c = calls[s]
  OBVIOUS
<1>2. At(s, "send")
  BY DEF SendDm
<1>3. CallOk(c) /\ c.pc = "send" /\ c.op # "none"
  BY <1>1, <1>2, CallAt
<1>4. c.by \in Local /\ c.to \in Actors
  BY <1>3 DEF CallOk, RequestOk
<1>5. PICK row : /\ \E reply, root : row = DmPost(c.by, reply, {c.to}, root, None)
                 /\ db' = [db EXCEPT !.posts = Put(@, clock + 1, row)]
  BY <1>1 DEF SendDm
<1>6. RowOk(row) /\ row.msg = None
  BY <1>4, <1>5 DEF RowOk, DmPost
<1>7. clock' = clock + 1 /\ UNCHANGED <<chat, todo, events, poll, seen>> /\ calls' = [calls EXCEPT ![s] = NoCall]
  BY DEF SendDm, End
<1>8. TablesOk(db, chat, clock) /\ DbOk(db, clock)
  BY DEF DmInv, TablesOk
<1>9. DOMAIN db' = DOMAIN db /\ db'.posts = Put(db.posts, clock + 1, row) /\ db'.links = db.links /\ db'.read = db.read
  BY <1>5, <1>8, DbFields
<1>10. TablesOk(db', chat', clock') /\ Kept(db, db') /\ KeptNull(db, db')
  <2>1. TablesOk(db', chat, clock + 1) /\ Kept(db, db') /\ KeptNull(db, db')
    BY <1>6, <1>8, <1>9, TablesPosted
  <2> QED
    BY <1>7, <2>1
<1>11. Grown(chat, chat')
  BY <1>7, <1>8, GrownSame DEF TablesOk
<1>12. CallsOk'
  BY <1>7, EndOk, CallMoves
<1>13. JobsOk(jobs, db')
  BY <1>10, JobsKept DEF DmInv
<1>14. PICK j : j = Job("send", clock + 1, c.by, None)
  OBVIOUS
<1>15. jobs' = jobs \/ jobs' = jobs \cup {j}
  BY <1>1, <1>14 DEF SendDm, Enqueue
<1>16. JobOk(j, db') /\ j.kind = "send" /\ j.post = clock + 1
  <2>1. clock + 1 \in DOMAIN db'.posts /\ db'.posts[clock + 1].msg = None
    BY <1>6, <1>9 DEF Put
  <2> QED
    BY <1>4, <1>14, <2>1 DEF JobOk, Job
<1>17. \A k \in jobs : k.kind = "send" => k.post # clock + 1
  BY <1>8 DEF DmInv, TablesOk, DbOk, JobsOk, JobOk
<1>18. JobsOk(jobs', db')
  <2>1. JobsOk(jobs \cup {j}, db')
    BY <1>13, <1>16, <1>17, JobAdded
  <2> QED
    BY <1>13, <1>15, <2>1
<1>19. seen' = db'.read
  BY <1>7, <1>9 DEF DmInv
<1> QED
  BY <1>7, <1>10, <1>11, <1>12, <1>18, <1>19, StepKeeps

(* A call on reactions or hidden messages, with or without a job.            *)
LEMMA ReactionStepKeeps ==
    ASSUME DmInv, NEW s \in Calls, NEW c, CallOk(c), calls' = [calls EXCEPT ![s] = c],
           UNCHANGED <<chat, clock, todo, events, poll, seen>>,
           \/ db' = db
           \/ \E x : db' = [db EXCEPT !.reactions = x] \/ db' = [db EXCEPT !.hiddenDms = x],
           NEW kind \in {"add", "remove", "hide"}, NEW p, NEW a \in Local, NEW content,
           jobs' = jobs \/ jobs' = jobs \cup {Job(kind, p, a, content)}
    PROVE  DmInv'
<1>1. TablesOk(db, chat, clock) /\ DbOk(db, clock) /\ seen = db.read
  BY DEF DmInv, TablesOk
<1>2. DOMAIN db' = DOMAIN db /\ db'.posts = db.posts /\ db'.links = db.links /\ db'.read = db.read
  <2>1. CASE \E x : db' = [db EXCEPT !.reactions = x]
    BY <1>1, <2>1 DEF DbOk
  <2>2. CASE \E x : db' = [db EXCEPT !.hiddenDms = x]
    BY <1>1, <2>2 DEF DbOk
  <2> QED
    BY <2>1, <2>2
<1>3. TablesOk(db', chat, clock) /\ Kept(db, db') /\ KeptNull(db, db')
  BY <1>1, <1>2, TablesSame
<1>4. PICK j : j = Job(kind, p, a, content)
  OBVIOUS
<1>5. JobOk(j, db') /\ j.kind # "send"
  BY <1>4, NewJobOk
<1> QED
  BY <1>1, <1>2, <1>3, <1>4, <1>5, CallStepKeeps

LEMMA ReactionCallsKeep ==
    ASSUME DmInv, NEW s \in Calls,
           CreateDmBskyReaction(s) \/ AddBskyReaction(s) \/ DeleteDmBskyReaction(s) \/ HideDmMessage(s)
    PROVE  DmInv'
<1>1. CASE CreateDmBskyReaction(s)
  <2>1. PICK c : c = calls[s]
    OBVIOUS
  <2>2. CallOk(c) /\ DOMAIN c = {"op", "by", "on", "to", "content", "pc", "latest"} /\ c.op # "none" /\ RequestOk(c) /\ c.by \in Local
    BY <1>1, <2>1, CallAt DEF CreateDmBskyReaction
  <2>3. PICK x : x = [c EXCEPT !.pc = "insert"]
    OBVIOUS
  <2>4. CallOk(x)
    BY <2>2, <2>3 DEF CallOk, RequestOk
  <2>5. UNCHANGED <<db, jobs, chat, clock, todo, events, poll, seen>>
    BY <1>1 DEF CreateDmBskyReaction, Rest
  <2>6. CASE calls' = [calls EXCEPT ![s] = x]
    BY <2>2, <2>4, <2>5, <2>6, ReactionStepKeeps
  <2>7. CASE calls' = [calls EXCEPT ![s] = NoCall]
    BY <2>2, <2>5, <2>7, EndOk, ReactionStepKeeps
  <2>8. [calls EXCEPT ![s].pc = "insert"] = [calls EXCEPT ![s] = x]
    BY <2>1, <2>3
  <2> QED
    BY <1>1, <2>6, <2>7, <2>8 DEF CreateDmBskyReaction, GoOn, End
<1>2. CASE AddBskyReaction(s)
  <2>1. calls[s].by \in Local
    BY <1>2, CallAt DEF AddBskyReaction
  <2>2. jobs' = jobs \/ jobs' = jobs \cup {Job("add", calls[s].on, calls[s].by, calls[s].content)}
    BY <1>2 DEF AddBskyReaction, Enqueue
  <2>3. \E x : db' = [db EXCEPT !.reactions = x]
    BY <1>2 DEF AddBskyReaction
  <2>4. UNCHANGED <<chat, clock, todo, events, poll, seen>> /\ calls' = [calls EXCEPT ![s] = NoCall]
    BY <1>2 DEF AddBskyReaction, Rest, End
  <2> QED
    BY <2>1, <2>2, <2>3, <2>4, EndOk, ReactionStepKeeps
<1>3. CASE DeleteDmBskyReaction(s)
  <2>1. calls[s].by \in Local
    BY <1>3, CallAt DEF DeleteDmBskyReaction
  <2>2. jobs' = jobs \/ jobs' = jobs \cup {Job("remove", calls[s].on, calls[s].by, calls[s].content)}
    BY <1>3 DEF DeleteDmBskyReaction, Enqueue
  <2>3. db' = db \/ \E x : db' = [db EXCEPT !.reactions = x]
    BY <1>3 DEF DeleteDmBskyReaction
  <2>4. UNCHANGED <<chat, clock, todo, events, poll, seen>> /\ calls' = [calls EXCEPT ![s] = NoCall]
    BY <1>3 DEF DeleteDmBskyReaction, Rest, End
  <2> QED
    BY <2>1, <2>2, <2>3, <2>4, EndOk, ReactionStepKeeps
<1>4. CASE HideDmMessage(s)
  <2>1. calls[s].by \in Local
    BY <1>4, CallAt DEF HideDmMessage
  <2>2. jobs' = jobs \/ jobs' = jobs \cup {Job("hide", calls[s].on, calls[s].by, None)}
    BY <1>4 DEF HideDmMessage, Enqueue
  <2>3. db' = db \/ \E x : db' = [db EXCEPT !.hiddenDms = x]
    BY <1>4 DEF HideDmMessage
  <2>4. UNCHANGED <<chat, clock, todo, events, poll, seen>> /\ calls' = [calls EXCEPT ![s] = NoCall]
    BY <1>4 DEF HideDmMessage, Rest, End
  <2> QED
    BY <2>1, <2>2, <2>3, <2>4, EndOk, ReactionStepKeeps
<1> QED
  BY <1>1, <1>2, <1>3, <1>4

(* The newest message of a thread that has one.                              *)
LEMMA LeastNatural ==
    ASSUME NEW S \in SUBSET Nat, S # {}
    PROVE  \E m \in S : \A n \in S : m =< n
<1> DEFINE R == {p \in Nat \X Nat : p[1] < p[2]}
<1>1. R = OpToRel(<, Nat)
  BY DEF OpToRel
<1>2. IsWellFoundedOn(R, Nat)
  BY <1>1, NatLessThanWellFounded
<1>3. \A m, n \in Nat : <<n, m>> \in R <=> n < m
  OBVIOUS
<1> HIDE DEF R
<1>4. PICK m \in S : \A n \in S : ~(<<n, m>> \in R)
  BY <1>2, WFMin
<1>5. ASSUME NEW n \in S PROVE m =< n
  <2>1. n \in Nat /\ m \in Nat
    OBVIOUS
  <2>2. ~(n < m)
    BY <1>3, <1>4, <2>1
  <2> QED
    BY <2>1, <2>2
<1> QED
  BY <1>5

LEMMA MaxOfPosts ==
    ASSUME NEW n \in Nat, NEW S, S \subseteq 1..n, S # {}
    PROVE  Max(S) \in S /\ \A p \in S : p =< Max(S)
<1> DEFINE T == {n - p : p \in S}
<1>1. T \in SUBSET Nat /\ T # {}
  OBVIOUS
<1>2. PICK t \in T : \A u \in T : t =< u
  <2> HIDE DEF T
  <2> QED
    BY <1>1, LeastNatural
<1>3. PICK m \in S : t = n - m
  OBVIOUS
<1>4. \A p \in S : m >= p
  <2> SUFFICES ASSUME NEW p \in S PROVE m >= p
    OBVIOUS
  <2>1. n - p \in T
    OBVIOUS
  <2>2. t =< n - p
    BY <1>2, <2>1
  <2>3. m \in Int /\ p \in Int
    OBVIOUS
  <2> HIDE DEF T
  <2> QED
    BY <1>3, <2>2, <2>3
<1>5. \E x \in S : \A y \in S : x >= y
  BY <1>4
<1>6. Max(S) \in S /\ \A y \in S : Max(S) >= y
  BY <1>5 DEF Max
<1>7. \A p \in S : p \in Int
  OBVIOUS
<1> QED
  BY <1>6, <1>7

LEMMA NewestPost ==
    ASSUME DmInv, NEW root, InThread(root) # {}
    PROVE  LatestPostId(root) \in Nat /\ \A p \in InThread(root) : p \in Nat /\ p =< LatestPostId(root)
<1>1. clock \in Nat /\ InThread(root) \subseteq 1..clock
  BY DEF DmInv, TablesOk, DbOk, InThread, Live
<1>2. Max(InThread(root)) \in InThread(root) /\ \A p \in InThread(root) : p =< Max(InThread(root))
  BY <1>1, MaxOfPosts
<1> QED
  BY <1>1, <1>2 DEF LatestPostId

LEMMA ReadLatestKeeps ==
    ASSUME DmInv, NEW s \in Calls, ReadLatest(s)
    PROVE  DmInv'
<1>1. PICK c : c = calls[s]
  OBVIOUS
<1>2. CallOk(c) /\ DOMAIN c = {"op", "by", "on", "to", "content", "pc", "latest"} /\ c.op # "none" /\ RequestOk(c) /\ c.by \in Local
  BY <1>1, CallAt DEF ReadLatest
<1>3. UNCHANGED <<db, jobs, chat, clock, todo, events, poll, seen>>
  BY DEF ReadLatest, Rest
<1>4. CASE ~IsParticipant(RootOf(c.on), c.by)
  <2>1. calls' = [calls EXCEPT ![s] = NoCall]
    BY <1>1, <1>4 DEF ReadLatest
  <2> QED
    BY <1>2, <1>3, <2>1, EndOk, ReactionStepKeeps
<1>5. CASE IsParticipant(RootOf(c.on), c.by)
  <2>1. PICK x : x = [c EXCEPT !.pc = "mark", !.latest = LatestPostId(RootOf(c.on))]
    OBVIOUS
  <2>2. calls' = [calls EXCEPT ![s] = x]
    BY <1>1, <1>5, <2>1 DEF ReadLatest
  <2>3. LatestPostId(RootOf(c.on)) \in Nat
    BY <1>5, NewestPost DEF IsParticipant
  <2>4. CallOk(x)
    BY <1>2, <2>1, <2>3 DEF CallOk, RequestOk
  <2> QED
    BY <1>2, <1>3, <2>2, <2>4, ReactionStepKeeps
<1> QED
  BY <1>4, <1>5

LEMMA MarkReadKeeps ==
    ASSUME DmInv, NEW s \in Calls, MarkRead(s)
    PROVE  DmInv'
<1>1. PICK c : c = calls[s]
  OBVIOUS
<1>2. c.latest \in Nat
  BY <1>1, CallAt DEF MarkRead, CallOk
<1>3. PICK k : k = <<c.by, RootOf(c.on)>>
  OBVIOUS
<1>4. TablesOk(db, chat, clock) /\ DbOk(db, clock) /\ seen = db.read
  BY DEF DmInv, TablesOk
<1>5. PICK r : r = IF k \in DOMAIN db.read THEN db.read[k] ELSE 0
  OBVIOUS
<1>6. r \in Nat
  BY <1>4, <1>5 DEF DbOk
<1>7. ReadState(c.by, RootOf(c.on)) = r
  BY <1>3, <1>5 DEF ReadState
<1>8. PICK m : m = Larger(r, c.latest)
  OBVIOUS
<1>9. m \in Nat /\ m = Larger(c.latest, r)
  BY <1>2, <1>6, <1>8 DEF Larger
<1>10. db' = [db EXCEPT !.read = Put(db.read, k, m)]
  BY <1>1, <1>3, <1>7, <1>8 DEF MarkRead, MarkedRead
<1>11. seen' = Put(db.read, k, m)
  BY <1>1, <1>3, <1>4, <1>5, <1>9 DEF MarkRead
<1>12. DOMAIN db' = DOMAIN db /\ db'.posts = db.posts /\ db'.links = db.links /\ db'.read = Put(db.read, k, m)
  BY <1>4, <1>10, DbFields
<1>13. TablesOk(db', chat, clock) /\ Kept(db, db') /\ KeptNull(db, db')
  BY <1>4, <1>9, <1>12, TablesRead
<1>14. UNCHANGED <<chat, clock, todo, events, poll, jobs>> /\ calls' = [calls EXCEPT ![s] = NoCall]
  BY DEF MarkRead, Rest, End
<1> QED
  BY <1>11, <1>12, <1>13, <1>14, EndOk, CallStepKeeps
-----------------------------------------------------------------------------
(* Jobs *)

LEMMA JobIs ==
    ASSUME DmInv, NEW j \in jobs
    PROVE  JobOk(j, db) /\ DOMAIN j = {"kind", "post", "by", "content", "pc", "convo", "msg", "attempts"}
BY DEF DmInv, JobsOk, JobOk

(* A job that goes on, is put back or ends.                                  *)
JobMoves(j) ==
    \/ jobs' = jobs \ {j}
    \/ \E k : JobOk(k, db) /\ k.kind = j.kind /\ k.post = j.post /\ jobs' = (jobs \ {j}) \cup {k}

LEMMA JobMovesOk ==
    ASSUME DmInv, NEW j \in jobs, JobMoves(j)
    PROVE  JobsOk(jobs', db)
<1>1. JobsOk(jobs, db)
  BY DEF DmInv
<1> QED
  <2>1. CASE jobs' = jobs \ {j}
    BY <1>1, <2>1, JobDone
  <2>2. ASSUME NEW k, JobOk(k, db), k.kind = j.kind, k.post = j.post, jobs' = (jobs \ {j}) \cup {k}
        PROVE  JobsOk(jobs', db)
    <3>1. JobsOk((jobs \ {j}) \cup {k}, db)
      BY <1>1, <2>2, JobReplaced
    <3> QED
      BY <2>2, <3>1
  <2> QED
    BY <2>1, <2>2 DEF JobMoves

LEMMA FailedJobMoves ==
    ASSUME DmInv, NEW j \in jobs, JobFails(j)
    PROVE  JobMoves(j)
<1>1. JobOk(j, db)
  BY JobIs
<1>2. PICK k : k = [Job(j.kind, j.post, j.by, j.content) EXCEPT !.attempts = j.attempts + 1]
  OBVIOUS
<1>3. k = [kind |-> j.kind, post |-> j.post, by |-> j.by, content |-> j.content, pc |-> "ready", convo |-> None, msg |-> None,
           attempts |-> j.attempts + 1]
  BY <1>2 DEF Job
<1>4. JobOk(k, db) /\ k.kind = j.kind /\ k.post = j.post
  BY <1>1, <1>3 DEF JobOk
<1>5. jobs' = jobs \ {j} \/ jobs' = (jobs \ {j}) \cup {k}
  BY <1>2 DEF JobFails, AfterError
<1> QED
  BY <1>4, <1>5 DEF JobMoves

(* A step of a job that leaves the posts what they are.                      *)
LEMMA JobStepKeeps ==
    ASSUME DmInv, NEW j \in jobs, JobMoves(j), UNCHANGED <<calls, todo, events, poll, seen>>,
           TablesOk(db', chat', clock'), Grown(chat, chat'), Kept(db, db'), KeptNull(db, db'), db'.read = db.read
    PROVE  DmInv'
<1>1. JobsOk(jobs', db')
  BY JobMovesOk, JobsKept
<1>2. CallsOk'
  BY CallsSame
<1>3. seen' = db'.read
  BY DEF DmInv
<1> QED
  BY <1>1, <1>2, <1>3, StepKeeps

LEMMA ResolveConvoIdKeeps ==
    ASSUME DmInv, NEW j \in jobs, ResolveConvoId(j)
    PROVE  DmInv'
<1>1. UNCHANGED <<db, clock, calls, todo, events, poll, seen>> /\ j.kind = "send"
  BY DEF ResolveConvoId, JobRest
<1>2. /\ TablesOk(db, chat, clock) /\ DbOk(db, clock) /\ Kept(db, db) /\ KeptNull(db, db) /\ Grown(chat, chat)
      /\ JobOk(j, db) /\ DOMAIN j = {"kind", "post", "by", "content", "pc", "convo", "msg", "attempts"}
  BY Nothing, JobIs DEF TablesOk
<1>3. CASE JobFails(j) /\ UNCHANGED chat
  BY <1>1, <1>2, <1>3, FailedJobMoves, JobStepKeeps
<1>4. ASSUME NEW q \in BskyPeer(j.post), NEW c, NEW cached, cached = ConvoIdForThread(Row(j.post).root),
             c = IF cached # None THEN cached ELSE <<j.by, q>>,
             chat' = Put(chat, c, Said(c)),
             Proceed(j, [j EXCEPT !.pc = IF cached # None THEN "post" ELSE "save", !.convo = c])
      PROVE  DmInv'
  <2>1. q \in Actors
    BY <1>1, <1>2 DEF BskyPeer, Row, DbOk, RowOk, JobOk
  <2>2. j.by \in Actors
    BY <1>2 DEF JobOk
  <2>3. c \in Actors \X Actors
    BY <1>2, <1>4, <2>1, <2>2 DEF ConvoIdForThread, DbOk
  <2>4. TablesOk(db, chat', clock) /\ Grown(chat, chat')
    BY <1>2, <1>4, <2>3, TablesOpened DEF Said
  <2>5. PICK l \in {"post", "save"} : l = IF cached # None THEN "post" ELSE "save"
    OBVIOUS
  <2>6. PICK k : k = [j EXCEPT !.pc = l, !.convo = c]
    OBVIOUS
  <2>7. JobOk(k, db) /\ k.kind = j.kind /\ k.post = j.post
    BY <1>1, <1>2, <2>3, <2>6 DEF JobOk
  <2>8. JobMoves(j)
    BY <1>4, <2>5, <2>6, <2>7 DEF JobMoves, Proceed
  <2> QED
    BY <1>1, <1>2, <2>4, <2>8, JobStepKeeps
<1> QED
  BY <1>3, <1>4 DEF ResolveConvoId

LEMMA SaveConvoIdKeeps ==
    ASSUME DmInv, NEW j \in jobs, SaveConvoId(j)
    PROVE  DmInv'
<1>1. UNCHANGED <<chat, clock, calls, todo, events, poll, seen>> /\ j.pc = "save"
  BY DEF SaveConvoId, JobRest
<1>2. /\ TablesOk(db, chat, clock) /\ DbOk(db, clock) /\ Kept(db, db) /\ KeptNull(db, db) /\ Grown(chat, chat)
      /\ JobOk(j, db) /\ DOMAIN j = {"kind", "post", "by", "content", "pc", "convo", "msg", "attempts"}
  BY Nothing, JobIs DEF TablesOk
<1>3. CASE JobFails(j) /\ UNCHANGED db
  BY <1>1, <1>2, <1>3, FailedJobMoves, JobStepKeeps
<1>4. CASE db' = SavedConvoId(Row(j.post).root, j.convo) /\ Proceed(j, [j EXCEPT !.pc = "post"])
  <2>1. j.convo \in Actors \X Actors
    BY <1>1, <1>2 DEF JobOk
  <2>2. PICK root : root = Row(j.post).root
    OBVIOUS
  <2>3. PICK x : x = Put(db.links, root, [convo |-> j.convo, last |-> IF root \in DOMAIN db.links THEN db.links[root].last ELSE None])
    OBVIOUS
  <2>4. db' = [db EXCEPT !.links = x]
    BY <1>4, <2>2, <2>3 DEF SavedConvoId
  <2>5. DOMAIN db' = DOMAIN db /\ db'.posts = db.posts /\ db'.read = db.read /\ db'.links = x
    BY <1>2, <2>4 DEF DbOk
  <2>6. TablesOk(db', chat, clock) /\ Kept(db, db') /\ KeptNull(db, db')
    BY <1>2, <2>1, <2>3, <2>5, TablesLinked
  <2>7. PICK k : k = [j EXCEPT !.pc = "post"]
    OBVIOUS
  <2>8. JobOk(k, db) /\ k.kind = j.kind /\ k.post = j.post
    BY <1>1, <1>2, <2>1, <2>7 DEF JobOk
  <2>9. JobMoves(j)
    BY <1>4, <2>7, <2>8 DEF JobMoves, Proceed
  <2> QED
    BY <1>1, <1>2, <2>5, <2>6, <2>9, JobStepKeeps
<1> QED
  BY <1>3, <1>4 DEF SaveConvoId

LEMMA SendMessageKeeps ==
    ASSUME DmInv, NEW j \in jobs, SendMessage(j)
    PROVE  DmInv'
<1>1. UNCHANGED <<db, calls, todo, events, poll, seen>> /\ j.kind = "send" /\ j.pc = "post"
  BY DEF SendMessage
<1>2. /\ TablesOk(db, chat, clock) /\ Kept(db, db) /\ KeptNull(db, db) /\ Grown(chat, chat)
      /\ JobOk(j, db) /\ DOMAIN j = {"kind", "post", "by", "content", "pc", "convo", "msg", "attempts"}
  BY Nothing, JobIs
<1>3. PICK m : m = Message(j.by, clock + 1, j.post)
  OBVIOUS
<1>4. MessageOk(m) /\ m.at = clock + 1
  BY <1>2, <1>3 DEF MessageOk, Message, TablesOk
<1>5. j.convo \in Actors \X Actors
  BY <1>1, <1>2 DEF JobOk
<1>6. PICK h : h = Appended(j.convo, m)
  OBVIOUS
<1>7. TablesOk(db, h, clock + 1) /\ Grown(chat, h)
  BY <1>2, <1>4, <1>5, <1>6, TablesWritten DEF Appended, Said
<1>8. \/ UNCHANGED <<chat, clock>>
      \/ chat' = h /\ clock' = clock + 1
  BY <1>3, <1>6 DEF SendMessage
<1>9. TablesOk(db, chat', clock') /\ Grown(chat, chat')
  BY <1>2, <1>7, <1>8
<1>10. JobMoves(j)
  <2>1. CASE JobFails(j)
    BY <2>1, FailedJobMoves
  <2>2. CASE Finish(j)
    BY <2>2 DEF Finish, JobMoves
  <2>3. CASE \E x : Proceed(j, [j EXCEPT !.pc = "setid", !.msg = x])
    <3>1. PICK x : Proceed(j, [j EXCEPT !.pc = "setid", !.msg = x])
      BY <2>3
    <3>2. PICK k : k = [j EXCEPT !.pc = "setid", !.msg = x]
      OBVIOUS
    <3>3. JobOk(k, db) /\ k.kind = j.kind /\ k.post = j.post
      BY <1>1, <1>2, <3>2 DEF JobOk
    <3> QED
      BY <3>1, <3>2, <3>3 DEF JobMoves, Proceed
  <2> QED
    BY <2>1, <2>2, <2>3 DEF SendMessage
<1> QED
  BY <1>1, <1>2, <1>9, <1>10, JobStepKeeps

LEMMA SetBskyMessageIdKeeps ==
    ASSUME DmInv, NEW j \in jobs, SetBskyMessageId(j)
    PROVE  DmInv'
<1>1. UNCHANGED <<chat, clock, calls, todo, events, poll, seen>> /\ j.pc = "setid" /\ jobs' = jobs \ {j}
  BY DEF SetBskyMessageId, JobRest, Finish
<1>2. /\ TablesOk(db, chat, clock) /\ DbOk(db, clock) /\ Kept(db, db) /\ KeptNull(db, db) /\ Grown(chat, chat)
      /\ JobOk(j, db) /\ JobsOk(jobs, db)
  BY Nothing, JobIs DEF TablesOk, DmInv
<1>3. CASE UNCHANGED db
  BY <1>1, <1>2, <1>3, JobStepKeeps DEF JobMoves
<1>4. CASE db' = [db EXCEPT !.posts[j.post].msg = j.msg]
  <2>1. j.kind = "send" /\ j.post \in DOMAIN db.posts /\ db.posts[j.post].msg = None
    BY <1>1, <1>2 DEF JobOk
  <2>2. /\ TablesOk(db', chat, clock) /\ Kept(db, db')
        /\ \A q \in DOMAIN db.posts \ {j.post} : q \in DOMAIN db'.posts /\ db'.posts[q] = db.posts[q]
    <3>1. /\ DOMAIN db' = DOMAIN db /\ db'.links = db.links /\ db'.read = db.read
          /\ db'.posts = [db.posts EXCEPT ![j.post] = [@ EXCEPT !.msg = j.msg]]
      BY <1>2, <1>4 DEF DbOk
    <3>2. RowOk(db.posts[j.post])
      BY <1>2, <2>1 DEF DbOk
    <3>3. PICK row : row = [db.posts[j.post] EXCEPT !.msg = j.msg]
      OBVIOUS
    <3>4. RowOk(row)
      BY <3>2, <3>3 DEF RowOk
    <3>5. /\ DOMAIN db'.posts = DOMAIN db.posts /\ db'.posts[j.post] = row
          /\ \A q \in DOMAIN db.posts \ {j.post} : db'.posts[q] = db.posts[q]
      BY <2>1, <3>1, <3>3
    <3> QED
      BY <1>2, <2>1, <3>1, <3>4, <3>5, TablesNamed
  <2>3. JobsOk(jobs \ {j}, db')
    <3>1. ASSUME NEW k \in jobs \ {j} PROVE JobOk(k, db')
      <4>1. k.kind = "send" => k.post # j.post
        BY <1>2, <2>1 DEF JobsOk
      <4> QED
        BY <1>2, <2>2, <4>1 DEF JobsOk, JobOk
    <3> QED
      BY <1>2, <3>1 DEF JobsOk
  <2>4. db'.read = db.read
    BY <1>2, <1>4 DEF DbOk
  <2>5. seen' = db'.read
    BY <1>1, <2>4 DEF DmInv
  <2>6. CallsOk'
    BY <1>1, CallsSame
  <2> QED
    BY <1>1, <1>2, <2>2, <2>3, <2>5, <2>6, StepKeeps
<1> QED
  BY <1>3, <1>4 DEF SetBskyMessageId

LEMMA SendActionKeeps ==
    ASSUME DmInv, NEW j \in jobs, SendAction(j)
    PROVE  DmInv'
<1>1. UNCHANGED <<db, chat, clock, calls, todo, events, poll, seen>> /\ j.kind # "send"
  BY DEF SendAction, JobRest
<1>2. /\ TablesOk(db, chat, clock) /\ Kept(db, db) /\ KeptNull(db, db) /\ Grown(chat, chat)
      /\ JobOk(j, db) /\ DOMAIN j = {"kind", "post", "by", "content", "pc", "convo", "msg", "attempts"}
  BY Nothing, JobIs
<1>3. JobMoves(j)
  <2>1. CASE JobFails(j)
    BY <2>1, FailedJobMoves
  <2>2. CASE Finish(j)
    BY <2>2 DEF Finish, JobMoves
  <2>3. CASE \E x, y : Proceed(j, [j EXCEPT !.pc = "post", !.convo = x, !.msg = y])
    <3>1. PICK x, y : Proceed(j, [j EXCEPT !.pc = "post", !.convo = x, !.msg = y])
      BY <2>3
    <3>2. PICK k : k = [j EXCEPT !.pc = "post", !.convo = x, !.msg = y]
      OBVIOUS
    <3>3. JobOk(k, db) /\ k.kind = j.kind /\ k.post = j.post
      BY <1>1, <1>2, <3>2 DEF JobOk
    <3> QED
      BY <3>1, <3>2, <3>3 DEF JobMoves, Proceed
  <2> QED
    BY <2>1, <2>2, <2>3 DEF SendAction
<1> QED
  BY <1>1, <1>2, <1>3, JobStepKeeps

LEMMA PostActionKeeps ==
    ASSUME DmInv, NEW j \in jobs, PostAction(j)
    PROVE  DmInv'
<1>1. UNCHANGED <<db, clock, calls, todo, events, poll, seen>> /\ j.kind # "send"
  BY DEF PostAction, JobRest
<1>2. /\ TablesOk(db, chat, clock) /\ ChatOk(chat, clock) /\ Kept(db, db) /\ KeptNull(db, db) /\ Grown(chat, chat)
      /\ JobOk(j, db)
  BY Nothing, JobIs DEF TablesOk
<1>3. chat' = chat \/ Edited(chat, chat')
  <2>1. chat' = chat \/ chat' = Done(j)
    BY DEF PostAction
  <2>2. Done(j) = chat \/ Edited(chat, Done(j))
    <3>1. j.kind \in {"add", "remove", "hide"}
      BY <1>1, <1>2 DEF JobOk
    <3>2. \A c, i, R : Edited(chat, Reacted(c, i, R)) /\ Edited(chat, GoneFor(c, i, R))
      BY <1>2, EditedReactions DEF Reacted, GoneFor
    <3>3. CASE j.kind = "add"
      BY <3>2, <3>3 DEF Done
    <3>4. CASE j.kind = "remove"
      BY <3>2, <3>4 DEF Done
    <3>5. CASE j.kind = "hide"
      BY <3>2, <3>5 DEF Done
    <3> QED
      BY <3>1, <3>3, <3>4, <3>5
  <2> QED
    BY <2>1, <2>2
<1>4. TablesOk(db, chat', clock) /\ Grown(chat, chat')
  BY <1>2, <1>3, TablesEdited
<1>5. JobMoves(j)
  BY FailedJobMoves DEF PostAction, Finish, JobMoves
<1> QED
  BY <1>1, <1>2, <1>4, <1>5, JobStepKeeps
LEMMA ChatEventKeeps ==
    ASSUME DmInv, NEW e \in events, ChatEvent(e)
    PROVE  DmInv'
<1>1. UNCHANGED <<db, calls, todo, jobs, poll, seen>> /\ events' = events \ {e}
  BY DEF ChatEvent
<1>2. TablesOk(db, chat, clock) /\ ChatOk(chat, clock) /\ Kept(db, db) /\ KeptNull(db, db) /\ seen = db.read
  BY Nothing DEF TablesOk
<1>3. CallsOk'
  BY <1>1, CallsSame
<1>4. JobsOk(jobs', db')
  BY <1>1 DEF DmInv
<1>5. TablesOk(db, chat', clock') /\ Grown(chat, chat')
  <2>1. CASE chat' = Appended(e.convo, Message(e.by, clock + 1, None)) /\ clock' = clock + 1
    <3>1. e.convo \in Actors \X Actors
      BY DEF DmInv, CallsOk
    <3>2. PICK m : m = Message(e.by, clock + 1, None)
      OBVIOUS
    <3>3. MessageOk(m) /\ m.at = clock + 1
      BY <1>2, <3>2 DEF MessageOk, Message, TablesOk
    <3>4. PICK h : h = Appended(e.convo, m)
      OBVIOUS
    <3>5. TablesOk(db, h, clock + 1) /\ Grown(chat, h)
      BY <1>2, <3>1, <3>3, <3>4, TablesWritten DEF Appended, Said
    <3> QED
      BY <2>1, <3>2, <3>4, <3>5
  <2>2. CASE UNCHANGED clock /\ \E c, i, R : chat' = Reacted(c, i, R)
    <3>0. \A c, i, R : Edited(chat, Reacted(c, i, R))
      BY <1>2, EditedReactions DEF Reacted
    <3>1. Edited(chat, chat')
      BY <2>2, <3>0
    <3> QED
      BY <1>2, <2>2, <3>1, TablesEdited
  <2> QED
    BY <2>1, <2>2 DEF ChatEvent
<1> QED
  BY <1>1, <1>2, <1>3, <1>4, <1>5, StepKeeps

-----------------------------------------------------------------------------
(* The poll *)

LEMMA DownSeq ==
    ASSUME NEW a \in Nat, NEW b \in 0..a
    PROVE  /\ Down(a, b) \in Seq(Nat) /\ Len(Down(a, b)) = a - b /\ DOMAIN Down(a, b) = 1..(a - b)
           /\ \A k \in 1..(a - b) : Down(a, b)[k] = a + 1 - k
<1>1. a - b \in Nat /\ \A k \in 1..(a - b) : a + 1 - k \in Nat
  OBVIOUS
<1>2. PICK n \in Nat : n = a - b
  BY <1>1
<1>3. PICK f : f = [k \in 1..n |-> a + 1 - k]
  OBVIOUS
<1>4. f \in [1..n -> Nat] /\ \A k \in 1..n : f[k] = a + 1 - k
  <2>1. \A k \in 1..n : a + 1 - k \in Nat
    BY ONLY <1>1, <1>2
  <2> QED
    BY ONLY <1>3, <2>1
<1>5. f \in Seq(Nat) /\ Len(f) = n /\ DOMAIN f = 1..n
  BY ONLY <1>2, <1>4
<1>6. f = Down(a, b)
  BY <1>2, <1>3 DEF Down
<1> QED
  BY <1>2, <1>4, <1>5, <1>6

LEMMA DownEmpty ==
    ASSUME NEW a \in Nat
    PROVE  Down(a, a) = <<>>
<1>1. Down(a, a) \in Seq(Nat) /\ Len(Down(a, a)) = 0
  BY DownSeq
<1> QED
  BY <1>1, EmptySeq

LEMMA DownJoin ==
    ASSUME NEW a \in Nat, NEW b \in 0..a, NEW c \in 0..b
    PROVE  Down(a, b) \o Down(b, c) = Down(a, c)
<1>1. /\ Down(a, b) \in Seq(Nat) /\ Len(Down(a, b)) = a - b
      /\ \A k \in 1..(a - b) : Down(a, b)[k] = a + 1 - k
  BY DownSeq
<1>2. /\ Down(b, c) \in Seq(Nat) /\ Len(Down(b, c)) = b - c
      /\ \A k \in 1..(b - c) : Down(b, c)[k] = b + 1 - k
  BY DownSeq
<1>0. c \in 0..a
  OBVIOUS
<1>3. /\ Down(a, c) \in Seq(Nat) /\ Len(Down(a, c)) = a - c
      /\ \A k \in 1..(a - c) : Down(a, c)[k] = a + 1 - k
  BY <1>0, DownSeq
<1>4. PICK s, t, u : s = Down(a, b) /\ t = Down(b, c) /\ u = Down(a, c)
  OBVIOUS
<1>5. /\ s \o t \in Seq(Nat) /\ Len(s \o t) = Len(s) + Len(t)
      /\ \A i \in 1..Len(s) + Len(t) : (s \o t)[i] = IF i <= Len(s) THEN s[i] ELSE t[i - Len(s)]
  BY <1>1, <1>2, <1>4, ConcatProperties
<1>6. Len(s) = a - b /\ Len(t) = b - c /\ Len(u) = a - c
  BY <1>1, <1>2, <1>3, <1>4
<1>7. Len(s \o t) = Len(u)
  BY <1>5, <1>6
<1>8. ASSUME NEW i \in 1..Len(s \o t) PROVE (s \o t)[i] = u[i]
  <2>1. i \in 1..(a - c) /\ u[i] = a + 1 - i
    BY <1>3, <1>4, <1>6, <1>7
  <2>2. CASE i <= a - b
    <3>1. (s \o t)[i] = s[i]
      BY <1>5, <1>6, <2>1, <2>2
    <3>2. s[i] = a + 1 - i
      BY <1>1, <1>4, <2>1, <2>2
    <3> QED
      BY <2>1, <3>1, <3>2
  <2>3. CASE i > a - b
    <3>1. (s \o t)[i] = t[i - (a - b)]
      <4>1. i \in 1..Len(s) + Len(t) /\ ~(i <= Len(s))
        BY <1>6, <2>1, <2>3
      <4>2. (s \o t)[i] = t[i - Len(s)]
        BY <1>5, <4>1
      <4> QED
        BY <1>6, <4>2
    <3>2. i - (a - b) \in 1..(b - c)
      BY <2>1, <2>3
    <3>3. t[i - (a - b)] = b + 1 - (i - (a - b))
      BY <1>2, <1>4, <3>2
    <3> QED
      BY <2>1, <3>1, <3>3
  <2> QED
    BY <2>1, <2>2, <2>3
<1>9. s \o t = u
  BY <1>3, <1>4, <1>5, <1>7, <1>8, SeqEqual
<1> QED
  BY <1>4, <1>9

LEMMA DownPrefix ==
    ASSUME NEW a \in Nat, NEW b \in 0..a, NEW k \in 1..(a - b)
    PROVE  SubSeq(Down(a, b), 1, k - 1) = Down(a, a + 1 - k)
<1>1. \A i \in 1..(a - b) : Down(a, b)[i] \in Nat /\ Down(a, b)[i] = a + 1 - i
  <2>1. \A i \in 1..(a - b) : Down(a, b)[i] = a + 1 - i
    BY DownSeq
  <2>2. \A i \in 1..(a - b) : a + 1 - i \in Nat
    OBVIOUS
  <2> QED
    BY <2>1, <2>2
<1>2. PICK s : s = Down(a, b)
  OBVIOUS
<1>3. PICK n \in Nat : n = k - 1
  OBVIOUS
<1>4. n \in Int /\ 1 \in Int /\ \A i \in 1..n : s[i] \in Nat
  BY <1>1, <1>2, <1>3
<1>5. /\ SubSeq(s, 1, n) \in Seq(Nat) /\ Len(SubSeq(s, 1, n)) = IF 1 <= n THEN n - 1 + 1 ELSE 0
      /\ \A i \in 1..(n - 1 + 1) : SubSeq(s, 1, n)[i] = s[1 + i - 1]
  BY <1>4, SubSeqProperties
<1>6. PICK b2 \in 0..a : b2 = a + 1 - k
  OBVIOUS
<1>7. Down(a, b2) \in Seq(Nat) /\ Len(Down(a, b2)) = a - b2 /\ \A i \in 1..(a - b2) : Down(a, b2)[i] = a + 1 - i
  BY DownSeq
<1>8. Len(SubSeq(s, 1, n)) = n /\ Len(Down(a, b2)) = n
  BY <1>3, <1>5, <1>6, <1>7
<1>9. \A i \in 1..n : SubSeq(s, 1, n)[i] = Down(a, b2)[i]
  <2> SUFFICES ASSUME NEW i \in 1..n PROVE SubSeq(s, 1, n)[i] = Down(a, b2)[i]
    OBVIOUS
  <2>1. i \in 1..(n - 1 + 1) /\ i \in 1..(a - b2) /\ i \in 1..(a - b) /\ 1 + i - 1 = i
    BY <1>3, <1>6
  <2>2. SubSeq(s, 1, n)[i] = s[i]
    BY <1>5, <2>1
  <2> QED
    BY <1>1, <1>2, <1>7, <2>1, <2>2
<1>10. SubSeq(s, 1, n) = Down(a, b2)
  BY <1>5, <1>7, <1>8, <1>9, SeqEqual
<1> QED
  BY <1>2, <1>3, <1>6, <1>10

LEMMA PollStepKeeps ==
    ASSUME DmInv, UNCHANGED <<chat, clock, calls, todo, events, jobs, seen>>,
           TablesOk(db', chat, clock), Kept(db, db'), KeptNull(db, db'), db'.read = db.read, PollOk(poll', db', chat)
    PROVE  DmInv'
<1>1. CallsOk'
  BY CallsSame
<1>2. JobsOk(jobs, db')
  BY JobsKept DEF DmInv
<1> QED
  BY <1>1, <1>2 DEF DmInv
PollFields == {"pc", "left", "convo", "root", "last", "upto", "pages", "news", "fetched"}

LEMMA IdlePoll == DOMAIN Idle = PollFields /\ PollOk(Idle, db, chat)
BY DEF Idle, PollOk, PollFields

LEMMA PollOnceKeeps ==
    ASSUME DmInv, PollOnce
    PROVE  DmInv'
<1>1. UNCHANGED <<db, chat, clock, calls, todo, events, jobs, seen>>
  BY DEF PollOnce, PollRest
<1>2. TablesOk(db, chat, clock) /\ Kept(db, db) /\ KeptNull(db, db)
  BY Nothing
<1>3. PollOk(poll', db, chat)
  BY DEF PollOnce, Idle, PollOk
<1> QED
  BY <1>1, <1>2, <1>3, PollStepKeeps

LEMMA LoadConvoLinkKeeps ==
    ASSUME DmInv, LoadConvoLink
    PROVE  DmInv'
<1>1. UNCHANGED <<db, chat, clock, calls, todo, events, jobs, seen>>
  BY DEF LoadConvoLink, PollRest
<1>2. TablesOk(db, chat, clock) /\ Kept(db, db) /\ KeptNull(db, db) /\ CursorsOk(db, chat) /\ PollOk(poll, db, chat)
  BY Nothing DEF TablesOk, DmInv
<1>3. CASE poll' = Idle
  BY <1>1, <1>2, <1>3, IdlePoll, PollStepKeeps
<1>4. ASSUME NEW c \in poll.left, NEW from, NEW root, NEW last,
             from = [poll EXCEPT !.pc = "fetch", !.left = @ \ {c}, !.convo = c, !.upto = Len(chat[c]),
                                 !.pages = 0, !.news = <<>>, !.fetched = <<>>],
             poll' = [from EXCEPT !.root = root, !.last = last],
             \/ last = None
             \/ \E r \in DOMAIN db.links : last = db.links[r].last
      PROVE  DmInv'
  <2>1. DOMAIN poll' = PollFields /\ poll'.pc = "fetch" /\ poll'.left \subseteq poll.left /\ poll'.convo = c
        /\ poll'.pages = 0 /\ poll'.news = <<>> /\ poll'.last = last
    BY <1>2, <1>4 DEF PollOk, PollFields
  <2>2. last = None \/ \E b \in DOMAIN chat : \E k \in 1..Len(chat[b]) : last = <<b, k>> /\ Covered(db, chat, b, k)
    BY <1>2, <1>4 DEF CursorsOk
  <2>3. PollFetches(poll', db, chat)
    BY <2>1, <2>2 DEF PollFetches
  <2>4. PollOk(poll', db, chat)
    BY <1>2, <1>4, <2>1, <2>3 DEF PollOk, PollFields
  <2> QED
    BY <1>1, <1>2, <2>4, PollStepKeeps
<1>5. ASSUME NEW c \in poll.left, NEW from,
             from = [poll EXCEPT !.pc = "fetch", !.left = @ \ {c}, !.convo = c, !.upto = Len(chat[c]),
                                 !.pages = 0, !.news = <<>>, !.fetched = <<>>],
             \/ poll' = [from EXCEPT !.root = None, !.last = None]
             \/ \E r \in DOMAIN db.links : poll' = [from EXCEPT !.root = r, !.last = db.links[r].last]
      PROVE  DmInv'
  <2>1. CASE poll' = [from EXCEPT !.root = None, !.last = None]
    BY <1>4, <1>5, <2>1
  <2>2. ASSUME NEW r \in DOMAIN db.links, poll' = [from EXCEPT !.root = r, !.last = db.links[r].last]
        PROVE  DmInv'
    <3>1. PICK last : last = db.links[r].last
      OBVIOUS
    <3>2. poll' = [from EXCEPT !.root = r, !.last = last]
      BY <2>2, <3>1
    <3>3. last = None \/ \E x \in DOMAIN db.links : last = db.links[x].last
      BY <3>1
    <3> QED
      BY <1>4, <1>5, <3>2, <3>3, Zenon
  <2> QED
    BY <1>5, <2>1, <2>2
<1> QED
  BY <1>3, <1>5 DEF LoadConvoLink

(* A page of the messages up to the upto-th, fetched after those from hi.    *)
IsPage(hi, upto, m, ids) ==
    /\ m \in 0..upto
    /\ DOMAIN ids = 1..m /\ \A k \in 1..m : ids[k] = upto + 1 - k
    /\ Down(hi, upto) \o ids = Down(hi, upto - m)
    /\ \A k \in 1..m : SubSeq(ids, 1, k - 1) = Down(upto, upto + 1 - k)
LEMMA PageFetched ==
    ASSUME NEW hi \in Nat, NEW upto \in 0..hi, NEW m, m = Smaller(PageSize, upto), NEW ids, ids = PageIds(upto)
    PROVE  IsPage(hi, upto, m, ids)
<1>1. m \in 0..upto
  BY DEF Smaller
<1>2. PICK lo \in 0..upto : lo = upto - m
  BY <1>1
<1>3. upto - lo = m
  BY <1>1, <1>2
<1>4. ids = Down(upto, lo)
  BY <1>3 DEF Down, PageIds
<1>5. Down(hi, upto) \o ids = Down(hi, lo)
  BY <1>4, DownJoin
<1>6. \A k \in 1..m : SubSeq(ids, 1, k - 1) = Down(upto, upto + 1 - k)
  <2>1. \A k \in 1..(upto - lo) : SubSeq(Down(upto, lo), 1, k - 1) = Down(upto, upto + 1 - k)
    BY DownPrefix
  <2> QED
    BY <1>3, <1>4, <2>1
<1>7. DOMAIN ids = 1..m /\ \A k \in 1..m : ids[k] = upto + 1 - k
  BY DEF PageIds
<1> QED
  BY <1>1, <1>2, <1>5, <1>6, <1>7 DEF IsPage

LEMMA FetchConvoMessagesKeeps ==
    ASSUME DmInv, FetchConvoMessages
    PROVE  DmInv'
<1>1. UNCHANGED <<db, chat, clock, calls, todo, events, jobs, seen>> /\ poll.pc = "fetch"
  BY DEF FetchConvoMessages, PollRest
<1>2. TablesOk(db, chat, clock) /\ Kept(db, db) /\ KeptNull(db, db) /\ ChatOk(chat, clock) /\ PollOk(poll, db, chat)
  BY Nothing DEF TablesOk, DmInv
<1>3. poll.convo \in DOMAIN chat /\ PollFetches(poll, db, chat) /\ DOMAIN poll = PollFields
  BY <1>1, <1>2 DEF PollOk, PollFields
<1>4. PICK c \in DOMAIN chat : c = poll.convo
  BY <1>3
<1>5. c \in Actors \X Actors /\ Len(chat[c]) \in Nat
  BY <1>2 DEF ChatOk
<1>6. PICK upto : upto = IF poll.pages = 0 THEN Len(chat[c]) ELSE poll.upto
  OBVIOUS
<1>7. \E hi \in 0..Len(chat[c]) :
         /\ upto \in 0..hi /\ poll.news = Down(hi, upto)
         /\ poll.pages = 0 => hi = Len(chat[c]) /\ upto = hi
  <2>1. CASE poll.pages = 0
    <3>1. poll.news = <<>> /\ upto = Len(chat[c])
      BY <1>3, <1>6, <2>1 DEF PollFetches
    <3>2. Down(upto, upto) = <<>>
      BY <1>5, <3>1, DownEmpty
    <3> QED
      BY <1>5, <3>1, <3>2
  <2>2. CASE poll.pages # 0
    <3>1. PICK hi \in 1..Len(chat[c]) : poll.upto \in 1..(hi - PageSize) /\ poll.news = Down(hi, poll.upto)
      BY <1>3, <1>4, <2>2 DEF PollFetches
    <3>2. hi \in 0..Len(chat[c]) /\ poll.upto \in 0..hi
      BY <1>5, <3>1
    <3> QED
      BY <1>6, <2>2, <3>1, <3>2
  <2> QED
    BY <2>1, <2>2
<1>8. PICK hi \in 0..Len(chat[c]) :
         /\ upto \in 0..hi /\ poll.news = Down(hi, upto)
         /\ poll.pages = 0 => hi = Len(chat[c]) /\ upto = hi
  BY <1>7
<1>9. PICK m : m = Smaller(PageSize, upto)
  OBVIOUS
<1>10. PICK ids : ids = PageIds(upto)
  OBVIOUS
<1>11. hi \in Nat /\ upto \in Nat
  BY <1>5, <1>8
<1>12. /\ m \in 0..upto
       /\ DOMAIN ids = 1..m /\ \A k \in 1..m : ids[k] = upto + 1 - k
       /\ Down(hi, upto) \o ids = Down(hi, upto - m)
       /\ \A k \in 1..m : SubSeq(ids, 1, k - 1) = Down(upto, upto + 1 - k)
  <2>1. IsPage(hi, upto, m, ids)
    BY <1>8, <1>9, <1>10, <1>11, PageFetched
  <2> QED
    BY <2>1 DEF IsPage
<1> DEFINE news == poll.news \o Fresh(ids)
           more == /\ poll.last = None /\ Known(ids) = {} /\ upto > PageSize
                   /\ poll.pages + 1 < MaxPages /\ Len(news) < MaxMessages
<1>13. PICK fetched : poll' = [poll EXCEPT !.news = news, !.fetched = fetched, !.pages = @ + 1,
                                           !.upto = upto - PageSize, !.pc = IF more THEN "fetch" ELSE "sync"]
  BY <1>4, <1>6, <1>10, Zenon DEF FetchConvoMessages
<1>14. /\ DOMAIN poll' = PollFields /\ poll'.pc = (IF more THEN "fetch" ELSE "sync") /\ poll'.left = poll.left
       /\ poll'.convo = c /\ poll'.last = poll.last /\ poll'.pages = poll.pages + 1 /\ poll'.news = news
       /\ poll'.upto = upto - PageSize
  <2> HIDE DEF news, more
  <2> QED
    BY <1>3, <1>4, <1>13 DEF PollFields
<1>15. ASSUME Known(ids) # {}
       PROVE  poll'.pc = "sync" /\ PollImports(poll', db, chat)
  <2>1. ~more
    BY <1>15
  <2>2. PICK K : K = CHOOSE k \in Known(ids) : TRUE
    OBVIOUS
  <2>3. K \in 1..m /\ poll.last = <<c, ids[K]>>
    BY <1>4, <1>12, <1>15, <2>2 DEF Known
  <2>4. PICK lo : lo = upto + 1 - K
    OBVIOUS
  <2>5. lo \in 1..upto /\ ids[K] = lo
    BY <1>11, <1>12, <2>3, <2>4
  <2>6. poll.last # None
    BY <1>5, <1>11, <2>3, <2>5
  <2>7. poll.pages = 0
    BY <1>3, <2>6 DEF PollFetches
  <2>8. hi = Len(chat[c]) /\ upto = hi /\ poll.news = <<>>
    BY <1>3, <1>8, <2>7 DEF PollFetches
  <2>9. Fresh(ids) = Down(upto, lo)
    <3>1. Fresh(ids) = SubSeq(ids, 1, K - 1)
      BY <1>15, <2>2 DEF Fresh
    <3> QED
      BY <1>12, <2>3, <2>4, <3>1
  <2>10. news = Down(hi, lo)
    <3>1. <<>> \o Down(upto, lo) = Down(upto, lo)
      <4>1. Down(upto, lo) \in Seq(Nat)
        BY <1>11, <2>5, DownSeq
      <4> QED
        BY <4>1, ConcatEmptySeq
    <3> QED
      BY <2>8, <2>9, <3>1
  <2>11. Covered(db, chat, c, lo)
    BY <1>3, <2>3, <2>5, <2>6 DEF PollFetches
  <2>12. lo \in 0..hi
    BY <1>11, <2>5, <2>8
  <2> HIDE DEF more, news
  <2> QED
    BY <1>14, <2>1, <2>10, <2>11, <2>12 DEF PollImports
<1>16. ASSUME Known(ids) = {}
       PROVE  news = Down(hi, upto - m)
  <2>1. Fresh(ids) = ids
    BY <1>16 DEF Fresh
  <2> QED
    BY <1>8, <1>12, <2>1
<1>17. ASSUME Known(ids) = {}, more
       PROVE  poll'.pc = "fetch" /\ PollFetches(poll', db, chat)
  <2>1. poll.last = None /\ upto > PageSize
    BY <1>17
  <2>2. m = PageSize
    BY <1>9, <1>11, <2>1 DEF Smaller
  <2>3. news = Down(hi, upto - PageSize)
    BY <1>16, <1>17, <2>2
  <2>4. upto - PageSize \in 1..(hi - PageSize) /\ hi \in 1..Len(chat[c])
    BY <1>8, <1>11, <2>1
  <2>5. poll.pages + 1 \in Nat /\ poll.pages + 1 # 0
    BY <1>3 DEF PollFetches
  <2>6. poll'.pc = "fetch"
    BY <1>14, <1>17
  <2>7. poll'.last = None /\ poll'.pages \in Nat /\ poll'.pages # 0 /\ poll'.upto \in 1..(hi - PageSize)
        /\ poll'.news = Down(hi, poll'.upto) /\ poll'.convo = c
    <3> HIDE DEF news, more
    <3> QED
      BY <1>14, <2>1, <2>3, <2>4, <2>5
  <2>8. PollFetches(poll', db, chat)
    BY <2>4, <2>7 DEF PollFetches
  <2> QED
    BY <2>6, <2>8
<1>18. ASSUME Known(ids) = {}, ~more
       PROVE  poll'.pc = "sync" /\ PollImports(poll', db, chat)
  <2>1. PICK lo \in 0..upto : lo = upto - m
    BY <1>11, <1>12
  <2>2. news = Down(hi, lo)
    BY <1>16, <1>18, <2>1
  <2>3. lo \in 0..hi /\ lo \in 0..Len(chat[c])
    BY <1>5, <1>8, <1>11, <2>1
  <2>4. \A i \in 1..lo : Len(chat[c]) - i >= PageSize
    BY <1>5, <1>8, <1>9, <1>11, <2>1 DEF Smaller
  <2>5. \A i \in 1..lo : ~(Len(chat[c]) - i < PageSize)
    BY <1>5, <2>1, <2>4
  <2>6. Covered(db, chat, c, lo)
    BY <2>3, <2>5 DEF Covered
  <2>7. poll'.pc = "sync"
    BY <1>14, <1>18
  <2>8. poll'.news = Down(hi, lo) /\ poll'.convo = c
    BY <1>14, <2>2
  <2> QED
    BY <2>3, <2>6, <2>7, <2>8 DEF PollImports
<1> HIDE DEF more, news
<1>19. PollOk(poll', db, chat)
  <2>1. poll.left \subseteq DOMAIN chat
    BY <1>2 DEF PollOk
  <2>2. \/ poll'.pc = "fetch" /\ PollFetches(poll', db, chat)
        \/ poll'.pc = "sync" /\ PollImports(poll', db, chat)
    BY <1>15, <1>17, <1>18
  <2> QED
    BY <1>14, <2>1, <2>2 DEF PollOk, PollFields
<1> QED
  BY <1>1, <1>2, <1>19, PollStepKeeps
LEMMA SyncMessageReactionsKeeps ==
    ASSUME DmInv, SyncMessageReactions
    PROVE  DmInv'
<1>1. UNCHANGED <<chat, clock, calls, todo, events, jobs, seen>> /\ poll.pc = "sync"
  BY DEF SyncMessageReactions, PollRest
<1>2. TablesOk(db, chat, clock) /\ DbOk(db, clock) /\ PollOk(poll, db, chat)
  BY DEF DmInv, TablesOk
<1>3. poll.convo \in DOMAIN chat /\ PollImports(poll, db, chat) /\ DOMAIN poll = PollFields /\ poll.left \subseteq DOMAIN chat
  BY <1>1, <1>2 DEF PollOk, PollFields
<1>4. db' = db \/ \E x : db' = [db EXCEPT !.reactions = x]
  BY DEF SyncMessageReactions, SyncBskyReactions
<1>5. DOMAIN db' = DOMAIN db /\ db'.posts = db.posts /\ db'.links = db.links /\ db'.read = db.read
  BY <1>2, <1>4 DEF DbOk
<1>6. TablesOk(db', chat, clock) /\ Kept(db, db') /\ KeptNull(db, db')
  BY <1>2, <1>5, TablesSame
<1>7. (\E x : poll' = [poll EXCEPT !.fetched = x]) \/ poll' = [poll EXCEPT !.pc = "import"]
  BY DEF SyncMessageReactions
<1>8. /\ DOMAIN poll' = PollFields /\ poll'.pc \in {"sync", "import"}
      /\ poll'.convo = poll.convo /\ poll'.news = poll.news /\ poll'.left = poll.left
  BY <1>1, <1>3, <1>7 DEF PollFields
<1>9. PollOk(poll', db, chat)
  BY <1>3, <1>8 DEF PollOk, PollImports, PollFields
<1>10. PollOk(poll', db', chat)
  BY <1>2, <1>6, <1>9, GrownSame, PollKept DEF TablesOk
<1> QED
  BY <1>1, <1>5, <1>6, <1>10, PollStepKeeps

(* What the transaction of import_bsky_dm leaves, its cursor apart.          *)
LEMMA ImportedPost ==
    ASSUME DmInv, NEW c \in DOMAIN chat, NEW i \in 1..Len(chat[c]), NEW candidate
    PROVE  \E d, root : /\ ImportBskyDm(c, <<c, i>>, chat[c][i].at, candidate).db = AdvancedConvoCursor(d, root, c, <<c, i>>)
                        /\ TablesOk(d, chat, clock) /\ Kept(db, d) /\ KeptNull(db, d) /\ Imported(d, c, i)
                        /\ d.read = db.read
<1>1. TablesOk(db, chat, clock) /\ DbOk(db, clock) /\ ChatOk(chat, clock)
  BY DEF DmInv, TablesOk
<1>2. c \in Actors \X Actors
  BY <1>1 DEF ChatOk
<1>3. PICK at : at = chat[c][i].at
  OBVIOUS
<1>4. PICK known : known = PostIdByBskyMessageId(<<c, i>>)
  OBVIOUS
<1>5. PICK id : id = IF known = {} THEN at ELSE CHOOSE p \in known : TRUE
  OBVIOUS
<1>6. PICK fresh : fresh = DmPost(c[2], None, {}, candidate, <<c, i>>)
  OBVIOUS
<1>7. RowOk(fresh) /\ fresh.msg = <<c, i>>
  BY <1>6 DEF RowOk, DmPost
<1>8. PICK inserted : inserted = IF known = {} THEN [db EXCEPT !.posts = Put(@, id, fresh)] ELSE db
  OBVIOUS
<1>9. PICK d : d = [inserted EXCEPT !.posts[id].to = @ \cup {c[1]}]
  OBVIOUS
<1>10. \E root : ImportBskyDm(c, <<c, i>>, at, candidate).db = AdvancedConvoCursor(d, root, c, <<c, i>>)
  BY <1>4, <1>5, <1>6, <1>8, <1>9 DEF ImportBskyDm
<1>11. /\ DOMAIN inserted = DOMAIN db /\ inserted.links = db.links /\ inserted.read = db.read
       /\ DOMAIN inserted.posts = DOMAIN db.posts \cup {id}
       /\ \A p \in DOMAIN db.posts \ {id} : inserted.posts[p] = db.posts[p]
       /\ RowOk(inserted.posts[id]) /\ inserted.posts[id].msg = <<c, i>>
  <2>1. CASE known = {}
    <3>1. /\ DOMAIN inserted = DOMAIN db /\ inserted.links = db.links /\ inserted.read = db.read
          /\ inserted.posts = Put(db.posts, id, fresh)
      BY <1>1, <1>8, <2>1 DEF DbOk
    <3> QED
      BY <1>7, <3>1 DEF Put
  <2>2. CASE known # {}
    <3>1. id \in DOMAIN db.posts /\ db.posts[id].msg = <<c, i>>
      BY <1>4, <1>5, <2>2 DEF PostIdByBskyMessageId, Row
    <3> QED
      BY <1>1, <1>8, <2>2, <3>1 DEF DbOk
  <2> QED
    BY <2>1, <2>2
<1>12. PICK row : row = [inserted.posts[id] EXCEPT !.to = @ \cup {c[1]}]
  OBVIOUS
<1>13. RowOk(row) /\ row.msg = <<c, i>>
  <2>1. c[1] \in Actors
    BY <1>2
  <2> QED
    BY <1>11, <1>12, <2>1 DEF RowOk
<1>14. /\ DOMAIN d = DOMAIN db /\ d.links = db.links /\ d.read = db.read
       /\ d.posts = [inserted.posts EXCEPT ![id] = row]
  BY <1>1, <1>9, <1>11, <1>12 DEF DbOk
<1>15. /\ DOMAIN d.posts = DOMAIN db.posts \cup {id} /\ d.posts[id] = row
       /\ \A p \in DOMAIN db.posts \ {id} : d.posts[p] = db.posts[p]
  BY <1>11, <1>14
<1>16. \/ id = chat[c][i].at /\ ~Imported(db, c, i)
       \/ id \in DOMAIN db.posts /\ db.posts[id].msg = <<c, i>>
  BY <1>3, <1>4, <1>5 DEF PostIdByBskyMessageId, Imported, Row
<1>17. TablesOk(d, chat, clock) /\ Kept(db, d) /\ KeptNull(db, d) /\ Imported(d, c, i)
  BY <1>1, <1>13, <1>14, <1>15, <1>16, TablesImported
<1> QED
  BY <1>3, <1>10, <1>14, <1>17

LEMMA ImportMessageKeeps ==
    ASSUME DmInv, ImportMessage
    PROVE  DmInv'
<1>1. UNCHANGED <<chat, clock, calls, todo, events, jobs, seen>> /\ poll.pc = "import"
  BY DEF ImportMessage, PollRest
<1>2. TablesOk(db, chat, clock) /\ DbOk(db, clock) /\ ChatOk(chat, clock) /\ PollOk(poll, db, chat) /\ Kept(db, db) /\ KeptNull(db, db)
  BY Nothing DEF DmInv, TablesOk
<1>3. PollImports(poll, db, chat) /\ DOMAIN poll = PollFields /\ poll.left \subseteq DOMAIN chat
  BY <1>1, <1>2 DEF PollOk, PollFields
<1>4. PICK c \in DOMAIN chat : c = poll.convo
  BY <1>1, <1>2 DEF PollOk
<1>5. c \in Actors \X Actors /\ Len(chat[c]) \in Nat
  BY <1>2 DEF ChatOk
<1>6. PICK hi \in 0..Len(chat[c]) : \E lo \in 0..hi : poll.news = Down(hi, lo) /\ Covered(db, chat, c, lo)
  BY <1>3, <1>4 DEF PollImports
<1>7. PICK lo \in 0..hi : poll.news = Down(hi, lo) /\ Covered(db, chat, c, lo)
  BY <1>6
<1>8. hi \in Nat /\ lo \in Nat
  BY <1>5
<1>9. CASE poll.news = <<>>
  <2>1. db' = db /\ poll' = [poll EXCEPT !.pc = "convo"]
    BY <1>9 DEF ImportMessage
  <2>2. PollOk(poll', db, chat)
    BY <1>3, <2>1 DEF PollOk, PollFields
  <2> QED
    BY <1>1, <1>2, <2>1, <2>2, PollStepKeeps
<1>10. CASE poll.news # <<>>
  <2>1. hi # lo
    BY <1>7, <1>8, <1>10, DownEmpty
  <2>2. PICK i \in 1..Len(chat[c]) : i = lo + 1
    BY <1>5, <1>8, <2>1
  <2>3. Len(poll.news) = hi - lo /\ hi - lo \in 1..(hi - lo) /\ poll.news[hi - lo] = i
    <3>1. hi - lo \in 1..(hi - lo) /\ hi + 1 - (hi - lo) = i
      BY <1>8, <2>1, <2>2
    <3>2. Len(Down(hi, lo)) = hi - lo /\ Down(hi, lo)[hi - lo] = hi + 1 - (hi - lo)
      BY <1>8, <3>1, DownSeq
    <3> QED
      BY <1>7, <3>1, <3>2
  <2>4. NextMessage(poll.news).id = i
    BY <2>3 DEF NextMessage
  <2>5. NextMessage(poll.news).rest = Down(hi, i)
    <3>1. SubSeq(Down(hi, lo), 1, (hi - lo) - 1) = Down(hi, hi + 1 - (hi - lo))
      BY <1>8, <2>3, DownPrefix
    <3>2. hi + 1 - (hi - lo) = i
      BY <1>8, <2>2
    <3> QED
      BY <1>7, <2>3, <3>1, <3>2 DEF NextMessage
  <2>6. i \in 0..hi /\ \A k \in 1..i : k \in 1..lo \/ k = i
    BY <1>8, <2>1, <2>2
(* The poller goes on with what is left, whatever it knows of the thread.      *)
  <2>7. ASSUME Covered(db', chat, c, i), \E root : poll' = [poll EXCEPT !.news = Down(hi, i), !.root = root]
        PROVE  PollOk(poll', db', chat)
    <3>1. /\ DOMAIN poll' = PollFields /\ poll'.pc = "import" /\ poll'.left = poll.left
          /\ poll'.convo = c /\ poll'.news = Down(hi, i)
      BY <1>1, <1>3, <1>4, <2>7 DEF PollFields
    <3> QED
      BY <1>3, <2>6, <2>7, <3>1 DEF PollOk, PollImports, PollFields
  <2>8. CASE /\ chat[c][i].from = c[1]
             /\ db' = IF poll.root = None THEN db ELSE AdvancedConvoCursor(db, poll.root, c, <<c, i>>)
             /\ poll' = [poll EXCEPT !.news = NextMessage(poll.news).rest]
    <3>1. Covered(db, chat, c, i)
      BY <1>7, <2>6, <2>8 DEF Covered
    <3>2. TablesOk(db', chat, clock) /\ Kept(db, db') /\ KeptNull(db, db')
      <4>1. PICK e : e = AdvancedConvoCursor(db, poll.root, c, <<c, i>>)
        OBVIOUS
      <4>2. TablesOk(e, chat, clock) /\ Kept(db, e) /\ KeptNull(db, e)
        BY <1>2, <1>5, <3>1, <4>1, TablesAdvanced
      <4> QED
        BY <1>2, <2>8, <4>1, <4>2
    <3>3. db'.read = db.read
      BY <1>2, <2>8 DEF AdvancedConvoCursor, DbOk
    <3>4. Covered(db', chat, c, i)
      BY <1>2, <3>1, <3>2, GrownSame, CoveredKept
    <3>5. poll' = [poll EXCEPT !.news = Down(hi, i), !.root = poll.root]
      BY <1>3, <2>5, <2>8 DEF PollFields
    <3>6. PollOk(poll', db', chat)
      BY <2>7, <3>4, <3>5
    <3> QED
      BY <1>1, <3>2, <3>3, <3>6, PollStepKeeps
  <2>9. ASSUME NEW candidate, NEW imported,
               imported = ImportBskyDm(c, <<c, i>>, chat[c][i].at, candidate), db' = imported.db,
               poll' = [poll EXCEPT !.news = NextMessage(poll.news).rest, !.root = imported.root]
        PROVE  DmInv'
    <3>1. PICK d, root : /\ imported.db = AdvancedConvoCursor(d, root, c, <<c, i>>)
                         /\ TablesOk(d, chat, clock) /\ Kept(db, d) /\ KeptNull(db, d) /\ Imported(d, c, i)
                         /\ d.read = db.read
      BY <2>9, ImportedPost
    <3>2. Covered(d, chat, c, lo)
      BY <1>2, <1>7, <3>1, GrownSame, CoveredKept
    <3>3. Covered(d, chat, c, i)
      BY <2>6, <3>1, <3>2 DEF Covered
    <3>4. PICK e : e = AdvancedConvoCursor(d, root, c, <<c, i>>)
      OBVIOUS
    <3>5. TablesOk(e, chat, clock) /\ Kept(d, e) /\ KeptNull(d, e)
      BY <1>5, <3>1, <3>3, <3>4, TablesAdvanced
    <3>6. db' = e
      BY <2>9, <3>1, <3>4
    <3>7. Kept(db, e) /\ KeptNull(db, e)
      BY <3>1, <3>5 DEF Kept, KeptNull
    <3>8. e.read = db.read
      BY <3>1, <3>4 DEF AdvancedConvoCursor, TablesOk, DbOk
    <3>9. Covered(e, chat, c, i)
      BY <1>2, <3>3, <3>5, GrownSame, CoveredKept
    <3>10. poll' = [poll EXCEPT !.news = Down(hi, i), !.root = imported.root]
      BY <2>5, <2>9
    <3>11. PollOk(poll', db', chat)
      BY <2>7, <3>6, <3>9, <3>10
    <3> QED
      BY <1>1, <3>5, <3>6, <3>7, <3>8, <3>11, PollStepKeeps
  <2>10. PICK candidate : candidate = IF poll.root = None THEN chat[c][i].at ELSE poll.root
    OBVIOUS
  <2>11. PICK imported : imported = ImportBskyDm(c, <<c, i>>, chat[c][i].at, candidate)
    OBVIOUS
  <2>12. \/ /\ chat[c][i].from = c[1]
            /\ db' = IF poll.root = None THEN db ELSE AdvancedConvoCursor(db, poll.root, c, <<c, i>>)
            /\ poll' = [poll EXCEPT !.news = NextMessage(poll.news).rest]
         \/ /\ db' = imported.db
            /\ poll' = [poll EXCEPT !.news = NextMessage(poll.news).rest, !.root = imported.root]
    BY <1>4, <1>10, <2>4, <2>10, <2>11 DEF ImportMessage
  <2> QED
    BY <2>8, <2>9, <2>11, <2>12
<1> QED
  BY <1>9, <1>10

LEMMA PollFailsKeeps ==
    ASSUME DmInv, PollFails
    PROVE  DmInv'
<1>1. UNCHANGED <<db, chat, clock, calls, todo, events, jobs, seen>>
  BY DEF PollFails, PollRest
<1>2. TablesOk(db, chat, clock) /\ PollOk(poll, db, chat) /\ Kept(db, db) /\ KeptNull(db, db)
  BY Nothing DEF DmInv
<1>3. CASE poll' = [poll EXCEPT !.pc = "convo"]
  <2>1. PollOk(poll', db, chat)
    BY <1>2, <1>3 DEF PollOk
  <2> QED
    BY <1>1, <1>2, <2>1, PollStepKeeps
<1>4. CASE poll.pc = "sync" /\ poll' = [poll EXCEPT !.pc = "import", !.fetched = <<>>]
  <2>1. PollOk(poll', db, chat)
    BY <1>2, <1>4 DEF PollOk, PollImports
  <2> QED
    BY <1>1, <1>2, <2>1, PollStepKeeps
<1> QED
  BY <1>3, <1>4 DEF PollFails
-----------------------------------------------------------------------------
(* The invariant and what follows. *)

LEMMA InitDmInv == DmInit => DmInv
<1> SUFFICES ASSUME NEW script \in Scripts, DmInitWith(script) PROVE DmInv
  BY DEF DmInit
<1>1. /\ script.clock \in Nat
      /\ DbOk(script.db, script.clock) /\ ChatOk(script.chat, script.clock)
      /\ CursorsOk(script.db, script.chat) /\ SnowflakesOk(script.db, script.chat)
      /\ \A r \in script.requests : RequestOk(r)
      /\ \A e \in script.events : e.convo \in Actors \X Actors
  BY ScriptsAssumption
<1>2. TablesOk(db, chat, clock)
  BY <1>1 DEF DmInitWith, TablesOk
<1>3. CallsOk
  BY <1>1, EndOk DEF DmInitWith, CallsOk
<1>4. JobsOk(jobs, db)
  BY DEF DmInitWith, JobsOk
<1>5. PollOk(poll, db, chat)
  BY IdlePoll DEF DmInitWith
<1> QED
  BY <1>2, <1>3, <1>4, <1>5 DEF DmInitWith, DmInv

LEMMA NextDmInv == DmInv /\ [DmNext]_dmVars => DmInv'
<1> SUFFICES ASSUME DmInv, [DmNext]_dmVars PROVE DmInv'
  OBVIOUS
<1>1. ASSUME NEW s \in Calls, CallStep(s) PROVE DmInv'
  BY <1>1, StartKeeps, SendDmKeeps, ReactionCallsKeep, ReadLatestKeeps, MarkReadKeeps DEF CallStep
<1>2. ASSUME NEW j \in jobs, JobStep(j) PROVE DmInv'
  BY <1>2, ResolveConvoIdKeeps, SaveConvoIdKeeps, SendMessageKeeps, SetBskyMessageIdKeeps, SendActionKeeps, PostActionKeeps
     DEF JobStep
<1>3. ASSUME NEW e \in events, ChatEvent(e) PROVE DmInv'
  BY <1>3, ChatEventKeeps
<1>4. CASE PollStep
  BY <1>4, PollOnceKeeps, LoadConvoLinkKeeps, FetchConvoMessagesKeeps, SyncMessageReactionsKeeps, ImportMessageKeeps DEF PollStep
<1>5. CASE PollFails
  BY <1>5, PollFailsKeeps
<1>6. CASE UNCHANGED dmVars
  BY <1>6 DEF dmVars, DmInv, TablesOk, CallsOk
<1> QED
  BY <1>1, <1>2, <1>3, <1>4, <1>5, <1>6 DEF DmNext

LEMMA CursorsSkipNothing == DmInv => NothingSkipped
<1> SUFFICES ASSUME DmInv, NEW c \in DOMAIN chat, NEW i \in DOMAIN chat[c], Received(c, i), Newer(c, i) < PageSize, Synced(c, i)
             PROVE  PostIdByBskyMessageId(<<c, i>>) # {}
  BY DEF NothingSkipped
<1>1. CursorsOk(db, chat) /\ ChatOk(chat, clock)
  BY DEF DmInv, TablesOk
<1>2. Len(chat[c]) \in Nat /\ i \in 1..Len(chat[c])
  BY <1>1 DEF ChatOk
<1>3. PICK r \in DOMAIN db.links : db.links[r].last # None /\ db.links[r].last[1] = c /\ db.links[r].last[2] >= i
  BY DEF Synced
<1>4. PICK b \in DOMAIN chat : \E k \in 1..Len(chat[b]) : db.links[r].last = <<b, k>> /\ Covered(db, chat, b, k)
  BY <1>1, <1>3 DEF CursorsOk
<1>5. PICK k \in 1..Len(chat[b]) : db.links[r].last = <<b, k>> /\ Covered(db, chat, b, k)
  BY <1>4
<1>6. b = c /\ k >= i /\ i \in 1..k
  BY <1>2, <1>3, <1>5
<1>7. Imported(db, c, i)
  BY <1>5, <1>6 DEF Covered, Received, Newer
<1> QED
  BY <1>7 DEF Imported, PostIdByBskyMessageId, Row

LEMMA MarksAreExact == DmInv => UnreadExact
<1> SUFFICES ASSUME DmInv, NEW a \in Local
             PROVE  /\ UnreadSessions(a) = {r \in Sessions(a) : \E p \in InThread(r) : a \in Row(p).to /\ p > Seen(a, r)}
                    /\ UnreadSessions(a) \subseteq FlaggedUnread(a)
  BY DEF UnreadExact
<1>1. \A r : ReadState(a, r) = Seen(a, r)
  BY DEF ReadState, Seen, DmInv
<1>2. UnreadSessions(a) = {r \in Sessions(a) : \E p \in InThread(r) : a \in Row(p).to /\ p > Seen(a, r)}
  BY <1>1 DEF UnreadSessions, ReceivedUnread
<1>3. ASSUME NEW r \in UnreadSessions(a) PROVE r \in FlaggedUnread(a)
  <2>1. PICK p \in InThread(r) : p > ReadState(a, r)
    BY <1>3 DEF UnreadSessions, ReceivedUnread
  <2>2. LatestPostId(r) \in Nat /\ p \in Nat /\ p =< LatestPostId(r)
    BY <2>1, NewestPost
  <2>3. ReadState(a, r) \in Nat
    BY DEF ReadState, DmInv, TablesOk, DbOk
  <2>4. LatestPostId(r) > ReadState(a, r)
    BY <2>1, <2>2, <2>3
  <2> QED
    BY <1>3, <2>4 DEF UnreadSessions, FlaggedUnread
<1> QED
  BY <1>2, <1>3

(* No message of a page is behind the cursor of its conversation without    *)
(* being a post, and the unread count is exact.                              *)
THEOREM DmSafeAlways == DmSpec => []DmSafe
<1>1. DmSpec => []DmInv
  BY InitDmInv, NextDmInv, PTL DEF DmSpec
<1>2. DmInv => DmSafe
  BY CursorsSkipNothing, MarksAreExact DEF DmSafe
<1> QED
  BY <1>1, <1>2, PTL
=============================================================================

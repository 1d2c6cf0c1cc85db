----------------------- MODULE DeferredCommitProofs -----------------------
(***************************************************************************)
(* Theorems about DeferredCommit for any number of copies of the job, any  *)
(* number of attempts, retry delays and time limit, and any number of      *)
(* errors, deaths and restarts.                                            *)
(***************************************************************************)
EXTENDS DeferredCommit, TLAPS

Assumptions == AttemptsAssumption /\ DelaysAssumption /\ TimeoutAssumption

Places == {"unused", "queued", "read", "commit", "clear", "update", "unlock", "ended", "discarded", "lost"}

Types ==
    /\ monolith \in BOOLEAN /\ now \in Nat /\ polls \in Int
    /\ video \in {"pending", "ready", "failed"}
    /\ pending \in BOOLEAN /\ marked \in BOOLEAN /\ commits \in Nat
    /\ api \in {"post", "pending", "enqueue", "idle"}
    /\ pc \in [Copies -> Places]
    /\ attempt \in [Copies -> Nat] /\ due \in [Copies -> Nat]
    /\ embed \in [Copies -> {"none", "video", "card"}]
    /\ result \in [Copies -> {"ok", "err"}]
    /\ lock \subseteq Copies
    /\ faults \in Nat /\ restarts \in Nat

(* The copy that holds the lock is at work.                                *)
Held == \A c \in lock : pc[c] \in Locked

(* What follows the commit follows it.                                     *)
Done == \A c \in Copies :
    pc[c] \in {"clear", "update"} \/ (pc[c] = "unlock" /\ result[c] = "ok") => commits > 0

(* The mark stays until the commit, and comes before the first copy.       *)
MarkKept == marked /\ commits = 0 => pending
Started == api = "enqueue" \/ \E c \in Copies : pc[c] # "unused"
MarkFirst == commits = 0 /\ Interruptions = 0 /\ Started => marked

(* An attempt that is under way has waited for the ones before it.         *)
Shortest(d) == \A e \in RetryDelays : d =< e
Waited(c) ==
    /\ attempt[c] < MaxAttempts
    /\ pc[c] = "unused" => attempt[c] = 0
    /\ pc[c] \in Locked => due[c] =< now
    /\ \A d \in RetryDelays : Shortest(d) => due[c] >= attempt[c] * d \/ due[c] >= MaxTime
AllWaited == \A c \in Copies : Waited(c)

(* Without the mark, no copy fails its last attempt but by running out of  *)
(* time, and one of them carries the post on.                              *)
LastAttempt == commits = 0 /\ Interruptions =< 1 /\ ~marked /\ WaitsOutlast =>
    \A c \in Copies : pc[c] = "unlock" /\ result[c] = "err" => attempt[c] + 1 < MaxAttempts
Carried == commits = 0 /\ Interruptions = 1 /\ ~marked /\ (\E c \in Copies : pc[c] # "unused") =>
    (\E c \in Copies : pc[c] \in Alive) \/ RanOut

(* A card is only chosen once the video has settled or the time is up.     *)
CardInTime == \A c \in Copies :
    pc[c] = "commit" /\ embed[c] = "card" => video # "pending" \/ now >= SettleTimeout

IInv ==
    /\ Types /\ Held /\ Done /\ MarkKept /\ MarkFirst
    /\ AllWaited /\ LastAttempt /\ Carried /\ CardInTime

-----------------------------------------------------------------------------
LEMMA InitIInv == ASSUME Assumptions, Init PROVE IInv
<1> USE DEF Init, Assumptions, AttemptsAssumption, DelaysAssumption, TimeoutAssumption
<1>1. Types
  <2>1. monolith \in BOOLEAN /\ pending \in BOOLEAN /\ marked \in BOOLEAN
    OBVIOUS
  <2>2. now \in Nat /\ polls \in Int /\ commits \in Nat /\ faults \in Nat /\ restarts \in Nat
    OBVIOUS
  <2>3. pc \in [Copies -> Places] /\ attempt \in [Copies -> Nat] /\ due \in [Copies -> Nat]
    BY DEF Places
  <2> QED
    BY <2>1, <2>2, <2>3 DEF Types
<1>4. Held /\ Done /\ MarkKept /\ MarkFirst
  BY DEF Held, Done, MarkKept, MarkFirst, Started
<1>2. AllWaited
  BY DEF AllWaited, Waited, Locked
<1>3. LastAttempt /\ Carried /\ CardInTime
  BY DEF LastAttempt, Carried, CardInTime
<1> QED
  BY <1>1, <1>2, <1>3, <1>4 DEF IInv

LEMMA TickIInv ==
    ASSUME Assumptions, IInv, Tick
    PROVE  IInv'
<1> USE DEF Tick, Goto, Fault, post, copy, After
<1>0. Types
  BY DEF IInv
<1>1. Types'
  BY <1>0 DEF Types, Places, Assumptions, DelaysAssumption, TimeoutAssumption
<1>2. Held'
  BY <1>0 DEF IInv, Types, Held, Locked
<1>3. Done'
  BY <1>0 DEF IInv, Types, Done
<1>4. MarkKept'
  BY <1>0 DEF IInv, Types, MarkKept
<1>5. MarkFirst'
  BY <1>0 DEF IInv, Types, MarkFirst, Started, Interruptions
<1>6. AllWaited'
  BY <1>0 DEF IInv, Types, AllWaited, Waited, Locked, Types
<1>7. LastAttempt'
  BY <1>0 DEF IInv, Types, LastAttempt, Interruptions
<1>8. Carried'
  BY <1>0 DEF IInv, Types, Carried, RanOut, Alive, Locked, Interruptions
<1>9. CardInTime'
  BY <1>0 DEF IInv, Types, CardInTime, Assumptions, TimeoutAssumption
<1> QED
  BY <1>1, <1>2, <1>3, <1>4, <1>5, <1>6, <1>7, <1>8, <1>9 DEF IInv

LEMMA DeferIInv ==
    ASSUME Assumptions, IInv, Defer
    PROVE  IInv'
<1> USE DEF Defer, Goto, Fault, post, copy, After
<1>0. Types
  BY DEF IInv
<1>1. Types'
  BY <1>0 DEF Types, Places, Assumptions, DelaysAssumption, TimeoutAssumption
<1>2. Held'
  BY <1>0 DEF IInv, Types, Held, Locked
<1>3. Done'
  BY <1>0 DEF IInv, Types, Done
<1>4. MarkKept'
  BY <1>0 DEF IInv, Types, MarkKept
<1>5. MarkFirst'
  BY <1>0 DEF IInv, Types, MarkFirst, Started, Interruptions
<1>6. AllWaited'
  BY <1>0 DEF IInv, Types, AllWaited, Waited, Locked, Types
<1>7. LastAttempt'
  BY <1>0 DEF IInv, Types, LastAttempt, Interruptions
<1>8. Carried'
  BY <1>0 DEF IInv, Types, Carried, RanOut, Alive, Locked, Interruptions
<1>9. CardInTime'
  BY <1>0 DEF IInv, Types, CardInTime
<1> QED
  BY <1>1, <1>2, <1>3, <1>4, <1>5, <1>6, <1>7, <1>8, <1>9 DEF IInv

LEMMA SetPendingIInv ==
    ASSUME Assumptions, IInv, SetPending
    PROVE  IInv'
<1> USE DEF SetPending, Goto, Fault, post, copy, After
<1>0. Types
  BY DEF IInv
<1>1. Types'
  <2>1. pending' \in BOOLEAN /\ marked' \in BOOLEAN
    BY <1>0 DEF Types
  <2>2. faults' \in Nat
    BY <1>0 DEF Types
  <2> QED
    BY <1>0, <2>1, <2>2 DEF Types
<1>2. Held'
  BY <1>0 DEF IInv, Types, Held, Locked
<1>3. Done'
  BY <1>0 DEF IInv, Types, Done
<1>4. MarkKept'
  BY <1>0 DEF IInv, Types, MarkKept
<1>5. MarkFirst'
  BY <1>0 DEF IInv, Types, MarkFirst, Started, Interruptions
<1>6. AllWaited'
  BY <1>0 DEF IInv, Types, AllWaited, Waited, Locked, Types
<1>7. LastAttempt'
  BY <1>0 DEF IInv, Types, LastAttempt, Interruptions
<1>8. Carried'
  BY <1>0 DEF IInv, Types, Carried, RanOut, Alive, Locked, MarkFirst, Started, Interruptions
<1>9. CardInTime'
  BY <1>0 DEF IInv, Types, CardInTime
<1> QED
  BY <1>1, <1>2, <1>3, <1>4, <1>5, <1>6, <1>7, <1>8, <1>9 DEF IInv

LEMMA EnqueueCopyIInv ==
    ASSUME Assumptions, IInv, EnqueueCopy
    PROVE  IInv'
<1> USE DEF EnqueueCopy, Goto, Fault, post
<1>0. Types
  BY DEF IInv
<1>1. CASE UNCHANGED <<pc, due>> /\ faults' = faults + 1
  <2>1. Types' /\ Held' /\ Done' /\ MarkKept'
    BY <1>0, <1>1 DEF IInv, Types, Held, Done, MarkKept
  <2>2. MarkFirst' /\ AllWaited' /\ CardInTime'
    BY <1>0, <1>1 DEF IInv, Types, MarkFirst, Interruptions, AllWaited, Waited, CardInTime
  <2>3. commits = 0 /\ Interruptions' =< 1 => marked
    BY <1>0, <1>1 DEF IInv, Types, MarkFirst, Started, Interruptions
  <2>4. LastAttempt' /\ Carried'
    BY <2>3 DEF LastAttempt, Carried
  <2> QED
    BY <2>1, <2>2, <2>4 DEF IInv
<1>2. CASE Unused # {} /\ UNCHANGED faults /\ pc' # pc
  <2>1. PICK n \in Unused : n = CHOOSE c \in Unused : TRUE
    BY <1>2
  <2>2. pc' = [pc EXCEPT ![n] = "queued"] /\ due' = [due EXCEPT ![n] = now]
    BY <1>2, <2>1
  <2>3. n \in Copies /\ pc[n] = "unused" /\ pc'[n] = "queued" /\ due'[n] = now
        /\ \A c \in Copies \ {n} : pc'[c] = pc[c] /\ due'[c] = due[c]
    BY <1>0, <2>1, <2>2 DEF Types, Unused
  <2>4. Types'
    BY <1>0, <1>2, <2>2, <2>3 DEF Types, Places
  <2>5. Held' /\ Done' /\ MarkKept' /\ MarkFirst'
    BY <1>0, <1>2, <2>3 DEF IInv, Types, Held, Locked, Done, MarkKept, MarkFirst, Started, Interruptions
  <2>6. AllWaited'
    <3>1. \A c \in Copies \ {n} : Waited(c)'
      BY <2>3 DEF IInv, AllWaited, Waited, Locked
    <3>2. attempt[n] = 0 /\ attempt[n] < MaxAttempts
      BY <2>3 DEF IInv, AllWaited, Waited
    <3>3. \A d \in RetryDelays : now >= 0 * d
      BY <1>0 DEF Types, Assumptions, DelaysAssumption
    <3>4. Waited(n)'
      BY <2>3, <3>2, <3>3 DEF Waited, Locked
    <3> QED
      BY <3>1, <3>4 DEF AllWaited
  <2>7. LastAttempt' /\ CardInTime'
    BY <1>0, <1>2, <2>3 DEF IInv, Types, LastAttempt, Interruptions, CardInTime
  <2>8. Carried'
    BY <2>3 DEF Carried, Alive
  <2> QED
    BY <2>4, <2>5, <2>6, <2>7, <2>8 DEF IInv
<1>3. CASE Unused # {} /\ UNCHANGED faults /\ pc' = pc
  BY <1>0, <1>3 DEF Types, Unused
<1> QED
  BY <1>1, <1>2, <1>3

LEMMA ApiRestartIInv ==
    ASSUME Assumptions, IInv, ApiRestart
    PROVE  IInv'
<1> USE DEF ApiRestart, Goto, Fault, post, copy, After
<1>0. Types
  BY DEF IInv
<1>1. Types'
  BY <1>0 DEF Types, Places, Assumptions, DelaysAssumption, TimeoutAssumption
<1>2. Held'
  BY <1>0 DEF IInv, Types, Held, Locked
<1>3. Done'
  BY <1>0 DEF IInv, Types, Done
<1>4. MarkKept'
  BY <1>0 DEF IInv, Types, MarkKept
<1>5. MarkFirst'
  BY <1>0 DEF IInv, Types, MarkFirst, Started, Interruptions
<1>6. AllWaited'
  BY <1>0 DEF IInv, Types, AllWaited, Waited, Locked, Types
<1>7. LastAttempt'
  BY <1>0 DEF IInv, Types, LastAttempt, Interruptions
<1>8. Carried'
  BY <1>0 DEF IInv, Types, Carried, RanOut, Alive, Locked, MarkFirst, Started, Interruptions
<1>9. CardInTime'
  BY <1>0 DEF IInv, Types, CardInTime
<1> QED
  BY <1>1, <1>2, <1>3, <1>4, <1>5, <1>6, <1>7, <1>8, <1>9 DEF IInv

LEMMA PollIInv ==
    ASSUME Assumptions, IInv, Poll
    PROVE  IInv'
<1> USE DEF Poll, PollEnds, Goto, Fault, post, copy, After
<1>0. Types
  BY DEF IInv
<1>1. Types'
  BY <1>0 DEF Types, Places, Assumptions, DelaysAssumption, TimeoutAssumption
<1>2. Held'
  BY <1>0 DEF IInv, Types, Held, Locked
<1>3. Done'
  BY <1>0 DEF IInv, Types, Done
<1>4. MarkKept'
  BY <1>0 DEF IInv, Types, MarkKept
<1>5. MarkFirst'
  BY <1>0 DEF IInv, Types, MarkFirst, Started, Interruptions
<1>6. AllWaited'
  BY <1>0 DEF IInv, Types, AllWaited, Waited, Locked, Types
<1>7. LastAttempt'
  BY <1>0 DEF IInv, Types, LastAttempt, Interruptions
<1>8. Carried'
  BY <1>0 DEF IInv, Types, Carried, RanOut, Alive, Locked, Interruptions
<1>9. CardInTime'
  BY <1>0 DEF IInv, Types, CardInTime
<1> QED
  BY <1>1, <1>2, <1>3, <1>4, <1>5, <1>6, <1>7, <1>8, <1>9 DEF IInv

LEMMA TryAcquireIInv ==
    ASSUME Assumptions, IInv, NEW c \in Copies, TryAcquire(c)
    PROVE  IInv'
<1> USE DEF TryAcquire, Goto, Fault, post, copy, After
<1>0. Types
  BY DEF IInv
<1>1. Types'
  BY <1>0 DEF Types, Places, Assumptions, DelaysAssumption, TimeoutAssumption
<1>2. Held'
  BY <1>0 DEF IInv, Types, Held, Locked
<1>3. Done'
  BY <1>0 DEF IInv, Types, Done
<1>4. MarkKept'
  BY <1>0 DEF IInv, Types, MarkKept
<1>5. MarkFirst'
  BY <1>0 DEF IInv, Types, MarkFirst, Started, Interruptions
<1>6. AllWaited'
  BY <1>0 DEF IInv, Types, AllWaited, Waited, Locked, Types
<1>7. LastAttempt'
  BY <1>0 DEF IInv, Types, LastAttempt, Interruptions
<1>8. Carried'
  <2> SUFFICES ASSUME commits' = 0, Interruptions' = 1, ~marked', \E e \in Copies : pc'[e] # "unused"
               PROVE  (\E e \in Copies : pc'[e] \in Alive) \/ RanOut'
    BY DEF Carried
  <2>1. CASE lock = {}
    BY <1>0, <2>1 DEF Types, Alive, Locked
  <2>2. CASE lock # {}
    <3>1. PICK h \in lock : pc[h] \in Locked
      BY <2>2 DEF IInv, Held
    <3>2. h \in Copies /\ h # c /\ pc'[h] \in Alive
      BY <1>0, <2>2, <3>1 DEF Types, Alive, Locked
    <3> QED
      BY <3>2
  <2> QED
    BY <2>1, <2>2
<1>9. CardInTime'
  BY <1>0 DEF IInv, Types, CardInTime
<1> QED
  BY <1>1, <1>2, <1>3, <1>4, <1>5, <1>6, <1>7, <1>8, <1>9 DEF IInv

LEMMA DecideIInv ==
    ASSUME Assumptions, IInv, NEW c \in Copies, Decide(c)
    PROVE  IInv'
<1> USE DEF Decide, Goto, Fault, post, copy, After
<1>0. Types
  BY DEF IInv
<1>1. Types'
  BY <1>0 DEF Types, Places, Assumptions, DelaysAssumption, TimeoutAssumption
<1>2. Held'
  BY <1>0 DEF IInv, Types, Held, Locked
<1>3. Done'
  BY <1>0 DEF IInv, Types, Done
<1>4. MarkKept'
  BY <1>0 DEF IInv, Types, MarkKept
<1>5. MarkFirst'
  BY <1>0 DEF IInv, Types, MarkFirst, Started, Interruptions
<1>6. AllWaited'
  BY <1>0 DEF IInv, Types, AllWaited, Waited, Locked, Types
<1>7. LastAttempt'
  <2> SUFFICES ASSUME WaitsOutlast, pc'[c] = "unlock"
               PROVE  attempt[c] + 1 < MaxAttempts
    BY <1>0 DEF IInv, Types, LastAttempt, Interruptions
  <2>1. now < SettleTimeout
    BY <1>0 DEF Types
  <2>2. PICK d \in RetryDelays : Shortest(d) /\ (MaxAttempts - 1) * d >= SettleTimeout
    BY DEF WaitsOutlast, Shortest
  <2>3. Waited(c) /\ due[c] =< now
    BY DEF IInv, AllWaited, Waited, Locked
  <2>4. due[c] >= attempt[c] * d \/ due[c] >= MaxTime
    BY <2>2, <2>3 DEF Waited
  <2>5. d \in Nat /\ attempt[c] \in Nat /\ due[c] \in Nat /\ now \in Nat /\ SettleTimeout =< MaxTime
        /\ SettleTimeout \in Nat /\ MaxTime \in Nat /\ MaxAttempts \in Nat
    BY <1>0 DEF Types, Assumptions, AttemptsAssumption, DelaysAssumption, TimeoutAssumption
  <2>6. attempt[c] * d \in Nat /\ (MaxAttempts - 1) * d \in Int
    BY <2>5
  <2>7. attempt[c] * d < (MaxAttempts - 1) * d
    BY <2>1, <2>2, <2>3, <2>4, <2>5, <2>6
  <2>8. ASSUME attempt[c] = MaxAttempts - 1 PROVE FALSE
    <3>1. (MaxAttempts - 1) * d < (MaxAttempts - 1) * d
      BY <2>7, <2>8
    <3> QED
      BY <2>6, <3>1
  <2> QED
    BY <2>3, <2>5, <2>8 DEF Waited
<1>8. Carried'
  BY <1>0 DEF IInv, Types, Carried, RanOut, Alive, Locked, Interruptions
<1>9. CardInTime'
  BY <1>0 DEF IInv, Types, CardInTime, Assumptions, TimeoutAssumption
<1> QED
  BY <1>1, <1>2, <1>3, <1>4, <1>5, <1>6, <1>7, <1>8, <1>9 DEF IInv

LEMMA CommitPostIInv ==
    ASSUME Assumptions, IInv, NEW c \in Copies, CommitPost(c)
    PROVE  IInv'
<1> USE DEF CommitPost, Goto, Fault, post, copy, After
<1>0. Types
  BY DEF IInv
<1>1. Types'
  BY <1>0 DEF Types, Places, Assumptions, DelaysAssumption, TimeoutAssumption
<1>2. Held'
  BY <1>0 DEF IInv, Types, Held, Locked
<1>3. Done'
  BY <1>0 DEF IInv, Types, Done
<1>4. MarkKept'
  BY <1>0 DEF IInv, Types, MarkKept
<1>5. MarkFirst'
  BY <1>0 DEF IInv, Types, MarkFirst, Started, Interruptions
<1>6. AllWaited'
  BY <1>0 DEF IInv, Types, AllWaited, Waited, Locked, Types
<1>7. LastAttempt'
  BY <1>0 DEF IInv, Types, LastAttempt, Interruptions
<1>8. Carried'
  BY <1>0 DEF IInv, Types, Carried, RanOut, Alive, Locked, Interruptions
<1>9. CardInTime'
  BY <1>0 DEF IInv, Types, CardInTime
<1> QED
  BY <1>1, <1>2, <1>3, <1>4, <1>5, <1>6, <1>7, <1>8, <1>9 DEF IInv

LEMMA ClearPendingIInv ==
    ASSUME Assumptions, IInv, NEW c \in Copies, ClearPending(c)
    PROVE  IInv'
<1> USE DEF ClearPending, Goto, Fault, post, copy, After
<1>0. Types
  BY DEF IInv
<1>1. Types'
  <2>1. pending' \in BOOLEAN
    BY <1>0 DEF Types
  <2>2. faults' \in Nat
    BY <1>0 DEF Types
  <2> QED
    BY <1>0, <2>1, <2>2 DEF Types, Places
<1>2. Held'
  BY <1>0 DEF IInv, Types, Held, Locked
<1>3. Done'
  BY <1>0 DEF IInv, Types, Done
<1>4. MarkKept'
  BY <1>0 DEF IInv, Types, MarkKept, Done
<1>5. MarkFirst'
  BY <1>0 DEF IInv, Types, MarkFirst, Started, Interruptions
<1>6. AllWaited'
  BY <1>0 DEF IInv, Types, AllWaited, Waited, Locked, Types
<1>7. LastAttempt'
  BY <1>0 DEF IInv, Types, LastAttempt, Interruptions
<1>8. Carried'
  BY <1>0 DEF IInv, Types, Carried, RanOut, Alive, Locked, Interruptions
<1>9. CardInTime'
  BY <1>0 DEF IInv, Types, CardInTime
<1> QED
  BY <1>1, <1>2, <1>3, <1>4, <1>5, <1>6, <1>7, <1>8, <1>9 DEF IInv

LEMMA EnqueueUpdateIInv ==
    ASSUME Assumptions, IInv, NEW c \in Copies, EnqueueUpdate(c)
    PROVE  IInv'
<1> USE DEF EnqueueUpdate, Goto, Fault, post, copy, After
<1>0. Types
  BY DEF IInv
<1>1. Types'
  BY <1>0 DEF Types, Places, Assumptions, DelaysAssumption, TimeoutAssumption
<1>2. Held'
  BY <1>0 DEF IInv, Types, Held, Locked
<1>3. Done'
  BY <1>0 DEF IInv, Types, Done
<1>4. MarkKept'
  BY <1>0 DEF IInv, Types, MarkKept
<1>5. MarkFirst'
  BY <1>0 DEF IInv, Types, MarkFirst, Started, Interruptions
<1>6. AllWaited'
  BY <1>0 DEF IInv, Types, AllWaited, Waited, Locked, Types
<1>7. LastAttempt'
  BY <1>0 DEF IInv, Types, LastAttempt, Done, Interruptions
<1>8. Carried'
  BY <1>0 DEF IInv, Types, Carried, RanOut, Alive, Locked, Interruptions
<1>9. CardInTime'
  BY <1>0 DEF IInv, Types, CardInTime
<1> QED
  BY <1>1, <1>2, <1>3, <1>4, <1>5, <1>6, <1>7, <1>8, <1>9 DEF IInv

LEMMA ReleaseIInv ==
    ASSUME Assumptions, IInv, NEW c \in Copies, Release(c)
    PROVE  IInv'
<1> USE DEF Release, RetryOrEnd, Goto, Fault, post, copy, After
<1>0. Types
  BY DEF IInv
<1>1. Types'
  BY <1>0 DEF Types, Places, Assumptions, DelaysAssumption, TimeoutAssumption
<1>2. Held'
  BY <1>0 DEF IInv, Types, Held, Locked
<1>3. Done'
  BY <1>0 DEF IInv, Types, Done
<1>4. MarkKept'
  BY <1>0 DEF IInv, Types, MarkKept
<1>5. MarkFirst'
  BY <1>0 DEF IInv, Types, MarkFirst, Started, Interruptions
<1>6. AllWaited'
  <2> SUFFICES ASSUME NEW e \in Copies PROVE Waited(e)'
    BY DEF AllWaited
  <2>1. Waited(e)
    BY DEF IInv, AllWaited
  <2>2. CASE attempt' = attempt /\ due' = due /\ pc'[e] \notin {"unused"} \cup Locked
    BY <2>1, <2>2 DEF Waited, Locked
  <2>3. CASE e # c
    <3>1. attempt'[e] = attempt[e] /\ due'[e] = due[e] /\ pc'[e] = pc[e]
      BY <1>0, <2>3 DEF Types
    <3> QED
      BY <2>1, <3>1 DEF Waited
  <2>4. CASE e = c /\ RetryOrEnd(c) /\ result[c] = "err" /\ attempt[c] + 1 < MaxAttempts
    <3>1. PICK r \in RetryDelays : due' = [due EXCEPT ![c] = After(r)]
      BY <2>4
    <3>2. attempt'[c] = attempt[c] + 1 /\ due'[c] = After(r) /\ pc'[c] = "queued"
      BY <1>0, <2>4, <3>1 DEF Types
    <3>3. ASSUME NEW d \in RetryDelays, Shortest(d)
          PROVE  After(r) >= (attempt[c] + 1) * d \/ After(r) >= MaxTime
      <4>1. d \in Nat /\ r \in Nat /\ d =< r /\ attempt[c] \in Nat /\ due[c] \in Nat /\ now \in Nat
            /\ MaxTime \in Nat
        BY <1>0, <3>3 DEF Types, Shortest, Assumptions, DelaysAssumption, TimeoutAssumption
      <4>2. due[c] =< now /\ (due[c] >= attempt[c] * d \/ due[c] >= MaxTime)
        BY <2>1, <2>4, <3>3 DEF Waited, Locked
      <4>3. (attempt[c] + 1) * d = attempt[c] * d + d /\ attempt[c] * d \in Nat
        BY <4>1
      <4> QED
        BY <4>1, <4>2, <4>3
    <3> QED
      BY <2>4, <3>2, <3>3 DEF Waited, Locked
  <2>5. CASE e = c /\ ~(RetryOrEnd(c) /\ result[c] = "err" /\ attempt[c] + 1 < MaxAttempts)
    <3>1. attempt' = attempt /\ due' = due /\ pc'[c] \in {"lost", "discarded", "ended"}
      BY <1>0, <2>5 DEF Types
    <3> QED
      BY <2>2, <2>5, <3>1 DEF Locked
  <2> QED
    BY <2>3, <2>4, <2>5
<1>7. LastAttempt'
  BY <1>0 DEF IInv, Types, LastAttempt, Interruptions
<1>8. Carried'
  <2> SUFFICES ASSUME commits' = 0, Interruptions' = 1, ~marked', \E e \in Copies : pc'[e] # "unused"
               PROVE  (\E e \in Copies : pc'[e] \in Alive) \/ RanOut'
    BY DEF Carried
  <2>1. CASE UNCHANGED faults /\ RetryOrEnd(c)
    <3>1. commits = 0 /\ Interruptions = 1 /\ ~marked /\ pc[c] # "unused"
      BY <2>1 DEF Interruptions
    <3>2. result[c] = "err"
      BY <1>0, <3>1 DEF IInv, Done, Types
    <3>3. CASE attempt[c] + 1 < MaxAttempts
      BY <1>0, <2>1, <3>2, <3>3 DEF Types, Alive
    <3>4. CASE ~(attempt[c] + 1 < MaxAttempts)
      <4>1. ~WaitsOutlast
        BY <1>0, <3>1, <3>2, <3>4 DEF IInv, LastAttempt, Types, Interruptions
      <4>2. pc'[c] = "discarded"
        BY <1>0, <2>1, <3>2, <3>4 DEF Types
      <4> QED
        BY <4>1, <4>2 DEF RanOut
    <3> QED
      BY <3>3, <3>4
  <2>2. CASE faults' = faults + 1
    BY <1>0, <2>2 DEF IInv, Types, MarkFirst, Started, Interruptions
  <2> QED
    BY <2>1, <2>2
<1>9. CardInTime'
  BY <1>0 DEF IInv, Types, CardInTime
<1> QED
  BY <1>1, <1>2, <1>3, <1>4, <1>5, <1>6, <1>7, <1>8, <1>9 DEF IInv

LEMMA StepFailsIInv ==
    ASSUME Assumptions, IInv, NEW c \in Copies, StepFails(c)
    PROVE  IInv'
<1> USE DEF StepFails, Goto, Fault, post, copy, After
<1>0. Types
  BY DEF IInv
<1>1. Types'
  BY <1>0 DEF Types, Places, Assumptions, DelaysAssumption, TimeoutAssumption
<1>2. Held'
  BY <1>0 DEF IInv, Types, Held, Locked
<1>3. Done'
  BY <1>0 DEF IInv, Types, Done
<1>4. MarkKept'
  BY <1>0 DEF IInv, Types, MarkKept
<1>5. MarkFirst'
  BY <1>0 DEF IInv, Types, MarkFirst, Started, Interruptions
<1>6. AllWaited'
  BY <1>0 DEF IInv, Types, AllWaited, Waited, Locked, Types
<1>7. LastAttempt'
  BY <1>0 DEF IInv, Types, LastAttempt, MarkFirst, Started, Interruptions
<1>8. Carried'
  BY <1>0 DEF IInv, Types, Carried, RanOut, Alive, Locked, Interruptions
<1>9. CardInTime'
  BY <1>0 DEF IInv, Types, CardInTime
<1> QED
  BY <1>1, <1>2, <1>3, <1>4, <1>5, <1>6, <1>7, <1>8, <1>9 DEF IInv

LEMMA WorkerDiesIInv ==
    ASSUME Assumptions, IInv, NEW c \in Copies, WorkerDies(c)
    PROVE  IInv'
<1> USE DEF WorkerDies, Goto, Fault, post, copy, After
<1>0. Types
  BY DEF IInv
<1>1. Types'
  BY <1>0 DEF Types, Places, Assumptions, DelaysAssumption, TimeoutAssumption
<1>2. Held'
  BY <1>0 DEF IInv, Types, Held, Locked
<1>3. Done'
  BY <1>0 DEF IInv, Types, Done
<1>4. MarkKept'
  BY <1>0 DEF IInv, Types, MarkKept
<1>5. MarkFirst'
  BY <1>0 DEF IInv, Types, MarkFirst, Started, Interruptions
<1>6. AllWaited'
  BY <1>0 DEF IInv, Types, AllWaited, Waited, Locked, Types
<1>7. LastAttempt'
  BY <1>0 DEF IInv, Types, LastAttempt, Interruptions
<1>8. Carried'
  BY <1>0 DEF IInv, Types, Carried, RanOut, Alive, Locked, MarkFirst, Started, Interruptions
<1>9. CardInTime'
  BY <1>0 DEF IInv, Types, CardInTime
<1> QED
  BY <1>1, <1>2, <1>3, <1>4, <1>5, <1>6, <1>7, <1>8, <1>9 DEF IInv


-----------------------------------------------------------------------------
LEMMA NextIInv ==
    ASSUME Assumptions, IInv, [Next]_vars
    PROVE  IInv'
<1>1. CASE Tick \/ Defer \/ SetPending \/ EnqueueCopy \/ ApiRestart \/ Poll
  BY <1>1, TickIInv, DeferIInv, SetPendingIInv, EnqueueCopyIInv, ApiRestartIInv, PollIInv
<1>2. ASSUME NEW c \in Copies, Step(c) \/ StepFails(c) \/ WorkerDies(c)
      PROVE  IInv'
  BY <1>2, TryAcquireIInv, DecideIInv, CommitPostIInv, ClearPendingIInv, EnqueueUpdateIInv, ReleaseIInv,
     StepFailsIInv, WorkerDiesIInv DEF Step
<1>3. CASE UNCHANGED vars
  <2> USE <1>3 DEF vars, post, copy
  <2>1. Types' /\ Held' /\ Done' /\ MarkKept' /\ MarkFirst'
    BY DEF IInv, Types, Held, Done, MarkKept, MarkFirst, Started, Interruptions
  <2>2. AllWaited' /\ CardInTime'
    BY DEF IInv, AllWaited, Waited, CardInTime
  <2>3. LastAttempt' /\ Carried'
    BY DEF IInv, LastAttempt, Carried, RanOut, Interruptions
  <2> QED
    BY <2>1, <2>2, <2>3 DEF IInv
<1> QED
  BY <1>1, <1>2, <1>3 DEF Next

(* The inductive invariant of the wait: what the lock, the attempts and    *)
(* the clock say of each copy, and where the post stands without its mark. *)
THEOREM DeferredInvariant == ASSUME Assumptions PROVE Spec => []IInv
<1>1. Init => IInv
  BY InitIInv
<1>2. IInv /\ [Next]_vars => IInv'
  BY NextIInv
<1> QED
  BY <1>1, <1>2, PTL DEF Spec

(* A post that waits for its video is not forgotten, whichever one step of *)
(* the flow fails, as long as the attempts last (bsky_post_commit_deferred *)
(* and resume_bsky_post_commit_deferred).                                  *)
THEOREM PostNeverForgotten == ASSUME Assumptions PROVE Spec => []NeverForgotten
<1>1. IInv => NeverForgotten
  <2> SUFFICES ASSUME IInv, commits = 0
               PROVE  /\ marked => pending
                      /\ Unused # Copies /\ Interruptions = 0 => pending
                      /\ Unused # Copies /\ Interruptions = 1 =>
                            pending \/ (\E c \in Copies : pc[c] \in Alive) \/ RanOut
    BY DEF NeverForgotten
  <2>1. Unused # Copies => \E c \in Copies : pc[c] # "unused"
    BY DEF Unused
  <2>2. marked => pending
    BY DEF IInv, MarkKept
  <2>3. Unused # Copies /\ Interruptions = 0 => marked
    BY <2>1 DEF IInv, MarkFirst, Started
  <2>4. Unused # Copies /\ Interruptions = 1 /\ ~marked => (\E c \in Copies : pc[c] \in Alive) \/ RanOut
    BY <2>1 DEF IInv, Carried
  <2> QED
    BY <2>2, <2>3, <2>4
<1> QED
  BY <1>1, DeferredInvariant, PTL

(* The link card stands in for the video only when the video has settled   *)
(* otherwise or SETTLE_TIMEOUT_SECS have passed, also at the moment of the *)
(* commit, which comes after the choice (process_locked).                  *)
THEOREM NoCardBeforeTime == ASSUME Assumptions PROVE Spec => NoEarlyCard
<1> DEFINE A == \A c \in Copies : pc[c] = "commit" /\ commits' # commits /\ embed[c] = "card"
                    => video # "pending" \/ now >= SettleTimeout
<1>1. IInv /\ [Next]_vars => [A]_vars
  BY DEF IInv, CardInTime
<1> QED
  BY <1>1, DeferredInvariant, PTL DEF Spec, NoEarlyCard
=============================================================================

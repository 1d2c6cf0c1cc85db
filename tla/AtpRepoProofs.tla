--------------------------- MODULE AtpRepoProofs ---------------------------
(***************************************************************************)
(* Theorems about AtpRepo for every set of actors, posts and calls, any    *)
(* number of attempts and any number of faults.                            *)
(***************************************************************************)
EXTENDS AtpRepo, FiniteSetTheorems, TLAPS

States == {"idle", "spawned", "done", "committed", "failed"} \cup InTx
Entry == [key : Keys \cup Writers, cid : Writers]
Event == [seq : Nat, actor : Actors, writer : Writers, rev : Nat, since : Nat, op : Ops,
          key : Keys \cup Writers \cup {None}, prevData : SUBSET Entry,
          data : SUBSET Entry]
Call == [st : States, attempt : Nat, target : Writers \cup {None}, snap : Nat,
         prevData : SUBSET Entry, data : SUBSET Entry, rev : Nat, seq : Nat]
Head == [rev : Nat, data : SUBSET Entry]

Types ==
    /\ write \in Workloads
    /\ head \in [Actors -> Head]
    /\ rkey \in [Posts -> Writers \cup {None}]
    /\ deleted \subseteq Posts
    /\ records \in [Actors -> SUBSET Entry]
    /\ events \subseteq Event
    /\ lastSeq \in Nat /\ clock \in Nat /\ faults \in Nat
    /\ rowLock \in [Actors -> Writers \cup {Free}]
    /\ tx \in [Writers -> Call]

HeadOf(w) == head[write[w].actor]

(* Between its UPDATE and its COMMIT a call has the row of its actor, and  *)
(* nobody has committed since its snapshot.                                *)
RowHeld(w) ==
    tx[w].st \in {"updated", "inserted"} => rowLock[write[w].actor] = w /\ ~Stale(w)

(* A snapshot is the head or older, and the new TID is newer than it.      *)
Snapshot(w) ==
    tx[w].st \in InTx =>
        /\ tx[w].snap =< HeadOf(w).rev
        /\ ~Stale(w) => tx[w].prevData = HeadOf(w).data
        /\ tx[w].st # "begun" => tx[w].snap < tx[w].rev /\ tx[w].rev =< clock

(* The id of an event that is not visible yet is greater than those of all *)
(* visible events of its actor: it was drawn under the lock of the row.    *)
SeqAbove(w) ==
    tx[w].st = "inserted" =>
        /\ tx[w].seq =< lastSeq
        /\ \A e \in EventsOf(write[w].actor) : e.seq < tx[w].seq

(* A call has an event once it has committed, and only then.               *)
Happened(w) == \E e \in events : e.writer = w
EventOnce(w) == Happened(w) => tx[w].st \in {"committed", "done", "failed"}

(* A delete commit names the key that the deleted post has.                *)
TargetKnown(w) ==
    NeedsSoftDelete(w) /\ tx[w].st \in InTx \cup {"spawned"} =>
        /\ write[w].post \in deleted
        /\ tx[w].target = rkey[write[w].post] /\ tx[w].target # None

(* What an MST has beyond the entries of the database: posts that were     *)
(* deleted after it was read.                                              *)
Dead(x) == \E p \in deleted : x.key \in Writers /\ write[x.key].post = p
Covers(data, es) == es \subseteq data /\ \A x \in data \ es : Dead(x)
Others(es, k) == {x \in es : x.key # k}
OnlyKey(prevData, data, k) ==
    /\ Others(data, k) \subseteq Others(prevData, k)
    /\ \A x \in Others(prevData, k) \ Others(data, k) : Dead(x)

(* The MST of a call that can still commit covers what the next call will  *)
(* load, and differs from the one before it in the key of the call.        *)
TreeCovers(w) ==
    tx[w].st \in InTx =>
        /\ ~Stale(w) => Covers(tx[w].data, ReplaceEntry(LoadAtpEntries(write[w].actor), w))
        /\ OnlyKey(tx[w].prevData, tx[w].data, EntryKey(w))

(* A call has failed at most once for each rival that has committed; with  *)
(* a stale snapshot it has not yet paid for the last one.                  *)
Overtakers(w) == {v \in Rivals(w) \ {w} : Happened(v)}
FailuresPaid(w) ==
    faults = 0 =>
        /\ tx[w].attempt =< Cardinality(Overtakers(w)) + 1
        /\ tx[w].st \in InTx /\ Stale(w) => tx[w].attempt =< Cardinality(Overtakers(w))
Served(w) ==
    faults = 0 /\ Cardinality(Rivals(w)) =< MaxSerializationRetries => tx[w].st # "failed"

CallInv(w) ==
    /\ RowHeld(w) /\ Snapshot(w) /\ SeqAbove(w) /\ EventOnce(w)
    /\ TargetKnown(w) /\ TreeCovers(w)
    /\ FailuresPaid(w) /\ Served(w)

(* The key of a post is the writer that put it; others are no writers.     *)
KeysKnown ==
    /\ \A p \in Posts : rkey[p] # None => write[rkey[p]].op = "put" /\ write[rkey[p]].post = p
    /\ \A a \in Actors : \A x \in records[a] : x.key \in Keys

(* The MST of the head covers the entries that the next call will load.    *)
HeadCovers == \A a \in Actors : Covers(head[a].data, LoadAtpEntries(a))

(* The ids come from the sequence and the TIDs from the clock.             *)
RevsBelowHead == \A e \in events : e.rev =< head[e.actor].rev
HistoryInv ==
    /\ \A e \in events : e.seq =< lastSeq
    /\ \A a \in Actors : head[a].rev =< clock
    /\ RevsBelowHead /\ LinearHistory /\ RevsIncrease
    /\ KeysKnown /\ HeadCovers
    /\ \A e \in events : OnlyKey(e.prevData, e.data, e.key)

IInv ==
    /\ Types
    /\ HistoryInv
    /\ \A w \in Writers : CallInv(w)

USE NoPostAssumption, RetriesAssumption, WorkloadsAssumption, WritersAssumption

-----------------------------------------------------------------------------
LEMMA WriteTyped ==
    ASSUME Types, NEW w \in Writers
    PROVE  /\ write[w].actor \in Actors /\ write[w].op \in Ops
           /\ write[w].post \in Posts \cup {NoPost} /\ write[w].key \in Keys
  BY DEF Types

LEMMA EntryKeyTyped ==
    ASSUME Types, NEW w \in Writers
    PROVE  /\ EntryKey(w) \in Keys \cup Writers \cup {None}
           /\ write[w].op = "put" => EntryKey(w) \in Keys \cup Writers
  BY WriteTyped DEF EntryKey, Types, Call, Ops

LEMMA EntriesTyped ==
    ASSUME Types, NEW a \in Actors
    PROVE  LoadAtpEntries(a) \subseteq Entry
<1>1. PostEntries(a) \subseteq Entry
  BY DEF PostEntries, Types, Entry
<1>2. records[a] \subseteq Entry
  BY DEF Types
<1>3. QED
  BY <1>1, <1>2 DEF LoadAtpEntries

LEMMA ReplaceTyped ==
    ASSUME Types, NEW w \in Writers, NEW es \in SUBSET Entry
    PROVE  ReplaceEntry(es, w) \in SUBSET Entry
<1>1. write[w].op = "put" => [key |-> EntryKey(w), cid |-> w] \in Entry
  BY EntryKeyTyped DEF Entry
<1>2. QED
  BY <1>1 DEF ReplaceEntry

LEMMA EventTyped ==
    ASSUME Types, NEW w \in Writers
    PROVE  EventOf(w) \in Event
<1>1. tx[w] \in Call
  BY DEF Types
<1>2. QED
  BY <1>1, WriteTyped, EntryKeyTyped DEF EventOf, Event, Call

LEMMA UnlockTyped ==
    ASSUME Types, NEW w \in Writers, Unlock(w)
    PROVE  rowLock' \in [Actors -> Writers \cup {Free}]
  BY DEF Types, Unlock

LEMMA GotoTyped ==
    ASSUME Types, NEW w \in Writers, NEW s \in States, Goto(w, s)
    PROVE  tx' \in [Writers -> Call]
<1>1. tx \in [Writers -> Call]
  BY DEF Types
<1>2. [tx[w] EXCEPT !.st = s] \in Call
  BY <1>1 DEF Call
<1>3. QED
  BY <1>1, <1>2 DEF Goto

LEMMA StartOverTyped ==
    ASSUME Types, NEW w \in Writers, StartOver(w)
    PROVE  tx' \in [Writers -> Call]
<1>1. tx[w] \in Call
  BY DEF Types
<1>2. CASE MayStartOver(w)
  <2>1. DEFINE s == IF NeedsSoftDelete(w) THEN "spawned" ELSE "idle"
  <2>2. tx' = [tx EXCEPT ![w] = [tx[w] EXCEPT !.st = s, !.attempt = tx[w].attempt + 1, !.seq = 0]]
    BY <1>2 DEF StartOver
  <2>3. s \in States /\ tx[w].attempt + 1 \in Nat
    BY <1>1 DEF States, Call
  <2>4. [tx[w] EXCEPT !.st = s, !.attempt = tx[w].attempt + 1, !.seq = 0] \in Call
    BY <1>1, <2>3 DEF Call
  <2>5. QED
    BY <2>2, <2>4 DEF Types
<1>3. CASE ~MayStartOver(w)
  <2>1. tx' = [tx EXCEPT ![w] = [tx[w] EXCEPT !.st = "failed"]]
    BY <1>3 DEF StartOver
  <2>2. [tx[w] EXCEPT !.st = "failed"] \in Call
    BY <1>1 DEF Call, States
  <2>3. QED
    BY <2>1, <2>2 DEF Types
<1>4. QED
  BY <1>2, <1>3

(* Types of what a commit leaves behind.                                   *)
LEMMA ApplyTyped ==
    ASSUME Types, NEW w \in Writers, Apply(w)
    PROVE  /\ head' \in [Actors -> Head] /\ rkey' \in [Posts -> Writers \cup {None}]
           /\ records' \in [Actors -> SUBSET Entry] /\ events' \subseteq Event
<1>1. tx[w] \in Call
  BY DEF Types
<1>2. head' \in [Actors -> Head]
  <2>1. [rev |-> tx[w].rev, data |-> tx[w].data] \in Head
    BY <1>1 DEF Call, Head
  <2>2. QED
    BY <2>1 DEF Apply, Types
<1>3. rkey' \in [Posts -> Writers \cup {None}]
  BY DEF Apply, Types
<1>4. records' \in [Actors -> SUBSET Entry]
  <2>1. records[write[w].actor] \in SUBSET Entry
    BY WriteTyped DEF Types
  <2>2. ReplaceEntry(records[write[w].actor], w) \in SUBSET Entry
    BY <2>1, ReplaceTyped
  <2>3. QED
    BY <2>2 DEF Apply, Types
<1>5. events' \subseteq Event
  BY EventTyped DEF Apply, Types
<1>6. QED
  BY <1>2, <1>3, <1>4, <1>5

(* Every step keeps the types.                                             *)
LEMMA TypesStep ==
    ASSUME Types, NEW w \in Writers, Step(w) \/ SsiAbort(w) \/ Fail(w) \/ FailAfterCommit(w)
    PROVE  Types'
<1>1. tx[w] \in Call /\ {"begun", "signed", "updated", "inserted", "done", "committed",
                         "failed", "spawned"} \subseteq States
  BY DEF Types, States, InTx
<1>2. CASE SoftDelete(w)
  <2>1. write[w].post \in Posts
    BY <1>2, WriteTyped DEF SoftDelete, NeedsSoftDelete
  <2>2. tx' \in [Writers -> Call]
    BY <1>1, <1>2, <2>1 DEF SoftDelete, Types, Call
  <2>3. QED
    BY <1>2, <2>1, <2>2 DEF SoftDelete, Types
<1>3. CASE BeginTx(w)
  <2>1. head[write[w].actor] \in Head
    BY WriteTyped DEF Types
  <2>2. ReplaceEntry(LoadAtpEntries(write[w].actor), w) \in SUBSET Entry
    BY WriteTyped, EntriesTyped, ReplaceTyped
  <2>3. tx' \in [Writers -> Call]
    BY <1>1, <1>3, <2>1, <2>2 DEF BeginTx, Types, Call, Head
  <2>4. QED
    BY <1>3, <2>3 DEF BeginTx, dbVars, Types
<1>4. CASE Sign(w)
  <2>1. "signed" \in States /\ clock + 1 \in Nat /\ tx \in [Writers -> Call]
    BY DEF Types, States, InTx
  <2>2. [tx[w] EXCEPT !.st = "signed", !.rev = clock + 1] \in Call
    BY <1>1, <2>1 DEF Call
  <2>3. tx' \in [Writers -> Call]
    BY <1>4, <2>1, <2>2 DEF Sign
  <2>4. QED
    BY <1>4, <2>3 DEF Sign, dbVars, Types
<1>5. CASE UpdateActor(w)
  <2>1. tx' \in [Writers -> Call]
    BY <1>1, <1>5, GotoTyped DEF UpdateActor
  <2>2. QED
    BY <1>5, <2>1 DEF UpdateActor, dbVars, Types
<1>6. CASE SerializationFailure(w)
  BY <1>6, StartOverTyped DEF SerializationFailure, dbVars, Types
<1>7. CASE InsertEvent(w)
  <2>1. "inserted" \in States /\ lastSeq + 1 \in Nat /\ tx \in [Writers -> Call]
    BY DEF Types, States, InTx
  <2>2. [tx[w] EXCEPT !.st = "inserted", !.seq = lastSeq + 1] \in Call
    BY <1>1, <2>1 DEF Call
  <2>3. tx' \in [Writers -> Call]
    BY <1>7, <2>1, <2>2 DEF InsertEvent
  <2>4. QED
    BY <1>7, <2>3 DEF InsertEvent, dbVars, Types
<1>8. CASE Commit(w)
  <2>1. tx' \in [Writers -> Call]
    BY <1>1, <1>8, GotoTyped DEF Commit
  <2>2. QED
    BY <1>8, <2>1, ApplyTyped, UnlockTyped DEF Commit, Apply, Types
<1>9. CASE Publish(w)
  <2>1. tx' \in [Writers -> Call]
    BY <1>1, <1>9, GotoTyped DEF Publish
  <2>2. QED
    BY <1>9, <2>1 DEF Publish, dbVars, Types
<1>10. CASE SsiAbort(w)
  BY <1>10, StartOverTyped, UnlockTyped DEF SsiAbort, Fault, dbVars, Types
<1>11. CASE Fail(w)
  <2>1. tx' \in [Writers -> Call]
    BY <1>1, <1>11, GotoTyped DEF Fail
  <2>2. QED
    BY <1>11, <2>1, UnlockTyped DEF Fail, Fault, dbVars, Types
<1>12. CASE FailAfterCommit(w)
  <2>1. tx' \in [Writers -> Call]
    BY <1>1, <1>12, GotoTyped DEF FailAfterCommit
  <2>2. QED
    <3>1. /\ Apply(w) /\ Unlock(w) /\ UNCHANGED <<write, deleted, lastSeq, clock>>
          /\ faults' = faults + 1
      BY <1>12 DEF FailAfterCommit, Fault, Apply
    <3>2. QED
      BY <2>1, <3>1, ApplyTyped, UnlockTyped DEF Types
<1>13. QED
  BY <1>2, <1>3, <1>4, <1>5, <1>6, <1>7, <1>8, <1>9, <1>10, <1>11, <1>12 DEF Step

-----------------------------------------------------------------------------
(* A step that makes nothing visible keeps the history.                    *)
LEMMA HistoryKept ==
    ASSUME IInv, Types', UNCHANGED <<write, dbVars>>, lastSeq =< lastSeq', clock =< clock'
    PROVE  HistoryInv'
<1> USE DEF dbVars
<1>1. \A e \in events : e.seq \in Nat
  BY DEF IInv, Types, Event
<1>2. \A a \in Actors : head[a].rev \in Nat
  BY DEF IInv, Types, Head
<1>3. \A e \in events' : e.seq =< lastSeq'
  BY <1>1 DEF IInv, HistoryInv, Types
<1>4. \A a \in Actors : head'[a].rev =< clock'
  BY <1>2 DEF IInv, HistoryInv, Types
<1>5. (RevsBelowHead /\ LinearHistory /\ RevsIncrease)'
  BY DEF IInv, HistoryInv, RevsBelowHead, LinearHistory, RevsIncrease, EventsOf, First,
     Last, Follows
<1>6. (KeysKnown /\ HeadCovers)'
  BY DEF IInv, HistoryInv, KeysKnown, HeadCovers, Covers, Dead, LoadAtpEntries, PostEntries
<1>7. \A e \in events' : OnlyKey(e.prevData, e.data, e.key)'
  BY DEF IInv, HistoryInv, OnlyKey, Dead, Others
<1>8. QED
  BY <1>3, <1>4, <1>5, <1>6, <1>7 DEF HistoryInv

(* Such a step keeps what holds of a call that it does not move.           *)
LEMMA CallKept ==
    ASSUME IInv, Types', UNCHANGED <<write, dbVars>>,
           lastSeq =< lastSeq', clock =< clock', faults =< faults',
           NEW v \in Writers, tx'[v] = tx[v],
           rowLock[write[v].actor] = v => rowLock'[write[v].actor] = v
    PROVE  CallInv(v)'
<1> USE DEF dbVars
<1>1. CallInv(v) /\ tx[v] \in Call
  BY DEF IInv, Types
<1>2. RowHeld(v)' /\ EventOnce(v)'
  BY <1>1 DEF CallInv, RowHeld, Stale, EventOnce, Happened
<1>3. Snapshot(v)'
  BY <1>1 DEF CallInv, Snapshot, HeadOf, Stale, IInv, Types, Call
<1>4. SeqAbove(v)'
  BY <1>1 DEF CallInv, SeqAbove, EventsOf, IInv, Types, Call
<1>5. TargetKnown(v)'
  BY <1>1 DEF CallInv, TargetKnown, NeedsSoftDelete
<1>6. TreeCovers(v)'
  BY <1>1 DEF CallInv, TreeCovers, Covers, Dead, OnlyKey, Others, ReplaceEntry,
     EntryKey, LoadAtpEntries, PostEntries, Stale
<1>7. faults' = 0 => faults = 0
  BY DEF IInv, Types
<1>8. FailuresPaid(v)' /\ Served(v)'
  BY <1>1, <1>7 DEF CallInv, FailuresPaid, Served, Overtakers, Rivals, Happened, Stale
<1>9. QED
  BY <1>2, <1>3, <1>4, <1>5, <1>6, <1>8 DEF CallInv

(* A step that makes nothing visible and moves only the call w.            *)
LEMMA QuietInv ==
    ASSUME IInv, Types', NEW w \in Writers,
           UNCHANGED <<write, dbVars>>,
           lastSeq =< lastSeq', clock =< clock', faults =< faults',
           \A v \in Writers \ {w} :
               /\ tx'[v] = tx[v]
               /\ rowLock[write[v].actor] = v => rowLock'[write[v].actor] = v,
           CallInv(w)'
    PROVE  IInv'
<1>1. HistoryInv'
  BY HistoryKept
<1>2. ASSUME NEW v \in Writers, v # w
      PROVE  CallInv(v)'
  BY <1>2, CallKept
<1>3. QED
  BY <1>1, <1>2 DEF IInv

LEMMA BeginTxInv ==
    ASSUME IInv, NEW w \in Writers, BeginTx(w)
    PROVE  IInv'
<1>1. Types' /\ Types
  BY TypesStep DEF Step, IInv
<1>2. write[w].actor \in Actors /\ tx \in [Writers -> Call]
  BY <1>1, WriteTyped DEF Types
<1>3. CallInv(w)
  BY DEF IInv
<1>4. /\ tx'[w].st = "begun" /\ tx'[w].snap = HeadOf(w).rev /\ tx'[w].prevData = HeadOf(w).data
      /\ tx'[w].data = ReplaceEntry(LoadAtpEntries(write[w].actor), w)
      /\ tx'[w].target = tx[w].target /\ tx'[w].attempt = tx[w].attempt
      /\ \A v \in Writers \ {w} : tx'[v] = tx[v]
      /\ tx[w].st = IF NeedsSoftDelete(w) THEN "spawned" ELSE "idle"
      /\ UNCHANGED <<write, dbVars, lastSeq, clock, rowLock, faults>>
  <2>1. tx[w] \in Call /\ tx'[w] = [tx[w] EXCEPT !.st = "begun", !.snap = HeadOf(w).rev,
            !.prevData = HeadOf(w).data,
            !.data = ReplaceEntry(LoadAtpEntries(write[w].actor), w)]
    BY <1>2 DEF BeginTx, HeadOf
  <2>2. /\ \A v \in Writers \ {w} : tx'[v] = tx[v]
        /\ tx[w].st = IF NeedsSoftDelete(w) THEN "spawned" ELSE "idle"
        /\ UNCHANGED <<write, dbVars, lastSeq, clock, rowLock, faults>>
    BY <1>2 DEF BeginTx
  <2>3. QED
    BY <2>1, <2>2 DEF Call
<1>5. HeadOf(w) \in Head /\ HeadOf(w)' = HeadOf(w)
  BY <1>1, <1>2, <1>4 DEF Types, HeadOf, dbVars
<1>6. ~Stale(w)'
  BY <1>4, <1>5 DEF Stale, HeadOf
<1>7. RowHeld(w)' /\ Snapshot(w)' /\ SeqAbove(w)' /\ EventOnce(w)' /\ TargetKnown(w)'
  BY <1>3, <1>4, <1>5, <1>6 DEF CallInv, RowHeld, Snapshot, SeqAbove, EventOnce, Happened,
     TargetKnown, NeedsSoftDelete, dbVars, Head
<1>8. TreeCovers(w)'
  <2>1. /\ EntryKey(w)' = EntryKey(w)
        /\ LoadAtpEntries(write[w].actor)' = LoadAtpEntries(write[w].actor)
    BY <1>4 DEF EntryKey, LoadAtpEntries, PostEntries, dbVars
  <2>2. ReplaceEntry(LoadAtpEntries(write[w].actor), w)' = tx'[w].data
    BY <1>4, <2>1 DEF ReplaceEntry
  <2>3. Others(tx'[w].data, EntryKey(w)) = Others(LoadAtpEntries(write[w].actor), EntryKey(w))
    BY <1>4 DEF Others, ReplaceEntry
  <2>4. Covers(HeadOf(w).data, LoadAtpEntries(write[w].actor))
    BY <1>2 DEF IInv, HistoryInv, HeadCovers, HeadOf
  <2>5. OnlyKey(tx'[w].prevData, tx'[w].data, EntryKey(w))
    BY <1>4, <2>3, <2>4 DEF OnlyKey, Covers, Others
  <2>6. OnlyKey(tx[w].prevData, tx[w].data, EntryKey(w))'
    BY <1>4, <2>1, <2>5 DEF OnlyKey, Others, Dead, dbVars
  <2>7. Covers(tx[w].data, ReplaceEntry(LoadAtpEntries(write[w].actor), w))'
    BY <2>2 DEF Covers
  <2>8. QED
    BY <2>6, <2>7 DEF TreeCovers
<1>9. FailuresPaid(w)' /\ Served(w)'
  BY <1>3, <1>4, <1>6 DEF CallInv, FailuresPaid, Served, Overtakers, Rivals, Happened, dbVars
<1>10. QED
  <2>1. CallInv(w)'
    BY <1>7, <1>8, <1>9 DEF CallInv
  <2>2. QED
    BY <1>1, <1>4, <2>1, QuietInv DEF Types

(* A call that goes on in its transaction keeps what it has read and built. *)
LEMMA TreeKept ==
    ASSUME NEW w \in Writers, TreeCovers(w), TargetKnown(w), tx[w].st \in InTx,
           UNCHANGED <<write, dbVars>>,
           tx'[w].data = tx[w].data, tx'[w].prevData = tx[w].prevData,
           tx'[w].snap = tx[w].snap, tx'[w].target = tx[w].target
    PROVE  TreeCovers(w)' /\ TargetKnown(w)'
<1>1. TreeCovers(w)'
  BY DEF TreeCovers, Covers, Dead, OnlyKey, Others, ReplaceEntry, EntryKey,
     LoadAtpEntries, PostEntries, Stale, dbVars
<1>2. TargetKnown(w)'
  BY DEF TargetKnown, NeedsSoftDelete, dbVars
<1>3. QED
  BY <1>1, <1>2

LEMMA SignInv ==
    ASSUME IInv, NEW w \in Writers, Sign(w)
    PROVE  IInv'
<1>1. Types' /\ Types
  BY TypesStep DEF Step, IInv
<1>2. write[w].actor \in Actors /\ tx \in [Writers -> Call] /\ tx[w] \in Call
  BY <1>1, WriteTyped DEF Types
<1>3. CallInv(w)
  BY DEF IInv
<1>4. /\ tx[w].st = "begun" /\ tx'[w].st = "signed"
      /\ tx'[w] = [tx[w] EXCEPT !.st = "signed", !.rev = clock + 1]
      /\ \A v \in Writers \ {w} : tx'[v] = tx[v]
      /\ clock' = clock + 1
      /\ UNCHANGED <<write, dbVars, lastSeq, rowLock, faults>>
  BY <1>2 DEF Sign, Call
<1>5. /\ tx'[w].data = tx[w].data /\ tx'[w].prevData = tx[w].prevData
      /\ tx'[w].snap = tx[w].snap /\ tx'[w].target = tx[w].target
      /\ tx'[w].attempt = tx[w].attempt /\ tx'[w].rev = clock + 1
  BY <1>2, <1>4 DEF Call
<1>6. TreeCovers(w)' /\ TargetKnown(w)'
  BY <1>3, <1>4, <1>5, TreeKept DEF CallInv, InTx
<1>7. RowHeld(w)' /\ SeqAbove(w)' /\ EventOnce(w)' /\ Served(w)'
  BY <1>3, <1>4 DEF CallInv, RowHeld, SeqAbove, EventOnce, Happened, Served, dbVars
<1>8. Snapshot(w)'
  <2>1. HeadOf(w)' = HeadOf(w) /\ HeadOf(w) \in Head /\ HeadOf(w).rev =< clock
    BY <1>1, <1>2, <1>4 DEF HeadOf, dbVars, Types, IInv, HistoryInv
  <2>2. /\ tx[w].snap =< HeadOf(w).rev
        /\ ~Stale(w) => tx[w].prevData = HeadOf(w).data
        /\ tx[w].snap \in Nat /\ HeadOf(w).rev \in Nat /\ clock \in Nat
    BY <1>1, <1>2, <1>3, <1>4, <2>1 DEF CallInv, Snapshot, InTx, Call, Head, Types
  <2>3. Stale(w)' = Stale(w)
    BY <1>4, <1>5 DEF Stale, dbVars
  <2>4. tx[w].snap < clock + 1
    BY <2>1, <2>2
  <2>5. QED
    BY <1>4, <1>5, <2>1, <2>2, <2>3, <2>4 DEF Snapshot
<1>9. FailuresPaid(w)'
  BY <1>3, <1>4, <1>5 DEF CallInv, FailuresPaid, Overtakers, Rivals, Happened, Stale, InTx,
     dbVars
<1>10. QED
  <2>1. CallInv(w)'
    BY <1>6, <1>7, <1>8, <1>9 DEF CallInv
  <2>2. lastSeq =< lastSeq' /\ clock =< clock' /\ faults =< faults'
    BY <1>1, <1>4 DEF Types
  <2>3. QED
    BY <1>1, <1>4, <2>1, <2>2, QuietInv

LEMMA UpdateActorInv ==
    ASSUME IInv, NEW w \in Writers, UpdateActor(w)
    PROVE  IInv'
<1>1. Types' /\ Types
  BY TypesStep DEF Step, IInv
<1>2. write[w].actor \in Actors /\ tx \in [Writers -> Call] /\ tx[w] \in Call
  BY <1>1, WriteTyped DEF Types
<1>3. CallInv(w)
  BY DEF IInv
<1>4. /\ tx[w].st = "signed" /\ tx'[w].st = "updated"
      /\ tx'[w] = [tx[w] EXCEPT !.st = "updated"]
      /\ \A v \in Writers \ {w} : tx'[v] = tx[v]
      /\ rowLock[write[w].actor] = Free /\ ~Stale(w)
      /\ rowLock' = [rowLock EXCEPT ![write[w].actor] = w]
      /\ UNCHANGED <<write, dbVars, lastSeq, clock, faults>>
  BY <1>2 DEF UpdateActor, Goto, Call
<1>5. /\ tx'[w].data = tx[w].data /\ tx'[w].prevData = tx[w].prevData
      /\ tx'[w].snap = tx[w].snap /\ tx'[w].target = tx[w].target
      /\ tx'[w].attempt = tx[w].attempt /\ tx'[w].rev = tx[w].rev
  BY <1>2, <1>4 DEF Call
<1>6. TreeCovers(w)' /\ TargetKnown(w)'
  BY <1>3, <1>4, <1>5, TreeKept DEF CallInv, InTx
<1>7. SeqAbove(w)' /\ EventOnce(w)' /\ Served(w)'
  BY <1>3, <1>4 DEF CallInv, SeqAbove, EventOnce, Happened, Served, dbVars
<1>8. Stale(w)' = Stale(w) /\ HeadOf(w)' = HeadOf(w)
  BY <1>4, <1>5 DEF Stale, dbVars, HeadOf
<1>9. RowHeld(w)' /\ Snapshot(w)' /\ FailuresPaid(w)'
  <2>1. rowLock'[write[w].actor] = w
    BY <1>1, <1>2, <1>4 DEF Types
  <2>2. QED
    BY <1>3, <1>4, <1>5, <1>8, <2>1 DEF CallInv, RowHeld, Snapshot, FailuresPaid,
       Overtakers, Rivals, Happened, InTx, dbVars
<1>10. QED
  <2>1. CallInv(w)'
    BY <1>6, <1>7, <1>9 DEF CallInv
  <2>2. \A v \in Writers \ {w} :
           rowLock[write[v].actor] = v => rowLock'[write[v].actor] = v
    BY <1>1, <1>4 DEF Types, Free
  <2>3. lastSeq =< lastSeq' /\ clock =< clock' /\ faults =< faults'
    BY <1>1, <1>4 DEF Types
  <2>4. QED
    BY <1>1, <1>4, <2>1, <2>2, <2>3, QuietInv

LEMMA InsertEventInv ==
    ASSUME IInv, NEW w \in Writers, InsertEvent(w)
    PROVE  IInv'
<1>1. Types' /\ Types
  BY TypesStep DEF Step, IInv
<1>2. write[w].actor \in Actors /\ tx \in [Writers -> Call] /\ tx[w] \in Call
  BY <1>1, WriteTyped DEF Types
<1>3. CallInv(w)
  BY DEF IInv
<1>4. /\ tx[w].st = "updated" /\ tx'[w].st = "inserted"
      /\ tx'[w] = [tx[w] EXCEPT !.st = "inserted", !.seq = lastSeq + 1]
      /\ \A v \in Writers \ {w} : tx'[v] = tx[v]
      /\ lastSeq' = lastSeq + 1
      /\ UNCHANGED <<write, dbVars, clock, rowLock, faults>>
  BY <1>2 DEF InsertEvent, Call
<1>5. /\ tx'[w].data = tx[w].data /\ tx'[w].prevData = tx[w].prevData
      /\ tx'[w].snap = tx[w].snap /\ tx'[w].target = tx[w].target
      /\ tx'[w].attempt = tx[w].attempt /\ tx'[w].rev = tx[w].rev
      /\ tx'[w].seq = lastSeq + 1
  BY <1>2, <1>4 DEF Call
<1>6. TreeCovers(w)' /\ TargetKnown(w)'
  BY <1>3, <1>4, <1>5, TreeKept DEF CallInv, InTx
<1>7. EventOnce(w)' /\ Served(w)'
  BY <1>3, <1>4 DEF CallInv, EventOnce, Happened, Served, dbVars
<1>8. Stale(w)' = Stale(w) /\ HeadOf(w)' = HeadOf(w)
  BY <1>4, <1>5 DEF Stale, dbVars, HeadOf
<1>9. RowHeld(w)' /\ Snapshot(w)' /\ FailuresPaid(w)'
  BY <1>3, <1>4, <1>5, <1>8 DEF CallInv, RowHeld, Snapshot, FailuresPaid,
     Overtakers, Rivals, Happened, InTx, dbVars
<1>10. SeqAbove(w)'
  <2>1. \A e \in events : e.seq \in Nat /\ e.seq =< lastSeq
    BY <1>1 DEF Types, Event, IInv, HistoryInv
  <2>2. EventsOf(write[w].actor)' \subseteq events
    BY <1>4 DEF EventsOf, dbVars
  <2>3. \A e \in EventsOf(write[w].actor)' : e.seq < lastSeq + 1
    BY <1>1, <2>1, <2>2 DEF Types
  <2>4. QED
    BY <1>1, <1>4, <1>5, <2>3 DEF SeqAbove, Types
<1>11. QED
  <2>1. CallInv(w)'
    BY <1>6, <1>7, <1>9, <1>10 DEF CallInv
  <2>2. lastSeq =< lastSeq' /\ clock =< clock' /\ faults =< faults'
    BY <1>1, <1>4 DEF Types
  <2>3. QED
    BY <1>1, <1>4, <2>1, <2>2, QuietInv

(* A call that leaves its transaction without a commit.                    *)
LEMMA LeaveInv ==
    ASSUME IInv, Types', NEW w \in Writers,
           UNCHANGED <<write, dbVars, lastSeq, clock>>, faults =< faults',
           \A v \in Writers \ {w} :
               /\ tx'[v] = tx[v]
               /\ rowLock[write[v].actor] = v => rowLock'[write[v].actor] = v,
           tx'[w].st \notin InTx, tx'[w].target = tx[w].target,
           tx[w].st \in InTx \/ tx'[w].st \in {"done", "failed"},
           FailuresPaid(w)', Served(w)'
    PROVE  IInv'
<1>1. CallInv(w) /\ Types
  BY DEF IInv
<1>2. RowHeld(w)' /\ Snapshot(w)' /\ SeqAbove(w)' /\ TreeCovers(w)'
  BY DEF RowHeld, Snapshot, SeqAbove, TreeCovers, InTx
<1>3. EventOnce(w)'
  BY <1>1 DEF CallInv, EventOnce, Happened, InTx, dbVars
<1>4. TargetKnown(w)'
  BY <1>1 DEF CallInv, TargetKnown, NeedsSoftDelete, InTx, dbVars
<1>5. CallInv(w)'
  BY <1>2, <1>3, <1>4 DEF CallInv
<1>6. QED
  BY <1>1, <1>5, QuietInv DEF Types

LEMMA UnlockKeeps ==
    ASSUME Types, NEW w \in Writers, Unlock(w), NEW v \in Writers \ {w},
           rowLock[write[v].actor] = v
    PROVE  rowLock'[write[v].actor] = v
  BY WriteTyped DEF Unlock, Types

(* What StartOver leaves of the call.                                      *)
LEMMA StartOverCall ==
    ASSUME Types, NEW w \in Writers, StartOver(w)
    PROVE  /\ \A v \in Writers \ {w} : tx'[v] = tx[v]
           /\ tx'[w].target = tx[w].target
           /\ \/ MayStartOver(w) /\ tx'[w].st = (IF NeedsSoftDelete(w) THEN "spawned" ELSE "idle")
                 /\ tx'[w].attempt = tx[w].attempt + 1
              \/ ~MayStartOver(w) /\ tx'[w].st = "failed" /\ tx'[w].attempt = tx[w].attempt
<1>1. tx \in [Writers -> Call] /\ tx[w] \in Call
  BY DEF Types
<1>2. \A v \in Writers \ {w} : tx'[v] = tx[v]
  BY <1>1 DEF StartOver
<1>3. CASE MayStartOver(w)
  <2>1. tx'[w] = [tx[w] EXCEPT !.st = IF NeedsSoftDelete(w) THEN "spawned" ELSE "idle",
                               !.attempt = tx[w].attempt + 1, !.seq = 0]
    BY <1>1, <1>3 DEF StartOver
  <2>2. QED
    BY <1>1, <1>2, <1>3, <2>1 DEF Call
<1>4. CASE ~MayStartOver(w)
  <2>1. tx'[w] = [tx[w] EXCEPT !.st = "failed"]
    BY <1>1, <1>4 DEF StartOver
  <2>2. QED
    BY <1>1, <1>2, <1>4, <2>1 DEF Call
<1>5. QED
  BY <1>3, <1>4

(* A call is a rival of its own, and never overtakes itself.               *)
LEMMA OvertakersBelow ==
    ASSUME NEW w \in Writers
    PROVE  /\ IsFiniteSet(Overtakers(w)) /\ Cardinality(Overtakers(w)) \in Nat
           /\ Cardinality(Rivals(w)) \in Nat
           /\ Cardinality(Overtakers(w)) + 1 =< Cardinality(Rivals(w))
<1>1. IsFiniteSet(Rivals(w)) /\ w \in Rivals(w)
  BY FS_Subset DEF Rivals
<1>2. IsFiniteSet(Rivals(w) \ {w}) /\ Cardinality(Rivals(w) \ {w}) = Cardinality(Rivals(w)) - 1
  BY <1>1, FS_RemoveElement
<1>3. Overtakers(w) \subseteq Rivals(w) \ {w}
  BY DEF Overtakers
<1>4. IsFiniteSet(Overtakers(w)) /\ Cardinality(Overtakers(w)) =< Cardinality(Rivals(w) \ {w})
  BY <1>2, <1>3, FS_Subset
<1>5. Cardinality(Rivals(w)) \in Nat /\ Cardinality(Overtakers(w)) \in Nat
  BY <1>1, <1>4, FS_CardinalityType
<1>6. QED
  BY <1>2, <1>4, <1>5

LEMMA PublishInv ==
    ASSUME IInv, NEW w \in Writers, Publish(w)
    PROVE  IInv'
<1>1. Types' /\ Types /\ CallInv(w)
  BY TypesStep DEF Step, IInv
<1>2. tx \in [Writers -> Call] /\ tx[w] \in Call
  BY <1>1 DEF Types
<1>3. /\ tx[w].st = "committed" /\ tx'[w] = [tx[w] EXCEPT !.st = "done"]
      /\ \A v \in Writers \ {w} : tx'[v] = tx[v]
      /\ UNCHANGED <<write, dbVars, lastSeq, clock, rowLock, faults>>
  BY <1>2 DEF Publish, Goto
<1>4. tx'[w].st = "done" /\ tx'[w].target = tx[w].target /\ tx'[w].attempt = tx[w].attempt
  BY <1>2, <1>3 DEF Call
<1>5. FailuresPaid(w)' /\ Served(w)'
  BY <1>1, <1>3, <1>4 DEF CallInv, FailuresPaid, Served, Overtakers, Rivals, Happened, InTx,
     dbVars
<1>6. faults =< faults' /\ tx'[w].st \notin InTx
  BY <1>1, <1>3, <1>4 DEF InTx, Types
<1>7. QED
  BY <1>1, <1>3, <1>4, <1>5, <1>6, LeaveInv

LEMMA SerializationFailureInv ==
    ASSUME IInv, NEW w \in Writers, SerializationFailure(w)
    PROVE  IInv'
<1>1. Types' /\ Types /\ CallInv(w)
  BY TypesStep DEF Step, IInv
<1>2. /\ tx[w].st = "signed" /\ Stale(w) /\ StartOver(w)
      /\ UNCHANGED <<write, dbVars, lastSeq, clock, rowLock, faults>>
  BY DEF SerializationFailure
<1>3. tx[w].attempt \in Nat
  BY <1>1 DEF Types, Call
<1>4. /\ Overtakers(w)' = Overtakers(w) /\ Rivals(w)' = Rivals(w)
      /\ Cardinality(Overtakers(w)) \in Nat /\ Cardinality(Rivals(w)) \in Nat
      /\ Cardinality(Overtakers(w)) + 1 =< Cardinality(Rivals(w))
  BY <1>2, OvertakersBelow DEF Overtakers, Rivals, Happened, dbVars
<1>5. faults = 0 => tx[w].attempt =< Cardinality(Overtakers(w))
  BY <1>1, <1>2 DEF CallInv, FailuresPaid, InTx
<1>6. tx'[w].st \notin InTx
  BY <1>1, <1>2, StartOverCall DEF InTx
<1>7. FailuresPaid(w)'
  BY <1>1, <1>2, <1>3, <1>4, <1>5, <1>6, StartOverCall DEF FailuresPaid
<1>8. Served(w)'
  BY <1>1, <1>2, <1>3, <1>4, <1>5, StartOverCall DEF Served, MayStartOver
<1>9. QED
  BY <1>1, <1>2, <1>6, <1>7, <1>8, StartOverCall, LeaveInv DEF InTx, Types

LEMMA SsiAbortInv ==
    ASSUME IInv, NEW w \in Writers, SsiAbort(w)
    PROVE  IInv'
<1>1. Types' /\ Types
  BY TypesStep DEF IInv
<1>2. /\ tx[w].st \in InTx /\ StartOver(w) /\ Unlock(w) /\ faults' = faults + 1
      /\ UNCHANGED <<write, dbVars, lastSeq, clock>>
  BY DEF SsiAbort, Fault
<1>3. faults =< faults' /\ faults' # 0
  BY <1>1, <1>2 DEF Types
<1>4. FailuresPaid(w)' /\ Served(w)'
  BY <1>3 DEF FailuresPaid, Served
<1>5. tx'[w].st \notin InTx
  BY <1>1, <1>2, StartOverCall DEF InTx
<1>6. QED
  BY <1>1, <1>2, <1>3, <1>4, <1>5, StartOverCall, UnlockKeeps, LeaveInv

LEMMA FailInv ==
    ASSUME IInv, NEW w \in Writers, Fail(w)
    PROVE  IInv'
<1>1. Types' /\ Types
  BY TypesStep DEF IInv
<1>2. tx \in [Writers -> Call] /\ tx[w] \in Call
  BY <1>1 DEF Types
<1>3. /\ Goto(w, "failed") /\ Unlock(w) /\ faults' = faults + 1
      /\ UNCHANGED <<write, dbVars, lastSeq, clock>>
  BY DEF Fail, Fault
<1>4. /\ tx'[w].st = "failed" /\ tx'[w].target = tx[w].target
      /\ \A v \in Writers \ {w} : tx'[v] = tx[v]
  BY <1>2, <1>3 DEF Goto, Call
<1>5. faults =< faults' /\ faults' # 0
  BY <1>1, <1>3 DEF Types
<1>6. FailuresPaid(w)' /\ Served(w)'
  BY <1>5 DEF FailuresPaid, Served
<1>7. QED
  BY <1>1, <1>3, <1>4, <1>5, <1>6, UnlockKeeps, LeaveInv DEF InTx

-----------------------------------------------------------------------------
(* What a soft delete takes out of the entries of an actor is dead.        *)
LEMMA SoftDeleteEntries ==
    ASSUME Types, KeysKnown, NEW p \in Posts, deleted' = deleted \cup {p},
           UNCHANGED <<write, rkey, records>>, NEW a \in Actors
    PROVE  /\ LoadAtpEntries(a)' \subseteq LoadAtpEntries(a)
           /\ \A x \in LoadAtpEntries(a) \ LoadAtpEntries(a)' : Dead(x)'
<1>1. PostEntries(a)' \subseteq PostEntries(a)
  BY DEF PostEntries
<1>2. ASSUME NEW x \in PostEntries(a), x \notin PostEntries(a)'
      PROVE  Dead(x)'
  <2>1. PICK q \in Posts \ deleted : /\ rkey[q] # None /\ write[rkey[q]].actor = a
                                     /\ x = [key |-> rkey[q], cid |-> rkey[q]]
    BY DEF PostEntries
  <2>2. q = p
    BY <1>2, <2>1 DEF PostEntries
  <2>3. x.key \in Writers /\ write[x.key].post = p
    BY <2>1, <2>2 DEF Types, KeysKnown
  <2>4. QED
    BY <2>3 DEF Dead
<1>3. QED
  BY <1>1, <1>2 DEF LoadAtpEntries

LEMMA SoftDeleteInv ==
    ASSUME IInv, NEW w \in Writers, SoftDelete(w)
    PROVE  IInv'
<1>1. Types' /\ Types
  BY TypesStep DEF Step, IInv
<1>2. tx \in [Writers -> Call] /\ tx[w] \in Call /\ write[w].post \in Posts
  BY <1>1, WriteTyped DEF Types, SoftDelete, NeedsSoftDelete
<1>3. DEFINE p == write[w].post
<1>4. /\ tx[w].st = "idle" /\ deleted' = deleted \cup {p}
      /\ \A v \in Writers \ {w} : tx'[v] = tx[v]
      /\ tx'[w] = [tx[w] EXCEPT !.target = rkey[p],
                                !.st = IF rkey[p] = None THEN "done" ELSE "spawned"]
      /\ UNCHANGED <<write, head, rkey, records, events, lastSeq, clock, rowLock, faults>>
  BY <1>2 DEF SoftDelete
<1>5. /\ tx'[w].st = (IF rkey[p] = None THEN "done" ELSE "spawned")
      /\ tx'[w].target = rkey[p] /\ tx'[w].attempt = tx[w].attempt
  BY <1>2, <1>4 DEF Call
<1>6. \A x : Dead(x) => Dead(x)'
  BY <1>4 DEF Dead
<1>7. \A a \in Actors : /\ LoadAtpEntries(a)' \subseteq LoadAtpEntries(a)
                        /\ \A x \in LoadAtpEntries(a) \ LoadAtpEntries(a)' : Dead(x)'
  BY <1>1, <1>2, <1>4, SoftDeleteEntries DEF IInv, HistoryInv
<1>8. HistoryInv'
  <2>1. /\ \A e \in events' : e.seq =< lastSeq'
        /\ \A a \in Actors : head'[a].rev =< clock'
        /\ (RevsBelowHead /\ LinearHistory /\ RevsIncrease /\ KeysKnown)'
    BY <1>4 DEF IInv, HistoryInv, RevsBelowHead, LinearHistory, RevsIncrease, EventsOf,
       First, Last, Follows, KeysKnown
  <2>2. HeadCovers'
    BY <1>4, <1>6, <1>7 DEF IInv, HistoryInv, HeadCovers, Covers
  <2>3. \A e \in events' : OnlyKey(e.prevData, e.data, e.key)'
    BY <1>4, <1>6 DEF IInv, HistoryInv, OnlyKey, Others
  <2>4. QED
    BY <2>1, <2>2, <2>3 DEF HistoryInv
<1>9. CallInv(w)'
  <2>1. CallInv(w)
    BY DEF IInv
  <2>2. RowHeld(w)' /\ Snapshot(w)' /\ SeqAbove(w)' /\ TreeCovers(w)'
    BY <1>5 DEF RowHeld, Snapshot, SeqAbove, TreeCovers, InTx
  <2>3. EventOnce(w)' /\ TargetKnown(w)'
    BY <1>4, <1>5, <2>1 DEF CallInv, EventOnce, Happened, TargetKnown, InTx
  <2>4. FailuresPaid(w)' /\ Served(w)'
    BY <1>4, <1>5, <2>1 DEF CallInv, FailuresPaid, Served, Overtakers, Rivals, Happened, InTx
  <2>5. QED
    BY <2>2, <2>3, <2>4 DEF CallInv
<1>10. ASSUME NEW v \in Writers, v # w
       PROVE  CallInv(v)'
  <2>1. CallInv(v) /\ tx'[v] = tx[v] /\ write[v].actor \in Actors
    BY <1>1, <1>4, <1>10, WriteTyped DEF IInv
  <2>2. RowHeld(v)' /\ EventOnce(v)' /\ Snapshot(v)' /\ SeqAbove(v)' /\ TargetKnown(v)'
    BY <1>4, <2>1 DEF CallInv, RowHeld, Stale, EventOnce, Happened, Snapshot, HeadOf,
       SeqAbove, EventsOf, TargetKnown, NeedsSoftDelete
  <2>3. TreeCovers(v)'
    <3>1. EntryKey(v)' = EntryKey(v) /\ Stale(v)' = Stale(v)
      BY <1>4, <2>1 DEF EntryKey, Stale
    <3>2. DEFINE es == ReplaceEntry(LoadAtpEntries(write[v].actor), v)
    <3>3. /\ es' \subseteq es
          /\ \A x \in es \ es' : Dead(x)'
      BY <1>4, <1>7, <2>1, <3>1 DEF ReplaceEntry
    <3>4. Covers(tx[v].data, es) => Covers(tx[v].data, es)'
      BY <1>6, <2>1, <3>3 DEF Covers
    <3>5. OnlyKey(tx[v].prevData, tx[v].data, EntryKey(v)) =>
              OnlyKey(tx[v].prevData, tx[v].data, EntryKey(v))'
      BY <1>6, <2>1, <3>1 DEF OnlyKey, Others
    <3>6. QED
      BY <2>1, <3>1, <3>4, <3>5 DEF CallInv, TreeCovers
  <2>4. FailuresPaid(v)' /\ Served(v)'
    BY <1>4, <2>1 DEF CallInv, FailuresPaid, Served, Overtakers, Rivals, Happened, Stale
  <2>5. QED
    BY <2>2, <2>3, <2>4 DEF CallInv
<1>11. QED
  BY <1>1, <1>8, <1>9, <1>10 DEF IInv

-----------------------------------------------------------------------------
(* The post of a call that is about to commit has no key of another call.  *)
LEMMA PutAlone ==
    ASSUME Types, KeysKnown, NEW w \in Writers, write[w].op = "put",
           write[w].post # NoPost
    PROVE  rkey[write[w].post] \in {None, w}
  BY WriteTyped, PutOnceAssumption DEF Types, KeysKnown

(* What a commit makes visible is in the MST of the commit, and changes    *)
(* nothing for other actors.                                               *)
LEMMA ApplyEntries ==
    ASSUME IInv, NEW w \in Writers, tx[w].st = "inserted", Apply(w)
    PROVE  /\ \A a \in Actors \ {write[w].actor} : LoadAtpEntries(a)' = LoadAtpEntries(a)
           /\ LoadAtpEntries(write[w].actor)' \subseteq tx[w].data
           /\ \A x \in tx[w].data \ LoadAtpEntries(write[w].actor)' : Dead(x)
<1>1. /\ Types /\ KeysKnown /\ CallInv(w)
      /\ write[w].actor \in Actors /\ write[w].post \in Posts \cup {NoPost}
      /\ write[w].key \in Keys /\ write[w].op \in Ops
  BY WriteTyped DEF IInv, HistoryInv
<1>2. DEFINE a0 == write[w].actor
<1>3. ~Stale(w) /\ Covers(tx[w].data, ReplaceEntry(LoadAtpEntries(a0), w))
  BY <1>1 DEF CallInv, RowHeld, TreeCovers, InTx
<1>4. UNCHANGED <<write, deleted>>
  BY DEF Apply
<1>5. CASE write[w].post # NoPost /\ write[w].op = "put"
  <2>1. /\ records' = records /\ rkey' = [rkey EXCEPT ![write[w].post] = w]
        /\ EntryKey(w) = w
    BY <1>5 DEF Apply, EntryKey
  <2>2. rkey[write[w].post] \in {None, w} /\ write[w].post \in Posts
    BY <1>1, <1>5, PutAlone
  <2>3. \A a \in Actors \ {a0} : PostEntries(a)' = PostEntries(a)
    BY <1>1, <1>4, <2>1, <2>2 DEF PostEntries, Types, None
  <2>4. DEFINE ew == [key |-> w, cid |-> w]
  <2>5. PostEntries(a0)' \subseteq PostEntries(a0) \cup {ew}
    BY <1>1, <1>4, <2>1, <2>2 DEF PostEntries, Types
  <2>6. PostEntries(a0) \subseteq PostEntries(a0)'
    BY <1>1, <1>4, <2>1, <2>2 DEF PostEntries, Types, None
  <2>7. ew \in PostEntries(a0)' \/ write[w].post \in deleted
    BY <1>1, <1>4, <2>1, <2>2, WritersAssumption DEF PostEntries, Types, None
  <2>8. ReplaceEntry(LoadAtpEntries(a0), w) =
            {e \in LoadAtpEntries(a0) : e.key # w} \cup {ew}
    BY <1>5, <2>1 DEF ReplaceEntry
  <2>9. \A e \in LoadAtpEntries(a0) : e.key = w => e = ew
    BY <1>1, WritersAssumption DEF LoadAtpEntries, PostEntries, KeysKnown
  <2>10. LoadAtpEntries(a0)' \subseteq ReplaceEntry(LoadAtpEntries(a0), w)
    BY <1>4, <2>1, <2>5, <2>8, <2>9 DEF LoadAtpEntries
  <2>11. \A x \in ReplaceEntry(LoadAtpEntries(a0), w) \ LoadAtpEntries(a0)' : Dead(x)
    BY <1>4, <2>1, <2>2, <2>6, <2>7, <2>8 DEF LoadAtpEntries, Dead
  <2>12. \A a \in Actors \ {a0} : LoadAtpEntries(a)' = LoadAtpEntries(a)
    BY <2>1, <2>3 DEF LoadAtpEntries
  <2>13. QED
    BY <1>3, <1>4, <2>10, <2>11, <2>12 DEF Covers
<1>6. CASE write[w].post # NoPost /\ write[w].op = "delete"
  <2>1. records' = records /\ rkey' = rkey /\ EntryKey(w) = tx[w].target
    BY <1>6 DEF Apply, EntryKey
  <2>2. \A a \in Actors : LoadAtpEntries(a)' = LoadAtpEntries(a)
    BY <1>4, <2>1 DEF LoadAtpEntries, PostEntries
  <2>3. /\ write[w].post \in deleted /\ tx[w].target = rkey[write[w].post]
        /\ tx[w].target # None /\ write[w].post \in Posts
    BY <1>1, <1>6 DEF CallInv, TargetKnown, NeedsSoftDelete, InTx
  <2>4. tx[w].target \in Writers
    BY <1>1, <2>3 DEF Types
  <2>5. \A e \in LoadAtpEntries(a0) : e.key # tx[w].target
    <3>1. ASSUME NEW e \in PostEntries(a0)
          PROVE  e.key # tx[w].target
      BY <1>1, <2>3 DEF PostEntries, KeysKnown
    <3>2. ASSUME NEW e \in records[a0]
          PROVE  e.key # tx[w].target
      BY <1>1, <2>4, WritersAssumption DEF KeysKnown
    <3>3. QED
      BY <3>1, <3>2 DEF LoadAtpEntries
  <2>6. ReplaceEntry(LoadAtpEntries(a0), w) = LoadAtpEntries(a0)
    BY <1>6, <2>1, <2>5 DEF ReplaceEntry
  <2>7. QED
    BY <1>1, <1>3, <1>4, <2>2, <2>6 DEF Covers
<1>7. CASE write[w].post = NoPost
  <2>1. /\ rkey' = rkey /\ EntryKey(w) = write[w].key
        /\ records' = [records EXCEPT ![a0] = ReplaceEntry(records[a0], w)]
    BY <1>7 DEF Apply, EntryKey
  <2>2. \A a \in Actors : PostEntries(a)' = PostEntries(a)
    BY <1>4, <2>1 DEF PostEntries
  <2>3. \A a \in Actors \ {a0} : LoadAtpEntries(a)' = LoadAtpEntries(a)
    BY <1>1, <2>1, <2>2 DEF LoadAtpEntries, Types
  <2>4. \A e \in PostEntries(a0) : e.key # write[w].key
    BY <1>1, WritersAssumption DEF PostEntries, Types, None
  <2>5. ReplaceEntry(LoadAtpEntries(a0), w) = PostEntries(a0) \cup ReplaceEntry(records[a0], w)
    BY <2>1, <2>4 DEF ReplaceEntry, LoadAtpEntries
  <2>6. LoadAtpEntries(a0)' = PostEntries(a0) \cup ReplaceEntry(records[a0], w)
    BY <1>1, <1>4, <2>1, <2>2 DEF LoadAtpEntries, Types
  <2>7. QED
    BY <1>3, <1>4, <2>3, <2>5, <2>6 DEF Covers
<1>8. QED
  BY <1>1, <1>5, <1>6, <1>7 DEF Ops

(* The event of a commit continues the chain of its actor.                 *)
LEMMA ApplyHistory ==
    ASSUME IInv, Types', NEW w \in Writers, tx[w].st = "inserted", Apply(w),
           UNCHANGED <<lastSeq, clock>>
    PROVE  HistoryInv'
<1>1. /\ Types /\ CallInv(w) /\ write[w].actor \in Actors /\ HistoryInv
      /\ tx[w] \in Call
  BY WriteTyped DEF IInv, Types
<1>2. PICK a0, e0 : a0 = write[w].actor /\ e0 = EventOf(w)
  OBVIOUS
<1>3. /\ head' = [head EXCEPT ![a0] = [rev |-> tx[w].rev, data |-> tx[w].data]]
      /\ events' = events \cup {e0}
      /\ UNCHANGED <<write, deleted>>
      /\ a0 \in Actors
  BY <1>1, <1>2 DEF Apply
<1>4. /\ e0.seq = tx[w].seq /\ e0.actor = a0 /\ e0.rev = tx[w].rev /\ e0.since = tx[w].snap
      /\ e0.key = EntryKey(w) /\ e0.prevData = tx[w].prevData /\ e0.data = tx[w].data
  BY <1>2 DEF EventOf
<1>5. /\ head[a0].rev = tx[w].snap /\ tx[w].prevData = head[a0].data
      /\ tx[w].snap < tx[w].rev /\ tx[w].rev =< clock
      /\ tx[w].seq =< lastSeq /\ \A e \in EventsOf(a0) : e.seq < tx[w].seq
      /\ OnlyKey(tx[w].prevData, tx[w].data, EntryKey(w))
  BY <1>1, <1>2 DEF CallInv, RowHeld, Stale, Snapshot, HeadOf, SeqAbove, TreeCovers, InTx
<1>6. /\ head'[a0] = [rev |-> tx[w].rev, data |-> tx[w].data]
      /\ \A a \in Actors \ {a0} : head'[a] = head[a]
      /\ EventsOf(a0)' = EventsOf(a0) \cup {e0}
      /\ \A a \in Actors \ {a0} : EventsOf(a)' = EventsOf(a)
  BY <1>1, <1>3, <1>4 DEF Types, EventsOf
<1>7. /\ \A e \in events : /\ e.seq \in Nat /\ e.rev \in Nat /\ e.actor \in Actors
                           /\ e \in EventsOf(e.actor)
      /\ tx[w].seq \in Nat /\ tx[w].rev \in Nat /\ tx[w].snap \in Nat
      /\ \A a \in Actors : head[a].rev \in Nat
  BY <1>1 DEF Types, Event, Call, Head, EventsOf
<1>8. /\ \A e \in events' : e.seq =< lastSeq'
      /\ \A a \in Actors : head'[a].rev =< clock'
  BY <1>1, <1>3, <1>4, <1>5, <1>6, <1>7 DEF HistoryInv
<1>9. RevsBelowHead'
  <2>1. ASSUME NEW e \in events, e.actor = a0
        PROVE  e.rev =< tx[w].rev
    BY <1>1, <1>5, <1>7, <2>1 DEF HistoryInv, RevsBelowHead
  <2>2. ASSUME NEW e \in events, e.actor # a0
        PROVE  e.rev =< head'[e.actor].rev
    BY <1>1, <1>6, <1>7, <2>2 DEF HistoryInv, RevsBelowHead
  <2>3. QED
    BY <1>3, <1>4, <1>6, <1>7, <2>1, <2>2 DEF RevsBelowHead
<1>10. RevsIncrease'
  <2>1. \A e \in EventsOf(a0) : e.rev < tx[w].rev /\ e.seq < tx[w].seq
    BY <1>1, <1>5, <1>7 DEF HistoryInv, RevsBelowHead, EventsOf
  <2>2. ASSUME NEW d \in events', NEW e \in events', d.actor = e.actor, d.seq < e.seq
        PROVE  d.rev < e.rev
    <3>1. CASE d \in events /\ e \in events
      BY <1>1, <2>2, <3>1 DEF HistoryInv, RevsIncrease
    <3>2. CASE d \in events /\ e = e0
      BY <1>4, <1>7, <2>1, <2>2, <3>2
    <3>3. CASE d = e0 /\ e \in events
      BY <1>4, <1>7, <2>1, <2>2, <3>3
    <3>4. QED
      BY <1>3, <1>4, <1>7, <2>2, <3>1, <3>2, <3>3
  <2>3. QED
    BY <2>2 DEF RevsIncrease
<1>11. LinearHistory'
  <2>1. LinearHistory
    BY <1>1 DEF HistoryInv
  <2>2. ASSUME NEW a \in Actors \ {a0}
        PROVE  /\ EventsOf(a)' = {} => head'[a] = [rev |-> 0, data |-> {}]
               /\ \A e \in EventsOf(a)' :
                     /\ First(e)' => e.since = 0 /\ e.prevData = {}
                     /\ \A d \in EventsOf(a)' :
                           Follows(e, d)' => e.since = d.rev /\ e.prevData = d.data
                     /\ Last(e)' => head'[a] = [rev |-> e.rev, data |-> e.data]
    <3>1. \A e \in EventsOf(a) : e.actor = a
      BY DEF EventsOf
    <3>2. \A e \in EventsOf(a) : /\ First(e)' = First(e) /\ Last(e)' = Last(e)
                                 /\ \A d : Follows(e, d)' = Follows(e, d)
      BY <1>6, <3>1 DEF First, Last, Follows
    <3>3. QED
      BY <1>6, <2>1, <3>2 DEF LinearHistory
  <2>3. \A e \in EventsOf(a0) : e.actor = a0 /\ e.seq \in Nat /\ e.seq < tx[w].seq
    BY <1>5, <1>7 DEF EventsOf
  <2>4. ASSUME NEW e \in EventsOf(a0)
        PROVE  /\ First(e)' => e.since = 0 /\ e.prevData = {}
               /\ \A d \in EventsOf(a0)' :
                     Follows(e, d)' => e.since = d.rev /\ e.prevData = d.data
               /\ ~Last(e)'
    <3>1. First(e)' => First(e)
      BY <1>6, <2>3 DEF First
    <3>2. ~Last(e)'
      BY <1>4, <1>6, <1>7, <2>3 DEF Last
    <3>3. \A d \in EventsOf(a0) : Follows(e, d)' => Follows(e, d)
      BY <1>6, <2>3 DEF Follows
    <3>4. ~Follows(e, e0)'
      BY <1>4, <1>7, <2>3 DEF Follows
    <3>5. QED
      <4>1. /\ First(e) => e.since = 0 /\ e.prevData = {}
            /\ \A d \in EventsOf(a0) : Follows(e, d) => e.since = d.rev /\ e.prevData = d.data
        BY <1>3, <2>1 DEF LinearHistory
      <4>2. QED
        BY <1>6, <3>1, <3>2, <3>3, <3>4, <4>1
  <2>5. First(e0)' => e0.since = 0 /\ e0.prevData = {}
    <3>1. First(e0)' => EventsOf(a0) = {}
      BY <1>4, <1>6, <1>7, <2>3 DEF First
    <3>2. EventsOf(a0) = {} => head[a0] = [rev |-> 0, data |-> {}]
      BY <1>3, <2>1 DEF LinearHistory
    <3>3. QED
      BY <1>4, <1>5, <3>1, <3>2
  <2>6. ASSUME NEW d \in EventsOf(a0), Follows(e0, d)'
        PROVE  e0.since = d.rev /\ e0.prevData = d.data
    <3>1. Last(d)
      BY <1>4, <1>6, <1>7, <2>3, <2>6 DEF Last, Follows
    <3>2. head[a0] = [rev |-> d.rev, data |-> d.data]
      BY <1>3, <2>1, <3>1 DEF LinearHistory
    <3>3. QED
      BY <1>4, <1>5, <3>2
  <2>7. ~Follows(e0, e0)'
    BY <1>4, <1>7 DEF Follows
  <2>8. head'[a0] = [rev |-> e0.rev, data |-> e0.data]
    BY <1>4, <1>6
  <2>9. QED
    BY <1>6, <2>2, <2>4, <2>5, <2>6, <2>7, <2>8 DEF LinearHistory
<1>12. KeysKnown'
  <2>1. \A p \in Posts : rkey'[p] # None =>
            write'[rkey'[p]].op = "put" /\ write'[rkey'[p]].post = p
    BY <1>1, <1>3 DEF HistoryInv, KeysKnown, Apply, Types
  <2>2. ASSUME NEW a \in Actors, NEW x \in records'[a]
        PROVE  x.key \in Keys
    <3>1. CASE write[w].post = NoPost /\ a = a0
      <4>1. EntryKey(w) = write[w].key /\ write[w].key \in Keys
        BY <1>1, <3>1, WriteTyped DEF EntryKey
      <4>2. records'[a] = ReplaceEntry(records[a], w)
        BY <1>1, <1>2, <3>1 DEF Apply, Types
      <4>3. QED
        BY <1>1, <2>2, <4>1, <4>2 DEF ReplaceEntry, HistoryInv, KeysKnown
    <3>2. CASE write[w].post # NoPost \/ a # a0
      <4>1. records'[a] = records[a]
        BY <1>1, <1>2, <3>2 DEF Apply, Types
      <4>2. QED
        BY <1>1, <2>2, <4>1 DEF HistoryInv, KeysKnown
    <3>3. QED
      BY <3>1, <3>2
  <2>3. QED
    BY <2>1, <2>2 DEF KeysKnown
<1>13. HeadCovers'
  <2>1. ASSUME NEW a \in Actors \ {a0}
        PROVE  Covers(head[a].data, LoadAtpEntries(a))'
    BY <1>1, <1>2, <1>3, <1>6, ApplyEntries DEF HistoryInv, HeadCovers, Covers, Dead
  <2>2. head'[a0].data = tx[w].data
    BY <1>6
  <2>3. Covers(head[a0].data, LoadAtpEntries(a0))'
    BY <1>2, <1>3, <2>2, ApplyEntries DEF Covers, Dead
  <2>5. QED
    BY <1>3, <2>1, <2>3 DEF HeadCovers
<1>14. \A e \in events' : OnlyKey(e.prevData, e.data, e.key)'
  BY <1>1, <1>3, <1>4, <1>5 DEF HistoryInv, OnlyKey, Dead, Others
<1>15. QED
  BY <1>8, <1>9, <1>10, <1>11, <1>12, <1>13, <1>14 DEF HistoryInv

(* A commit is paid for by the calls that it overtakes, and moves no other *)
(* call.                                                                   *)
LEMMA ApplyInv ==
    ASSUME IInv, Types', NEW w \in Writers, tx[w].st = "inserted", Apply(w), Unlock(w),
           UNCHANGED <<lastSeq, clock>>, faults =< faults',
           \A v \in Writers \ {w} : tx'[v] = tx[v],
           tx'[w].st \in {"committed", "failed"}, tx'[w].attempt = tx[w].attempt,
           tx'[w].st = "failed" => faults' # 0
    PROVE  IInv'
<1>1. HistoryInv'
  BY ApplyHistory
<1>2. /\ Types /\ CallInv(w) /\ HistoryInv
      /\ UNCHANGED <<write, deleted>> /\ events' = events \cup {EventOf(w)}
      /\ EventOf(w).writer = w /\ EventOf(w).actor = write[w].actor
      /\ head' = [head EXCEPT ![write[w].actor] = [rev |-> tx[w].rev, data |-> tx[w].data]]
  BY DEF IInv, Apply, EventOf
<1>3. /\ \A v \in Writers \ {w} : Happened(v)' = Happened(v)
      /\ Happened(w)' /\ ~Happened(w)
  BY <1>2 DEF Happened, CallInv, EventOnce
<1>4. \A v \in Writers : Rivals(v)' = Rivals(v)
  BY <1>2 DEF Rivals
<1>5. faults' = 0 => faults = 0
  BY <1>2 DEF Types
<1>6. CallInv(w)'
  <2>1. RowHeld(w)' /\ Snapshot(w)' /\ SeqAbove(w)' /\ TreeCovers(w)' /\ TargetKnown(w)'
    BY DEF RowHeld, Snapshot, SeqAbove, TreeCovers, TargetKnown, InTx
  <2>2. EventOnce(w)' /\ Served(w)'
    BY DEF EventOnce, Served
  <2>3. Overtakers(w)' = Overtakers(w)
    BY <1>3, <1>4 DEF Overtakers, Rivals
  <2>4. FailuresPaid(w)'
    BY <1>2, <1>5, <2>3 DEF CallInv, FailuresPaid, InTx
  <2>5. QED
    BY <2>1, <2>2, <2>4 DEF CallInv
<1>7. ASSUME NEW v \in Writers, v # w
      PROVE  CallInv(v)'
  <2>1. CallInv(v) /\ tx'[v] = tx[v] /\ tx[v] \in Call /\ write'[v] = write[v]
    BY <1>2, <1>7 DEF IInv, Types
  <2>2. /\ write[v].actor \in Actors /\ write[w].actor \in Actors
        /\ write[v].post \in Posts \cup {NoPost}
    BY <1>2, WriteTyped
  <2>3. /\ EventOnce(v)' /\ Served(v)'
        /\ EntryKey(v)' = EntryKey(v)
        /\ OnlyKey(tx[v].prevData, tx[v].data, EntryKey(v))' =
               OnlyKey(tx[v].prevData, tx[v].data, EntryKey(v))
    BY <1>2, <1>3, <1>4, <1>5, <1>7, <2>1 DEF CallInv, EventOnce, Served, EntryKey, OnlyKey,
       Dead, Others
  <2>4. TargetKnown(v)'
    <3>1. SUFFICES ASSUME NeedsSoftDelete(v), tx[v].st \in InTx \cup {"spawned"}
                   PROVE  rkey'[write[v].post] = rkey[write[v].post]
      BY <1>2, <2>1 DEF CallInv, TargetKnown, NeedsSoftDelete
    <3>2. rkey[write[v].post] # None /\ write[v].post \in Posts
      BY <2>1, <2>2, <3>1 DEF CallInv, TargetKnown, NeedsSoftDelete
    <3>3. CASE write[w].post = write[v].post /\ write[w].op = "put"
      <4>1. rkey[write[w].post] = w
        BY <1>2, <3>1, <3>2, <3>3, PutAlone DEF HistoryInv, NeedsSoftDelete
      <4>2. QED
        BY <1>2, <3>2, <3>3, <4>1 DEF Apply, Types
    <3>4. CASE ~(write[w].post = write[v].post /\ write[w].op = "put")
      BY <1>2, <3>2, <3>4 DEF Apply, Types
    <3>5. QED
      BY <3>3, <3>4
  <2>5. CASE write[v].actor = write[w].actor
    <3>1. tx[v].st \notin {"updated", "inserted"}
      BY <1>2, <1>7, <2>1, <2>5 DEF CallInv, RowHeld
    <3>2. RowHeld(v)' /\ SeqAbove(v)'
      BY <2>1, <3>1 DEF RowHeld, SeqAbove
    <3>3. head[write[w].actor].rev < tx[w].rev /\ tx[w].rev =< clock
      BY <1>2 DEF CallInv, RowHeld, Stale, Snapshot, InTx
    <3>4. HeadOf(v)'.rev = tx[w].rev /\ HeadOf(v).rev < tx[w].rev
      BY <1>2, <2>1, <2>2, <2>5, <3>3 DEF HeadOf, Types
    <3>5. tx[v].snap \in Nat /\ tx[w].rev \in Nat /\ HeadOf(v).rev \in Nat
      BY <1>2, <2>1, <2>2 DEF HeadOf, Types, Head, Call
    <3>6. tx[v].st \in InTx => tx[v].snap < tx[w].rev
      BY <2>1, <3>4, <3>5 DEF CallInv, Snapshot
    <3>7. tx[v].st \in InTx => Stale(v)'
      BY <2>1, <3>4, <3>5, <3>6 DEF Stale, HeadOf
    <3>8. Snapshot(v)'
      BY <2>1, <3>4, <3>5, <3>6, <3>7 DEF CallInv, Snapshot
    <3>9. TreeCovers(v)'
      BY <2>1, <2>3, <3>7 DEF CallInv, TreeCovers
    <3>10. FailuresPaid(v)'
      <4>1. Overtakers(v)' = Overtakers(v) \cup {w} /\ w \notin Overtakers(v)
        BY <1>3, <1>4, <1>7, <2>5 DEF Overtakers, Rivals
      <4>2. Cardinality(Overtakers(v)') = Cardinality(Overtakers(v)) + 1
        <5>1. IsFiniteSet(Overtakers(v))
          BY OvertakersBelow
        <5>2. Cardinality(Overtakers(v) \cup {w}) = Cardinality(Overtakers(v)) + 1
          BY <4>1, <5>1, FS_AddElement
        <5>3. QED
          BY <4>1, <5>2
      <4>3. Cardinality(Overtakers(v)) \in Nat /\ tx[v].attempt \in Nat
        BY <2>1, OvertakersBelow DEF Call
      <4>4. QED
        BY <1>5, <2>1, <4>2, <4>3 DEF CallInv, FailuresPaid
    <3>11. QED
      BY <2>3, <2>4, <3>2, <3>8, <3>9, <3>10 DEF CallInv
  <2>6. CASE write[v].actor # write[w].actor
    <3>1. /\ HeadOf(v)' = HeadOf(v) /\ Stale(v)' = Stale(v)
          /\ EventsOf(write[v].actor)' = EventsOf(write[v].actor)
          /\ LoadAtpEntries(write[v].actor)' = LoadAtpEntries(write[v].actor)
      <4>1. head'[write[v].actor] = head[write[v].actor]
        BY <1>2, <2>2, <2>6 DEF Types
      <4>2. LoadAtpEntries(write[v].actor)' = LoadAtpEntries(write[v].actor)
        BY <2>1, <2>2, <2>6, ApplyEntries
      <4>3. EventsOf(write[v].actor)' = EventsOf(write[v].actor)
        BY <1>2, <2>1, <2>6 DEF EventsOf
      <4>4. QED
        BY <2>1, <4>1, <4>2, <4>3 DEF HeadOf, Stale
    <3>2. RowHeld(v)'
      BY <1>2, <1>7, <2>1, <3>1, UnlockKeeps DEF CallInv, RowHeld
    <3>3. Snapshot(v)' /\ SeqAbove(v)'
      BY <2>1, <3>1 DEF CallInv, Snapshot, SeqAbove
    <3>4. TreeCovers(v)'
      <4>1. ReplaceEntry(LoadAtpEntries(write[v].actor), v)' =
                ReplaceEntry(LoadAtpEntries(write[v].actor), v)
        BY <2>1, <2>3, <3>1 DEF ReplaceEntry
      <4>2. Covers(tx[v].data, ReplaceEntry(LoadAtpEntries(write[v].actor), v))' =
                Covers(tx[v].data, ReplaceEntry(LoadAtpEntries(write[v].actor), v))
        BY <1>2, <2>1, <4>1 DEF Covers, Dead
      <4>3. QED
        BY <2>1, <2>3, <3>1, <4>2 DEF CallInv, TreeCovers
    <3>5. FailuresPaid(v)'
      <4>1. Overtakers(v)' = Overtakers(v)
        BY <1>3, <1>4, <2>6 DEF Overtakers, Rivals
      <4>2. QED
        BY <1>5, <2>1, <3>1, <4>1 DEF CallInv, FailuresPaid
    <3>6. QED
      BY <2>3, <2>4, <3>2, <3>3, <3>4, <3>5 DEF CallInv
  <2>7. QED
    BY <2>5, <2>6
<1>8. QED
  BY <1>1, <1>6, <1>7 DEF IInv

LEMMA CommitInv ==
    ASSUME IInv, NEW w \in Writers, Commit(w) \/ FailAfterCommit(w)
    PROVE  IInv'
<1>1. Types' /\ Types
  BY TypesStep DEF Step, IInv
<1>2. tx \in [Writers -> Call] /\ tx[w] \in Call /\ faults \in Nat
  BY <1>1 DEF Types
<1>3. /\ tx[w].st = "inserted" /\ Apply(w) /\ Unlock(w) /\ UNCHANGED <<lastSeq, clock>>
      /\ \/ Goto(w, "committed") /\ faults' = faults
         \/ Goto(w, "failed") /\ faults' = faults + 1
  BY DEF Commit, FailAfterCommit, Fault
<1>4. /\ \A v \in Writers \ {w} : tx'[v] = tx[v]
      /\ tx'[w].attempt = tx[w].attempt
      /\ \/ tx'[w].st = "committed" /\ faults' = faults
         \/ tx'[w].st = "failed" /\ faults' = faults + 1
  BY <1>2, <1>3 DEF Goto, Call
<1>5. QED
  BY <1>1, <1>2, <1>3, <1>4, ApplyInv

-----------------------------------------------------------------------------
LEMMA InitIInv == Init => IInv
<1> SUFFICES ASSUME NEW calls \in Workloads, InitWith(calls)
             PROVE  IInv
  BY DEF Init
<1>1. Types
  <2>1. IdleTx \in Call
    BY DEF IdleTx, Call, States, None
  <2>2. [rev |-> 0, data |-> {}] \in Head
    BY DEF Head
  <2>3. QED
    BY <2>1, <2>2 DEF InitWith, Types
<1>2. HistoryInv
  BY DEF InitWith, HistoryInv, RevsBelowHead, LinearHistory, RevsIncrease, EventsOf, KeysKnown,
     HeadCovers, Covers, LoadAtpEntries, PostEntries
<1>3. ASSUME NEW w \in Writers
      PROVE  CallInv(w)
  <2>1. tx[w].st = "idle" /\ tx[w].attempt = 1 /\ ~Happened(w)
    BY DEF InitWith, IdleTx, Happened
  <2>2. Overtakers(w) = {}
    BY DEF Overtakers, Happened, InitWith
  <2>3. Cardinality(Overtakers(w)) = 0
    BY <2>2, FS_EmptySet
  <2>4. QED
    BY <2>1, <2>3 DEF CallInv, RowHeld, Snapshot, SeqAbove, EventOnce, TargetKnown,
       TreeCovers, FailuresPaid, Served, InTx
<1>4. QED
  BY <1>1, <1>2, <1>3 DEF IInv

LEMMA NextIInv == IInv /\ [Next]_vars => IInv'
<1> SUFFICES ASSUME IInv, [Next]_vars PROVE IInv'
  OBVIOUS
<1>1. ASSUME NEW w \in Writers, Step(w) \/ SsiAbort(w) \/ Fail(w) \/ FailAfterCommit(w)
      PROVE  IInv'
  BY <1>1, SoftDeleteInv, BeginTxInv, SignInv, UpdateActorInv, SerializationFailureInv,
     InsertEventInv, CommitInv, PublishInv, SsiAbortInv, FailInv DEF Step
<1>2. CASE UNCHANGED vars
  <2>1. Types' /\ lastSeq =< lastSeq' /\ clock =< clock' /\ faults =< faults'
    BY <1>2 DEF vars, dbVars, IInv, Types
  <2>2. HistoryInv'
    BY <1>2, <2>1, HistoryKept DEF vars
  <2>3. ASSUME NEW v \in Writers
        PROVE  CallInv(v)'
    BY <1>2, <2>1, CallKept DEF vars
  <2>4. QED
    BY <2>1, <2>2, <2>3 DEF IInv
<1>3. QED
  BY <1>1, <1>2 DEF Next

(* The invariant holds of every reachable state.                           *)
THEOREM RepoInvariant == Spec => []IInv
  BY InitIInv, NextIInv, PTL DEF Spec

(* atp/service.rs: the events of a repository are one chain in the order   *)
(* of their ids with growing revs up to the head; a commit changes its own *)
(* key only, but for posts deleted meanwhile; calls that only meet each    *)
(* other, no more of them than attempts, all commit.                       *)
THEOREM RepoIsSafe == Spec => []RepoSafe
<1>1. IInv => LinearHistory /\ RevsIncrease
  BY DEF IInv, HistoryInv
<1>2. IInv => OthersKept
  BY DEF IInv, HistoryInv, OthersKept, OnlyKey, Others, Dead
<1>3. IInv => NoCallStarves
  BY DEF IInv, CallInv, Served, NoCallStarves
<1>4. QED
  BY <1>1, <1>2, <1>3, RepoInvariant, PTL DEF RepoSafe

-----------------------------------------------------------------------------
(* The refinement of the event log.  A call that stops before it has       *)
(* signed anything never drew an id, and one that commits has a TID.       *)
Drawn(w) ==
    /\ tx[w].st = "idle" /\ NeedsSoftDelete(w) => tx[w].rev = 0 /\ tx[w].seq = 0
    /\ tx[w].st = "committed" => tx[w].rev # 0
LogInv == IInv /\ \A w \in Writers : Drawn(w)

LEMMA InitLogInv == Init => LogInv
  BY InitIInv DEF LogInv, Init, InitWith, IdleTx, Drawn

LEMMA NextLogInv == LogInv /\ [Next]_vars => LogInv'
<1> SUFFICES ASSUME LogInv, [Next]_vars PROVE LogInv'
  OBVIOUS
<1>1. IInv /\ IInv' /\ Types /\ tx \in [Writers -> Call]
  BY NextIInv DEF LogInv, IInv, Types
<1>2. ASSUME NEW w \in Writers, NEW v \in Writers,
             Step(w) \/ SsiAbort(w) \/ Fail(w) \/ FailAfterCommit(w)
      PROVE  Drawn(v)'
  <2>1. Drawn(v) /\ tx[v] \in Call /\ tx[w] \in Call /\ write' = write
    BY <1>1, <1>2 DEF LogInv, Step, SoftDelete, BeginTx, Sign, UpdateActor,
       SerializationFailure, InsertEvent, Commit, Publish, SsiAbort, Fail, FailAfterCommit
  <2>2. CASE v # w
    <3>1. tx'[v] = tx[v]
      BY <1>1, <1>2, <2>2, StartOverCall DEF Step, SoftDelete, BeginTx, Sign, UpdateActor,
         SerializationFailure, InsertEvent, Commit, Publish, SsiAbort, Fail,
         FailAfterCommit, Goto
    <3>2. QED
      BY <2>1, <3>1 DEF Drawn, NeedsSoftDelete
  <2>3. CASE v = w
    <3>1. CASE SerializationFailure(w) \/ SsiAbort(w)
      BY <1>1, <2>1, <2>3, <3>1, StartOverCall DEF SerializationFailure, SsiAbort, Drawn,
         NeedsSoftDelete
    <3>2. CASE Commit(w)
      <4>1. tx[w].st = "inserted" /\ tx'[w] = [tx[w] EXCEPT !.st = "committed"]
        BY <1>1, <3>2 DEF Commit, Goto
      <4>2. tx[w].snap < tx[w].rev
        BY <1>1, <4>1 DEF IInv, CallInv, Snapshot, InTx
      <4>3. tx'[w].rev = tx[w].rev /\ tx'[w].st = "committed" /\ tx[w].rev # 0
        BY <2>1, <4>1, <4>2 DEF Call
      <4>4. QED
        BY <2>3, <4>3 DEF Drawn
    <3>3. CASE SoftDelete(w) \/ BeginTx(w) \/ Sign(w) \/ UpdateActor(w) \/ InsertEvent(w)
               \/ Publish(w) \/ Fail(w) \/ FailAfterCommit(w)
      <4>1. tx'[w].st \notin {"idle", "committed"}
        BY <1>1, <2>1, <3>3 DEF SoftDelete, BeginTx, Sign, UpdateActor, InsertEvent,
           Publish, Fail, FailAfterCommit, Goto, Call
      <4>2. QED
        BY <2>3, <4>1 DEF Drawn
    <3>4. QED
      BY <1>2, <3>1, <3>2, <3>3 DEF Step
  <2>4. QED
    BY <2>2, <2>3
<1>3. CASE UNCHANGED vars
  BY <1>1, <1>3 DEF LogInv, Drawn, NeedsSoftDelete, vars
<1>4. QED
  BY <1>1, <1>2, <1>3 DEF LogInv, Next

(* A step of w moves only the part of w in the log.                        *)
LEMMA LogMoves ==
    ASSUME NEW w \in Writers, \A v \in Writers \ {w} : tx'[v] = tx[v]
    PROVE  /\ [v \in Writers |-> LogState(v)]' =
                  [[v \in Writers |-> LogState(v)] EXCEPT ![w] = LogState(w)']
           /\ [v \in Writers |-> LogSeq(v)]' =
                  [[v \in Writers |-> LogSeq(v)] EXCEPT ![w] = LogSeq(w)']
<1>1. \A v \in Writers \ {w} : LogState(v)' = LogState(v) /\ LogSeq(v)' = LogSeq(v)
  BY Zenon DEF LogState, LogSeq
<1>2. QED
  BY <1>1

(* The steps of the log, as steps of the state that stands for it.         *)
LEMMA LogIdle ==
    ASSUME NEW w \in Writers, \A v \in Writers \ {w} : tx'[v] = tx[v],
           LogState(w)' = LogState(w), LogSeq(w)' = LogSeq(w),
           UNCHANGED <<events, lastSeq>>
    PROVE  UNCHANGED Log!logVars
<1>1. /\ [v \in Writers |-> LogState(v)]' = [v \in Writers |-> LogState(v)]
      /\ [v \in Writers |-> LogSeq(v)]' = [v \in Writers |-> LogSeq(v)]
  BY LogMoves
<1>2. QED
  BY <1>1 DEF Log!logVars

LEMMA LogDrop ==
    ASSUME NEW w \in Writers, \A v \in Writers \ {w} : tx'[v] = tx[v],
           LogState(w) \in {"idle", "open", "visible"}, LogState(w)' = "dropped",
           LogSeq(w)' = 0, UNCHANGED <<events, lastSeq>>
    PROVE  Log!EventLogNext
<1>1. Log!Drop(w)
  BY LogMoves DEF Log!Drop
<1>2. QED
  BY <1>1 DEF Log!EventLogNext

LEMMA LogStates ==
    ASSUME NEW w \in Writers
    PROVE  /\ tx[w].st \in {"idle", "spawned", "begun", "signed", "updated"}
                  => LogState(w) = "idle" /\ LogSeq(w) = 0
           /\ tx[w].st = "inserted" => LogState(w) = "open" /\ LogSeq(w) = tx[w].seq
           /\ tx[w].st = "committed" => LogState(w) = "visible" /\ LogSeq(w) = tx[w].seq
           /\ tx[w].st = "failed" => LogState(w) = "dropped" /\ LogSeq(w) = 0
           /\ tx[w].st = "done" => /\ LogState(w) = IF tx[w].rev = 0 THEN "dropped"
                                                    ELSE "published"
                                   /\ LogSeq(w) = tx[w].seq
  BY DEF LogState, LogSeq

LEMMA LogStatesNext ==
    ASSUME NEW w \in Writers
    PROVE  /\ tx'[w].st \in {"idle", "spawned", "begun", "signed", "updated"}
                  => LogState(w)' = "idle" /\ LogSeq(w)' = 0
           /\ tx'[w].st = "inserted" => LogState(w)' = "open" /\ LogSeq(w)' = tx'[w].seq
           /\ tx'[w].st = "committed" => LogState(w)' = "visible" /\ LogSeq(w)' = tx'[w].seq
           /\ tx'[w].st = "failed" => LogState(w)' = "dropped" /\ LogSeq(w)' = 0
           /\ tx'[w].st = "done" => /\ LogState(w)' = IF tx'[w].rev = 0 THEN "dropped"
                                                      ELSE "published"
                                    /\ LogSeq(w)' = tx'[w].seq
  BY DEF LogState, LogSeq

(* An aborted transaction gives its id up, or never had one.               *)
LEMMA LogAbort ==
    ASSUME NEW w \in Writers, \A v \in Writers \ {w} : tx'[v] = tx[v],
           tx[w].st \in InTx, tx'[w].st \in {"idle", "spawned", "failed"},
           UNCHANGED <<events, lastSeq>>
    PROVE  Log!EventLogNext \/ UNCHANGED Log!logVars
<1>1. CASE tx'[w].st = "failed"
  BY <1>1, LogStates, LogStatesNext, LogDrop DEF InTx
<1>2. CASE tx'[w].st # "failed" /\ tx[w].st = "inserted"
  <2>1. Log!Rollback(w)
    BY <1>2, LogMoves, LogStates, LogStatesNext DEF Log!Rollback
  <2>2. QED
    BY <2>1 DEF Log!EventLogNext
<1>3. CASE tx'[w].st # "failed" /\ tx[w].st # "inserted"
  BY <1>3, LogStates, LogStatesNext, LogIdle DEF InTx
<1>4. QED
  BY <1>1, <1>2, <1>3

(* The id and the frame of a commit become visible with it.                *)
LEMMA LogApply ==
    ASSUME NEW w \in Writers, Apply(w)
    PROVE  {e.seq : e \in events}' = {e.seq : e \in events} \cup {tx[w].seq}
<1>1. events' = events \cup {EventOf(w)} /\ EventOf(w).seq = tx[w].seq
  BY DEF Apply, EventOf
<1>2. QED
  BY <1>1

LEMMA LogNext ==
    ASSUME LogInv, NEW w \in Writers, Step(w) \/ SsiAbort(w) \/ Fail(w) \/ FailAfterCommit(w)
    PROVE  Log!EventLogNext \/ UNCHANGED Log!logVars
<1>1. Types /\ tx \in [Writers -> Call] /\ tx[w] \in Call /\ Drawn(w)
  BY DEF LogInv, IInv, Types
<1>2. \A v \in Writers \ {w} : tx'[v] = tx[v]
  BY <1>1, StartOverCall DEF Step, SoftDelete, BeginTx, Sign, UpdateActor,
     SerializationFailure, InsertEvent, Commit, Publish, SsiAbort, Fail, FailAfterCommit, Goto
<1>3. CASE SoftDelete(w)
  <2>1. /\ tx[w].st = "idle" /\ tx'[w].st \in {"done", "spawned"}
        /\ tx'[w].rev = tx[w].rev /\ tx'[w].seq = tx[w].seq
        /\ NeedsSoftDelete(w) /\ UNCHANGED <<events, lastSeq>>
    BY <1>1, <1>3 DEF SoftDelete, Call
  <2>2. tx[w].rev = 0 /\ tx[w].seq = 0
    BY <1>1, <2>1 DEF Drawn
  <2>3. CASE tx'[w].st = "done"
    <3>1. LogState(w) = "idle" /\ LogState(w)' = "dropped" /\ LogSeq(w)' = 0
      BY <2>1, <2>2, <2>3, LogStates, LogStatesNext
    <3>2. QED
      BY <1>2, <2>1, <3>1, LogDrop
  <2>4. CASE tx'[w].st = "spawned"
    <3>1. LogState(w)' = LogState(w) /\ LogSeq(w)' = LogSeq(w)
      BY <2>1, <2>4, LogStates, LogStatesNext
    <3>2. QED
      BY <1>2, <2>1, <3>1, LogIdle
  <2>5. QED
    BY <2>1, <2>3, <2>4
<1>4. CASE BeginTx(w) \/ Sign(w) \/ UpdateActor(w)
  <2>1. /\ tx[w].st \in {"idle", "spawned", "begun", "signed"}
        /\ tx'[w].st \in {"begun", "signed", "updated"}
        /\ UNCHANGED <<events, lastSeq>>
    BY <1>1, <1>4 DEF BeginTx, Sign, UpdateActor, Goto, Call, dbVars
  <2>2. LogState(w)' = LogState(w) /\ LogSeq(w)' = LogSeq(w)
    BY <2>1, LogStates, LogStatesNext
  <2>3. QED
    BY <1>2, <2>1, <2>2, LogIdle
<1>5. CASE SerializationFailure(w) \/ SsiAbort(w)
  <2>1. /\ tx[w].st \in InTx /\ tx'[w].st \in {"idle", "spawned", "failed"}
        /\ UNCHANGED <<events, lastSeq>>
    BY <1>1, <1>5, StartOverCall DEF SerializationFailure, SsiAbort, InTx, dbVars
  <2>2. QED
    BY <1>2, <2>1, LogAbort
<1>6. CASE InsertEvent(w)
  <2>1. /\ tx[w].st = "updated" /\ tx'[w].st = "inserted" /\ tx'[w].seq = lastSeq + 1
        /\ lastSeq' = lastSeq + 1 /\ events' = events
    BY <1>1, <1>6 DEF InsertEvent, Call, dbVars
  <2>2. Log!DrawSeq(w)
    BY <1>2, <2>1, LogMoves, LogStates, LogStatesNext DEF Log!DrawSeq, Log!Draw
  <2>3. QED
    BY <2>2 DEF Log!EventLogNext
<1>7. CASE Commit(w)
  <2>1. /\ tx[w].st = "inserted" /\ tx'[w].st = "committed" /\ tx'[w].seq = tx[w].seq
        /\ lastSeq' = lastSeq /\ Apply(w)
    BY <1>1, <1>7 DEF Commit, Goto, Call
  <2>2. /\ LogState(w) = "open" /\ LogState(w)' = "visible"
        /\ LogSeq(w) = tx[w].seq /\ LogSeq(w)' = tx[w].seq
    BY <2>1, LogStates, LogStatesNext
  <2>3. [v \in Writers |-> LogSeq(v)]' = [v \in Writers |-> LogSeq(v)]
    BY <1>2, <2>2, LogMoves
  <2>4. Log!CommitEvent(w)
    BY <1>2, <2>1, <2>2, <2>3, LogMoves, LogApply DEF Log!CommitEvent
  <2>5. QED
    BY <2>4 DEF Log!EventLogNext
<1>8. CASE Publish(w)
  <2>1. /\ tx[w].st = "committed" /\ tx'[w].st = "done" /\ tx'[w].seq = tx[w].seq
        /\ tx'[w].rev = tx[w].rev /\ tx[w].rev # 0 /\ UNCHANGED <<events, lastSeq>>
    BY <1>1, <1>8 DEF Publish, Goto, Call, dbVars, Drawn
  <2>2. /\ LogState(w) = "visible" /\ LogState(w)' = "published"
        /\ LogSeq(w)' = LogSeq(w)
    BY <2>1, LogStates, LogStatesNext
  <2>3. [v \in Writers |-> LogSeq(v)]' = [v \in Writers |-> LogSeq(v)]
    BY <1>2, <2>2, LogMoves
  <2>4. Log!Publish(w)
    BY <1>2, <2>1, <2>2, <2>3, LogMoves DEF Log!Publish
  <2>5. QED
    BY <2>4 DEF Log!EventLogNext
<1>9. CASE Fail(w)
  <2>1. /\ tx[w].st \in InTx \cup {"spawned", "committed"} /\ tx'[w].st = "failed"
        /\ UNCHANGED <<events, lastSeq>>
    BY <1>1, <1>9 DEF Fail, Goto, Call, dbVars
  <2>2. /\ LogState(w) \in {"idle", "open", "visible"}
        /\ LogState(w)' = "dropped" /\ LogSeq(w)' = 0
    BY <2>1, LogStates, LogStatesNext DEF InTx
  <2>3. QED
    BY <1>2, <2>1, <2>2, LogDrop
<1>10. CASE FailAfterCommit(w)
  <2>1. /\ tx[w].st = "inserted" /\ tx'[w].st = "failed" /\ lastSeq' = lastSeq /\ Apply(w)
    BY <1>1, <1>10 DEF FailAfterCommit, Goto, Call
  <2>2. /\ LogState(w) = "open" /\ LogState(w)' = "dropped"
        /\ LogSeq(w) = tx[w].seq /\ LogSeq(w)' = 0
    BY <2>1, LogStates, LogStatesNext
  <2>3. Log!CommitAndDrop(w)
    BY <1>2, <2>1, <2>2, LogMoves, LogApply DEF Log!CommitAndDrop
  <2>4. QED
    BY <2>3 DEF Log!EventLogNext
<1>11. QED
  BY <1>3, <1>4, <1>5, <1>6, <1>7, <1>8, <1>9, <1>10 DEF Step

(* Every commit pipeline is a writer of the event log: an id is drawn once *)
(* and never given back, the row and its frame become visible together,    *)
(* and only a visible event is handed to the bus (EventLog).               *)
THEOREM RepoImplementsEventLog == Spec => ImplementsEventLog
<1>1. Init => Log!EventLogInit
  BY DEF Init, InitWith, IdleTx, LogState, LogSeq, Log!EventLogInit
<1>2. LogInv /\ [Next]_vars => [Log!EventLogNext]_(Log!logVars)
  <2>1. CASE UNCHANGED vars
    BY <2>1 DEF vars, dbVars, LogState, LogSeq, Log!logVars
  <2>2. QED
    BY <2>1, LogNext DEF Next
<1>3. QED
  BY <1>1, <1>2, InitLogInv, NextLogInv, PTL DEF Spec, ImplementsEventLog, Log!EventLogSpec
=============================================================================

------------------------------ MODULE AtpRepo ------------------------------
(***************************************************************************)
(* The commit pipeline of atp/service.rs: apply_write and try_apply_write  *)
(* for concurrent calls, in one process or in several, on the repositories *)
(* of local actors.  Each call runs one SERIALIZABLE transaction: it reads *)
(* the head and the records of the actor in one snapshot, signs a commit   *)
(* with a new TID, updates the row of the actor (which waits for a writer  *)
(* in progress and fails if one has committed since the snapshot), inserts *)
(* the event, commits, and publishes.  delete_note (notes/deletion.rs)     *)
(* marks the post deleted outside of that transaction.                     *)
(*                                                                         *)
(* A commit is named by its rev, and stands for commit_cid and prev_cid    *)
(* too; the root of an MST is the set of entries it was built from.        *)
(***************************************************************************)
EXTENDS Integers, FiniteSets

CONSTANTS
    Actors, Posts, Keys,
    Writers,     \* calls of apply_write
    Workloads,   \* what the calls may write: functions from Writers to
                 \* records [actor, op, post, key]
    NoPost,      \* not a post: the write goes to atp_records
    MaxSerializationRetries,
    MaxFaults    \* bound: aborts by SSI, lost connections, crashes

Ops == {"put", "delete"}

ASSUME WorkloadsAssumption ==
    Workloads \subseteq [Writers -> [actor: Actors, op: Ops, post: Posts \cup {NoPost}, key: Keys]]
ASSUME NoPostAssumption == NoPost \notin Posts
(* commit_post runs once for a post (DeferredCommit shows where it may not). *)
ASSUME PutOnceAssumption ==
    \A calls \in Workloads : \A v, w \in Writers :
        calls[v].op = "put" /\ calls[w].op = "put" /\ calls[v].post = calls[w].post
        /\ calls[v].post # NoPost => v = w
(* A TID is no record key of another collection, and no marker.            *)
ASSUME WritersAssumption ==
    IsFiniteSet(Writers) /\ Writers \cap (Keys \cup {"none", "free"}) = {}
ASSUME RetriesAssumption == MaxSerializationRetries \in Nat \ {0}
ASSUME FaultsAssumption == MaxFaults \in Nat

VARIABLES
    write,    \* write[w]: what w writes
    head,     \* head[a]: at_repo_rev (0: no commit) and at_repo_data_cid
    rkey,     \* rkey[p]: posts.at_rkey, named by the writer that set it
    deleted,  \* posts with deleted_at set
    records,  \* records[a]: rows of atp_records
    events,   \* visible rows of atp_repo_events
    lastSeq,  \* the sequence behind atp_repo_events.id
    clock,    \* microseconds, as generate_tid reads them
    rowLock,  \* rowLock[a]: the writer that has updated the row of a
    tx,       \* tx[w]: the call of w and its current transaction
    faults

dbVars == <<head, rkey, deleted, records, events>>
vars == <<write, dbVars, lastSeq, clock, rowLock, tx, faults>>

-----------------------------------------------------------------------------
None == "none"
Free == "free"

(* The key of a post is its TID, drawn afresh by every commit_post; other  *)
(* records keep the key they are called with.                              *)
EntryKey(w) ==
    IF write[w].post # NoPost
    THEN IF write[w].op = "put" THEN w ELSE tx[w].target
    ELSE write[w].key

(* load_atp_entries: posts that are committed and not deleted.             *)
PostEntries(a) ==
    {[key |-> rkey[p], cid |-> rkey[p]] :
        p \in {q \in Posts \ deleted : /\ rkey[q] # None
                                       /\ write[rkey[q]].actor = a}}

(* load_atp_entries: those posts and the rows of atp_records.              *)
LoadAtpEntries(a) == PostEntries(a) \cup records[a]

(* retain, then push unless the write is a delete.                         *)
ReplaceEntry(es, w) ==
    {e \in es : e.key # EntryKey(w)}
        \cup IF write[w].op = "put" THEN {[key |-> EntryKey(w), cid |-> w]} ELSE {}

IdleTx == [st |-> "idle", attempt |-> 1, target |-> None, snap |-> 0, prevData |-> {},
           data |-> {}, rev |-> 0, seq |-> 0]

InitWith(calls) ==
    /\ write = calls
    /\ head = [a \in Actors |-> [rev |-> 0, data |-> {}]]
    /\ rkey = [p \in Posts |-> None]
    /\ deleted = {}
    /\ records = [a \in Actors |-> {}]
    /\ events = {}
    /\ lastSeq = 0
    /\ clock = 0
    /\ rowLock = [a \in Actors |-> Free]
    /\ tx = [w \in Writers |-> IdleTx]
    /\ faults = 0

Init == \E calls \in Workloads : InitWith(calls)

Goto(w, st) == tx' = [tx EXCEPT ![w].st = st]
Unlock(w) == rowLock' = [a \in Actors |-> IF rowLock[a] = w THEN Free ELSE rowLock[a]]

-----------------------------------------------------------------------------
(* delete_note: soft_delete_by_id, then the delete commit is spawned if    *)
(* the post has a TID.  It reads the TID first (find_delete_info).         *)
NeedsSoftDelete(w) == write[w].op = "delete" /\ write[w].post # NoPost

SoftDelete(w) ==
    /\ NeedsSoftDelete(w)
    /\ tx[w].st = "idle"
    /\ write[w].post \notin deleted
    /\ deleted' = deleted \cup {write[w].post}
    /\ tx' = [tx EXCEPT ![w].target = rkey[write[w].post],
                        ![w].st = IF rkey[write[w].post] = None THEN "done" ELSE "spawned"]
    /\ UNCHANGED <<write, head, rkey, records, events, lastSeq, clock, rowLock,
                   faults>>

-----------------------------------------------------------------------------
(* try_apply_write *)

(* Faulty variant: the transaction runs in READ COMMITTED, so that the     *)
(* UPDATE does not mind a commit since the SELECT.                         *)
StaleReadCommitted(w) == FALSE

(* The row was updated by a transaction that committed after the snapshot. *)
Stale(w) == head[write[w].actor].rev # tx[w].snap

(* BEGIN; SELECT FROM actors; load_atp_entries; build_mst.                 *)
BeginTx(w) ==
    LET a == write[w].actor IN
    /\ tx[w].st = IF NeedsSoftDelete(w) THEN "spawned" ELSE "idle"
    /\ tx' = [tx EXCEPT ![w].st = "begun",
                        ![w].snap = head[a].rev,
                        ![w].prevData = head[a].data,
                        ![w].data = ReplaceEntry(LoadAtpEntries(a), w)]
    /\ UNCHANGED <<write, dbVars, lastSeq, clock, rowLock, faults>>

(* generate_tid, create_commit, encode_car.                                *)
Sign(w) ==
    /\ tx[w].st = "begun"
    /\ clock' = clock + 1
    /\ tx' = [tx EXCEPT ![w].st = "signed", ![w].rev = clock + 1]
    /\ UNCHANGED <<write, dbVars, lastSeq, rowLock, faults>>

(* UPDATE actors: it waits while another transaction has the row.          *)
UpdateActor(w) ==
    /\ tx[w].st = "signed"
    /\ rowLock[write[w].actor] = Free
    /\ ~Stale(w)
    /\ rowLock' = [rowLock EXCEPT ![write[w].actor] = w]
    /\ Goto(w, "updated")
    /\ UNCHANGED <<write, dbVars, lastSeq, clock, faults>>

MayStartOver(w) == tx[w].attempt < MaxSerializationRetries

(* apply_write after a serialization failure: again from the top, or Err.  *)
StartOver(w) ==
    tx' = [tx EXCEPT ![w] =
              IF MayStartOver(w)
              THEN [tx[w] EXCEPT !.st = IF NeedsSoftDelete(w) THEN "spawned" ELSE "idle",
                                 !.attempt = tx[w].attempt + 1, !.seq = 0]
              ELSE [tx[w] EXCEPT !.st = "failed"]]

SerializationFailure(w) ==
    /\ tx[w].st = "signed"
    /\ rowLock[write[w].actor] = Free
    /\ Stale(w)
    /\ StartOver(w)
    /\ UNCHANGED <<write, dbVars, lastSeq, clock, rowLock, faults>>

(* Faulty variant: the id is MAX(id) + 1, as the snapshot shows it.        *)
InsertEventMaxPlusOne(w) ==
    /\ tx[w].st = "updated"
    /\ tx' = [tx EXCEPT ![w].st = "inserted", ![w].seq = Cardinality(events) + 1]
    /\ lastSeq' = Cardinality(events) + 1
    /\ UNCHANGED <<write, dbVars, clock, rowLock, faults>>

(* INSERT INTO atp_repo_events RETURNING id, with the row still locked;    *)
(* the frame is stored by the same transaction.                            *)
InsertEvent(w) ==
    /\ tx[w].st = "updated"
    /\ lastSeq' = lastSeq + 1
    /\ tx' = [tx EXCEPT ![w].st = "inserted", ![w].seq = lastSeq + 1]
    /\ UNCHANGED <<write, dbVars, clock, rowLock, faults>>

EventOf(w) ==
    [seq |-> tx[w].seq, actor |-> write[w].actor, writer |-> w,
     rev |-> tx[w].rev, since |-> tx[w].snap,
     op |-> write[w].op, key |-> EntryKey(w),
     prevData |-> tx[w].prevData, data |-> tx[w].data]

(* What the COMMIT makes visible: actors, posts, atp_records, the event.   *)
Apply(w) ==
    LET a == write[w].actor IN
    /\ head' = [head EXCEPT ![a] = [rev |-> tx[w].rev, data |-> tx[w].data]]
    /\ rkey' = IF write[w].post # NoPost /\ write[w].op = "put"
               THEN [rkey EXCEPT ![write[w].post] = w] ELSE rkey
    /\ records' = IF write[w].post = NoPost
                  THEN [records EXCEPT ![a] = ReplaceEntry(@, w)] ELSE records
    /\ events' = events \cup {EventOf(w)}
    /\ UNCHANGED <<write, deleted>>

Commit(w) ==
    /\ tx[w].st = "inserted"
    /\ Apply(w)
    /\ Unlock(w)
    /\ Goto(w, "committed")
    /\ UNCHANGED <<write, lastSeq, clock, faults>>

(* publish_event. *)
Publish(w) ==
    /\ tx[w].st = "committed"
    /\ Goto(w, "done")
    /\ UNCHANGED <<write, dbVars, lastSeq, clock, rowLock, faults>>

-----------------------------------------------------------------------------
(* Faults *)

InTx == {"begun", "signed", "updated", "inserted"}
Fault == faults < MaxFaults /\ faults' = faults + 1

(* Faulty variant: the transaction is not rolled back before the retry.    *)
SsiAbortKeepsRow(w) ==
    /\ tx[w].st \in InTx
    /\ Fault
    /\ StartOver(w)
    /\ UNCHANGED <<write, dbVars, lastSeq, clock, rowLock>>

(* SSI finds a dangerous structure, another statement has updated the row, *)
(* or a deadlock is broken: 40001 or 40P01 from any statement.             *)
SsiAbort(w) ==
    /\ tx[w].st \in InTx
    /\ Fault
    /\ StartOver(w)
    /\ Unlock(w)
    /\ UNCHANGED <<write, dbVars, lastSeq, clock>>

(* Any other error, or the end of the process: the transaction is undone.  *)
Fail(w) ==
    /\ tx[w].st \in InTx \cup {"spawned", "committed"}
    /\ Fault
    /\ Goto(w, "failed")
    /\ Unlock(w)
    /\ UNCHANGED <<write, dbVars, lastSeq, clock>>

(* The connection breaks after COMMIT was carried out: Err, no publish.    *)
FailAfterCommit(w) ==
    /\ tx[w].st = "inserted"
    /\ Fault
    /\ Apply(w)
    /\ Unlock(w)
    /\ Goto(w, "failed")
    /\ UNCHANGED <<write, lastSeq, clock>>

-----------------------------------------------------------------------------
Step(w) ==
    \/ SoftDelete(w)
    \/ BeginTx(w)
    \/ Sign(w)
    \/ UpdateActor(w)
    \/ SerializationFailure(w)
    \/ InsertEvent(w)
    \/ Commit(w)
    \/ Publish(w)

Next ==
    \E w \in Writers : Step(w) \/ SsiAbort(w) \/ Fail(w) \/ FailAfterCommit(w)

Spec == Init /\ [][Next]_vars

(* PostgreSQL answers and every future is polled; sleeps end.              *)
FairSpec == Spec /\ \A w \in Writers : WF_vars(Step(w))

-----------------------------------------------------------------------------
EventsOf(a) == {e \in events : e.actor = a}

Follows(e, d) == d.seq < e.seq /\ ~\E c \in EventsOf(e.actor) : d.seq < c.seq /\ c.seq < e.seq
First(e) == \A c \in EventsOf(e.actor) : e.seq =< c.seq
Last(e) == \A c \in EventsOf(e.actor) : c.seq =< e.seq

(* The events of one actor, in the order of their seq, form one chain from *)
(* the empty repository to the head: each names the commit before it in    *)
(* since and its MST in prevData.  So the repository never forks, and the  *)
(* order of the ids is the order of the commits, because the id is drawn   *)
(* under the lock of the row (try_apply_write, UPDATE before INSERT).      *)
LinearHistory ==
    \A a \in Actors :
        /\ EventsOf(a) = {} => head[a] = [rev |-> 0, data |-> {}]
        /\ \A e \in EventsOf(a) :
              /\ First(e) => e.since = 0 /\ e.prevData = {}
              /\ \A d \in EventsOf(a) : Follows(e, d) => e.since = d.rev /\ e.prevData = d.data
              /\ Last(e) => head[a] = [rev |-> e.rev, data |-> e.data]

(* The revs of one actor grow with the seq of their events: a call that    *)
(* starts over draws a new TID after its new snapshot (generate_tid inside *)
(* of the transaction).                                                    *)
RevsIncrease ==
    \A d, e \in events : d.actor = e.actor /\ d.seq < e.seq => d.rev < e.rev

Rivals(w) == {v \in Writers : write[v].actor = write[w].actor}

(* Calls that only meet each other never run out of attempts while there   *)
(* are no more of them on one repository than attempts: a failure means    *)
(* that another call on it has committed (MAX_SERIALIZATION_RETRIES).      *)
NoCallStarves ==
    \A w \in Writers :
        faults = 0 /\ Cardinality(Rivals(w)) =< MaxSerializationRetries => tx[w].st # "failed"

(* The MST of a commit differs from that of the commit before it in the    *)
(* key of its op only (docs/protocols.md, MST commits, step 2), but for    *)
(* posts that were soft-deleted before their delete commit: whichever      *)
(* commit comes next leaves them out (load_atp_entries, deleted_at).       *)
OthersKept ==
    \A e \in events :
        LET Other(s) == {x \in s : x.key # e.key} IN
        /\ Other(e.data) \subseteq Other(e.prevData)
        /\ \A x \in Other(e.prevData) \ Other(e.data) :
              \E p \in deleted : x.key \in Writers /\ write[x.key].post = p

(* The history of a repository is one chain of growing revs, a commit only *)
(* touches its own key, and calls that only meet each other all commit.    *)
RepoSafe == LinearHistory /\ RevsIncrease /\ OthersKept /\ NoCallStarves

(* Every call ends: the waits for the row of an actor are not circular.    *)
CallsEnd ==
    \A w \in Writers :
        tx[w].st \in InTx ~> tx[w].st \in {"done", "failed"}

-----------------------------------------------------------------------------
(* The part of the call of w in the event log.                             *)
LogState(w) ==
    CASE tx[w].st = "inserted" -> "open"
      [] tx[w].st = "committed" -> "visible"
      [] tx[w].st = "done" -> IF tx[w].rev = 0 THEN "dropped" ELSE "published"
      [] tx[w].st = "failed" -> "dropped"
      [] OTHER -> "idle"
LogSeq(w) == IF tx[w].st \in {"inserted", "committed", "done"} THEN tx[w].seq ELSE 0

Log == INSTANCE EventLog WITH
    Broadcasters <- {},
    lastSeq <- lastSeq,
    log <- {e.seq : e \in events},
    framed <- {e.seq : e \in events},
    wst <- [w \in Writers |-> LogState(w)],
    wseq <- [w \in Writers |-> LogSeq(w)]

(* The commit pipeline is a writer of the event log.                       *)
ImplementsEventLog == Log!EventLogSpec
=============================================================================

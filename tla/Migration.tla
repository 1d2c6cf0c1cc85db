----------------------------- MODULE Migration -----------------------------
(***************************************************************************)
(* DIDs: moving an account in from another server, giving a new account its  *)
(* DID, and moving an account out.  The first two share the wait for a DNS   *)
(* TXT record; the first runs through the job queue as well.                *)
(*                                                                         *)
(* A key is a number: the source server holds key 0, every other key was      *)
(* made here; AwayKey stands for the key of the server an account leaves to.  *)
(* A new account's DID is the number of its key.  plc.directory keeps, for a  *)
(* DID, its key and the number of its newest operation (head); an operation   *)
(* names its predecessor and the key that signed it.                        *)
(***************************************************************************)
EXTENDS Integers, Sequences, FiniteSets, FiniteSetsExt, Bags

CONSTANTS
    None,
    Scripts,      \* requests, the tables at first, what lies at the source, budgets of what may go wrong
    Calls,        \* slots for requests, jobs and DNS steps under way at the same time
    MaxAttempts   \* of a job (retry_config_for)

AwayKey == -1

VARIABLES
    db,      \* tables: requests, records, blobs (staged), pending, actors, users, codes, posts, repo, media, follows
    net,     \* outside: plc, txt and published records, signed operations, source accounts switched off, registration open
    queue,   \* bag of waiting jobs
    calls, todo, script, budget, nextId,
    log      \* history: overran (a lease ran out under its holder), unread (settings), dropped (a job), cut (a move-out),
             \* torn (a TXT record deleted, its row not replaced), twice (an account confirmed again)

vars == <<db, net, queue, calls, todo, script, budget, nextId, log>>

Put(f, k, v) == [x \in DOMAIN f \cup {k} |-> IF x = k THEN v ELSE f[x]]
Drop(f, ks) == [x \in DOMAIN f \ ks |-> f[x]]
Can(b) == budget[b] > 0
Spend(b) == budget' = [budget EXCEPT ![b] = @ - 1]
Fails(b) == Can(b) /\ Spend(b)

NoCall == [op |-> "none", lock |-> None]
Call(op, pc, id, job, req) ==
    [op |-> op, pc |-> pc, id |-> id, job |-> job, req |-> req, lock |-> None, row |-> None, item |-> None, next |-> <<>>]
Free(s) == calls[s].op = "none"
At(s, l) == ~Free(s) /\ calls[s].pc = l
Enter(s, c) == calls' = [calls EXCEPT ![s] = c]
Goto(s, l) == Enter(s, [calls[s] EXCEPT !.pc = l])
GoUnlocked(s, l) == Enter(s, [calls[s] EXCEPT !.pc = l, !.lock = None])
Finish(s) == Enter(s, NoCall)

-----------------------------------------------------------------------------
(* repository/at_migration.rs, repository/did_provision.rs *)

Requests == DOMAIN db.requests
Req(id) == db.requests[id]
CreateRequest(d, id, r) ==
    [d EXCEPT !.requests = Put(@, id,
        [status |-> "fetching_repo", did |-> r.did, name |-> r.name, email |-> r.email, keys |-> None, staged |-> None, txt |-> None,
         visible |-> FALSE, lease |-> FALSE, plcAt |-> FALSE, actor |-> None, user |-> None])]
SetStatus(d, id, st) == [d EXCEPT !.requests[id].status = st]
SetFailed(d, id) == SetStatus(d, id, "failed")
TransitionStatus(d, id, from, to) == IF d.requests[id].status = from THEN SetStatus(d, id, to) ELSE d
MarkPlcSubmitted(d, id, key) ==
    [d EXCEPT !.requests[id].status = "submitting_plc", !.requests[id].keys = key, !.requests[id].plcAt = TRUE]
ConfirmAccountCreated(d, id, actor, user) ==
    [d EXCEPT !.requests[id].status = "importing_data", !.requests[id].actor = actor, !.requests[id].user = user]
(* ON CONFLICT DO NOTHING: what was staged before keeps its marks.           *)
StageRecords(d, id, recs) ==
    [d EXCEPT !.records = @ \cup {[req |-> id, key |-> x.key, kind |-> x.kind, imported |-> FALSE, linked |-> FALSE] :
                                    x \in {x \in recs : \A y \in d.records : y.req # id \/ y.key # x.key}}]
StageBlobs(d, id, cids) ==
    [d EXCEPT !.blobs = @ \cup {[req |-> id, cid |-> x, imported |-> FALSE] :
                                  x \in {x \in cids : \A y \in d.blobs : y.req # id \/ y.cid # x}}]
Lowest(S, Key(_)) == {x \in S : \A y \in S : Key(x) <= Key(y)}
ClaimNextRecord(id) == Lowest({x \in db.records : x.req = id /\ ~x.imported}, LAMBDA x : x.key)
ClaimNextBlob(id) == Lowest({x \in db.blobs : x.req = id /\ ~x.imported}, LAMBDA x : x.cid)
PendingFollows(id) == {x \in db.records : x.req = id /\ x.kind \in {"follow", "nobody"} /\ x.imported /\ ~x.linked}
ClaimNextFollowRecord(id) == Lowest(PendingFollows(id), LAMBDA x : x.key)
Replace(S, x, y) == (S \ {x}) \cup {y}
MarkRecordImported(d, x) == [d EXCEPT !.records = Replace(@, x, [x EXCEPT !.imported = TRUE])]
MarkBlobImported(d, x) == [d EXCEPT !.blobs = Replace(@, x, [x EXCEPT !.imported = TRUE])]
MarkFollowMaterialized(d, x) == [d EXCEPT !.records = Replace(@, x, [x EXCEPT !.linked = TRUE])]
ListByStatuses(st) == {id \in Requests : Req(id).status = st}
ListPendingFollowMaterialization == {id \in Requests : PendingFollows(id) # {}}
Stageable(d, id) == d.requests[id].status = "awaiting_plc_token"
StagePlcOperation(d, id, op) ==
    [d EXCEPT !.requests[id].status = "awaiting_dns_txt", !.requests[id].staged = op, !.requests[id].txt = None, !.requests[id].visible = FALSE]

InsertPendingRow(d, actor, did) == [d EXCEPT !.pending = Put(@, actor, [did |-> did, txt |-> None, visible |-> FALSE, lease |-> FALSE])]
ReplaceGenesis(d, actor, did) ==
    IF actor \in DOMAIN d.pending
    THEN [d EXCEPT !.pending[actor].did = did, !.pending[actor].txt = None, !.pending[actor].visible = FALSE]
    ELSE d
(* at_did IS NULL guards the account; the row of the step that ends goes.    *)
FinalizeDid(d, actor, row) ==
    [d EXCEPT !.actors[actor].did = IF @ = None THEN row.did ELSE @,
              !.actors[actor].key = IF d.actors[actor].did = None THEN row.did ELSE @,
              !.pending = Drop(@, {actor})]

(* The columns of the wait are the same in both tables.                     *)
Rows(t) == DOMAIN db[t]
ListUnlockedIds == {a \in DOMAIN db.pending : ~db.pending[a].lease}
ListDnsWaitIds == {id \in Requests : Req(id).status = "awaiting_dns_txt" /\ ~Req(id).lease}
SetTxtRecordId(d, t, id, rec) == IF id \in DOMAIN d[t] THEN [d EXCEPT ![t][id].txt = rec] ELSE d
MarkTxtVisible(d, t, id) == IF id \in DOMAIN d[t] THEN [d EXCEPT ![t][id].visible = TRUE] ELSE d
SetLease(d, t, id, b) == IF id \in DOMAIN d[t] THEN [d EXCEPT ![t][id].lease = b] ELSE d

-----------------------------------------------------------------------------
(* Accounts: user.rs, actor.rs *)

FindByDid(did) == {a \in DOMAIN db.actors : db.actors[a].did = did}
NameTaken(d, name, except) == \E a \in DOMAIN d.actors : d.actors[a].name = name /\ d.actors[a].local /\ a # except
LocalActor(did, key, name, user) == [did |-> did, key |-> key, name |-> name, user |-> user, local |-> TRUE, moved |-> FALSE, shown |-> FALSE]
InsertLocal(d, a, did, key, name, user) == [d EXCEPT !.actors = Put(@, a, LocalActor(did, key, name, user))]
ConvertRemoteToLocal(d, a, key, name, user) ==
    [d EXCEPT !.actors[a].local = TRUE, !.actors[a].key = key, !.actors[a].name = name, !.actors[a].user = user]
MarkDidMovedOut(d, a) == [d EXCEPT !.actors[a].moved = TRUE]
UserByEmail(d, e) == {u \in DOMAIN d.users : d.users[u] = e}
InsertUser(d, u, e) == [d EXCEPT !.users = Put(@, u, e)]

-----------------------------------------------------------------------------
(* plc.rs, cloudflare.rs, migration_client.rs: what is outside *)

PlcHead(did) == net.plc[did].head
Accepted(did, op) == did \in DOMAIN net.plc /\ op.prev = PlcHead(did) /\ op.by = net.plc[did].key
Applied(n, did, op) == [n EXCEPT !.plc = Put(@, did, [key |-> op.key, head |-> nextId])]
(* Faulty variant: the directory is not asked.                              *)
PlcDidExistsAssumed(did) == TRUE
PlcDidExists(did) == did \in DOMAIN net.plc
SubmitGenesisOp(n, did) == [n EXCEPT !.plc = Put(@, did, [key |-> did, head |-> nextId])]
(* FetchCurrentPlcDocAndPrev and prepare_plc_rotation_update: the operation is about the newest one.  *)
FetchCurrentPlcDocAndPrev(did) == net.plc[did]
PreparePlcRotationUpdate(doc, key, by) == [key |-> key, prev |-> doc.head, by |-> by]
SignPlcOperation(did) == [key |-> nextId, prev |-> PlcHead(did), by |-> 0]

SetAtprotoTxt(n, name, did) == [n EXCEPT !.txt = Put(@, nextId, [name |-> name, did |-> did])]
DeleteTxtRecord(n, rec) == [n EXCEPT !.txt = Drop(@, {rec}), !.published = @ \ {rec}]
(* Every authoritative name server answers with the record.                 *)
IsAtprotoTxtPublished(name, did) == \E x \in net.published : net.txt[x] = [name |-> name, did |-> did]
(* A name server that does not answer makes it wait; so does the grace period *)
(* after the record became visible.                                         *)
TxtProgress(name, did, rec, visible) ==
    CASE rec = None -> {"Created"}
      [] rec # None /\ ~visible -> IF IsAtprotoTxtPublished(name, did) THEN {"Visible", "Waiting"} ELSE {"Waiting"}
      [] OTHER -> {"Waiting", "Ready"}

(* Name servers pick a record up some time after Cloudflare took it.         *)
Publish ==
    /\ \E x \in DOMAIN net.txt \ net.published : net' = [net EXCEPT !.published = @ \cup {x}]
    /\ UNCHANGED <<db, queue, calls, todo, script, budget, nextId, log>>

-----------------------------------------------------------------------------
(* Jobs *)

Job(kind, id) == [kind |-> kind, id |-> id, tries |-> 0]
Add(q, j) == q (+) SetToBag({j})
Locked(key) == \E s \in Calls : calls[s].lock = key
Lookup(kind) == CASE kind = "MigrationImportFollows" -> "follows" [] kind = "MigrationDeactivateSource" -> "deactivate" [] OTHER -> "locked"
TakeJob(s) ==
    /\ Free(s)
    /\ \E j \in BagToSet(queue) :
         queue' = queue (-) SetToBag({j}) /\ Enter(s, Call(j.kind, Lookup(j.kind), j.id, j, None))
    /\ UNCHANGED <<db, net, todo, script, budget, nextId, log>>

(* Enqueue the next job: a failure is logged and the job is not there.       *)
EnqueueNext(s) ==
    /\ At(s, "enqueue")
    /\ LET c == calls[s]
           after == [c EXCEPT !.next = Tail(@), !.pc = IF Len(c.next) > 1 THEN "enqueue" ELSE "release"]
       IN  /\ Enter(s, after)
           /\ \/ queue' = Add(queue, c.next[1]) /\ UNCHANGED <<budget, log>>
              \/ Fails("queue") /\ log' = [log EXCEPT !.dropped = TRUE] /\ UNCHANGED queue
    /\ UNCHANGED <<db, net, todo, script, nextId>>
ThenEnqueue(s, jobs) == Enter(s, [calls[s] EXCEPT !.pc = "enqueue", !.next = jobs])

(* Stop: the lock and the lease of a DNS step go; a lease that cannot be       *)
(* written runs out.                                                        *)
Release(s) ==
    /\ At(s, "release")
    /\ LET c == calls[s]
           step == c.op \in {"requests", "pending"}
       IN  \/ step /\ db' = SetLease(db, c.op, c.id, FALSE) /\ UNCHANGED budget
           \/ step /\ Fails("db") /\ UNCHANGED db
           \/ ~step /\ UNCHANGED <<db, budget>>
    /\ Finish(s)
    /\ UNCHANGED <<net, queue, todo, script, nextId, log>>

(* Continue: the lock is released, then the job enqueues itself; a failure   *)
(* is one of the job.                                                       *)
Continue(s) ==
    /\ At(s, "continue")
    /\ \/ queue' = Add(queue, [calls[s].job EXCEPT !.tries = 0]) /\ Finish(s) /\ UNCHANGED budget
       \/ Fails("queue") /\ Goto(s, "failed") /\ UNCHANGED queue
    /\ UNCHANGED <<db, net, todo, script, nextId, log>>

(* A statement or a request to the outside that fails and whose error ends    *)
(* the work: a job is an attempt poorer, its lock is released; a DNS step and *)
(* a handler stop.  Where an error is only logged, the action says so.         *)
DbStages ==
    {"locked", "car", "blobs", "fetched", "requested", "import", "post", "commit", "blob", "mark", "markBlob", "finish", "follows",
     "linked", "deactivate", "completed", "setTxt", "markVisible", "complete", "rejected", "back", "submitted", "account", "user",
     "newUser", "actor", "replace", "finalize", "start", "source", "email", "create", "join", "insert", "token", "stage", "retry",
     "abandon", "drop", "issue", "consume"}
NetStages == {"car", "blobs", "signature", "blob", "exists", "source", "signSource", "prepare"}
Fallible(c) ==
    {b \in {"db", "net"} :
        \/ b = "db" /\ (c.pc \in DbStages \/ (c.pc = "step" /\ c.op = "requests"))
        \/ b = "net" /\ (c.pc \in NetStages \/ (c.pc = "step" /\ script.cf))}
(* Faulty variant: a record that cannot be committed is passed over.         *)
AfterFailureSkip(c) == IF c.pc = "commit" THEN "mark" ELSE IF c.job # None THEN "failed" ELSE "release"
AfterFailure(c) == IF c.job # None THEN "failed" ELSE "release"
StatementFails(s) ==
    /\ ~Free(s) /\ \E b \in Fallible(calls[s]) : Fails(b)
    /\ GoUnlocked(s, AfterFailure(calls[s]))
    /\ log' = [log EXCEPT !.torn = @ \/ At(s, "replace")]
    /\ UNCHANGED <<db, net, queue, todo, script, nextId>>
(* execute_with_retry: back into the queue while attempts are left; a job     *)
(* that has none, or that the queue does not take, is gone.                   *)
ExecuteWithRetry(s) ==
    /\ At(s, "failed") /\ Finish(s)
    /\ LET j == [calls[s].job EXCEPT !.tries = @ + 1]
       IN  \/ j.tries < MaxAttempts /\ queue' = Add(queue, j) /\ UNCHANGED <<budget, log>>
           \/ j.tries < MaxAttempts /\ Fails("queue") /\ log' = [log EXCEPT !.dropped = TRUE] /\ UNCHANGED queue
           \/ j.tries >= MaxAttempts /\ log' = [log EXCEPT !.dropped = TRUE] /\ UNCHANGED <<queue, budget>>
    /\ UNCHANGED <<db, net, todo, script, nextId>>

(* try_acquire(request_id), get, and the status each job is for.             *)
Wanted(kind) ==
    CASE kind = "MigrationFetchRepo" -> "fetching_repo"
      [] kind = "MigrationRequestPlcSignature" -> "requesting_plc_signature"
      [] kind = "MigrationImportProcess" -> "importing_data"
Begin(kind) ==
    CASE kind = "MigrationFetchRepo" -> "car"
      [] kind = "MigrationRequestPlcSignature" -> "signature"
      [] kind = "MigrationImportProcess" -> "import"
TryLock(s) ==
    /\ At(s, "locked")
    /\ LET c == calls[s]
       IN  IF Locked(c.id) \/ Req(c.id).status # Wanted(c.op) THEN Finish(s)
           ELSE Enter(s, [c EXCEPT !.lock = c.id, !.pc = Begin(c.op)])
    /\ UNCHANGED <<db, net, queue, todo, script, budget, nextId, log>>

(* MigrationFetchRepo *)
FetchRepoCar(s) ==
    /\ At(s, "car")
    /\ LET id == calls[s].id
       IN  IF script.badCar THEN db' = SetFailed(db, id) /\ Finish(s)
           ELSE db' = StageRecords(db, id, script.source[Req(id).did].records) /\ Goto(s, "blobs")
    /\ UNCHANGED <<net, queue, todo, script, budget, nextId, log>>
ListBlobs(s) ==
    /\ At(s, "blobs")
    /\ db' = StageBlobs(db, calls[s].id, script.source[Req(calls[s].id).did].blobs)
    /\ Goto(s, "fetched")
    /\ UNCHANGED <<net, queue, todo, script, budget, nextId, log>>
(* The status is written whatever it is by now; abandoning may have come between.  *)
HandleFetchRepo(s) ==
    /\ At(s, "fetched")
    /\ db' = SetStatus(db, calls[s].id, "requesting_plc_signature")
    /\ ThenEnqueue(s, <<Job("MigrationRequestPlcSignature", calls[s].id)>>)
    /\ UNCHANGED <<net, queue, todo, script, budget, nextId, log>>

(* MigrationRequestPlcSignature *)
RequestPlcOperationSignature(s) ==
    /\ At(s, "signature") /\ Goto(s, "requested")
    /\ UNCHANGED <<db, net, queue, todo, script, budget, nextId, log>>
HandleRequestPlcSignature(s) ==
    /\ At(s, "requested")
    /\ db' = SetStatus(db, calls[s].id, "awaiting_plc_token")
    /\ Finish(s)
    /\ UNCHANGED <<net, queue, todo, script, budget, nextId, log>>

(* MigrationImportProcess: one record, then one blob, then the end.          *)
PostByUri(did, key) == {p \in DOMAIN db.posts : db.posts[p].uri = <<did, key>>}
HandleImportProcess(s) ==
    /\ At(s, "import")
    /\ LET c == calls[s]
           recs == ClaimNextRecord(c.id)
           blobs == ClaimNextBlob(c.id)
       IN  \/ \E x \in recs :
                Enter(s, [c EXCEPT !.item = x, !.pc = CASE x.kind = "broken" -> "unreadable" [] x.kind = "post" -> "post" [] OTHER -> "commit"])
           \/ recs = {} /\ \E x \in blobs : Enter(s, [c EXCEPT !.item = x, !.pc = "blob"])
           \/ recs = {} /\ blobs = {} /\ Goto(s, "finish")
    /\ UNCHANGED <<db, net, queue, todo, script, budget, nextId, log>>
(* The row known under the AT URI, else a new row without one.               *)
MaterializeMigratedPost(s) ==
    /\ At(s, "post")
    /\ LET c == calls[s]
           known == PostByUri(Req(c.id).did, c.item.key)
       IN  \/ \E p \in known : Enter(s, [c EXCEPT !.row = p, !.pc = "commit"]) /\ UNCHANGED <<db, nextId>>
           \/ /\ known = {}
              /\ db' = [db EXCEPT !.posts = Put(@, nextId, [actor |-> Req(c.id).actor, uri |-> None])]
              /\ nextId' = nextId + 1
              /\ Enter(s, [c EXCEPT !.row = nextId, !.pc = "commit"])
    /\ UNCHANGED <<net, queue, todo, script, budget, log>>
CommitStaged(d, c) ==
    LET r == d.requests[c.id]
        inRepo == [d EXCEPT !.repo = @ \cup {[actor |-> r.actor, key |-> c.item.key]}]
    IN  IF c.item.kind = "post" THEN [inRepo EXCEPT !.posts[c.row].uri = <<r.did, c.item.key>>] ELSE inRepo
(* Bytes that cannot be read are Permanent: the job is not tried again.       *)
ImportStagedRecord(s) ==
    /\ \/ At(s, "unreadable") /\ Finish(s) /\ log' = [log EXCEPT !.dropped = TRUE] /\ UNCHANGED db
       \/ At(s, "commit") /\ db' = CommitStaged(db, calls[s]) /\ Goto(s, "mark") /\ UNCHANGED log
    /\ UNCHANGED <<net, queue, todo, script, budget, nextId>>
(* Fetched, then stored unless a file with the same content is there: one     *)
(* row either way.                                                          *)
ImportOneBlob(s) ==
    /\ At(s, "blob")
    /\ db' = [db EXCEPT !.media = @ \cup {calls[s].item.cid}]
    /\ Goto(s, "markBlob")
    /\ UNCHANGED <<net, queue, todo, script, budget, nextId, log>>
MarkImported(s) ==
    /\ \/ At(s, "mark") /\ db' = MarkRecordImported(db, calls[s].item)
       \/ At(s, "markBlob") /\ db' = MarkBlobImported(db, calls[s].item)
    /\ GoUnlocked(s, "continue")
    /\ UNCHANGED <<net, queue, todo, script, budget, nextId, log>>
FinishImport(s) ==
    /\ At(s, "finish")
    /\ db' = SetStatus(db, calls[s].id, "deactivating_source")
    /\ ThenEnqueue(s, <<Job("MigrationDeactivateSource", calls[s].id), Job("MigrationImportFollows", calls[s].id)>>)
    /\ UNCHANGED <<net, queue, todo, script, budget, nextId, log>>

(* MigrationDeactivateSource: no lock; the source is asked once, and whatever *)
(* it answers the migration is completed.                                   *)
HandleDeactivateSource(s) ==
    /\ \/ /\ At(s, "deactivate")
          /\ IF Req(calls[s].id).status = "deactivating_source" THEN Goto(s, "off") ELSE Finish(s)
          /\ UNCHANGED <<db, net, budget>>
       \/ /\ At(s, "off") /\ Goto(s, "completed") /\ UNCHANGED db
          /\ \/ net' = [net EXCEPT !.off = @ \cup {Req(calls[s].id).did}] /\ UNCHANGED budget
             \/ Fails("net") /\ UNCHANGED net
       \/ At(s, "completed") /\ db' = SetStatus(db, calls[s].id, "completed") /\ Finish(s) /\ UNCHANGED <<net, budget>>
    /\ UNCHANGED <<queue, todo, script, nextId, log>>

(* MigrationImportFollows: its own lock key, so that it may run beside the    *)
(* job that enqueues it.                                                    *)
FollowsLock(id) == -id
HandleImportFollows(s) ==
    /\ At(s, "follows")
    /\ LET c == calls[s]
           held == [c EXCEPT !.lock = FollowsLock(c.id)]
       IN  IF Locked(FollowsLock(c.id)) \/ Req(c.id).actor = None \/ ClaimNextFollowRecord(c.id) = {} THEN Finish(s)
           ELSE \E x \in ClaimNextFollowRecord(c.id) : Enter(s, [held EXCEPT !.item = x, !.pc = IF x.kind = "nobody" THEN "linked" ELSE "link"])
    /\ UNCHANGED <<db, net, queue, todo, script, budget, nextId, log>>
(* A follow that cannot be restored is passed over.                         *)
LinkBskyFollowWithExistingRkey(s) ==
    /\ At(s, "link")
    /\ \/ db' = [db EXCEPT !.follows = @ \cup {[actor |-> Req(calls[s].id).actor, key |-> calls[s].item.key]}] /\ UNCHANGED budget
       \/ Fails("net") /\ UNCHANGED db
    /\ Goto(s, "linked")
    /\ UNCHANGED <<net, queue, todo, script, nextId, log>>
FollowMaterialized(s) ==
    /\ At(s, "linked")
    /\ db' = MarkFollowMaterialized(db, calls[s].item)
    /\ GoUnlocked(s, "continue")
    /\ UNCHANGED <<net, queue, todo, script, budget, nextId, log>>

-----------------------------------------------------------------------------
(* The DNS wait: did_provision/mod.rs, did_provision/migration.rs.           *)
(* A step is started by the request itself, by its kick, by the timed poll, *)
(* by /status and by /retry: any of them, at any time.                      *)

Claim(s, t, id) ==
    /\ Free(s)
    /\ db' = SetLease(db, t, id, TRUE)
    /\ Enter(s, [Call(t, "step", id, None, None) EXCEPT !.row = db[t][id]])
    /\ UNCHANGED <<net, queue, todo, script, budget, nextId, log>>
Advance(s) == \E a \in ListUnlockedIds : Claim(s, "pending", a)
AdvanceMigration(s) == \E id \in ListDnsWaitIds : Claim(s, "requests", id)
(* Sixty seconds: longer than a step, unless the process stopped or a call hangs.  *)
LeaseRunsOut ==
    /\ \E t \in {"requests", "pending"} : \E id \in Rows(t) :
         LET busy == \E s \in Calls : calls[s].op = t /\ calls[s].id = id
         IN  /\ db[t][id].lease
             /\ db' = SetLease(db, t, id, FALSE)
             /\ IF busy THEN Fails("expiry") /\ log' = [log EXCEPT !.overran = TRUE] ELSE UNCHANGED <<budget, log>>
    /\ UNCHANGED <<net, queue, calls, todo, script, nextId>>

NameOf(t, id) == IF t = "requests" THEN Req(id).name ELSE db.actors[id].name
(* Without settings (or when they cannot be read) there is no client.  The    *)
(* answer about a new record may be lost: then its id is not known.          *)
AfterProgress(t, p) ==
    CASE p = "Created" -> "setTxt" [] p = "Visible" -> "markVisible" [] p = "Waiting" -> "release"
      [] p = "Ready" -> IF t = "requests" THEN "complete" ELSE "exists"
Step(s) ==
    /\ At(s, "step")
    /\ LET c == calls[s]
           name == NameOf(c.op, c.id)
       IN  \/ /\ script.cf
              /\ \E p \in TxtProgress(name, c.row.did, c.row.txt, c.row.visible) :
                   IF p = "Created"
                   THEN /\ net' = SetAtprotoTxt(net, name, c.row.did) /\ nextId' = nextId + 1
                        /\ \/ Enter(s, [c EXCEPT !.item = nextId, !.pc = AfterProgress(c.op, p)]) /\ UNCHANGED budget
                           \/ Fails("lost") /\ Goto(s, "release")
                   ELSE Goto(s, AfterProgress(c.op, p)) /\ UNCHANGED <<net, nextId, budget>>
              /\ UNCHANGED log
           \/ /\ IF script.cf THEN Fails("settings") /\ log' = [log EXCEPT !.unread = TRUE] ELSE UNCHANGED <<budget, log>>
              /\ Goto(s, AfterProgress(c.op, "Ready")) /\ UNCHANGED <<net, nextId>>
    /\ UNCHANGED <<db, queue, todo, script>>
SaveProgress(s) ==
    /\ LET c == calls[s]
       IN  \/ At(s, "setTxt") /\ db' = SetTxtRecordId(db, c.op, c.id, c.item)
           \/ At(s, "markVisible") /\ db' = MarkTxtVisible(db, c.op, c.id)
    /\ Goto(s, "release")
    /\ UNCHANGED <<net, queue, todo, script, budget, nextId, log>>

(* complete_migration: an abandoned request is not submitted.               *)
CompleteMigration(s) ==
    /\ At(s, "complete")
    /\ LET id == calls[s].id
       IN  /\ db' = TransitionStatus(db, id, "awaiting_dns_txt", "submitting_plc")
           /\ Goto(s, IF Req(id).status = "awaiting_dns_txt" THEN "submit" ELSE "release")
    /\ UNCHANGED <<net, queue, todo, script, budget, nextId, log>>
SubmitPlcOperation(s) ==
    /\ At(s, "submit")
    /\ LET c == calls[s]
           ok == Accepted(c.row.did, c.row.staged)
       IN  \/ /\ ok /\ net' = Applied(net, c.row.did, c.row.staged) /\ nextId' = nextId + 1
              /\ \/ Goto(s, "submitted") /\ UNCHANGED budget
                 \/ Fails("lost") /\ Goto(s, "back")
           \/ /\ ~ok /\ Goto(s, "rejected") /\ UNCHANGED <<net, nextId, budget>>
           \/ /\ Fails("net") /\ Goto(s, "back") /\ UNCHANGED <<net, nextId>>
    /\ UNCHANGED <<db, queue, todo, script, log>>
AfterSubmit(s) ==
    /\ LET c == calls[s]
       IN  \/ At(s, "rejected") /\ db' = SetFailed(db, c.id) /\ Goto(s, "release")
           \/ At(s, "back") /\ db' = TransitionStatus(db, c.id, "submitting_plc", "awaiting_dns_txt") /\ Goto(s, "release")
           \/ At(s, "submitted") /\ db' = MarkPlcSubmitted(db, c.id, c.row.staged.key) /\ Goto(s, "account")
    /\ UNCHANGED <<net, queue, todo, script, budget, nextId, log>>
(* materialize_local_account: the actor is looked up by DID, the user by       *)
(* address; a user that is not there is made, then the actor that was found is *)
(* converted or a new one made.  What another call took meanwhile ends it.   *)
FindAccount(s) ==
    /\ LET c == calls[s]
           actor == FindByDid(Req(c.id).did)
           user == UserByEmail(db, Req(c.id).email)
       IN  \/ /\ At(s, "account")
              /\ \E a \in IF actor = {} THEN {None} ELSE actor : Enter(s, [c EXCEPT !.next = <<a>>, !.pc = "user"])
           \/ /\ At(s, "user")
              /\ \/ user = {} /\ Goto(s, "newUser")
                 \/ \E u \in user : Enter(s, [c EXCEPT !.next = Append(@, u), !.pc = "actor"])
    /\ UNCHANGED <<db, net, queue, todo, script, budget, nextId, log>>
MaterializeUser(s) ==
    /\ At(s, "newUser")
    /\ LET c == calls[s]
           email == Req(c.id).email
       IN  IF UserByEmail(db, email) # {} THEN Goto(s, "release") /\ UNCHANGED <<db, nextId>>
           ELSE /\ db' = InsertUser(db, nextId, email) /\ nextId' = nextId + 1
                /\ Enter(s, [c EXCEPT !.next = Append(@, nextId), !.pc = "actor"])
    /\ UNCHANGED <<net, queue, todo, script, budget, log>>
MaterializeLocalAccount(s) ==
    /\ At(s, "actor")
    /\ LET c == calls[s]
           r == Req(c.id)
           known == c.next[1]
           taken == NameTaken(db, r.name, known) \/ (known = None /\ FindByDid(r.did) # {})
       IN  \/ taken /\ Goto(s, "release") /\ UNCHANGED <<db, nextId>>
           \/ /\ ~taken /\ known # None
              /\ db' = ConvertRemoteToLocal(db, known, r.keys, r.name, c.next[2])
              /\ Goto(s, "confirm") /\ UNCHANGED nextId
           \/ /\ ~taken /\ known = None
              /\ db' = InsertLocal(db, nextId, r.did, r.keys, r.name, c.next[2]) /\ nextId' = nextId + 1
              /\ Enter(s, [c EXCEPT !.next[1] = nextId, !.pc = "confirm"])
    /\ UNCHANGED <<net, queue, todo, script, budget, log>>
Confirm(s) ==
    /\ At(s, "confirm")
    /\ \/ db' = ConfirmAccountCreated(db, calls[s].id, calls[s].next[1], calls[s].next[2]) /\ UNCHANGED budget
       \/ Fails("db") /\ UNCHANGED db
    /\ log' = [log EXCEPT !.twice = @ \/ Req(calls[s].id).status # "submitting_plc"]
    /\ ThenEnqueue(s, <<Job("MigrationImportProcess", calls[s].id)>>)
    /\ UNCHANGED <<net, queue, todo, script, nextId>>

(* complete: the DID of a new account.                                      *)
Complete(s) ==
    /\ At(s, "exists")
    /\ Goto(s, IF PlcDidExists(calls[s].row.did) THEN "finalize" ELSE "genesis")
    /\ UNCHANGED <<db, net, queue, todo, script, budget, nextId, log>>
SubmitPlcGenesisOp(s) ==
    /\ At(s, "genesis")
    /\ LET did == calls[s].row.did
       IN  \/ /\ ~PlcDidExists(did) /\ net' = SubmitGenesisOp(net, did) /\ nextId' = nextId + 1
              /\ \/ Goto(s, "finalize") /\ UNCHANGED budget
                 \/ Fails("lost") /\ Goto(s, "regenerate")
           \/ /\ PlcDidExists(did) /\ Goto(s, "regenerate") /\ UNCHANGED <<net, nextId, budget>>
           \/ /\ Fails("net") /\ Goto(s, "regenerate") /\ UNCHANGED <<net, nextId>>
    /\ UNCHANGED <<db, queue, todo, script, log>>
(* A new key and DID; the TXT record of the old one is taken back.           *)
Regenerate(s) ==
    /\ LET c == calls[s]
       IN  \/ /\ At(s, "regenerate")
              /\ \/ net' = DeleteTxtRecord(net, c.row.txt) /\ UNCHANGED budget
                 \/ Fails("net") /\ UNCHANGED net
              /\ Goto(s, "replace") /\ UNCHANGED <<db, nextId>>
           \/ /\ At(s, "replace")
              /\ db' = ReplaceGenesis(db, c.id, nextId) /\ nextId' = nextId + 1
              /\ Goto(s, "release") /\ UNCHANGED <<net, budget>>
    /\ UNCHANGED <<queue, todo, script, log>>
FinalizeStep(s) ==
    /\ At(s, "finalize")
    /\ db' = FinalizeDid(db, calls[s].id, calls[s].row)
    /\ Goto(s, "publish")
    /\ UNCHANGED <<net, queue, todo, script, budget, nextId, log>>
(* The profile, two declarations and #identity: what fails is logged.        *)
PublishInitialAtpRecords(s) ==
    /\ At(s, "publish")
    /\ \/ db' = [db EXCEPT !.actors[calls[s].id].shown = TRUE] /\ UNCHANGED budget
       \/ Fails("db") /\ UNCHANGED db
    /\ Goto(s, "release")
    /\ UNCHANGED <<net, queue, todo, script, nextId, log>>

-----------------------------------------------------------------------------
(* Requests: handlers/migration.rs, handlers/auth.rs (register)              *)

StartRequest(s) ==
    /\ Free(s)
    /\ \E r \in todo :
         /\ todo' = todo \ {r}
         /\ \/ /\ r.op \in {"start", "join", "code", "sign", "submitOp"}
               /\ Enter(s, Call(r.op, r.op, None, None, r))
            \/ /\ r.op \in {"token", "retry", "abandon"}
               /\ \E id \in Requests : Enter(s, Call(r.op, r.op, id, None, r))
    /\ UNCHANGED <<db, net, queue, script, budget, nextId, log>>

(* The administrator closes the registration.                               *)
CloseRegistration ==
    /\ net.open /\ Fails("closing")
    /\ net' = [net EXCEPT !.open = FALSE]
    /\ UNCHANGED <<db, queue, calls, todo, script, nextId, log>>

(* The name is looked up; the handle resolved and its DID looked up; a session *)
(* opened at the source, which gives an address, else the request must; the    *)
(* address looked up; the request written.  Each refuses on its own.         *)
StartMigration(s) ==
    /\ LET r == calls[s].req
       IN  \/ At(s, "start") /\ IF net.open /\ ~NameTaken(db, r.name, None) THEN Goto(s, "source") ELSE Finish(s)
           \/ /\ At(s, "source")
              /\ IF r.email # None /\ \A a \in FindByDid(r.did) : ~db.actors[a].local THEN Goto(s, "email") ELSE Finish(s)
           \/ At(s, "email") /\ IF UserByEmail(db, r.email) = {} THEN Goto(s, "create") ELSE Finish(s)
    /\ UNCHANGED <<db, net, queue, todo, script, budget, nextId, log>>
SaveMigration(s) ==
    /\ At(s, "create")
    /\ db' = CreateRequest(db, nextId, calls[s].req) /\ nextId' = nextId + 1
    /\ Enter(s, [calls[s] EXCEPT !.id = nextId, !.pc = "enqueue", !.next = <<Job("MigrationFetchRepo", nextId)>>])
    /\ UNCHANGED <<net, queue, todo, script, budget, log>>

(* A new account and its pending row, in one transaction in which the unique  *)
(* constraints have the last word; without a domain there is no row yet.     *)
Available(r) == ~NameTaken(db, r.name, None) /\ UserByEmail(db, r.email) = {}
CreateLocalAccount(d, a, r) ==
    LET account == InsertLocal(InsertUser(d, a, r.email), a, None, None, r.name, a)
    IN  IF script.domain THEN InsertPendingRow(account, a, a) ELSE account
Join(s) ==
    /\ LET r == calls[s].req
       IN  \/ At(s, "join") /\ (IF net.open /\ Available(r) THEN Goto(s, "insert") ELSE Finish(s)) /\ UNCHANGED <<db, nextId>>
           \/ /\ At(s, "insert") /\ Finish(s)
              /\ IF Available(r) THEN db' = CreateLocalAccount(db, nextId, r) /\ nextId' = nextId + 1
                 ELSE UNCHANGED <<db, nextId>>
    /\ UNCHANGED <<net, queue, todo, script, budget, log>>

(* submit_plc_token: with the new keys written, only the account is made      *)
(* again; else the operation is signed at the source and kept.               *)
SubmitPlcToken(s) ==
    /\ At(s, "token")
    /\ LET r == Req(calls[s].id)
       IN  IF r.keys # None
           THEN IF r.status = "submitting_plc" THEN Goto(s, "account") ELSE Finish(s)
           ELSE IF r.status = "awaiting_plc_token" /\ net.open THEN Goto(s, "signSource") ELSE Finish(s)
    /\ UNCHANGED <<db, net, queue, todo, script, budget, nextId, log>>
SignAtSource(s) ==
    /\ At(s, "signSource")
    /\ Enter(s, [calls[s] EXCEPT !.item = SignPlcOperation(Req(calls[s].id).did), !.pc = "stage"])
    /\ nextId' = nextId + 1
    /\ UNCHANGED <<db, net, queue, todo, script, budget, log>>
StageOperation(s) ==
    /\ At(s, "stage")
    /\ LET c == calls[s]
       IN  db' = IF Stageable(db, c.id) THEN StagePlcOperation(db, c.id, c.item) ELSE db
    /\ Finish(s)
    /\ UNCHANGED <<net, queue, todo, script, budget, nextId, log>>

(* /retry enqueues the job of the status; awaiting_dns_txt takes a DNS step.  *)
JobOf(status) ==
    CASE status = "fetching_repo" -> "MigrationFetchRepo"
      [] status = "requesting_plc_signature" -> "MigrationRequestPlcSignature"
      [] status = "importing_data" -> "MigrationImportProcess"
      [] status = "deactivating_source" -> "MigrationDeactivateSource"
      [] OTHER -> None
IsJobDrivenStatus(status) == JobOf(status) # None
Retry(s) ==
    /\ At(s, "retry")
    /\ LET c == calls[s]
           st == Req(c.id).status
       IN  IF IsJobDrivenStatus(st) THEN ThenEnqueue(s, <<Job(JobOf(st), c.id)>>) ELSE Finish(s)
    /\ UNCHANGED <<db, net, queue, todo, script, budget, nextId, log>>
(* Read, then a transition from the status that was read.                   *)
CanAbandon(r) == ~r.plcAt /\ r.status # "submitting_plc"
Abandon(s) ==
    /\ \/ /\ At(s, "abandon")
          /\ LET r == Req(calls[s].id)
             IN  IF CanAbandon(r) THEN Enter(s, [calls[s] EXCEPT !.item = r.status, !.pc = "drop"]) ELSE Finish(s)
          /\ UNCHANGED db
       \/ /\ At(s, "drop")
          /\ db' = TransitionStatus(db, calls[s].id, calls[s].item, "abandoned")
          /\ Finish(s)
    /\ UNCHANGED <<net, queue, todo, script, budget, nextId, log>>

-----------------------------------------------------------------------------
(* Moving out: xrpc/identity.rs *)

(* The actor of the token's DID, with a key of its own to sign with.          *)
Owned(a) == a \in DOMAIN db.actors /\ db.actors[a].did # None /\ db.actors[a].key # None
Codes(a) == {x \in db.codes : x.actor = a}
Revoke(d, a) == [d EXCEPT !.codes = {x \in @ : x.actor # a}]
(* A code of the last minute is recent; after a quarter of an hour it is void. *)
CodesAge ==
    /\ \E x \in db.codes : db' = [db EXCEPT !.codes = IF x.recent THEN Replace(@, x, [x EXCEPT !.recent = FALSE]) ELSE @ \ {x}]
    /\ UNCHANGED <<net, queue, calls, todo, script, budget, nextId, log>>
(* A code, unless mail is not set up or there is a recent one; what could not  *)
(* be looked up is not there.  A code that could not be mailed is revoked, and *)
(* so are the others.                                                       *)
IssueCode(s) ==
    /\ LET a == calls[s].req.actor
           wanted == Owned(a) /\ script.smtp
           recent == \E x \in Codes(a) : x.recent
       IN  \/ /\ At(s, "code") /\ UNCHANGED <<db, nextId>>
              /\ \/ (IF wanted /\ ~recent THEN Goto(s, "issue") ELSE Finish(s)) /\ UNCHANGED budget
                 \/ wanted /\ recent /\ Fails("db") /\ Goto(s, "issue")
           \/ /\ At(s, "issue") /\ Goto(s, "mail") /\ UNCHANGED budget
              /\ db' = [db EXCEPT !.codes = @ \cup {[actor |-> a, id |-> nextId, recent |-> TRUE]}] /\ nextId' = nextId + 1
           \/ /\ At(s, "mail") /\ Finish(s) /\ UNCHANGED nextId
              /\ \/ UNCHANGED <<db, budget>>
                 \/ Fails("net") /\ db' = Revoke(db, a)
    /\ UNCHANGED <<net, queue, todo, script, log>>
(* A code that is pending must be right; right or wrong, all are used up.  The *)
(* newest operation is looked up and the next one signed.                    *)
XrpcSignPlcOperation(s) ==
    /\ LET r == calls[s].req
           a == r.actor
       IN  \/ /\ At(s, "sign") /\ UNCHANGED <<db, net>>
              /\ \/ ~Owned(a) /\ Finish(s) /\ UNCHANGED budget
                 \/ Owned(a) /\ Goto(s, IF Codes(a) = {} THEN "prepare" ELSE "consume") /\ UNCHANGED budget
                 \/ Owned(a) /\ Codes(a) # {} /\ Fails("db") /\ Goto(s, "prepare")
           \/ /\ At(s, "consume") /\ db' = Revoke(db, a) /\ UNCHANGED <<net, budget>>
              /\ IF r.code /\ Codes(a) # {} THEN Goto(s, "prepare") ELSE Finish(s)
           \/ /\ At(s, "prepare") /\ Finish(s) /\ UNCHANGED <<db, budget>>
              /\ LET doc == FetchCurrentPlcDocAndPrev(db.actors[a].did)
                 IN  net' = [net EXCEPT !.signed = @ \cup {[actor |-> a, op |-> PreparePlcRotationUpdate(doc, AwayKey, db.actors[a].key)]}]
    /\ UNCHANGED <<queue, todo, script, nextId, log>>
AfterOperation(c, ok) == IF ok THEN [c EXCEPT !.pc = "moved"] ELSE NoCall
XrpcSubmitPlcOperation(s) ==
    /\ At(s, "submitOp")
    /\ LET a == calls[s].req.actor
       IN  \/ (\A x \in net.signed : x.actor # a) /\ Finish(s) /\ UNCHANGED <<net, nextId, budget, log>>
           \/ \E x \in net.signed :
                LET did == db.actors[a].did
                IN  /\ x.actor = a
                    /\ \/ /\ Accepted(did, x.op) /\ net' = Applied(net, did, x.op) /\ nextId' = nextId + 1
                          /\ \/ Enter(s, AfterOperation(calls[s], TRUE)) /\ UNCHANGED <<budget, log>>
                             \/ Fails("lost") /\ log' = [log EXCEPT !.cut = TRUE] /\ Enter(s, AfterOperation(calls[s], FALSE))
                       \/ /\ ~Accepted(did, x.op) /\ Enter(s, AfterOperation(calls[s], FALSE)) /\ UNCHANGED <<net, nextId, budget, log>>
                       \/ /\ Fails("net") /\ Enter(s, AfterOperation(calls[s], FALSE)) /\ UNCHANGED <<net, nextId, log>>
    /\ UNCHANGED <<db, queue, todo, script>>
(* #identity, #account, then the mark; a failure is logged.                  *)
MovedOut(s) ==
    /\ At(s, "moved")
    /\ \/ db' = MarkDidMovedOut(db, calls[s].req.actor) /\ UNCHANGED <<budget, log>>
       \/ Fails("db") /\ log' = [log EXCEPT !.cut = TRUE] /\ UNCHANGED db
    /\ Finish(s)
    /\ UNCHANGED <<net, queue, todo, script, nextId>>

-----------------------------------------------------------------------------
(* The process stops and starts: the Redis queue keeps its jobs, those being  *)
(* worked on included, the one in memory loses them; then                    *)
(* resume_running_migrations enqueues what the tables ask for.                *)

Working == SetToBag({[s |-> s, j |-> calls[s].job] : s \in {s \in Calls : ~Free(s) /\ calls[s].job # None}})
Recovered == IF script.backend = "redis" THEN FoldSet(LAMBDA x, q : Add(q, x.j), queue, BagToSet(Working)) ELSE EmptyBag
ResumeRunningMigrations ==
    {Job(JobOf(Req(id).status), id) : id \in {id \in Requests : IsJobDrivenStatus(Req(id).status)}}
    \cup {Job("MigrationImportFollows", id) : id \in ListPendingFollowMaterialization}
(* A query or an enqueue that fails is logged, and its jobs are not there.   *)
Crash ==
    /\ Can("crash")
    /\ calls' = [s \in Calls |-> NoCall]
    /\ \E missed \in SUBSET ResumeRunningMigrations :
         /\ Cardinality(missed) <= budget.queue
         /\ queue' = FoldSet(LAMBDA j, q : Add(q, j), Recovered, ResumeRunningMigrations \ missed)
         /\ budget' = [budget EXCEPT !.crash = @ - 1, !.queue = @ - Cardinality(missed)]
         /\ log' = [log EXCEPT !.cut = @ \/ \E s \in Calls : At(s, "moved"), !.torn = @ \/ \E s \in Calls : At(s, "replace"),
                               !.dropped = @ \/ missed # {}]
    /\ UNCHANGED <<db, net, todo, script, nextId>>

-----------------------------------------------------------------------------
Init ==
    /\ script \in Scripts
    /\ db = script.db /\ net = script.net
    /\ queue = EmptyBag /\ calls = [s \in Calls |-> NoCall]
    /\ todo = script.requests /\ budget = script.budget
    /\ nextId = script.first
    /\ log = [overran |-> FALSE, unread |-> FALSE, dropped |-> FALSE, cut |-> FALSE, torn |-> FALSE, twice |-> FALSE]

JobStep(s) ==
    \/ TakeJob(s) \/ TryLock(s) \/ EnqueueNext(s) \/ Release(s) \/ Continue(s) \/ StatementFails(s) \/ ExecuteWithRetry(s)
    \/ FetchRepoCar(s) \/ ListBlobs(s) \/ HandleFetchRepo(s)
    \/ RequestPlcOperationSignature(s) \/ HandleRequestPlcSignature(s)
    \/ HandleImportProcess(s) \/ MaterializeMigratedPost(s) \/ ImportStagedRecord(s) \/ ImportOneBlob(s) \/ MarkImported(s) \/ FinishImport(s)
    \/ HandleDeactivateSource(s) \/ HandleImportFollows(s) \/ LinkBskyFollowWithExistingRkey(s) \/ FollowMaterialized(s)
DnsStep(s) ==
    \/ Advance(s) \/ AdvanceMigration(s) \/ Step(s) \/ SaveProgress(s)
    \/ CompleteMigration(s) \/ SubmitPlcOperation(s) \/ AfterSubmit(s) \/ FindAccount(s) \/ MaterializeUser(s) \/ MaterializeLocalAccount(s) \/ Confirm(s)
    \/ Complete(s) \/ SubmitPlcGenesisOp(s) \/ Regenerate(s) \/ FinalizeStep(s) \/ PublishInitialAtpRecords(s)
RequestStep(s) ==
    \/ StartRequest(s) \/ StartMigration(s) \/ SaveMigration(s) \/ Join(s)
    \/ SubmitPlcToken(s) \/ SignAtSource(s) \/ StageOperation(s) \/ Retry(s) \/ Abandon(s)
    \/ IssueCode(s) \/ XrpcSignPlcOperation(s) \/ XrpcSubmitPlcOperation(s) \/ MovedOut(s)
Next == \/ \E s \in Calls : JobStep(s) \/ DnsStep(s) \/ RequestStep(s)
        \/ Publish \/ LeaseRunsOut \/ CodesAge \/ CloseRegistration \/ Crash
Spec == Init /\ [][Next]_vars

-----------------------------------------------------------------------------
(* The directory's key for a DID that came from elsewhere is never one that   *)
(* nobody holds: it is the source's, or it is kept with the request that made  *)
(* it or with the account.  A directory answer may be lost, the process may    *)
(* stop between any two statements (docs/account_migration.md, section 4).    *)
KeyKept ==
    \A did \in DOMAIN script.source :
        LET k == net.plc[did].key
        IN  k \in {0, AwayKey} \/ (\E id \in Requests : k = Req(id).keys \/ (Req(id).staged # None /\ k = Req(id).staged.key))

(* A local account's DID is registered and its key is the one the account     *)
(* signs with, until it moves out; and an account is marked as moved out only  *)
(* once the directory has taken the operation that moves it.                  *)
AccountMatches ==
    \A a \in DOMAIN db.actors :
        LET x == db.actors[a]
        IN  x.local /\ x.did # None =>
                /\ x.did \in DOMAIN net.plc
                /\ x.moved => net.plc[x.did].key # x.key
                /\ x.moved \/ net.plc[x.did].key = x.key \/ log.cut \/ \E s \in Calls : At(s, "moved")

(* A migration that reached deactivating_source has every record of the source *)
(* in the repository, every post in the timeline tables under its AT URI, and  *)
(* every blob stored: no failed commit, crash or second import job lets one by. *)
ImportedAll ==
    \A id \in Requests :
        Req(id).status \in {"deactivating_source", "completed"} =>
            LET r == Req(id)
            IN  /\ \A x \in script.source[r.did].records :
                     [actor |-> r.actor, key |-> x.key] \in db.repo /\ (x.kind = "post" => PostByUri(r.did, x.key) # {})
                /\ script.source[r.did].blobs \subseteq db.media

(* With Cloudflare set up, an account that uses a DID has its TXT record on    *)
(* every name server, and so has a DID that was switched over: the first event *)
(* never precedes the record (did_provision/mod.rs, its heading).  Excluded: a  *)
(* lease that ran out under its holder, settings that could not be read, and a *)
(* process that stopped between deleting a record and replacing its row.      *)
TxtFirst ==
    script.cf /\ ~log.overran /\ ~log.unread /\ ~log.torn =>
        /\ \A a \in DOMAIN db.actors :
             db.actors[a].local /\ db.actors[a].did # None /\ a \notin DOMAIN script.db.actors => IsAtprotoTxtPublished(db.actors[a].name, db.actors[a].did)
        /\ \A did \in DOMAIN script.source :
             net.plc[did].key > 0 => \E id \in Requests : IsAtprotoTxtPublished(Req(id).name, did)

(* When nothing is left to do, no migration waits for a job that is not there: *)
(* the repository is fetched, the import runs to its end, the source is        *)
(* switched off, and no follow record that was imported is left unlinked.      *)
(* Excluded: a job that could not be enqueued, and an account that two requests *)
(* confirmed, the second after the import.  SignatureAsked has the rest.      *)
Idle == queue = EmptyBag /\ \A s \in Calls : Free(s)
NoneWaits ==
    Idle /\ ~log.dropped /\ ~log.twice =>
        \A id \in Requests : Req(id).status \notin {"fetching_repo", "importing_data", "deactivating_source"} /\ PendingFollows(id) = {}

(* jobs/at_migration.rs, its heading: the lock on the request is there against *)
(* a job enqueued twice at start-up.  So a request whose repository was fetched *)
(* goes on to ask for the signature without anybody's help.                   *)
SignatureAsked == Idle /\ ~log.dropped => ListByStatuses("requesting_plc_signature") = {}
=============================================================================

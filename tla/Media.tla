------------------------------- MODULE Media -------------------------------
(***************************************************************************)
(* Media: uploads (drive.rs, media_store.rs, XRPC uploadBlob), the storage   *)
(* providers, what refers to a file (attachments, records, profiles,         *)
(* emojis, site settings), the video pipeline of Bluesky, and the collection *)
(* of files nothing refers to (run_media_gc).                                *)
(*                                                                         *)
(*   db.media      media_files: hash, bh (has a blurhash), by, kind, key,    *)
(*                 thumb (storage keys), prov, age, and of the video service *)
(*                 its job, the status (video) and the cid                   *)
(*   db.posts      by, live, att (attachments), at (has an AT record), rec   *)
(*                 (the hashes the record refers to), waits                  *)
(*                 (pending_bsky_media_file_id), asked (what the client      *)
(*                 attached and was not told that it failed)                 *)
(*   db.blobs      post_record_blobs: <<post, media>>                        *)
(*   db.backfill   post_record_blobs_backfill                                *)
(*   db.profile    avatar of each actor, db.record its profile record        *)
(*   db.emojis, db.settings, db.providers                                    *)
(*                                                                         *)
(* Every statement, request to S3 and request to the video service may fail, *)
(* and the process may restart; faults bounds both.  last_uploaded_at is an  *)
(* age: "new" (just touched), "aging" (within the seven days, but about to   *)
(* pass them) or "old".  Every file has size 1.                              *)
(***************************************************************************)
EXTENDS Integers, Sequences, FiniteSets, FiniteSetsExt, SequencesExt

CONSTANTS
    None,
    Scripts,        \* requests, database, objects, answers given before; bounds: faults, weeks
    Calls,          \* slots for requests and rounds of the collector under way at the same time
    GcBatch,        \* files of a round of the collector (100)
    Transcoded(_)   \* hash of what the video service makes of a file

VARIABLES
    db, objects,    \* the tables; the keys stored in S3
    ids,            \* the last id and the last key drawn
    calls, todo,
    answered,       \* <<actor, content, id>>: the ids clients know
    astray,         \* ids and hashes that were not there when they were answered or recorded
    pipeline,       \* the video service: state of each job <<actor, hash>>
    polls,          \* BskyVideoPoll jobs: media
    deferred,       \* BskyPostCommitDeferred jobs: <<post, media>>
    backfilling,    \* the task of the startup: "start", "on", "filled", "stopped"
    faults, weeks

storage == <<objects, ids>>
clients == <<todo, answered, astray>>
jobs == <<pipeline, polls, deferred, backfilling>>
bounds == <<faults, weeks>>
vars == <<db, storage, calls, clients, jobs, bounds>>

Put(f, k, v) == [x \in DOMAIN f \cup {k} |-> IF x = k THEN v ELSE f[x]]
Drop(f, k) == [x \in DOMAIN f \ {k} |-> f[x]]
NoCall == [op |-> "none"]
Busy == {s \in Calls : calls[s].op # "none"}
At(s, l) == s \in Busy /\ calls[s].pc = l
Goto(s, l) == calls' = [calls EXCEPT ![s].pc = l]
End(s) == calls' = [calls EXCEPT ![s] = NoCall]
Row(m) == db.media[m]
Stored(m) == m \in DOMAIN db.media
Fault == faults > 0 /\ faults' = faults - 1

-----------------------------------------------------------------------------
(* repository/media_file.rs, repository/storage_provider.rs, selector.rs *)

(* One of the rows, or none: blurhash IS NULL is asked for without one.      *)
FindByHash(h, bh) == {m \in DOMAIN db.media : Row(m).hash = h /\ Row(m).bh = bh}
FindIdByShaAndUploader(h, a) == {m \in DOMAIN db.media : Row(m).hash = h /\ Row(m).by = a}
(* Where getBlob finds a blob.                                               *)
PublicLocationBySha256(h) == {m \in DOMAIN db.media : Row(m).hash = h}
HasPendingBskyVideo(a) == \E m \in DOMAIN db.media : Row(m).by = a /\ Row(m).video = "pending"
BskyVideoStatus(m) == IF Stored(m) THEN Row(m).video ELSE "none"

Touched(d, ms) ==
    [d EXCEPT !.media = [m \in DOMAIN @ |-> IF m \in ms THEN [@[m] EXCEPT !.age = "new"] ELSE @[m]]]

(* ON CONFLICT (sha256, blurhash), which is NULLS NOT DISTINCT.              *)
Conflicting(r) == FindByHash(r.hash, r.bh)
Upserted(id, r) ==
    IF Conflicting(r) # {} THEN Touched(db, Conflicting(r)) ELSE [db EXCEPT !.media = Put(@, id, r)]

GetUsedBytes(v) == Cardinality({m \in DOMAIN db.media : Row(m).prov = v})
HasRoom(v, cap) == cap = None \/ GetUsedBytes(v) + 1 <= cap
ListActive == {v \in DOMAIN db.providers : db.providers[v].active}
(* The first active provider with room, none when there is no such one.      *)
SelectProvider ==
    LET fit == {v \in ListActive : HasRoom(v, db.providers[v].cap)} IN IF fit = {} THEN None ELSE Min(fit)

-----------------------------------------------------------------------------
(* repository/maintenance.rs: files nothing refers to *)

LivePosts == {p \in DOMAIN db.posts : db.posts[p].live}
AttachedTo(m) == {p \in LivePosts : m \in db.posts[p].att}
InRecordOf(m) == {p \in LivePosts : <<p, m>> \in db.blobs}
Referenced(m) ==
    \/ AttachedTo(m) # {} \/ InRecordOf(m) # {}
    \/ \E k \in DOMAIN db.profile : db.profile[k] = m
    \/ \E n \in DOMAIN db.emojis : db.emojis[n] = m
    \/ \E k \in DOMAIN db.settings : db.settings[k] = m

(* Faulty variant: NOT IN over attachments of remote posts, which have no    *)
(* media_file_id.                                                           *)
OrphanedNotIn ==
    {m \in DOMAIN db.media : Row(m).age = "old" /\ ~Referenced(m) /\ db.backfill = {} /\
                             \A p \in DOMAIN db.posts : None \notin db.posts[p].att}
Orphaned == {m \in DOMAIN db.media : Row(m).age = "old" /\ ~Referenced(m) /\ db.backfill = {}}

(* One statement: the row and the attachments of deleted posts; record       *)
(* references go with the row (ON DELETE CASCADE).                           *)
DeletedIfOrphaned(m) ==
    IF m \notin Orphaned THEN db
    ELSE [db EXCEPT !.media = Drop(@, m), !.blobs = {b \in @ : b[2] # m},
                    !.posts = [p \in DOMAIN @ |-> [@[p] EXCEPT !.att = @ \ {m}]]]

InsertPostRecordBlobs(d, p) ==
    [d EXCEPT !.blobs = @ \cup {<<p, m>> : m \in {x \in DOMAIN d.media : d.media[x].hash \in d.posts[p].rec}}]

SoftDeleted(p) == [Touched(db, db.posts[p].att) EXCEPT !.posts[p].live = FALSE]

-----------------------------------------------------------------------------
(* Requests *)

(* The id the client knows of a content, the last it was given.              *)
Known(a, h) == LET ks == {k \in answered : k[1] = a /\ k[2] = h} IN IF ks = {} THEN None ELSE Max({k[3] : k \in ks})
KnownOf(r) == [i \in DOMAIN r.files |-> Known(r.by, r.files[i])]

(* An upload is first looked up; a callback of the video service is checked. *)
FirstStep(op) == IF op = "upload" THEN "find" ELSE op
Start(s) ==
    /\ s \notin Busy
    /\ \E r \in todo :
        /\ None \notin Range(KnownOf(r))
        /\ r.after \cap ({q.name : q \in todo} \cup {calls[t].name : t \in {t \in Busy : calls[t].op # "gc"}}) = {}
        /\ todo' = todo \ {r}
        /\ calls' = [calls EXCEPT ![s] = r @@ [pc |-> FirstStep(r.op), prov |-> None, room |-> None, key |-> None, thumb |-> None,
                                              media |-> None, rows |-> {}, left |-> <<>>, attachments |-> <<>>, old |-> None, post |-> None]]
    /\ UNCHANGED <<db, storage, answered, astray, jobs, bounds>>

OnlyDb == UNCHANGED <<storage, clients, jobs, bounds>>

(* A failed statement ends a request: an upload with an error, uploadBlob as  *)
(* if it had stored.  The collector goes on with the next file; a post whose *)
(* link card has no picture is committed without one.                       *)
UploadSteps == {"card", "find", "touch", "select", "quota", "put", "upsert"}
AfterError(c) ==
    CASE c.op = "gc" -> [c EXCEPT !.pc = "gc"]
      [] c.op = "post" /\ c.pc \in UploadSteps -> [c EXCEPT !.pc = "commit", !.rows = {}]
      [] OTHER -> NoCall
Failed(s) == calls' = [calls EXCEPT ![s] = AfterError(@)]
(* The steps that go on after an error, each in its own way.                  *)
GoesOn == {"gc", "attach", "embed", "status", "submit", "mark", "fail", "defer"}
StatementFails(s) ==
    /\ s \in Busy /\ calls[s].pc \notin GoesOn
    /\ Fault /\ Failed(s)
    /\ UNCHANGED <<db, storage, clients, jobs, weeks>>

(* An upload answers with the id; the picture of a link card goes into the    *)
(* record of the post; uploadBlob answers with the hash it computed.          *)
Answer(s, m, h) ==
    LET c == calls[s]
    IN  /\ answered' = answered \cup (IF c.op = "upload" THEN {<<c.by, c.hash, m>>} ELSE {})
        /\ calls' = [calls EXCEPT ![s] = IF c.op = "post" THEN [c EXCEPT !.pc = "commit", !.rows = {h}] ELSE NoCall]

(* store_uploaded_blob: a callback of the video service is stored only while *)
(* its account has a job under way.                                          *)
StoreUploadedBlob(s) ==
    /\ At(s, "blob")
    /\ IF calls[s].service /\ ~HasPendingBskyVideo(calls[s].by) THEN End(s) ELSE Goto(s, "find")
    /\ UNCHANGED db /\ OnlyDb

(* find_existing for each content tried (original, then resized).            *)
FindExisting(s) ==
    LET c == calls[s]
        found == FindByHash(Head(c.tries), c.bh)
    IN  /\ At(s, "find")
        /\ \/ \E m \in found : calls' = [calls EXCEPT ![s].pc = "touch", ![s].media = m, ![s].kind = Row(m).kind]
           \/ /\ found = {}
              /\ calls' = [calls EXCEPT ![s].tries = Tail(@), ![s].pc = IF Len(c.tries) > 1 THEN "find" ELSE "select"]
        /\ UNCHANGED db /\ OnlyDb

(* touch_last_uploaded_at, which no row may be left for: the answer is then  *)
(* astray.  Of audio and video the state with the video service is read next.*)
Submits(c) == c.op = "upload" /\ c.kind \in {"video", "audio"} /\ c.deliver
TouchExisting(s) ==
    LET c == calls[s]
    IN  /\ At(s, "touch")
        /\ db' = Touched(db, {c.media})
        /\ astray' = IF Stored(c.media) THEN astray
                     ELSE [ids |-> astray.ids \cup {c.media}, hashes |-> astray.hashes \cup {Head(c.tries)}]
        /\ IF Submits(c) THEN Goto(s, "status") /\ UNCHANGED answered ELSE Answer(s, c.media, Head(c.tries))
        /\ UNCHANGED <<storage, todo, jobs, bounds>>

(* A file that is neither with the video service nor back from it is sent    *)
(* there again, also when its state could not be read.                       *)
ReadVideoStatus(s) ==
    LET c == calls[s]
    IN  /\ At(s, "status")
        /\ \/ /\ BskyVideoStatus(c.media) \in {"pending", "ready"}
              /\ Answer(s, c.media, c.hash) /\ UNCHANGED faults
           \/ /\ \/ BskyVideoStatus(c.media) \notin {"pending", "ready"} /\ UNCHANGED faults
                 \/ Fault
              /\ Goto(s, "submit") /\ UNCHANGED answered
        /\ UNCHANGED <<db, storage, todo, astray, jobs, weeks>>

SelectStorage(s) ==
    /\ At(s, "select")
    /\ IF SelectProvider = None THEN Failed(s)
       ELSE calls' = [calls EXCEPT ![s].prov = SelectProvider, ![s].room = db.providers[SelectProvider].cap,
                                   ![s].pc = IF calls[s].op = "blob" THEN "put" ELSE "quota"]
    /\ UNCHANGED db /\ OnlyDb
(* check_quota: by the capacity read when the provider was chosen.           *)
CheckQuota(s) ==
    /\ At(s, "quota")
    /\ IF HasRoom(calls[s].prov, calls[s].room) THEN Goto(s, "put") ELSE Failed(s)
    /\ UNCHANGED db /\ OnlyDb

(* The thumbnail of a video first.                                           *)
PutObject(s) ==
    LET c == calls[s]
        thumbFirst == c.op = "upload" /\ c.kind = "video" /\ c.bh /\ c.thumb = None
    IN  /\ At(s, "put")
        /\ ids' = ids + 1 /\ objects' = objects \cup {ids'}
        /\ calls' = [calls EXCEPT ![s] = IF thumbFirst THEN [c EXCEPT !.thumb = ids'] ELSE [c EXCEPT !.key = ids', !.pc = "upsert"]]
        /\ UNCHANGED <<db, clients, jobs, bounds>>

(* Refused by the reference to a provider deleted meanwhile, unless there is  *)
(* a row to touch.                                                           *)
UpsertMedia(s) ==
    LET c == calls[s]
        id == ids + 1
        r == [hash |-> c.hash, bh |-> c.bh, by |-> c.by, kind |-> c.kind, key |-> c.key, thumb |-> c.thumb,
              prov |-> c.prov, age |-> "new", job |-> None, video |-> "none", cid |-> None]
        m == IF Conflicting(r) # {} THEN Min(Conflicting(r)) ELSE id
    IN  /\ At(s, "upsert")
        /\ ids' = id
        /\ IF Conflicting(r) = {} /\ c.prov \notin DOMAIN db.providers
           THEN Failed(s) /\ UNCHANGED <<db, answered>>
           ELSE /\ db' = Upserted(id, r)
                /\ IF Submits(c) THEN calls' = [calls EXCEPT ![s].pc = "submit", ![s].media = m] /\ UNCHANGED answered
                   ELSE Answer(s, m, c.hash)
        /\ UNCHANGED <<objects, todo, astray, jobs, bounds>>

-----------------------------------------------------------------------------
(* The video pipeline *)

Marked(m, status, job, cid) ==
    IF Stored(m) THEN [db EXCEPT !.media[m].video = status, !.media[m].job = job, !.media[m].cid = cid] ELSE db
MarkedFailed(m) == IF Stored(m) THEN [db EXCEPT !.media[m].video = "failed"] ELSE db

(* submit_to_bsky_video_pipeline: the service has one job for a content of an *)
(* account, and answers with the one it has, a new one after a failure.  The *)
(* answer may be lost, the request may fail; audio that cannot be converted  *)
(* is not sent.                                                             *)
JobOf(c) == <<c.by, c.hash>>
Accepted(j) == IF j \in DOMAIN pipeline /\ pipeline[j] # "failed" THEN pipeline ELSE Put(pipeline, j, "sent")
Submit(s) ==
    LET c == calls[s]
    IN  /\ At(s, "submit")
        /\ \/ pipeline' = Accepted(JobOf(c)) /\ Goto(s, "mark") /\ UNCHANGED <<answered, faults>>
           \/ Fault /\ pipeline' \in {pipeline, Accepted(JobOf(c))} /\ Goto(s, "fail") /\ UNCHANGED answered
           \/ c.kind = "audio" /\ Fault /\ Answer(s, c.media, c.hash) /\ UNCHANGED pipeline
        /\ UNCHANGED <<db, storage, todo, astray, polls, deferred, backfilling, weeks>>

(* mark_bsky_video_pending, then the job that polls; either may fail.         *)
MarkPending(s) ==
    LET m == calls[s].media
        marked == Marked(m, "pending", JobOf(calls[s]), IF Stored(m) THEN Row(m).cid ELSE None)
    IN  /\ At(s, "mark")
        /\ \/ db' = marked /\ polls' = polls \cup {m} /\ UNCHANGED faults
           \/ Fault /\ db' \in {db, marked} /\ UNCHANGED polls
        /\ Answer(s, m, calls[s].hash)
        /\ UNCHANGED <<storage, todo, astray, pipeline, deferred, backfilling, weeks>>
MarkFailed(s) ==
    LET m == calls[s].media
    IN  /\ At(s, "fail")
        /\ \/ db' = MarkedFailed(m) /\ UNCHANGED faults
           \/ Fault /\ UNCHANGED db
        /\ Answer(s, m, calls[s].hash)
        /\ UNCHANGED <<storage, todo, astray, jobs, weeks>>

(* The video service, external: it uploads the transcoded file as a blob of  *)
(* the account, and the job is done when that is answered; or it fails.      *)
Callback(j) == [op |-> "blob", name |-> "callback", by |-> j[1], hash |-> Transcoded(j[2]), tries |-> <<Transcoded(j[2])>>,
                kind |-> "video", bh |-> FALSE, service |-> TRUE, deliver |-> FALSE, files |-> <<>>, after |-> {}, on |-> None,
                to |-> None]
CallsBack ==
    /\ \E j \in DOMAIN pipeline :
        /\ pipeline[j] = "sent"
        /\ \/ pipeline' = Put(pipeline, j, "called") /\ todo' = todo \cup {Callback(j)} /\ UNCHANGED faults
           \/ Fault /\ pipeline' = Put(pipeline, j, "failed") /\ UNCHANGED todo
    /\ UNCHANGED <<db, storage, calls, answered, astray, polls, deferred, backfilling, weeks>>
UnderWay(j) == Callback(j) \in todo \/ \E s \in Busy : calls[s].op = "blob" /\ calls[s].service /\ calls[s].hash = Transcoded(j[2])
JobDone ==
    /\ \E j \in DOMAIN pipeline :
        /\ pipeline[j] = "called" /\ ~UnderWay(j)
        /\ pipeline' = Put(pipeline, j, "done")
    /\ UNCHANGED <<db, storage, calls, clients, polls, deferred, backfilling, bounds>>

(* BskyVideoPoll: what a round finds, an error for a request that fails.  A   *)
(* job that is not done is asked for again until the attempts are used up.   *)
JobState(m) == IF Row(m).job \in DOMAIN pipeline THEN pipeline[Row(m).job] ELSE "failed"
Polled(m) ==
    IF ~Stored(m) THEN db
    ELSE IF Row(m).job # None /\ JobState(m) = "done" THEN Marked(m, "ready", Row(m).job, Transcoded(Row(m).job[2]))
    ELSE IF Row(m).job = None \/ JobState(m) = "failed" THEN MarkedFailed(m)
    ELSE db
BskyVideoPoll ==
    /\ \E m \in polls :
        /\ polls' = polls \ {m}
        /\ \/ db' = Polled(m) /\ UNCHANGED faults
           \/ Fault /\ Stored(m) /\ db' = MarkedFailed(m)
    /\ UNCHANGED <<storage, calls, clients, pipeline, deferred, backfilling, weeks>>

-----------------------------------------------------------------------------
(* What refers to files *)

(* create_note: the row, the attachments one after the other, the embed, the *)
(* record.  An attachment that fails ends it: the post stays.                *)
InsertPost(s) ==
    LET c == calls[s]
        p == ids + 1
        new == [by |-> c.by, live |-> TRUE, asked |-> Range(KnownOf(c)), att |-> {}, at |-> FALSE, rec |-> {}, waits |-> None]
    IN  /\ At(s, "post")
        /\ ids' = p
        /\ db' = [db EXCEPT !.posts = Put(@, p, new)]
        /\ calls' = [calls EXCEPT ![s].pc = "attach", ![s].post = p, ![s].left = KnownOf(c), ![s].attachments = KnownOf(c)]
        /\ UNCHANGED <<objects, clients, jobs, bounds>>
AttachMedia(s) ==
    LET c == calls[s]
        m == Head(c.left)
    IN  /\ At(s, "attach")
        /\ \/ /\ c.left = <<>>
              /\ IF c.deliver THEN Goto(s, "embed") ELSE End(s)
              /\ UNCHANGED <<db, faults>>
           \/ /\ c.left # <<>> /\ Stored(m)
              /\ db' = [db EXCEPT !.posts[c.post].att = @ \cup {m}]
              /\ calls' = [calls EXCEPT ![s].left = Tail(@)]
              /\ UNCHANGED faults
           \/ c.left # <<>> /\ ~Stored(m) /\ End(s) /\ UNCHANGED <<db, faults>>
           \/ /\ c.left # <<>> /\ Fault
              /\ db' = [db EXCEPT !.posts[c.post].asked = db.posts[c.post].att]
              /\ End(s)
        /\ UNCHANGED <<storage, clients, jobs, weeks>>

(* resolve_bsky_embed: the pictures, else the first audio or video, else the *)
(* link card, the card alone when the client chose it.  A video counts as     *)
(* what the video service made of it, as a link to the watch page if it       *)
(* failed, and the record waits for it otherwise.                            *)
Images(rows) == {m \in Range(rows) : Row(m).kind = "image"}
ResolveEmbed(s) ==
    LET c == calls[s]
        video(rows) == Head(SelectSeq(rows, LAMBDA m : Row(m).kind \in {"video", "audio"}))
        target(rows) ==
            CASE c.on = "card" -> "card"
              [] Images(rows) # {} -> "images"
              [] \E m \in Range(rows) : Row(m).kind \in {"video", "audio"} -> "video"
              [] OTHER -> "card"
        commit(hashes) == calls' = [calls EXCEPT ![s].pc = "commit", ![s].rows = hashes]
        resolve(rows) ==
            CASE target(rows) = "images" -> commit({Row(m).hash : m \in Images(rows)})
              [] target(rows) = "video" ->
                    IF Row(video(rows)).video = "ready" THEN commit({Row(video(rows)).cid})
                    ELSE IF Row(video(rows)).video = "failed" THEN commit({})
                    ELSE calls' = [calls EXCEPT ![s].pc = "defer", ![s].media = video(rows)]
              [] target(rows) = "card" -> IF c.hash = None THEN commit({}) ELSE Goto(s, "card")
    IN  /\ At(s, "embed")
        /\ \/ resolve(SelectSeq(c.attachments, Stored)) /\ UNCHANGED faults
           \/ Fault /\ resolve(<<>>)
        /\ UNCHANGED <<db, storage, clients, jobs, weeks>>
(* prepare_external_thumb: fetched, then stored like an upload.              *)
PrepareExternalThumb(s) == At(s, "card") /\ Goto(s, "find") /\ UNCHANGED db /\ OnlyDb

(* commit_record: the record and its references.  What the video service     *)
(* made of a file may have been refused, or collected as nothing refers to it *)
(* while it is in no record.                                                 *)
Recorded(p, hashes) == InsertPostRecordBlobs([db EXCEPT !.posts[p].rec = hashes, !.posts[p].at = TRUE], p)
NoteLost(hashes) ==
    LET lost == {h \in hashes : PublicLocationBySha256(h) = {} /\ \E m \in DOMAIN db.media : Row(m).cid = h}
    IN  astray' = [astray EXCEPT !.hashes = @ \cup lost]
CommitPost(s) ==
    LET c == calls[s]
    IN  /\ At(s, "commit")
        /\ db' = Recorded(c.post, c.rows)
        /\ NoteLost(c.rows)
        /\ End(s)
        /\ UNCHANGED <<storage, todo, answered, jobs, bounds>>

(* enqueue_bsky_post_commit_deferred: the mark a restart finds, then the job; *)
(* an error of either is logged.                                             *)
DeferCommit(s) ==
    LET c == calls[s]
        marked == [db EXCEPT !.posts[c.post].waits = c.media]
    IN  /\ At(s, "defer")
        /\ \/ db' = marked /\ deferred' = deferred \cup {<<c.post, c.media>>} /\ UNCHANGED faults
           \/ Fault /\ db' = db /\ deferred' = deferred \cup {<<c.post, c.media>>}
           \/ Fault /\ db' = marked /\ UNCHANGED deferred
        /\ End(s)
        /\ UNCHANGED <<storage, clients, pipeline, polls, backfilling, weeks>>
(* BskyPostCommitDeferred: once the video is ready or has failed, or after a  *)
(* time; the attempts may be used up before.  The mark is cleared if it can. *)
CommitDeferred ==
    /\ \E <<p, m>> \in deferred :
        LET hashes == IF BskyVideoStatus(m) = "ready" THEN {Row(m).cid} ELSE {}
            cleared == [Recorded(p, hashes) EXCEPT !.posts[p].waits = None]
        IN  /\ deferred' = deferred \ {<<p, m>>}
            /\ \/ db' = cleared /\ NoteLost(hashes) /\ UNCHANGED faults
               \/ Fault /\ db' = Recorded(p, hashes) /\ NoteLost(hashes)
               \/ Stored(m) /\ BskyVideoStatus(m) \notin {"ready", "failed"} /\ UNCHANGED <<db, astray, faults>>
    /\ UNCHANGED <<storage, calls, todo, answered, pipeline, polls, backfilling, weeks>>

(* delete_note: a post of one's own that is there, then the deletion.        *)
FindDeleteInfo(s) ==
    LET c == calls[s]
    IN  /\ At(s, "delete")
        /\ IF c.on \in LivePosts /\ db.posts[c.on].by = c.by THEN Goto(s, "erase") ELSE End(s)
        /\ UNCHANGED db /\ OnlyDb
DeletePost(s) == At(s, "erase") /\ db' = SoftDeleted(calls[s].on) /\ End(s) /\ OnlyDb

(* update_profile: the row as it is, the merged row (refused when the file   *)
(* is gone), what the profile record is made of, the record.                 *)
Asked(c) == IF c.files = <<>> THEN None ELSE Known(c.by, c.files[1])
Absent(m) == m # None /\ ~Stored(m)
ReadProfile(s) ==
    /\ At(s, "avatar")
    /\ calls' = [calls EXCEPT ![s].pc = "merge", ![s].old = IF calls[s].on = "keep" THEN db.profile[calls[s].by] ELSE Asked(calls[s])]
    /\ UNCHANGED db /\ OnlyDb
UpdateProfile(s) ==
    LET c == calls[s]
    IN  /\ At(s, "merge")
        /\ IF Absent(c.old) THEN End(s) /\ UNCHANGED db
           ELSE db' = [db EXCEPT !.profile[c.by] = c.old] /\ Goto(s, "material")
        /\ OnlyDb
FetchProfileMaterial(s) ==
    LET m == db.profile[calls[s].by]
    IN  /\ At(s, "material")
        /\ calls' = [calls EXCEPT ![s].pc = "recommit", ![s].rows = IF m = None THEN {} ELSE {Row(m).hash}]
        /\ UNCHANGED db /\ OnlyDb
CommitProfile(s) ==
    LET c == calls[s]
    IN  /\ At(s, "recommit")
        /\ db' = [db EXCEPT !.record[c.by] = c.rows]
        /\ End(s)
        /\ OnlyDb

(* putRecord of the profile: the record, then the avatar it names, the one   *)
(* read before if there is no such file, is written to the row of the actor. *)
PutProfileRecord(s) ==
    /\ At(s, "putprofile")
    /\ db' = [db EXCEPT !.record[calls[s].by] = {calls[s].hash}]
    /\ Goto(s, "read")
    /\ OnlyDb
ReadForSync(s) ==
    /\ At(s, "read")
    /\ calls' = [calls EXCEPT ![s].pc = "resolve", ![s].old = db.profile[calls[s].by]]
    /\ UNCHANGED db /\ OnlyDb
ResolveBlob(s) ==
    LET c == calls[s]
        found == FindIdByShaAndUploader(c.hash, c.by)
    IN  /\ At(s, "resolve")
        /\ \E m \in IF found = {} THEN {c.old} ELSE found : calls' = [calls EXCEPT ![s].pc = "sync", ![s].old = m]
        /\ UNCHANGED db /\ OnlyDb
SyncProfileToActors(s) ==
    LET c == calls[s]
    IN  /\ At(s, "sync")
        /\ db' = [db EXCEPT !.profile[c.by] = IF Absent(c.old) THEN @ ELSE c.old]
        /\ End(s)
        /\ OnlyDb

(* admin/emojis.rs: refused for a name in use or a file that is gone.        *)
EmojiInserted(n, m) ==
    IF n \in DOMAIN db.emojis \/ Absent(m) THEN db ELSE [db EXCEPT !.emojis = Put(@, n, m)]
CreateEmoji(s) == At(s, "emoji") /\ db' = EmojiInserted(calls[s].on, Asked(calls[s])) /\ End(s) /\ OnlyDb
DeleteEmoji(s) == At(s, "unemoji") /\ db' = [db EXCEPT !.emojis = Drop(@, calls[s].on)] /\ End(s) /\ OnlyDb

(* update_site_settings: the id as it is given, or cleared.                  *)
SaveSetting(s) == At(s, "setting") /\ db' = [db EXCEPT !.settings[calls[s].on] = Asked(calls[s])] /\ End(s) /\ OnlyDb

(* admin/storage.rs: a provider in use is kept, by the count, and by the      *)
(* reference the database keeps for what is stored after it.                 *)
CreateProvider(s) ==
    /\ At(s, "provider")
    /\ db' = [db EXCEPT !.providers = Put(@, calls[s].on, [active |-> TRUE, cap |-> calls[s].to.cap])]
    /\ End(s) /\ OnlyDb
UpdateProvider(s) ==
    /\ At(s, "update")
    /\ db' = IF calls[s].on \in DOMAIN db.providers THEN [db EXCEPT !.providers[calls[s].on] = calls[s].to] ELSE db
    /\ End(s) /\ OnlyDb
CountMediaFiles(s) ==
    /\ At(s, "unprovider")
    /\ IF GetUsedBytes(calls[s].on) > 0 THEN End(s) ELSE Goto(s, "remove")
    /\ UNCHANGED db /\ OnlyDb
DeleteProvider(s) ==
    /\ At(s, "remove")
    /\ db' = IF GetUsedBytes(calls[s].on) > 0 THEN db ELSE [db EXCEPT !.providers = Drop(@, calls[s].on)]
    /\ End(s) /\ OnlyDb

-----------------------------------------------------------------------------
(* Housekeeping *)

(* run_media_gc, in every process once an hour: the candidates, then each is *)
(* deleted if it still is one, then its object (of a video not the            *)
(* thumbnail's).                                                            *)
StartGc(s) ==
    /\ s \notin Busy /\ Orphaned # {}
    /\ \E rows \in SUBSET Orphaned :
        /\ Cardinality(rows) = Min({GcBatch, Cardinality(Orphaned)})
        /\ calls' = [calls EXCEPT ![s] = [op |-> "gc", pc |-> "gc", rows |-> rows, key |-> None]]
    /\ UNCHANGED db /\ OnlyDb
(* Faulty variant: the object goes also when its row was kept.               *)
ObjectToDeleteAlways(m) == IF Stored(m) THEN Row(m).key ELSE None
ObjectToDelete(m) == IF m \in Orphaned THEN Row(m).key ELSE None
(* A row the provider of which cannot be read, or that cannot be deleted, is  *)
(* left for the next round.                                                  *)
GcRow(s) ==
    LET c == calls[s]
    IN  /\ At(s, "gc")
        /\ \/ c.rows = {} /\ End(s) /\ UNCHANGED <<db, faults>>
           \/ \E m \in c.rows :
                \/ /\ db' = DeletedIfOrphaned(m)
                   /\ calls' = [calls EXCEPT ![s] = [@ EXCEPT !.rows = @ \ {m}, !.key = ObjectToDelete(m),
                                                              !.pc = IF ObjectToDelete(m) = None THEN "gc" ELSE "object"]]
                   /\ UNCHANGED faults
                \/ Fault /\ calls' = [calls EXCEPT ![s].rows = @ \ {m}] /\ UNCHANGED db
        /\ UNCHANGED <<storage, clients, jobs, weeks>>
GcObject(s) ==
    /\ At(s, "object")
    /\ objects' = objects \ {calls[s].key}
    /\ Goto(s, "gc")
    /\ UNCHANGED <<db, ids, clients, jobs, bounds>>

(* backfill_post_record_blobs, at startup: posts without a record are        *)
(* dropped, then of each in turn what its record refers to is filled in and   *)
(* the post is done.  An error stops it until the next startup.              *)
BackfillPostRecordBlobs ==
    /\ \/ /\ backfilling = "start" /\ backfilling' = "on"
          /\ db' = [db EXCEPT !.backfill = {p \in @ : db.posts[p].at}]
       \/ /\ backfilling = "on" /\ db.backfill # {}
          /\ backfilling' = "filled"
          /\ db' = InsertPostRecordBlobs(db, Min(db.backfill))
       \/ /\ backfilling = "filled" /\ backfilling' = "on"
          /\ db' = [db EXCEPT !.backfill = @ \ {Min(@)}]
    /\ UNCHANGED <<storage, calls, clients, pipeline, polls, deferred, bounds>>
BackfillFails ==
    /\ backfilling # "stopped" /\ db.backfill # {} /\ Fault
    /\ backfilling' = "stopped"
    /\ UNCHANGED <<db, storage, calls, clients, pipeline, polls, deferred, weeks>>

(* A restart of the process: requests end without an answer, the jobs in      *)
(* memory are lost, those the rows still wait for are started again.          *)
BeingMade(p) == \E s \in Busy : calls[s].op = "post" /\ calls[s].post = p
Restart ==
    /\ Fault
    /\ calls' = [s \in Calls |-> NoCall]
    /\ db' = [db EXCEPT !.posts = [p \in DOMAIN @ |-> IF BeingMade(p) THEN [@[p] EXCEPT !.asked = db.posts[p].att] ELSE @[p]]]
    /\ polls' = {m \in DOMAIN db.media : Row(m).video = "pending"}
    /\ deferred' = {<<p, db.posts[p].waits>> : p \in {p \in DOMAIN db.posts : db.posts[p].waits # None /\ ~db.posts[p].at}}
    /\ backfilling' = "start"
    /\ UNCHANGED <<storage, clients, pipeline, weeks>>

(* Time: a week passes when nothing is under way and no client has yet to    *)
(* use a file it uploaded; files about to be a week old may become so at any *)
(* moment.                                                                   *)
Prompt == \A r \in todo : ~r.service /\ Range(KnownOf(r)) \subseteq {None}
Week ==
    /\ weeks > 0 /\ weeks' = weeks - 1
    /\ Prompt /\ Busy = {} /\ polls = {} /\ deferred = {}
    /\ db' = [db EXCEPT !.media = [m \in DOMAIN @ |-> [@[m] EXCEPT !.age = IF @ = "new" THEN "aging" ELSE @]]]
    /\ UNCHANGED <<storage, calls, clients, jobs, faults>>
Expire ==
    /\ \E m \in DOMAIN db.media : Row(m).age = "aging" /\ db' = [db EXCEPT !.media[m].age = "old"]
    /\ UNCHANGED calls /\ OnlyDb

-----------------------------------------------------------------------------
InitWith(sc) ==
    /\ db = sc.db /\ objects = sc.objects /\ ids = sc.ids /\ todo = sc.requests
    /\ answered = sc.answered /\ faults = sc.faults /\ weeks = sc.weeks
    /\ calls = [s \in Calls |-> NoCall] /\ astray = [ids |-> {}, hashes |-> {}]
    /\ pipeline = <<>> /\ polls = {} /\ deferred = {} /\ backfilling = "start"
Init == \E sc \in Scripts : InitWith(sc)

Upload(s) ==
    \/ StoreUploadedBlob(s) \/ FindExisting(s) \/ TouchExisting(s) \/ ReadVideoStatus(s) \/ SelectStorage(s)
    \/ CheckQuota(s) \/ PutObject(s) \/ UpsertMedia(s) \/ Submit(s) \/ MarkPending(s) \/ MarkFailed(s)
Refer(s) ==
    \/ InsertPost(s) \/ AttachMedia(s) \/ ResolveEmbed(s) \/ PrepareExternalThumb(s) \/ CommitPost(s) \/ DeferCommit(s)
    \/ FindDeleteInfo(s) \/ DeletePost(s)
    \/ ReadProfile(s) \/ UpdateProfile(s) \/ FetchProfileMaterial(s) \/ CommitProfile(s)
    \/ PutProfileRecord(s) \/ ReadForSync(s) \/ ResolveBlob(s) \/ SyncProfileToActors(s)
    \/ CreateEmoji(s) \/ DeleteEmoji(s) \/ SaveSetting(s)
Administer(s) == CreateProvider(s) \/ UpdateProvider(s) \/ CountMediaFiles(s) \/ DeleteProvider(s)
Gc(s) == StartGc(s) \/ GcRow(s) \/ GcObject(s)
Next ==
    \/ \E s \in Calls : Start(s) \/ Upload(s) \/ Refer(s) \/ Administer(s) \/ Gc(s) \/ StatementFails(s)
    \/ CallsBack \/ JobDone \/ BskyVideoPoll \/ CommitDeferred \/ BackfillPostRecordBlobs \/ BackfillFails
    \/ Restart \/ Week \/ Expire

(* The collector runs every hour and finishes its rounds; the backfill runs   *)
(* at startup; age comes by itself.                                          *)
Fairness ==
    /\ \A s \in Calls : WF_vars(StartGc(s)) /\ WF_vars(GcRow(s)) /\ WF_vars(GcObject(s))
    /\ \A s \in Calls : WF_vars(Upload(s)) /\ WF_vars(Refer(s)) /\ WF_vars(Administer(s))
    /\ WF_vars(BackfillPostRecordBlobs)
Spec == Init /\ [][Next]_vars /\ Fairness

-----------------------------------------------------------------------------
(* What is in use can be served.                                            *)

(* Every row has its objects: the collector deletes an object last, and never *)
(* the object of a file that was uploaded again.                             *)
ObjectKept == \A m \in DOMAIN db.media : {Row(m).key, Row(m).thumb} \ {None} \subseteq objects

(* A post has what it was created with, also when it is a redraft that       *)
(* attaches the files of a post just deleted.                                *)
AttachmentsKept == \A p \in LivePosts : BeingMade(p) \/ db.posts[p].asked \subseteq db.posts[p].att \cup astray.ids
(* What the record of a post refers to can be fetched with getBlob.          *)
RecordsServed == \A p \in LivePosts : \A h \in db.posts[p].rec : PublicLocationBySha256(h) # {} \/ h \in astray.hashes
(* The icon and the background of the site exist.                            *)
SettingsServed == \A k \in DOMAIN db.settings : Absent(db.settings[k]) => db.settings[k] \in astray.ids

(* Nothing that is in use is collected, whatever uploads, deletions, redrafts *)
(* and rounds of the collector meet; what was not there when an upload       *)
(* answered with it, or a record named it, is excepted.                      *)
InUseServed == AttachmentsKept /\ RecordsServed /\ SettingsServed

(* A file nothing refers to is collected in the end, though attachments of   *)
(* remote posts refer to no file; while the backfill is stopped, nothing is. *)
OrphansCollected == []<>(backfilling = "stopped" \/ \A m \in DOMAIN db.media : Row(m).age = "old" => Referenced(m))
=============================================================================

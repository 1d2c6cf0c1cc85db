------------------------------- MODULE Notes -------------------------------
(***************************************************************************)
(* What a local user does to posts, through the REST handlers               *)
(* (handlers/notes) and through the XRPC repository calls (xrpc/repo.rs,     *)
(* post_from_record.rs), and how it reaches the two networks: records of     *)
(* the user's AT repository, ap-delivery jobs that fan out to inboxes, and   *)
(* tasks spawned for likes and reposts, which outlive the request.           *)
(*                                                                         *)
(* A request is a call in a slot; it takes its steps between awaits: the     *)
(* checks, the write, the commit to the repository, the enqueue.             *)
(* Besides the fields of Posts a row has: fedi, bsky (to deliver), ap (has an    *)
(* ap_object_id), at and repostKey (record keys; 0 for a remote record),     *)
(* bridgeOf, apBridge, atBridge, poll, root, mentions, cw.                   *)
(***************************************************************************)
EXTENDS Posts

CONSTANTS
    ActorType,      \* ActorType[a]: "local", "fedi", "remote_seiran" or "bsky"
    Relays,         \* inboxes of accepted relays
    Scripts,        \* what may happen: requests, posts and follows at first, roles, movedOut; bounds: faults, crashes
    Calls,          \* slots for requests under way at the same time
    MaxPins,        \* MAX_PINNED_POSTS
    MaxPosts,       \* posts a user may make in the window of the rate limit
    MaxContacts,    \* people a user may address in an hour
    MaxAttempts     \* attempts of a delivery job

VARIABLES
    db,         \* Posts and Relations tables; reactions, votes, pins, counts, contacts
    records,    \* records of the AT repositories: owner, coll, key, of (a post), embed, app (made by a handler)
    profile,    \* the pinned post of each profile record
    nextKey,    \* next TID or activity id
    calls, todo,
    tasks,      \* spawned tasks
    jobs,       \* ap-delivery jobs with the attempts made
    lock,       \* post rows locked by a vote's transaction
    script, faults, crashes,
    lone,       \* history: no call began while one of the same user, or a task of it, was under way
    sent        \* history: activities an inbox took

bounds == <<script, faults, crashes>>
atp == <<records, profile, nextKey>>
work == <<tasks, jobs>>
vars == <<db, atp, calls, todo, work, lock, bounds, lone, sent>>

NoCall == [op |-> "none"]
At(s, l) == calls[s].op # "none" /\ calls[s].pc = l
Row(p) == db.posts[p]
NewId == Cardinality(DOMAIN db.posts) + 1
IsFedi(a) == ActorType[a] \in {"fedi", "remote_seiran"}
Private(vis) == vis \in {"followers_only", "direct"}

-----------------------------------------------------------------------------
(* What a post is on each network: delivery.rs *)

FindDeliveryMeta(p) == p \in Live(db)

ClassifyPost(p) ==
    CASE ActorType[Row(p).author] = "local" -> "LocalOrSeiran"
      [] Row(p).ap /\ Row(p).at = None -> "FediRemote"
      [] ~Row(p).ap /\ Row(p).at # None -> "BskyRemote"
      [] OTHER -> "LocalOrSeiran"

(* What is done to a bridge's copy is done to the original.                  *)
RedirectBridgePostMeta(p) ==
    LET o == Row(p).bridgeOf IN IF o # None /\ FindDeliveryMeta(o) THEN o ELSE p

(* The posts whose ActivityPub object and AT record stand for p: a remote    *)
(* post that has copies is named by the copy on the other network.           *)
WithBridgeDeliveryTargets(p) ==
    LET copy(b) == b # None /\ FindDeliveryMeta(b) /\ ClassifyPost(p) # "LocalOrSeiran"
        ap == IF copy(Row(p).apBridge) THEN Row(p).apBridge ELSE p
        at == IF copy(Row(p).atBridge) THEN Row(p).atBridge ELSE p
    IN  [ap |-> IF Row(ap).ap THEN ap ELSE None, at |-> IF Row(at).at # None THEN at ELSE None]

(* Quoted on the fediverse: by its object, or by a link to Bluesky.          *)
ApQuoteFromMeta(meta) == IF meta.ap # None THEN "Misskey" ELSE IF meta.at # None THEN "AppendUrl" ELSE None

(* Quoted on Bluesky: by its record, or as a card of its page.               *)
ResolveQuoteEmbed(q) ==
    IF q = None THEN [bsky |-> None, ap |-> None]
    ELSE IF ~FindDeliveryMeta(q) THEN [bsky |-> None, ap |-> None]
    ELSE LET meta == WithBridgeDeliveryTargets(RedirectBridgePostMeta(q))
         IN  [bsky |-> IF meta.at # None THEN "record" ELSE IF meta.ap # None THEN "external" ELSE None,
              ap |-> ApQuoteFromMeta(meta)]

(* The embed of the Bluesky record; pending: a video is not ready yet.       *)
ResolveAttachmentEmbed(media) ==
    CASE media = "image" -> "images"
      [] media \in {"readyVideo", "animated"} -> "video"
      [] media = "failedVideo" -> "external"
      [] media = "video" -> "pending"
      [] OTHER -> None
ResolveBskyEmbed(r) ==
    LET target == CASE r.choice = "Poll" -> IF r.poll # None THEN "Poll" ELSE None
                    [] r.choice # None -> r.choice
                    [] r.poll # None -> "Poll"
                    [] r.media = "image" -> "Images"
                    [] r.media # None -> "Attachment"
                    [] r.url -> "Url"
                    [] OTHER -> None
    IN  CASE target \in {"Poll", "Url"} -> "external"
          [] target = "Images" -> IF r.media = "image" THEN "images" ELSE None
          [] target = "Attachment" -> ResolveAttachmentEmbed(r.media)
          [] OTHER -> None
(* A content warning hides everything behind one link.                       *)
ResolveDeliveryBskyEmbed(r, quote) ==
    CASE r.cw -> "external"
      [] quote = "record" /\ r.media = "image" -> "recordWithMedia"
      [] quote # None -> quote
      [] OTHER -> ResolveBskyEmbed(r)

-----------------------------------------------------------------------------
(* The checks of a request: creation.rs, validation.rs, role_restriction.rs *)

NotBlocked(a, b) == ~Blocks(db, a, b) /\ ~Blocks(db, b, a)
Role(a) == script.roles[a]
CapVisibility(a, vis) == IF Role(a) \in {"silence", "quarantine"} /\ vis = "public" THEN "unlisted" ELSE vis
RequireCanInteract(a, targets) ==
    Role(a) = "quarantine" =>
        \A t \in targets \ {a, None} : AcceptedFollow(db, t, a) \/ (t \in Local /\ Role(t) \in {"admin", "moderator"})
RequireMentionsAllowed(a, mentions) ==
    /\ RequireCanInteract(a, mentions \cap Local)
    /\ Role(a) = "quarantine" => \A t \in mentions \ Local : AcceptedFollow(db, t, a)

NormalizeMisskeyVisibility(v) ==
    CASE v = "home" -> "unlisted" [] v = "followers" -> "followers_only" [] v = "specified" -> "direct" [] OTHER -> v

(* A reply to a private post is as private; one to an unlisted post is no DM.*)
ResolveVisibility(parent, requested) ==
    LET v == NormalizeMisskeyVisibility(requested)
    IN  IF Private(parent) THEN parent
        ELSE IF v = None THEN IF parent = "unlisted" THEN "unlisted" ELSE "public"
        ELSE IF v \in Visibilities /\ ~(parent = "unlisted" /\ v = "direct") THEN v
        ELSE None

(* A reply goes where the post it answers is.                                *)
ReplyDeliveryAllowed(p) ==
    IF p = None THEN [fedi |-> TRUE, bsky |-> TRUE]
    ELSE IF Row(p).author \in Local THEN [fedi |-> Row(p).fedi, bsky |-> Row(p).bsky]
    ELSE [fedi |-> Row(p).ap, bsky |-> Row(p).at # None]
ResolveReplyContext(p, a) == p # None => FindByIdForViewer(db, p, a) # {} /\ NotBlocked(a, Row(p).author)
ParentVisibility(p) == IF p = None THEN None ELSE Row(p).vis

ResolveDmRecipients(r, vis) ==
    vis = "direct" =>
        /\ r.to # {}
        /\ (\E a \in r.to : ActorType[a] = "bsky") => Cardinality(r.to) = 1
DecideDeliveryTargets(r, vis) ==
    IF vis = "direct"
    THEN [fedi |-> \E a \in r.to : IsFedi(a), bsky |-> \E a \in r.to : ActorType[a] = "bsky"]
    ELSE LET allowed == ReplyDeliveryAllowed(r.reply)
         IN  [fedi |-> r.fedi /\ allowed.fedi, bsky |-> r.bsky /\ allowed.bsky /\ vis # "followers_only"]

(* Lengths: 1 fits Bluesky, 2 a Bluesky DM, 3 the fediverse.                 *)
ValidatePostTextLength(r, vis, targets) ==
    r.len <= IF vis = "direct" THEN IF targets.bsky THEN 2 ELSE 3 ELSE IF targets.bsky THEN 1 ELSE 3
ValidateAttachmentsAndEmbedChoice(r, vis, targets) ==
    /\ ~(vis = "direct" /\ targets.bsky /\ r.media # None)
    /\ r.choice = "Attachment" => r.media # None
    /\ r.choice = "Poll" => r.poll # None
BuildPollJson(r, vis) == r.poll # None => vis # "direct"
ValidateContentWarning(r, vis) == r.cw => vis # "direct"

ValidateQuoteVisibility(quoted, vis) == ~Private(quoted) /\ ~(quoted = "unlisted" /\ vis = "public")
ResolveQuoteTarget(r, vis) ==
    r.quote # None =>
        /\ FindDeliveryMeta(r.quote)
        /\ LET q == RedirectBridgePostMeta(r.quote)
           IN  NotBlocked(r.by, Row(q).author) /\ ValidateQuoteVisibility(Row(q).vis, vis)
QuoteTarget(r) == IF r.quote = None THEN None ELSE RedirectBridgePostMeta(r.quote)
AuthorOf(p) == IF p = None THEN None ELSE Row(p).author

CheckPostRateLimit(a) ==
    Role(a) \in {"admin", "moderator"} \/ Cardinality({p \in DOMAIN db.posts : Row(p).author = a}) < MaxPosts

(* Local people the post would notify; they count against the hourly limit.  *)
Addressed(r) == ((r.mentions \cup {AuthorOf(r.reply), AuthorOf(QuoteTarget(r))}) \cap Local) \ {r.by}
CheckAndRecordContacts(r, vis) ==
    \/ vis = "direct" \/ Role(r.by) \in {"admin", "moderator"}
    \/ Cardinality(db.contacts[r.by] \cup Addressed(r)) <= MaxContacts
RecordContacts(r, vis) ==
    IF vis = "direct" THEN db ELSE [db EXCEPT !.contacts[r.by] = @ \cup Addressed(r)]

-----------------------------------------------------------------------------
(* Calls *)

Finish(s) == calls' = [calls EXCEPT ![s] = NoCall]
Goto(s, c, l) == calls' = [calls EXCEPT ![s] = [c EXCEPT !.pc = l]]
(* applyWrites goes on with the next write, whatever the handlers did.       *)
Done(s) ==
    LET c == calls[s]
    IN  IF c.left = <<>> THEN Finish(s)
        ELSE calls' = [calls EXCEPT ![s] = [c EXCEPT !.req = Head(c.left), !.left = Tail(c.left), !.pc = Head(c.left).op]]
(* arg: the activity or the post it is about; WithBody: a text made for it.   *)
WithBody == 1
Job(k, a, p, x) == [kind |-> k, by |-> a, post |-> p, arg |-> x, attempts |-> 0]
Enqueue(new) == jobs' = jobs \cup new
CountFault == faults < script.faults /\ faults' = faults + 1 /\ UNCHANGED <<script, crashes>>
Same == UNCHANGED <<todo, lock, lone>>

(* Posts named in a request are posts the client has seen.                   *)
Seen(r) == {r.reply, r.quote, r.on} \subseteq DOMAIN db.posts \cup {None}
Start(s) ==
    /\ calls[s].op = "none"
    /\ \E r \in todo :
        /\ Seen(r)
        /\ todo' = todo \ {r}
        /\ lone' = (lone /\ (\A t \in Calls : calls[t].op # "none" => calls[t].req.by # r.by) /\ \A t \in tasks : t.by # r.by)
        /\ calls' = [calls EXCEPT ![s] =
                [op |-> r.op, req |-> r, pc |-> r.op, vis |-> None, fedi |-> FALSE, bsky |-> FALSE, post |-> None,
                 quote |-> None, left |-> r.writes]]
    /\ UNCHANGED <<db, atp, work, lock, bounds, sent>>

-----------------------------------------------------------------------------
(* A regular post *)

(* validate_create_regular_post_input                                       *)
ValidNote(r, vis, targets) ==
    /\ r.by \notin script.movedOut
    /\ CheckPostRateLimit(r.by)
    /\ ResolveReplyContext(r.reply, r.by) /\ vis # None
    /\ ResolveDmRecipients(r, vis) /\ ValidatePostTextLength(r, vis, targets)
    /\ ValidateAttachmentsAndEmbedChoice(r, vis, targets) /\ BuildPollJson(r, vis) /\ ValidateContentWarning(r, vis)
    /\ ResolveQuoteTarget(r, vis)
    /\ RequireCanInteract(r.by, (IF vis = "direct" THEN r.to ELSE {}) \cup {AuthorOf(r.reply), AuthorOf(QuoteTarget(r))})
    /\ RequireMentionsAllowed(r.by, r.mentions) /\ CheckAndRecordContacts(r, vis)
    /\ vis = "direct" => \A t \in r.to : NotBlocked(r.by, t)
ValidateCreateRegularPostInput(s) ==
    /\ At(s, "note")
    /\ LET c == calls[s]
           r == c.req
           vis == CapVisibility(r.by, ResolveVisibility(ParentVisibility(r.reply), r.vis))
           targets == DecideDeliveryTargets(r, vis)
       IN  IF ValidNote(r, vis, targets)
           THEN /\ db' = RecordContacts(r, vis)
                /\ Goto(s, [c EXCEPT !.vis = vis, !.fedi = targets.fedi, !.bsky = targets.bsky,
                                     !.quote = QuoteTarget(r)], "insert")
           ELSE Finish(s) /\ UNCHANGED db
    /\ UNCHANGED <<atp, work, bounds, sent>> /\ Same

NoteRow(c) ==
    LET r == c.req
    IN  Post(r.by, c.vis, r.reply, c.quote, None, IF c.vis = "direct" THEN r.to ELSE {}) @@
        [fedi |-> c.fedi, bsky |-> c.bsky, ap |-> TRUE, at |-> None, repostKey |-> None, bridgeOf |-> None,
         apBridge |-> None, atBridge |-> None, poll |-> r.poll, mentions |-> r.mentions, cw |-> r.cw,
         root |-> IF c.vis # "direct" THEN None
                  ELSE IF r.reply # None /\ Row(r.reply).root # None THEN Row(r.reply).root ELSE NewId]
InsertFull(d, row) ==
    [d EXCEPT !.posts = Put(@, NewId, row), !.counts[row.author] = @ + 1]
(* notify_local_actor: the author replied to, the one quoted, those mentioned.*)
Notified(d, r, p) ==
    LET people == (({AuthorOf(r.reply), AuthorOf(QuoteTarget(r))} \cup r.mentions) \cap Local) \ {r.by}
    IN  [d EXCEPT !.notified = @ \cup {<<p, a>> : a \in people}]

(* persist_regular_post: when an attachment is refused the row stays, and    *)
(* nothing else is done.                                                    *)
PersistRegularPost(s) ==
    /\ At(s, "insert")
    /\ LET c == calls[s]
           d == InsertFull(db, NoteRow(c))
       IN  \/ /\ db' = Notified(d, c.req, NewId)
              /\ Goto(s, [c EXCEPT !.post = NewId], IF c.vis = "direct" THEN "dm" ELSE "bsky")
              /\ UNCHANGED bounds
           \/ /\ c.req.media # None /\ CountFault
              /\ db' = d /\ Finish(s)
    /\ UNCHANGED <<atp, work, sent>> /\ Same

EnqueueDirectMessageDelivery(s) ==
    /\ At(s, "dm")
    /\ LET c == calls[s]
       IN  /\ Enqueue((IF c.fedi THEN {Job("DirectMessage", c.req.by, c.post, None)} ELSE {}) \cup
                      (IF c.bsky THEN {Job("BskyDmSend", c.req.by, c.post, None)} ELSE {}))
           /\ Finish(s)
    /\ UNCHANGED <<db, atp, tasks, bounds, sent>> /\ Same

Record(a, coll, key, of, embed, app) == [owner |-> a, coll |-> coll, key |-> key, of |-> of, embed |-> embed, app |-> app]
Overwritten(a, coll, key) == {x \in records : x.owner = a /\ x.coll = coll /\ x.key = key}
(* The record and the row's at_uri, in one transaction.                      *)
CommitPost(a, p, embed) ==
    /\ records' = records \cup {Record(a, "post", nextKey, p, embed, TRUE)}
    /\ db' = [db EXCEPT !.posts[p].at = nextKey]
    /\ nextKey' = nextKey + 1

(* deliver_regular_post: the commit is awaited; its failure is logged.       *)
CommitRegularPostToBsky(s) ==
    /\ At(s, "bsky")
    /\ LET c == calls[s]
           embed == ResolveDeliveryBskyEmbed(c.req, ResolveQuoteEmbed(c.quote).bsky)
       IN  IF ~c.bsky \/ c.vis = "followers_only" THEN UNCHANGED <<records, db, nextKey, jobs, bounds>>
           ELSE IF embed = "pending"
           THEN Enqueue({Job("Deferred", c.req.by, c.post, None)}) /\ UNCHANGED <<records, db, nextKey, bounds>>
           ELSE \/ CommitPost(c.req.by, c.post, embed) /\ UNCHANGED <<jobs, bounds>>
                \/ CountFault /\ UNCHANGED <<records, db, nextKey, jobs>>
    /\ Goto(s, calls[s], "fedi")
    /\ UNCHANGED <<profile, tasks, sent>> /\ Same
EnqueueRegularPostFediDelivery(s) ==
    /\ At(s, "fedi")
    /\ LET c == calls[s]
       IN  Enqueue(IF c.fedi THEN {Job("PostToFollowers", c.req.by, c.post, IF ResolveQuoteEmbed(c.quote).ap = "AppendUrl" THEN WithBody ELSE None)} ELSE {})
    /\ Done(s)
    /\ UNCHANGED <<db, atp, tasks, bounds, sent>> /\ Same

(* BskyPostCommitDeferred ends with the commit, then an Update(Note) tells   *)
(* those that were sent the post without it (module DeferredCommit).         *)
CommitDeferred(j) ==
    /\ j.kind = "Deferred"
    /\ IF FindDeliveryMeta(j.post)
       THEN /\ CommitPost(j.by, j.post, "video")
            /\ jobs' = (jobs \ {j}) \cup {u \in {Job("SeiranPostUpdate", j.by, j.post, None)} : Row(j.post).fedi /\ Row(j.post).ap}
       ELSE UNCHANGED <<records, db, nextKey>> /\ jobs' = jobs \ {j}
    /\ UNCHANGED <<profile, calls, tasks, bounds, sent>> /\ Same

-----------------------------------------------------------------------------
(* Reposts *)

RepostRow(a, p) ==
    Post(a, CapVisibility(a, IF Row(p).vis = "unlisted" THEN "unlisted" ELSE "public"), None, None, p, {}) @@
    [fedi |-> TRUE, bsky |-> TRUE, ap |-> TRUE, at |-> None, repostKey |-> None, bridgeOf |-> None, apBridge |-> None,
     atBridge |-> None, poll |-> None, mentions |-> {}, cw |-> FALSE, root |-> None]
RepostsOf(a, p) == {x \in Live(db) : Row(x).author = a /\ Row(x).repost = p}

(* create_repost: the checks.                                                *)
CreateRepost(s) ==
    /\ At(s, "repost")
    /\ LET r == calls[s].req
           p == RedirectBridgePostMeta(r.on)
       IN  IF /\ r.by \notin script.movedOut
              /\ FindDeliveryMeta(r.on) /\ ~Private(Row(p).vis) /\ NotBlocked(r.by, Row(p).author)
           THEN Goto(s, [calls[s] EXCEPT !.quote = p], "insertRepost")
           ELSE Finish(s)
    /\ UNCHANGED <<db, atp, work, bounds, sent>> /\ Same
(* One live repost of a post per user, by a partial unique index.            *)
InsertRepost(a, p) == RepostsOf(a, p) = {}
(* deliver_repost: the Announce, or a note with a link; the record is made   *)
(* by a spawned task.                                                       *)
DeliverRepost(r, p, x) ==
    LET meta == WithBridgeDeliveryTargets(p)
    IN  /\ Enqueue(IF ~r.fedi THEN {}
                   ELSE IF meta.ap # None THEN {Job("Announce", r.by, x, meta.ap)}
                   ELSE IF meta.at # None THEN {Job("PostToFollowers", r.by, x, WithBody)} ELSE {})
        /\ tasks' = tasks \cup
                (IF ~r.bsky THEN {}
                 ELSE IF meta.at # None THEN {[kind |-> "repost", by |-> r.by, post |-> x, key |-> None, pc |-> "commit"]}
                 ELSE IF ClassifyPost(p) # "BskyRemote" /\ meta.ap # None
                 THEN {[kind |-> "card", by |-> r.by, post |-> x, key |-> None, pc |-> "commit"]} ELSE {})
PersistRepost(s) ==
    /\ At(s, "insertRepost")
    /\ LET r == calls[s].req
           p == calls[s].quote
       IN  IF InsertRepost(r.by, p)
           THEN db' = InsertFull(db, RepostRow(r.by, p)) /\ DeliverRepost(r, p, NewId)
           ELSE UNCHANGED <<db, work>>
    /\ Finish(s)
    /\ UNCHANGED <<atp, bounds, sent>> /\ Same

(* commit_repost: the record, then the row's atp_repost_rkey.                *)
CommitRepost(t) ==
    /\ t.kind = "repost" /\ t.pc = "commit"
    /\ \/ /\ records' = records \cup {Record(t.by, "repost", nextKey, t.post, None, TRUE)}
          /\ tasks' = (tasks \ {t}) \cup {[t EXCEPT !.pc = "link", !.key = nextKey]}
          /\ nextKey' = nextKey + 1 /\ UNCHANGED bounds
       \/ CountFault /\ tasks' = tasks \ {t} /\ UNCHANGED <<records, nextKey>>
    /\ UNCHANGED <<db, profile, calls, jobs, sent>> /\ Same
LinkRepost(t) ==
    /\ t.kind = "repost" /\ t.pc = "link"
    /\ db' = [db EXCEPT !.posts[t.post].repostKey = t.key]
    /\ tasks' = tasks \ {t}
    /\ UNCHANGED <<atp, calls, jobs, bounds, sent>> /\ Same
(* A repost of a fediverse post is a Bluesky post with a card.               *)
CommitCard(t) ==
    /\ t.kind = "card"
    /\ \/ CommitPost(t.by, t.post, "external") /\ UNCHANGED bounds
       \/ CountFault /\ UNCHANGED <<records, db, nextKey>>
    /\ tasks' = tasks \ {t}
    /\ UNCHANGED <<profile, calls, jobs, sent>> /\ Same
DeleteAtpRecord(t) ==
    /\ t.kind = "drop"
    /\ \/ records' = records \ Overwritten(t.by, t.pc, t.key) /\ UNCHANGED bounds
       \/ CountFault /\ UNCHANGED records
    /\ tasks' = tasks \ {t}
    /\ UNCHANGED <<db, profile, nextKey, calls, jobs, sent>> /\ Same
Drop(a, coll, key) == {[kind |-> "drop", by |-> a, post |-> None, key |-> key, pc |-> coll]}

-----------------------------------------------------------------------------
(* Deletions *)

SoftDeleteById(d, p) ==
    IF d.posts[p].deleted THEN d
    ELSE [d EXCEPT !.posts[p].deleted = TRUE, !.counts[d.posts[p].author] = IF @ = 0 THEN 0 ELSE @ - 1]

(* delete_repost, delete_note: what is to be done is read first.             *)
FindRepostForUndo(s) ==
    /\ At(s, "unrepost")
    /\ LET mine == RepostsOf(calls[s].req.by, calls[s].req.on)
       IN  IF mine = {} THEN Finish(s)
           ELSE \E x \in mine : Goto(s, [calls[s] EXCEPT !.post = x, !.quote = Row(x)], "deleteRepost")
    /\ UNCHANGED <<db, atp, work, bounds, sent>> /\ Same
DeleteRepost(s) ==
    /\ At(s, "deleteRepost")
    /\ LET c == calls[s]
           orig == Row(c.quote.repost)
       IN  /\ db' = SoftDeleteById(db, c.post)
           /\ Enqueue(IF orig.ap THEN {Job("UndoAnnounce", c.req.by, c.post, c.quote.repost)}
                      ELSE IF orig.at # None THEN {Job("DeleteNote", c.req.by, c.post, None)} ELSE {})
           /\ tasks' = tasks \cup
                (IF c.quote.repostKey # None THEN Drop(c.req.by, "repost", c.quote.repostKey)
                 ELSE IF c.quote.at # None THEN Drop(c.req.by, "post", c.quote.at) ELSE {})
    /\ Finish(s)
    /\ UNCHANGED <<atp, bounds, sent>> /\ Same
(* A post found by id (REST) or by the key of its record (XRPC).             *)
FindDeleteInfo(s) ==
    /\ At(s, "delete") \/ At(s, "erase")
    /\ LET r == calls[s].req
           found == IF r.op = "delete" THEN {r.on} ELSE {p \in DOMAIN db.posts : Row(p).author = r.by /\ Row(p).at = r.rkey}
           mine == {p \in found \cap Live(db) : Row(p).author = r.by}
       IN  IF mine = {} THEN Finish(s)
           ELSE \E p \in mine : Goto(s, [calls[s] EXCEPT !.post = p, !.quote = Row(p)], "deleteNote")
    /\ UNCHANGED <<db, atp, work, bounds, sent>> /\ Same
(* The record is deleted by a spawned task (REST), or awaited (XRPC).        *)
DeleteNote(s) ==
    /\ At(s, "deleteNote")
    /\ LET c == calls[s]
       IN  /\ db' = SoftDeleteById(db, c.post)
           /\ Enqueue(IF c.quote.fedi /\ c.quote.vis # "direct" THEN {Job("DeleteNote", c.req.by, c.post, None)} ELSE {})
           /\ IF c.req.op = "delete"
              THEN /\ tasks' = tasks \cup IF c.quote.at # None THEN Drop(c.req.by, "post", c.quote.at) ELSE {}
                   /\ Finish(s)
              ELSE UNCHANGED tasks /\ Goto(s, [c EXCEPT !.req.coll = "post"], "drop")
    /\ UNCHANGED <<atp, bounds, sent>> /\ Same

-----------------------------------------------------------------------------
(* Reactions *)

CreateReaction(s) ==
    /\ At(s, "react")
    /\ LET r == calls[s].req
       IN  IF /\ r.by \notin script.movedOut
              /\ FindByIdForViewer(db, r.on, r.by) # {} /\ NotBlocked(r.by, Row(r.on).author)
              /\ RequireCanInteract(r.by, {Row(r.on).author})
           THEN Goto(s, calls[s], "upsertReaction") ELSE Finish(s)
    /\ UNCHANGED <<db, atp, work, bounds, sent>> /\ Same
HasReaction(p, a) == <<p, a>> \in DOMAIN db.reactions
(* The row is overwritten, its at_uri is kept.                               *)
Upsert(p, a, content, act) ==
    Put(db.reactions, <<p, a>>,
        [content |-> content, act |-> act, at |-> IF HasReaction(p, a) THEN db.reactions[<<p, a>>].at ELSE None])
(* The activity id has the time in milliseconds: a fresh number.             *)
UpsertReaction(s) ==
    /\ At(s, "upsertReaction")
    /\ LET r == calls[s].req
           prev == IF HasReaction(r.on, r.by) THEN db.reactions[<<r.on, r.by>>] ELSE [act |-> None, at |-> None]
           notify == IF Row(r.on).author # r.by /\ Row(r.on).author \in Local THEN {<<r.on, Row(r.on).author>>} ELSE {}
       IN  /\ db' = [db EXCEPT !.reactions = Upsert(r.on, r.by, r.content, nextKey), !.notified = @ \cup notify]
           /\ Enqueue({Job("Reaction", r.by, r.on, nextKey)})
           /\ tasks' = tasks \cup {[kind |-> "like", by |-> r.by, post |-> r.on, key |-> prev.at, pc |-> "start"]}
           /\ nextKey' = nextKey + 1
    /\ Finish(s)
    /\ UNCHANGED <<records, profile, bounds, sent>> /\ Same

(* deliver_reaction_to_atp: the old record goes, the new one is committed,   *)
(* the row is told its key (commit_like).                                   *)
DropPrevious(t) == IF t.key = None THEN records ELSE records \ Overwritten(t.by, "like", t.key)
DeliverReactionToAtp(t) ==
    /\ t.kind = "like" /\ t.pc = "start"
    /\ IF FindDeliveryMeta(t.post) /\ Row(t.post).at # None
       THEN /\ tasks' = (tasks \ {t}) \cup {[t EXCEPT !.pc = "commit"]}
            /\ \/ records' = DropPrevious(t) /\ UNCHANGED bounds
               \/ t.key # None /\ CountFault /\ UNCHANGED records
       ELSE tasks' = tasks \ {t} /\ UNCHANGED <<records, bounds>>
    /\ UNCHANGED <<db, profile, nextKey, calls, jobs, sent>> /\ Same
CommitLike(t) ==
    /\ t.kind = "like" /\ t.pc = "commit"
    /\ \/ /\ records' = records \cup {Record(t.by, "like", nextKey, t.post, None, TRUE)}
          /\ tasks' = (tasks \ {t}) \cup {[t EXCEPT !.pc = "link", !.key = nextKey]}
          /\ nextKey' = nextKey + 1 /\ UNCHANGED bounds
       \/ CountFault /\ tasks' = tasks \ {t} /\ UNCHANGED <<records, nextKey>>
    /\ UNCHANGED <<db, profile, calls, jobs, sent>> /\ Same
LinkLike(t) ==
    /\ t.kind = "like" /\ t.pc = "link"
    /\ db' = IF HasReaction(t.post, t.by) THEN [db EXCEPT !.reactions[<<t.post, t.by>>].at = t.key] ELSE db
    /\ tasks' = tasks \ {t}
    /\ UNCHANGED <<atp, calls, jobs, bounds, sent>> /\ Same

RemoveReaction(s) ==
    /\ At(s, "unreact")
    /\ LET r == calls[s].req
           mine == IF HasReaction(r.on, r.by) /\ (r.content = None \/ db.reactions[<<r.on, r.by>>].content = r.content)
                   THEN {db.reactions[<<r.on, r.by>>]} ELSE {}
       IN  IF FindByIdForViewer(db, r.on, r.by) = {} \/ mine = {} THEN UNCHANGED <<db, work>>
           ELSE \E old \in mine :
                    /\ db' = [db EXCEPT !.reactions = Without(@, {<<r.on, r.by>>})]
                    /\ tasks' = tasks \cup IF old.at # None THEN Drop(r.by, "like", old.at) ELSE {}
                    /\ Enqueue(IF old.act # None THEN {Job("UndoReaction", r.by, r.on, old.act)} ELSE {})
    /\ Finish(s)
    /\ UNCHANGED <<atp, bounds, sent>> /\ Same

-----------------------------------------------------------------------------
(* Polls: repository/poll.rs *)

PollClosed(p) == Row(p).poll.closed
ValidateVote(p, options) ==
    /\ Row(p).poll.multiple \/ Cardinality(options) = 1
    /\ options \subseteq DOMAIN Row(p).poll.votes
    /\ ~PollClosed(p)
IncrementPollVotes(d, p, options) ==
    [d EXCEPT !.posts[p].poll.votes = [o \in DOMAIN @ |-> IF o \in options THEN @[o] + 1 ELSE @[o]]]
VotesOf(p, a) == {v \in db.votes : v.post = p /\ v.by = a}
Votes(p, a, options) == {[post |-> p, by |-> a, option |-> o] : o \in options}

(* record_local_vote: SELECT ... FOR UPDATE, then the checks; the row stays  *)
(* locked until the commit.                                                 *)
(* Faulty variant: the row is read without a lock.                           *)
LockRowNot(p) == UNCHANGED lock
LockRow(p) == p \notin lock /\ lock' = lock \cup {p}
RecordLocalVote(s) ==
    /\ At(s, "vote")
    /\ LET r == calls[s].req
       IN  IF /\ r.options # {} /\ r.on \in Live(db) /\ Row(r.on).poll # None
              /\ ValidateVote(r.on, r.options) /\ VotesOf(r.on, r.by) = {}
           THEN LockRow(r.on) /\ Goto(s, calls[s], "commitVote")
           ELSE r.on \notin lock /\ Finish(s) /\ UNCHANGED lock
    /\ UNCHANGED <<db, atp, work, todo, lone, bounds, sent>>
(* The primary key (post, actor, option) refuses the same vote twice.        *)
CommitLocalVote(s) ==
    /\ At(s, "commitVote")
    /\ LET r == calls[s].req
           new == Votes(r.on, r.by, r.options)
       IN  IF new \cap db.votes = {}
           THEN /\ db' = IncrementPollVotes([db EXCEPT !.votes = @ \cup new], r.on, r.options)
                /\ Enqueue({Job("PollVote", r.by, r.on, None)})
           ELSE UNCHANGED <<db, jobs>>
    /\ lock' = lock \ {calls[s].req.on}
    /\ Finish(s)
    /\ UNCHANGED <<atp, tasks, todo, lone, bounds, sent>>
(* record_remote_vote: one option per activity; ON CONFLICT DO NOTHING.      *)
RecordRemoteVote(d, p, a, o) ==
    IF Votes(p, a, {o}) \subseteq d.votes THEN d
    ELSE IncrementPollVotes([d EXCEPT !.votes = @ \cup Votes(p, a, {o})], p, {o})
(* handle_poll_vote: neither the end of the poll nor the number of votes is  *)
(* looked at.                                                               *)
RemoteVote(s) ==
    /\ At(s, "remoteVote")
    /\ LET r == calls[s].req
       IN  /\ r.on \notin lock
           /\ \E o \in r.options : db' = IF r.on \in Live(db) THEN RecordRemoteVote(db, r.on, r.by, o) ELSE db
    /\ Finish(s)
    /\ UNCHANGED <<atp, work, bounds, sent>> /\ Same

-----------------------------------------------------------------------------
(* Pins: the newest first; the oldest over the limit goes.                   *)

Pin(pins, p) == IF p \in Range(pins) THEN pins ELSE SubSeq(<<p>> \o pins, 1, Min({MaxPins, Len(pins) + 1}))
PinNote(s) ==
    /\ At(s, "pin")
    /\ LET r == calls[s].req
       IN  IF FindByIdForViewer(db, r.on, r.by) # {} /\ Row(r.on).author = r.by
           THEN db' = [db EXCEPT !.pins[r.by] = Pin(@, r.on)] /\ Goto(s, calls[s], "resolvePin")
           ELSE Finish(s) /\ UNCHANGED db
    /\ UNCHANGED <<atp, work, bounds, sent>> /\ Same
UnpinNote(s) ==
    /\ At(s, "unpin")
    /\ LET r == calls[s].req
       IN  IF r.on \in Range(db.pins[r.by])
           THEN db' = [db EXCEPT !.pins[r.by] = SelectSeq(@, LAMBDA p : p # r.on)] /\ Goto(s, calls[s], "resolvePin")
           ELSE Finish(s) /\ UNCHANGED db
    /\ UNCHANGED <<atp, work, bounds, sent>> /\ Same
ResolveBskyPinnedPost(a) ==
    IF db.pins[a] = <<>> THEN None
    ELSE LET p == Head(db.pins[a]) IN IF FindDeliveryMeta(p) /\ ~Private(Row(p).vis) THEN Row(p).at ELSE None
(* sync_bsky_pinned_post: what the newest pin is, then the profile record.   *)
ReadPinnedPost(s) ==
    /\ At(s, "resolvePin")
    /\ Goto(s, [calls[s] EXCEPT !.quote = ResolveBskyPinnedPost(calls[s].req.by)], "profile")
    /\ UNCHANGED <<db, atp, work, bounds, sent>> /\ Same
CommitProfile(s) ==
    /\ At(s, "profile")
    /\ \/ profile' = [profile EXCEPT ![calls[s].req.by] = calls[s].quote] /\ UNCHANGED bounds
       \/ CountFault /\ UNCHANGED profile
    /\ Finish(s)
    /\ UNCHANGED <<db, records, nextKey, work, sent>> /\ Same

-----------------------------------------------------------------------------
(* XRPC: createRecord, putRecord, deleteRecord, applyWrites *)

(* A post is named by the key of its record: one of the user, or remote.     *)
HasRecord(p) == p # None /\ p \in Live(db) /\ Row(p).at # None
(* create_post_from_record: the post is public, unless the role caps it; the *)
(* quoted post and the parent are the rows that have those records.          *)
CreatePostFromRecord(s) ==
    /\ At(s, "record")
    /\ LET c == calls[s]
           r == c.req
           reply == IF HasRecord(r.reply) THEN r.reply ELSE None
           quote == IF HasRecord(r.quote) THEN r.quote ELSE None
           vis == CapVisibility(r.by, "public")
           row == NoteRow([c EXCEPT !.vis = vis, !.fedi = TRUE, !.bsky = TRUE, !.quote = quote, !.req.reply = reply])
       IN  IF /\ RequireCanInteract(r.by, {AuthorOf(r.reply), AuthorOf(r.quote)})
              /\ RequireMentionsAllowed(r.by, r.mentions)
              /\ quote # None => NotBlocked(r.by, Row(quote).author)
              /\ ResolveReplyContext(reply, r.by)
           THEN /\ db' = Notified(InsertFull(db, row), [r EXCEPT !.reply = reply, !.quote = quote], NewId)
                /\ Goto(s, [c EXCEPT !.post = NewId, !.vis = vis, !.fedi = TRUE, !.quote = quote], "commitRecord")
           ELSE Finish(s) /\ UNCHANGED db
    /\ UNCHANGED <<atp, work, bounds, sent>> /\ Same
(* commit_post_record: no two rows have the same at_uri.  When it fails the  *)
(* call ends; the row is not taken back.                                    *)
CommitPostRecord(s) ==
    /\ At(s, "commitRecord")
    /\ LET c == calls[s]
           a == c.req.by
       IN  \/ /\ \A p \in DOMAIN db.posts : ~(Row(p).author = a /\ Row(p).at = c.req.rkey)
              /\ records' = (records \ Overwritten(a, "post", c.req.rkey)) \cup {Record(a, "post", c.req.rkey, c.post, None, TRUE)}
              /\ db' = [db EXCEPT !.posts[c.post].at = c.req.rkey]
              /\ Goto(s, c, "fedi")
              /\ UNCHANGED bounds
           \/ /\ \E p \in DOMAIN db.posts : Row(p).author = a /\ Row(p).at = c.req.rkey
              /\ Finish(s) /\ UNCHANGED <<records, db, bounds>>
           \/ CountFault /\ Finish(s) /\ UNCHANGED <<records, db>>
    /\ UNCHANGED <<profile, nextKey, work, sent>> /\ Same
CheckGenericRecordRestriction(r) == r.coll = "like" => RequireCanInteract(r.by, {AuthorOf(r.on)})
(* Any other collection is written as it is.                                 *)
PutRecord(s) ==
    /\ At(s, "put")
    /\ LET r == calls[s].req
       IN  \/ /\ CheckGenericRecordRestriction(r)
              /\ records' = (records \ Overwritten(r.by, r.coll, r.rkey)) \cup
                                {Record(r.by, r.coll, r.rkey, r.on, None, FALSE)}
              /\ Done(s) /\ UNCHANGED bounds
           \/ ~CheckGenericRecordRestriction(r) /\ Finish(s) /\ UNCHANGED <<records, bounds>>
           \/ CountFault /\ Finish(s) /\ UNCHANGED records
    /\ UNCHANGED <<db, profile, nextKey, work, sent>> /\ Same
DeleteRecord(s) ==
    /\ At(s, "drop")
    /\ LET r == calls[s].req
       IN  \/ records' = records \ Overwritten(r.by, r.coll, r.rkey) /\ Done(s) /\ UNCHANGED bounds
           \/ CountFault /\ Finish(s) /\ UNCHANGED records
    /\ UNCHANGED <<db, profile, nextKey, work, sent>> /\ Same

-----------------------------------------------------------------------------
(* Delivery jobs: ap/deliver *)

FetchFediFollowerInboxes(a) == {f \in Actors : IsFedi(f) /\ AcceptedFollow(db, f, a)}
(* Who takes part in the conversation around p, and their followers.         *)
ResolveConversationBroadcastInboxes(p) ==
    LET people == {Row(p).author} \cup
                  {Row(x).author : x \in {x \in Live(db) : p \in {Row(x).repost, Row(x).reply, Row(x).quote}}}
    IN  {a \in people : IsFedi(a)} \cup UNION {FetchFediFollowerInboxes(a) : a \in people} \cup
        {a \in Actors : IsFedi(a) /\ HasReaction(p, a)}
Around(p) == IF p = None THEN {} ELSE ResolveConversationBroadcastInboxes(p)
FetchInboxesByApUris(mentions) == {a \in mentions : IsFedi(a)}
(* Faulty variant: relays get whatever is not private.                       *)
FetchAcceptedRelayInboxesOpen(vis) == IF Private(vis) THEN {} ELSE Relays
FetchAcceptedRelayInboxes(vis) == IF vis = "public" THEN Relays ELSE {}

(* The row is read whether or not it was deleted since.  A note made of a    *)
(* repost has a text of its own: nobody is mentioned.                        *)
DeliverPostToApFollowers(j) ==
    LET row == Row(j.post)
    IN  IF row.vis = "direct" THEN {}
        ELSE FetchFediFollowerInboxes(j.by) \cup Around(row.reply) \cup Around(row.quote) \cup
             (IF j.arg = WithBody THEN {} ELSE FetchInboxesByApUris(row.mentions)) \cup
             FetchAcceptedRelayInboxes(row.vis)
DeliverSeiranpostUpdate(j) ==
    IF Row(j.post).vis = "direct" \/ Row(j.post).at = None THEN {}
    ELSE FetchFediFollowerInboxes(j.by) \cup FetchInboxesByApUris(Row(j.post).mentions)
DeliverDirectMessageToAp(j) == {a \in Row(j.post).to : IsFedi(a)}
ResolveAnnounceTargets(j) ==
    FetchFediFollowerInboxes(j.by) \cup ({Row(j.arg).author} \cap {a \in Actors : IsFedi(a)}) \cup Around(Row(j.post).repost)
DeliverDeleteNote(j) == FetchFediFollowerInboxes(j.by)
ResolveReactionTargets(j) ==
    LET row == Row(j.post)
    IN  IF ~row.ap THEN {}
        ELSE IF row.vis = "direct" THEN {a \in (row.to \cup {row.author}) \ {j.by} : IsFedi(a)}
        ELSE Around(j.post) \cup FetchFediFollowerInboxes(j.by)
DeliverApPollVote(j) == IF j.post \in Live(db) THEN {Row(j.post).author} \cap {a \in Actors : IsFedi(a)} ELSE {}
Inboxes(j) ==
    CASE j.kind = "PostToFollowers" -> DeliverPostToApFollowers(j)
      [] j.kind = "SeiranPostUpdate" -> DeliverSeiranpostUpdate(j)
      [] j.kind = "DirectMessage" -> DeliverDirectMessageToAp(j)
      [] j.kind = "BskyDmSend" -> {a \in Row(j.post).to : ActorType[a] = "bsky"}
      [] j.kind \in {"Announce", "UndoAnnounce"} -> ResolveAnnounceTargets(j)
      [] j.kind = "DeleteNote" -> DeliverDeleteNote(j)
      [] j.kind \in {"Reaction", "UndoReaction"} -> ResolveReactionTargets(j)
      [] j.kind = "PollVote" -> DeliverApPollVote(j)
      [] OTHER -> {}

(* The activities (activity.rs): what they are called, what they are about,  *)
(* and whether they are addressed to the public.                            *)
VisibilityToToCc(vis, to, mentions) ==
    CASE vis = "unlisted" -> [to |-> {"Followers"} \cup mentions, cc |-> {"Public"}]
      [] vis = "direct" -> [to |-> to, cc |-> {}]
      [] vis = "followers_only" -> [to |-> {"Followers"} \cup mentions, cc |-> {}]
      [] OTHER -> [to |-> {"Public"} \cup mentions, cc |-> {"Followers"}]
Activity(type, object, address) == [type |-> type, object |-> object, public |-> "Public" \in address.to \cup address.cc]
AddressOf(row) == VisibilityToToCc(row.vis, {}, {})
ToPublic == [to |-> {"Public"}, cc |-> {"Followers"}]
ApplyPollToNoteObject(row) == IF row.poll # None THEN "Question" ELSE "Note"
BuildNoteObject(p) == [type |-> ApplyPollToNoteObject(Row(p)), id |-> p]
BuildCreateNoteActivity(p) == Activity("Create", BuildNoteObject(p), AddressOf(Row(p)))
BuildUpdateNoteActivity(p) == Activity("Update", BuildNoteObject(p), AddressOf(Row(p)))
BuildAnnounceActivity(p) == Activity("Announce", p, AddressOf(Row(p)))
BuildUndoAnnounceActivity(p) == Activity("Undo", p, ToPublic)
BuildDeleteNoteActivity(p) == Activity("Delete", p, ToPublic)
BuildReactionObject(j) ==
    Activity("EmojiReact", j.arg, IF Row(j.post).vis = "direct" THEN [to |-> {}, cc |-> {}] ELSE ToPublic)
BuildUndoReactionActivity(j) == [BuildReactionObject(j) EXCEPT !.type = "Undo"]
ActivityOf(j) ==
    CASE j.kind \in {"PostToFollowers", "DirectMessage"} -> BuildCreateNoteActivity(j.post)
      [] j.kind = "SeiranPostUpdate" -> BuildUpdateNoteActivity(j.post)
      [] j.kind = "Announce" -> BuildAnnounceActivity(j.post)
      [] j.kind = "UndoAnnounce" -> BuildUndoAnnounceActivity(j.post)
      [] j.kind = "DeleteNote" -> BuildDeleteNoteActivity(j.post)
      [] j.kind = "Reaction" -> BuildReactionObject(j)
      [] j.kind = "UndoReaction" -> BuildUndoReactionActivity(j)
      [] OTHER -> Activity("Create", j.post, [to |-> {}, cc |-> {}])

(* fan_out_activity fails when no inbox took it; the job is then tried again *)
(* from the start.                                                          *)
FanOutActivity(j) ==
    /\ j.kind # "Deferred"
    /\ LET to == Inboxes(j)
       IN  \E bad \in {{}, to} \cup {{i} : i \in to} :
            /\ IF bad = {} THEN UNCHANGED bounds ELSE CountFault
            /\ sent' = sent \cup {[kind |-> j.kind, post |-> j.post, inbox |-> i, public |-> ActivityOf(j).public] : i \in to \ bad}
            /\ jobs' = (jobs \ {j}) \cup
                    IF bad # {} /\ bad = to /\ j.attempts + 1 < MaxAttempts THEN {[j EXCEPT !.attempts = @ + 1]} ELSE {}
    /\ UNCHANGED <<db, atp, calls, tasks>> /\ Same

(* The API process ends: requests and spawned tasks are gone, jobs are not.  *)
Stop ==
    /\ crashes < script.crashes /\ crashes' = crashes + 1
    /\ calls' = [s \in Calls |-> NoCall]
    /\ tasks' = {} /\ lock' = {}
    /\ UNCHANGED <<db, atp, todo, jobs, script, faults, lone, sent>>

-----------------------------------------------------------------------------
Init ==
    /\ script \in Scripts
    /\ db = script.db
    /\ records = script.records
    /\ profile = [a \in Local |-> None]
    /\ nextKey = 20
    /\ calls = [s \in Calls |-> NoCall]
    /\ todo = script.requests
    /\ tasks = {} /\ jobs = {} /\ lock = {}
    /\ faults = 0 /\ crashes = 0
    /\ lone = TRUE /\ sent = {}

CallStep(s) ==
    \/ Start(s) \/ ValidateCreateRegularPostInput(s) \/ PersistRegularPost(s) \/ EnqueueDirectMessageDelivery(s)
    \/ CommitRegularPostToBsky(s) \/ EnqueueRegularPostFediDelivery(s)
    \/ CreateRepost(s) \/ PersistRepost(s) \/ FindRepostForUndo(s) \/ DeleteRepost(s) \/ FindDeleteInfo(s) \/ DeleteNote(s)
    \/ CreateReaction(s) \/ UpsertReaction(s) \/ RemoveReaction(s)
    \/ RecordLocalVote(s) \/ CommitLocalVote(s) \/ RemoteVote(s)
    \/ PinNote(s) \/ UnpinNote(s) \/ ReadPinnedPost(s) \/ CommitProfile(s)
    \/ CreatePostFromRecord(s) \/ CommitPostRecord(s) \/ PutRecord(s) \/ DeleteRecord(s)
TaskStep(t) ==
    CommitRepost(t) \/ LinkRepost(t) \/ CommitCard(t) \/ DeleteAtpRecord(t) \/ DeliverReactionToAtp(t) \/ CommitLike(t) \/ LinkLike(t)
Next ==
    \/ \E s \in Calls : CallStep(s)
    \/ \E t \in tasks : TaskStep(t)
    \/ \E j \in jobs : FanOutActivity(j) \/ CommitDeferred(j)
    \/ Stop
Spec == Init /\ [][Next]_vars

-----------------------------------------------------------------------------
(* Properties *)

(* The tables have their shape; a record is of a row, keys are given once.   *)
TypeOK ==
    /\ \A p \in DOMAIN db.posts : Row(p).vis \in Visibilities /\ Row(p).author \in Actors /\ Row(p).deleted \in BOOLEAN
    /\ \A x, y \in records : x.owner = y.owner /\ x.coll = y.coll /\ x.key = y.key => x = y
    /\ \A a \in Local : Len(db.pins[a]) <= MaxPins
    /\ \A s \in Calls : calls[s].op = "none" \/ calls[s].pc \notin {"none"}
    /\ lock \subseteq DOMAIN db.posts

(* Nothing private leaves: a private post has no AT record and no relay gets *)
(* it, an unlisted one goes to no relay, what is done to a direct message is *)
(* told to those in it only, and the record of a post with a content warning *)
(* shows nothing but the link (create_regular_post, deliver/note.rs).       *)
PrivateStaysIn ==
    /\ \A x \in records : x.coll = "post" => ~Private(Row(x.of).vis) /\ (Row(x.of).cw => x.embed = "external")
    /\ \A e \in sent :
        /\ e.inbox \in Relays => Row(e.post).vis = "public"
        /\ Row(e.post).vis = "direct" => e.inbox \in Row(e.post).to \cup {Row(e.post).author}
        /\ e.kind \in {"PostToFollowers", "DirectMessage", "SeiranPostUpdate"} /\ e.public => ~Private(Row(e.post).vis)

(* A private post is not quoted or reposted, and a reply to it is as private,*)
(* by whichever API the post is made.                                       *)
PrivateKept ==
    \A p \in DOMAIN db.posts :
        /\ \A q \in {Row(p).quote, Row(p).repost} \ {None} : ~Private(Row(q).vis)
        /\ Row(p).reply # None /\ Private(Row(Row(p).reply).vis) => Row(p).vis = Row(Row(p).reply).vis

(* actors.notes_count is the number of live posts, whatever is inserted,     *)
(* refused or deleted twice (soft_delete_by_id).                             *)
CountsMatch ==
    \A a \in Local : db.counts[a] = Cardinality({p \in Live(db) : Row(p).author = a})

(* The tally of a poll is the votes recorded, and a local user votes once    *)
(* (record_local_vote, record_remote_vote).                                  *)
VotesHold ==
    \A p \in {p \in DOMAIN db.posts : Row(p).poll # None} :
        /\ \A o \in DOMAIN Row(p).poll.votes : Row(p).poll.votes[o] = Cardinality({v \in db.votes : v.post = p /\ v.option = o})
        /\ ~Row(p).poll.multiple => \A a \in Local : Cardinality(VotesOf(p, a)) <= 1

Idle == tasks = {} /\ \A s \in Calls : calls[s].op = "none"
RecordKeys(coll) == {<<x.owner, x.key>> : x \in {x \in records : x.coll = coll /\ x.app}}
RowKeys(rows, at(_)) == {<<Row(p).author, at(p)>> : p \in {p \in rows : Row(p).author \in Local /\ at(p) # None}}
(* When a user's calls come one after the other and nothing fails, the AT    *)
(* repository is what the database says: a like per reaction with a record,  *)
(* a repost record per live repost, a post record per live post, and the     *)
(* newest pin on the profile.                                               *)
LoneCallSettles ==
    Idle /\ lone /\ faults = 0 /\ crashes = 0 =>
        /\ RecordKeys("like") = {<<k[2], db.reactions[k].at>> : k \in {k \in DOMAIN db.reactions : k[2] \in Local /\ db.reactions[k].at # None}}
        /\ RecordKeys("repost") = RowKeys(Live(db), LAMBDA p : Row(p).repostKey)
        /\ RecordKeys("post") = RowKeys(Live(db), LAMBDA p : Row(p).at)
        /\ \A a \in Local : profile[a] = ResolveBskyPinnedPost(a)

(* deletion.rs: "a Delete is delivered to where the post was delivered".     *)
WithdrawnWhereSent ==
    Idle /\ jobs = {} /\ lone /\ faults = 0 /\ crashes = 0 =>
        \A e \in sent :
            e.kind = "PostToFollowers" /\ Row(e.post).deleted => \E x \in sent : x.kind = "DeleteNote" /\ x.post = e.post /\ x.inbox = e.inbox
=============================================================================

------------------------------- MODULE Feeds -------------------------------
(***************************************************************************)
(* One timeline request (handlers/notes/timelines.rs, notes/retrieval.rs,  *)
(* lists.rs, mastodon/timelines.rs) from its first query to its response,  *)
(* against writes other requests commit between its queries.  The rows and *)
(* the embedded notes come from different queries of different instants;   *)
(* the home, social and list timelines also choose their ids first and     *)
(* read the rows later (repository/feed.rs).                               *)
(***************************************************************************)
EXTENDS Posts

CONSTANTS
    PostIds,            \* the ids a post may have
    IdsPerTick,         \* ids of one unit of time (snowflake_id_time)
    WindowAges,         \* WINDOW_HOURS, a sequence of ages
    LateralMaxTargets,  \* LATERAL_MAX_TARGETS
    Limits,             \* page sizes a client asks for
    Untils, Sinces,     \* until_id and since_id a client passes, None included
    Tables,             \* the databases a run starts from
    MaxChanges          \* bound: writes of other requests

ASSUME FeedsAssumption ==
    /\ PostIds \subseteq Nat \ {0} /\ IsFiniteSet(PostIds)
    /\ IdsPerTick \in Nat \ {0}
    /\ LateralMaxTargets \in Nat
ASSUME PagesAssumption ==
    /\ Limits \subseteq Int /\ Untils \cup Sinces \subseteq Int \cup {None}
    /\ None \notin Int
(* Each window reaches at least as far back as the one before it.          *)
ASSUME WindowsAssumption ==
    /\ WindowAges \in Seq(Nat) \ {<<>>}
    /\ \A i, j \in 1..Len(WindowAges) : i =< j => WindowAges[i] =< WindowAges[j]

(* The tables the surfaces read.                                            *)
PostRows ==
    [author: Actors, vis: Visibilities, reply: PostIds \cup {None}, quote: PostIds \cup {None},
     repost: PostIds \cup {None}, to: SUBSET Actors, deleted: BOOLEAN]
IsDatabase(d) ==
    /\ DOMAIN d = {"follows", "blocks", "mutes", "repostMutes", "gone", "posts", "list", "notified"}
    /\ DOMAIN d.posts \subseteq PostIds
    /\ d.posts \in [DOMAIN d.posts -> PostRows]
ASSUME TablesAssumption == \A d \in Tables : IsDatabase(d)

VARIABLES
    db,         \* the database
    req,        \* the request under way
    changes     \* writes of other requests so far

feedsVars == <<db, req, changes>>

(* snowflake_id_time, and snowflake_id_floor: the first id of an instant.   *)
SnowflakeTime(id) == id \div IdsPerTick
SnowflakeFloor(t) == t * IdsPerTick
(* Utc::now: ids are drawn from the clock, so it is past every post.        *)
Now == SnowflakeTime(Max(PostIds) + 1)
MaxId == Max(PostIds) + 1

Idle == [pc |-> "idle"]

Viewers == Local \cup {None}

-----------------------------------------------------------------------------
(* What a request is measured against.  These fields of req are history:    *)
(* no step of the code reads them.                                         *)

(* The posts a page of the surface is to be drawn from.                     *)
Eligible(d, r) ==
    LET home == UNION {FollowingOf(d, r.viewer, t, r.excl) : t \in FollowingTargets(d, r.viewer)}
    IN  CASE r.surface = "home" -> home
          [] r.surface = "social" -> home \cup SocialLocalIds(d, r.viewer, r.excl)
          [] r.surface = "list" -> UNION {ListPostsOf(d, t) : t \in d.list.members}
          [] OTHER -> {}

VisibleNow(d, v) == {p \in Live(d) : PostIsVisibleTo(d, v, p, FALSE)}
HiddenNow(d, v) == IF v = None THEN {} ELSE {a \in Actors \ {v} : Hidden(d, v, a)}

Watch(d, r) ==
    IF r.pc = "idle" THEN r
    ELSE [r EXCEPT !.always = @ \cap InPage(Eligible(d, r), r.page),
                   !.seen = @ \cup VisibleNow(d, r.viewer),
                   !.hidden = @ \cap HiddenNow(d, r.viewer)]

Request(surface, v, page, excl, pc, rows) ==
    LET r == [pc |-> pc, surface |-> surface, viewer |-> v, page |-> page, excl |-> excl,
              win |-> 1, upper |-> IF page.until = None THEN MaxId ELSE page.until,
              post |-> None, ids |-> {}, rows |-> rows, renotes |-> {}, quotes |-> {},
              always |-> PostIds, seen |-> {}, hidden |-> Actors]
    IN  Watch(db, r)

Source(r) ==
    [kind |-> IF r.surface = "list" THEN "ListMembers" ELSE "Following",
     viewer |-> r.viewer, excludeDirect |-> r.excl]

-----------------------------------------------------------------------------
(* The handlers, each up to and including its first query *)

Begin(r) == req.pc = "idle" /\ req' = r /\ UNCHANGED <<db, changes>>

HomeTimeline(v, page, excl) == Begin(Request("home", v, page, excl, "count", {}))
SocialTimeline(v, page, excl) == Begin(Request("social", v, page, excl, "count", {}))

LocalTimeline(v, page, excl) ==
    Begin(Request("local", v, page, excl, "renotes", PageOf(LocalIds(db, v, excl), page)))
GlobalTimeline(v, page, excl) ==
    Begin(Request("global", v, page, excl, "renotes", PageOf(GlobalIds(db, v, excl), page)))
TimelineByActor(a, v, page, excl) ==
    Begin(Request("actor", v, page, excl, "renotes", PageOf(ActorIds(db, a, v, excl), page)))
MentionsTimeline(v, page, onlyDirect) ==
    Begin(Request("mentions", v, page, FALSE, "renotes", PageOf(MentionIds(db, v, onlyDirect), page)))
TagTimeline(v, page) ==
    Begin(Request("tag", v, page, FALSE, "renotes", PageOf(TagIds(db, v), page)))

(* A private list answers its owner only.                                  *)
ListTimeline(v, page) ==
    /\ db.list.public \/ v = db.list.owner
    /\ Begin(Request("list", v, page, FALSE, "count", {}))

NoPage == Page(1, None, None)
GetNote(p, v) ==
    /\ FindByIdForViewer(db, p, v) # {}
    /\ Begin(Request("note", v, NoPage, FALSE, "renotes", {p}))
NoteReplies(p, v) ==
    /\ FindByIdForViewer(db, p, v) # {}
    /\ Begin([Request("replies", v, NoPage, FALSE, "descend", {}) EXCEPT !.post = p])
NoteContext(p, v) ==
    /\ FindByIdForViewer(db, p, v) # {}
    /\ Begin([Request("context", v, NoPage, FALSE, "before", {}) EXCEPT !.post = p])

-----------------------------------------------------------------------------
(* The queries that follow *)

At(l) == req.pc = l /\ UNCHANGED <<db, changes>>
Left(ids) == req.page.limit - Cardinality(ids)
AfterIds == IF req.surface = "social" THEN "local" ELSE "rows"

(* target_count, then the choice of the plan; limit <= 0 asks nothing.      *)
FeedCandidateIds ==
    /\ At("count")
    /\ req' = [req EXCEPT !.pc = CASE req.page.limit <= 0 -> AfterIds
                                   [] TargetCount(db, Source(req)) <= LateralMaxTargets -> "rest"
                                   [] OTHER -> "window"]

(* Faulty variant: the next window starts below the last id it excluded.    *)
WindowedIdsGap ==
    /\ At("window")
    /\ LET since == IF req.page.since = None THEN 0 ELSE req.page.since
           anchor == IF req.page.until = None THEN Now ELSE SnowflakeTime(req.page.until)
           lower == Max({SnowflakeFloor(anchor - WindowAges[req.win]) - 1, since})
           ids == req.ids \cup WindowIds(db, Source(req), req.upper, lower, Left(req.ids))
           full == Cardinality(ids) >= req.page.limit \/ lower = since
       IN  req' = [req EXCEPT !.ids = ids, !.upper = lower, !.win = @ + 1,
                     !.pc = IF full THEN AfterIds ELSE IF req.win = Len(WindowAges) THEN "rest" ELSE "window"]

(* One window of windowed_ids.                                             *)
WindowedIds ==
    /\ At("window")
    /\ LET since == IF req.page.since = None THEN 0 ELSE req.page.since
           anchor == IF req.page.until = None THEN Now ELSE SnowflakeTime(req.page.until)
           lower == Max({SnowflakeFloor(anchor - WindowAges[req.win]) - 1, since})
           ids == req.ids \cup WindowIds(db, Source(req), req.upper, lower, Left(req.ids))
           full == Cardinality(ids) >= req.page.limit \/ lower = since
       IN  req' = [req EXCEPT !.ids = ids, !.upper = lower + 1, !.win = @ + 1,
                     !.pc = IF full THEN AfterIds ELSE IF req.win = Len(WindowAges) THEN "rest" ELSE "window"]

(* lateral_ids: the whole page, or what the windows left of it.             *)
LateralRest ==
    /\ At("rest")
    /\ LET rest == Page(Left(req.ids), req.upper, req.page.since)
       IN  req' = [req EXCEPT !.ids = @ \cup LateralIds(db, Source(req), rest), !.pc = AfterIds]

(* The local half of social_timeline: merge, sort, dedup, truncate.         *)
SocialMerge ==
    /\ At("local")
    /\ LET local == PageOf(SocialLocalIds(db, req.viewer, req.excl), req.page)
       IN  req' = [req EXCEPT !.ids = Newest(@ \cup local, req.page.limit), !.pc = "rows"]

FetchRows ==
    /\ At("rows")
    /\ req' = [req EXCEPT !.rows = FetchFeedPosts(db, req.ids), !.pc = "renotes"]

Descend ==
    /\ At("descend")
    /\ req' = [req EXCEPT !.rows = ThreadDescendants(db, req.post, req.viewer, Cardinality(PostIds)),
                          !.pc = "renotes"]

Before ==
    /\ At("before")
    /\ \E n \in 0..req.page.limit :
          req' = [req EXCEPT !.rows = @ \cup ContextBefore(db, req.post, req.viewer, n), !.pc = "after"]
After ==
    /\ At("after")
    /\ \E n \in 0..req.page.limit :
          req' = [req EXCEPT !.rows = @ \cup ContextAfter(db, req.post, req.viewer, n), !.pc = "renotes"]

(* build_note_responses: the originals of the reposts, then the quoted      *)
(* posts of the rows and of those originals.                               *)
Refs(ids, kind) == {db.posts[p][kind] : p \in ids} \ {None}

(* Faulty variant: the embedded notes are looked up by id alone.            *)
FetchEmbeddedUnchecked(ids) == ids \cap Live(db)
FetchEmbedded(ids) == FindVisibleByIds(db, ids, req.viewer)

EmbedRenotes ==
    /\ At("renotes")
    /\ req' = [req EXCEPT !.renotes = FetchEmbedded(Refs(req.rows, "repost")), !.pc = "quotes"]
EmbedQuotes ==
    /\ At("quotes")
    /\ req' = [req EXCEPT !.quotes = FetchEmbedded(Refs(req.rows \cup req.renotes, "quote")), !.pc = "done"]

Respond == At("done") /\ req' = Idle

-----------------------------------------------------------------------------
(* Writes of other requests, one statement each *)

Change(new) ==
    /\ changes < MaxChanges
    /\ new # db
    /\ db' = new
    /\ req' = Watch(new, req)
    /\ changes' = changes + 1

FollowChange == \E v \in Local : \E t \in Actors \ {v} : Change(InsertAccepted(db, v, t)) \/ Change(DeleteFollow(db, v, t))
BlockChange == \E a \in Actors : \E b \in Actors \ {a} : Change(InsertBlock(db, a, b, None)) \/ Change(DeleteBlock(db, a, b))
MuteChange == \E v \in Local : \E t \in Actors \ {v} : Change(InsertMute(db, v, t)) \/ Change(DeleteMute(db, v, t))
RepostMuteChange == \E v \in Local : \E t \in Actors \ {v} : Change(InsertRepostMute(db, v, t)) \/ Change(DeleteRepostMute(db, v, t))
SuspendChange == \E a \in Actors : Change([db EXCEPT !.gone = @ \cup {a}]) \/ Change([db EXCEPT !.gone = @ \ {a}])
ListChange == \E a \in Actors :
    \/ Change([db EXCEPT !.list.members = @ \cup {a}])
    \/ Change([db EXCEPT !.list.members = @ \ {a}])
    \/ Change([db EXCEPT !.list.public = ~@])
DeleteChange == \E p \in Live(db) : Change(SoftDeletePost(db, p))
(* A post by anyone; a remote one keeps the id of the time it was written.  *)
PostChange ==
    \E p \in PostIds \ DOMAIN db.posts, a \in Actors, vis \in {"public", "followers_only"} :
        Change(InsertPost(db, p, Post(a, vis, None, None, None, {})))

-----------------------------------------------------------------------------

FeedsInit == db \in Tables /\ req = Idle /\ changes = 0

Pages == {Page(n, until, since) : n \in Limits, until \in Untils, since \in Sinces}

Handlers ==
    \/ \E v \in Local, page \in Pages, excl \in BOOLEAN :
          HomeTimeline(v, page, excl) \/ SocialTimeline(v, page, excl) \/ MentionsTimeline(v, page, excl)
    \/ \E v \in Viewers, page \in Pages :
          LocalTimeline(v, page, FALSE) \/ GlobalTimeline(v, page, FALSE) \/ TagTimeline(v, page) \/ ListTimeline(v, page)
    \/ \E v \in Viewers, page \in Pages, a \in Actors : TimelineByActor(a, v, page, FALSE)
    \/ \E v \in Viewers, p \in DOMAIN db.posts : GetNote(p, v) \/ NoteReplies(p, v) \/ NoteContext(p, v)

Queries ==
    \/ FeedCandidateIds \/ WindowedIds \/ LateralRest \/ SocialMerge \/ FetchRows
    \/ Descend \/ Before \/ After \/ EmbedRenotes \/ EmbedQuotes \/ Respond

Changes ==
    \/ FollowChange \/ BlockChange \/ MuteChange \/ RepostMuteChange
    \/ SuspendChange \/ ListChange \/ DeleteChange \/ PostChange

FeedsNext == Handlers \/ Queries \/ Changes
FeedsSpec == FeedsInit /\ [][FeedsNext]_feedsVars

-----------------------------------------------------------------------------
(* Properties *)

Done == req.pc = "done"

(* Whatever a response shows, in a row or embedded in one, the viewer could *)
(* see at some instant of the request: a row that was chosen while it was   *)
(* visible, never a post that was hidden from the viewer throughout.  The   *)
(* list timeline drops direct posts only; mentions show a direct post to its *)
(* recipients and to whom a notification about it went (feed.rs lateral_ids, *)
(* post.rs mentions_timeline).                                              *)
ShownWasVisible ==
    Done => /\ req.renotes \cup req.quotes \subseteq req.seen
            /\ req.surface \notin {"list", "mentions"} => req.rows \subseteq req.seen
            /\ \A p \in req.rows : db.posts[p].vis = "direct" =>
                  p \in req.seen \/ (req.surface = "mentions" /\ <<p, req.viewer>> \in db.notified)

(* A post that belonged to the timeline throughout the request is on the    *)
(* page, unless the page is full of later ones: the windows, the two plans   *)
(* of feed_candidate_ids and the merge of social_timeline leave no hole,     *)
(* whatever is followed, blocked, posted or deleted between the queries.     *)
PagesHaveNoHole ==
    Done /\ req.surface \in {"home", "social", "list"} =>
        \A p \in req.always :
            \/ p \in req.rows
            \/ Cardinality({q \in req.ids : q > p}) >= req.page.limit

(* An author the viewer blocked, muted or was blocked by, or who is gone,    *)
(* during the whole request has no row on a timeline.                       *)
HiddenStaysOut ==
    Done /\ req.surface \notin {"list", "mentions", "note"} =>
        \A p \in req.rows : db.posts[p].author \notin req.hidden

(* Both, of every page.                                                     *)
PagesShowVisible == ShownWasVisible /\ HiddenStaysOut
=============================================================================

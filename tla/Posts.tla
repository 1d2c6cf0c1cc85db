------------------------------- MODULE Posts -------------------------------
(***************************************************************************)
(* The posts table and the read side of repository/post.rs, feed.rs,       *)
(* hashtag.rs and list.rs: who may see a post, which posts a surface       *)
(* selects, and the page a query returns.  A post id is a snowflake: a     *)
(* larger id is a later post.  A query that orders by id and limits is the *)
(* set of its largest ids.                                                 *)
(*                                                                         *)
(*   db.posts     rows by id: author, vis, reply, quote, repost (ids or    *)
(*                None), to (recipients), tag, deleted                     *)
(*   db.list      one list: owner, public, members                         *)
(*   db.notified  pairs <<post, actor>> with a mention or reply notification*)
(***************************************************************************)
EXTENDS Relations, FiniteSetsExt

CONSTANTS
    MaxDepth        \* depth of thread_descendants (20)

Visibilities == {"public", "unlisted", "followers_only", "direct"}

Post(author, vis, reply, quote, repost, to) ==
    [author |-> author, vis |-> vis, reply |-> reply, quote |-> quote,
     repost |-> repost, to |-> to, deleted |-> FALSE]

Live(db) == {p \in DOMAIN db.posts : ~db.posts[p].deleted}
LocalPost(db, p) == db.posts[p].author \in Local
Own(db, v, p) == db.posts[p].author = v

-----------------------------------------------------------------------------
(* Visibility *)

(* post_visible_to_viewer_sql!: the viewer is an actor.                     *)
PostVisibleToViewer(db, v, p, excludeDirect) ==
    LET post == db.posts[p]
    IN  \/ post.vis \notin {"followers_only", "direct"}
        \/ post.vis = "followers_only" /\ (Own(db, v, p) \/ AcceptedFollow(db, v, post.author))
        \/ post.vis = "direct" /\ ~excludeDirect /\ (Own(db, v, p) \/ v \in post.to)

(* post_is_visible_to: an anonymous viewer sees local posts only.           *)
PostIsVisibleTo(db, v, p, excludeDirect) ==
    /\ v # None \/ LocalPost(db, p)
    /\ IF v = None THEN db.posts[p].vis \notin {"followers_only", "direct"}
       ELSE PostVisibleToViewer(db, v, p, excludeDirect)

(* post_reply_target_followed: a reply only to one's own or followed posts.*)
ReplyTargetFollowed(db, v, p) ==
    LET target == db.posts[p].reply
    IN  \/ target = None
        \/ target \in DOMAIN db.posts /\ (Own(db, v, target) \/ AcceptedFollow(db, v, db.posts[target].author))

RepostNotMuted(db, v, p) ==
    ~(db.posts[p].repost # None /\ RepostMuted(db, v, db.posts[p].author))

FollowingPostFilter(db, v, p, excludeDirect) ==
    /\ PostVisibleToViewer(db, v, p, excludeDirect)
    /\ ReplyTargetFollowed(db, v, p)
    /\ RepostNotMuted(db, v, p)

AuthorShown(db, v, p) == v = None \/ Own(db, v, p) \/ ~Hidden(db, v, db.posts[p].author)
RepostShown(db, v, p) == v = None \/ RepostNotMuted(db, v, p)

-----------------------------------------------------------------------------
(* Pages *)

Page(limit, until, since) == [limit |-> limit, until |-> until, since |-> since]
InPage(ids, page) == {p \in ids : (page.until = None \/ p < page.until) /\ (page.since = None \/ p > page.since)}
Newest(ids, n) == {p \in ids : Cardinality({q \in ids : q > p}) < n}
PageOf(ids, page) == Newest(InPage(ids, page), page.limit)

-----------------------------------------------------------------------------
(* repository/feed.rs *)

(* Candidates of one target of a FeedSource, before its own LIMIT.          *)
FollowingTargets(db, v) == {v} \cup {t \in AcceptedTargets(db, v) : ~Hidden(db, v, t)}

FollowingOf(db, v, t, excludeDirect) ==
    {p \in Live(db) : db.posts[p].author = t /\ FollowingPostFilter(db, v, p, excludeDirect)}

ListPostsOf(db, t) ==
    {p \in Live(db) : db.posts[p].author = t /\ db.posts[p].vis # "direct"}

TargetCount(db, source) ==
    CASE source.kind = "Following" -> Cardinality(AcceptedTargets(db, source.viewer))
      [] source.kind = "ListMembers" -> Cardinality(db.list.members)

(* One index scan per target, each with the LIMIT, then the LIMIT again.    *)
LateralIds(db, source, page) ==
    LET perTarget == CASE source.kind = "Following" ->
                            {PageOf(FollowingOf(db, source.viewer, t, source.excludeDirect), page) :
                                t \in FollowingTargets(db, source.viewer)}
                       [] source.kind = "ListMembers" ->
                            {PageOf(ListPostsOf(db, t), page) : t \in db.list.members}
    IN  Newest(UNION perTarget, page.limit)

(* The same posts in lower < id < upper by a scan of the whole range.       *)
WindowIds(db, source, upper, lower, limit) ==
    LET author(p) == db.posts[p].author
        chosen(p) == CASE source.kind = "Following" ->
                            /\ \/ author(p) = source.viewer
                               \/ /\ AcceptedFollow(db, source.viewer, author(p))
                                  /\ ~Hidden(db, source.viewer, author(p))
                            /\ FollowingPostFilter(db, source.viewer, p, source.excludeDirect)
                       [] source.kind = "ListMembers" ->
                            author(p) \in db.list.members /\ db.posts[p].vis # "direct"
    IN  Newest({p \in Live(db) : lower < p /\ p < upper /\ chosen(p)}, limit)

(* The second query: rows deleted since are dropped, nothing else is checked.*)
FetchFeedPosts(db, ids) == ids \cap Live(db)

-----------------------------------------------------------------------------
(* repository/post.rs, the single-query surfaces *)

LocalIds(db, v, excludeDirect) ==
    {p \in Live(db) :
        /\ LocalPost(db, p)
        /\ db.posts[p].vis \notin {"unlisted", "followers_only"}
        /\ AuthorShown(db, v, p) /\ RepostShown(db, v, p)
        /\ PostIsVisibleTo(db, v, p, excludeDirect)}

(* The local half of social_timeline.                                      *)
SocialLocalIds(db, v, excludeDirect) ==
    {p \in Live(db) :
        /\ LocalPost(db, p)
        /\ db.posts[p].vis # "unlisted" \/ Own(db, v, p)
        /\ AuthorShown(db, v, p) /\ RepostShown(db, v, p)
        /\ PostIsVisibleTo(db, v, p, excludeDirect)}

GlobalIds(db, v, excludeDirect) ==
    {p \in Live(db) :
        /\ db.posts[p].vis \notin {"unlisted", "followers_only"}
        /\ AuthorShown(db, v, p) /\ RepostShown(db, v, p)
        /\ PostIsVisibleTo(db, v, p, excludeDirect)}

ActorIds(db, a, v, excludeDirect) ==
    {p \in Live(db) :
        /\ db.posts[p].author = a
        /\ AuthorShown(db, v, p)
        /\ PostIsVisibleTo(db, v, p, excludeDirect)}

(* Neither visibility nor blocks are checked: being addressed is enough.    *)
MentionIds(db, v, onlyDirect) ==
    {p \in Live(db) :
        /\ ~Own(db, v, p)
        /\ \/ db.posts[p].vis = "direct" /\ v \in db.posts[p].to
           \/ ~onlyDirect /\ <<p, v>> \in db.notified}

TagIds(db, v) ==
    {p \in Live(db) :
        /\ db.posts[p].vis \in {"public", "unlisted"}
        /\ AuthorShown(db, v, p)
        /\ v # None \/ LocalPost(db, p)}

FindByIdForViewer(db, p, v) == {q \in Live(db) : q = p /\ PostIsVisibleTo(db, v, q, FALSE)}
FindVisibleByIds(db, ids, v) == {p \in ids \cap Live(db) : PostIsVisibleTo(db, v, p, FALSE)}

ContextBefore(db, p, v, n) == Newest({q \in ActorIds(db, db.posts[p].author, v, FALSE) : q < p}, n)
ContextAfter(db, p, v, n) ==
    LET later == {q \in ActorIds(db, db.posts[p].author, v, FALSE) : q > p}
    IN  {q \in later : Cardinality({o \in later : o < q}) < n}

(* Every post on the way down is shown to the viewer itself.                *)
ShownTo(db, v) == {p \in Live(db) : AuthorShown(db, v, p) /\ PostIsVisibleTo(db, v, p, FALSE)}
Below(db, ids, v) == {p \in ShownTo(db, v) : db.posts[p].reply \in ids \/ db.posts[p].quote \in ids}
ThreadDescendants(db, p, v, limit) ==
    LET level[d \in 1..MaxDepth] == Below(db, IF d = 1 THEN {p} ELSE level[d - 1], v)
        depth(q) == Min({d \in 1..MaxDepth : q \in level[d]})
        all == {q \in ShownTo(db, v) : \E d \in 1..MaxDepth : q \in level[d]}
        before(o, q) == depth(o) < depth(q) \/ (depth(o) = depth(q) /\ o < q)
    IN  {q \in all : Cardinality({o \in all : before(o, q)}) < limit}

-----------------------------------------------------------------------------
(* Writes another request may make between two queries *)

InsertPost(db, p, post) == [db EXCEPT !.posts = Put(@, p, post)]
SoftDeletePost(db, p) == [db EXCEPT !.posts[p].deleted = TRUE]
=============================================================================

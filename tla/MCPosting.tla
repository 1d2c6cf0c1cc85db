------------------------------ MODULE MCPosting ------------------------------
(* Notes, Feeds and Lists in one run: one of them takes steps, the variables  *)
(* of the other two have no value.                                          *)
EXTENDS Feeds, Lists

CONSTANTS me, al, ro, fe, st, bs, relay

MCActors == {me, al, ro}
MCLocal == {me, al}

-----------------------------------------------------------------------------
(* Feeds: a viewer, a local and a remote author; posts that quote, repost and *)
(* answer one another, the visibility of the two that matter chosen freely;  *)
(* windows of one and two ticks of two ids each.  The remote note 1 mentions *)
(* al without being addressed to them (create.rs handle_create_note).        *)

MCFollows == {{}, {<<me, ro>>}, {<<me, al>>, <<me, ro>>}}
MCPosts(x, y) ==
    1 :> Post(ro, x, None, None, None, {me}) @@
    2 :> Post(al, "public", None, 1, None, {}) @@
    3 :> Post(ro, "unlisted", None, None, 2, {}) @@
    5 :> Post(al, y, 1, None, None, {ro}) @@
    6 :> Post(ro, "public", 5, 5, None, {})
MCTables ==
    {[follows |-> [k \in f |-> NewFollow("accepted", None, FALSE)],
      blocks |-> <<>>, mutes |-> {}, repostMutes |-> {}, gone |-> {},
      posts |-> MCPosts(xy[1], xy[2]), notified |-> {<<6, me>>, <<1, al>>},
      list |-> [owner |-> me, public |-> FALSE, members |-> {al, ro}]] :
        f \in MCFollows,
        xy \in {<<"public", "direct">>, <<"followers_only", "unlisted">>, <<"direct", "followers_only">>}}
MCPostIds == 1..7
MCUntils == {None, 6}
MCSinces == {None, 2}
MCWindowAges == <<1, 2>>

-----------------------------------------------------------------------------
(* Notes: two local users, a follower and a stranger on the fediverse, a     *)
(* Bluesky user and a relay; each script is a handful of requests that meet. *)

NotesActors == {me, al, fe, st, bs}
MCActorType == (me :> "local") @@ (al :> "local") @@ (fe :> "fedi") @@ (st :> "remote_seiran") @@ (bs :> "bsky")

Plain(a, vis, ap, at) ==
    Post(a, vis, None, None, None, {}) @@
    [fedi |-> TRUE, bsky |-> at # None, ap |-> ap, at |-> at, repostKey |-> None, bridgeOf |-> None, apBridge |-> None,
     atBridge |-> None, poll |-> None, mentions |-> {}, cw |-> FALSE, root |-> None]
(* 1: al, on both networks; 2: st; 3: bs, copied to the fediverse as 6;      *)
(* 4: al, for followers; 5: me, a poll; 7: me, a second post.                *)
MCRows ==
    1 :> Plain(al, "public", TRUE, 11) @@
    2 :> Plain(st, "unlisted", TRUE, None) @@
    3 :> [Plain(bs, "public", FALSE, 0) EXCEPT !.apBridge = 6] @@
    4 :> Plain(al, "followers_only", TRUE, None) @@
    5 :> [Plain(me, "public", TRUE, 15) EXCEPT !.poll = [multiple |-> FALSE, closed |-> FALSE, votes |-> <<0, 0>>]] @@
    6 :> [Plain(st, "public", TRUE, None) EXCEPT !.bridgeOf = 3] @@
    7 :> Plain(me, "public", TRUE, 17)
PostRecord(a, p, k) == [owner |-> a, coll |-> "post", key |-> k, of |-> p, embed |-> None, app |-> TRUE]
MCRecords == {PostRecord(al, 1, 11), PostRecord(me, 5, 15), PostRecord(me, 7, 17)}
MCDb(fs) ==
    [posts |-> MCRows, follows |-> [k \in fs |-> NewFollow("accepted", None, FALSE)],
     blocks |-> <<>>, mutes |-> {}, repostMutes |-> {}, gone |-> {}, notified |-> {},
     list |-> [owner |-> me, public |-> FALSE, members |-> {}],
     reactions |-> <<>>, votes |-> {}, pins |-> [a \in MCLocal |-> <<>>],
     counts |-> (me :> 2) @@ (al :> 2), contacts |-> [a \in MCLocal |-> {}]]

Req(op, a) ==
    [op |-> op, by |-> a, vis |-> None, reply |-> None, quote |-> None, on |-> None, to |-> {}, fedi |-> TRUE, bsky |-> TRUE,
     poll |-> None, cw |-> FALSE, mentions |-> {}, media |-> None, choice |-> None, url |-> FALSE, len |-> 1,
     content |-> None, options |-> {}, rkey |-> 0, coll |-> None, writes |-> <<>>]
On(op, a, p) == [Req(op, a) EXCEPT !.on = p]
Note(a, vis) == [Req("note", a) EXCEPT !.vis = vis]
Script(reqs, nfaults, ncrashes, fs, roles) ==
    [requests |-> reqs, faults |-> nfaults, crashes |-> ncrashes, db |-> MCDb(fs), records |-> MCRecords,
     roles |-> roles, movedOut |-> {}]

Users == [a \in MCLocal |-> "user"]
Friends == {<<fe, me>>, <<me, al>>, <<fe, al>>}
MCQuarantined == (me :> "quarantine") @@ (al :> "moderator")

MCPrivate ==
    {Script({[Note(me, v) EXCEPT !.reply = 4, !.mentions = {st}], [Note(me, v) EXCEPT !.quote = q],
             [Req("record", me) EXCEPT !.reply = 4, !.quote = q, !.rkey = 12]}, 0, 0, Friends, roles) :
        v \in {"public", "home", None}, q \in {4, 6}, roles \in {Users, MCQuarantined}}
MCWarned ==
    {Script({[Note(me, "unlisted") EXCEPT !.media = m, !.cw = w, !.mentions = {st}, !.quote = 1],
             [Note(me, "unlisted") EXCEPT !.media = "video", !.mentions = {al}]}, 1, 0, Friends, Users) :
        m \in {None, "image", "failedVideo"}, w \in BOOLEAN}
MCDirect ==
    {Script({[Note(me, "specified") EXCEPT !.to = {fe, st, al}], [Note(al, "direct") EXCEPT !.reply = 8, !.to = {me}],
             [Note(me, "direct") EXCEPT !.to = {bs}, !.len = 2], [On("react", al, 8) EXCEPT !.content = "x"]}, 0, 0, Friends, Users)}
MCReact ==
    {Script({[On("react", me, 1) EXCEPT !.content = "x"], [On("react", me, 1) EXCEPT !.content = "y"],
             [On("unreact", me, 1) EXCEPT !.content = c]}, 1, 1, Friends, Users) : c \in {None, "x"}}
MCRepost ==
    {Script({On("repost", me, p), [On("repost", me, p) EXCEPT !.fedi = FALSE], On("unrepost", me, p)}, 1, 1, Friends, Users) :
        p \in {1, 2, 3, 4, 6}}
MCVote ==
    {Script({[On("vote", me, 5) EXCEPT !.options = {1}], [On("vote", me, 5) EXCEPT !.options = {2}],
             [On("vote", al, 5) EXCEPT !.options = {1, 2}], [On("remoteVote", fe, 5) EXCEPT !.options = {1}],
             [On("remoteVote", fe, 5) EXCEPT !.options = {1}, !.rkey = 1]}, 0, 0, Friends, Users)}
MCPin ==
    {Script({On("pin", me, 5), On("pin", me, 7), On("unpin", me, 5), On("pin", me, 1)}, 1, 0, Friends, Users)}
MCWrites ==
    LET like == [On("put", me, 1) EXCEPT !.coll = "like", !.rkey = 2]
        post == [Req("record", me) EXCEPT !.reply = 1, !.quote = 3, !.rkey = 12]
    IN  {Script({[post EXCEPT !.writes = <<like, [like EXCEPT !.op = "drop"]>>], post, [like EXCEPT !.rkey = 3],
                 [Req("erase", me) EXCEPT !.rkey = 12]}, 1, 1, Friends, roles) : roles \in {Users, MCQuarantined}}
MCDelete ==
    {Script({[Note(me, "public") EXCEPT !.bsky = b, !.reply = 1], On("delete", me, 8),
             [On("delete", me, 8) EXCEPT !.rkey = 1], On("delete", al, 8)}, 1, 1, Friends, Users) : b \in BOOLEAN}
MCNotesScripts == MCPrivate \cup MCWarned \cup MCDirect \cup MCReact \cup MCRepost \cup MCVote \cup MCPin \cup MCWrites \cup MCDelete

-----------------------------------------------------------------------------
(* Lists: two lists; a Fediverse and a Bluesky member.                       *)

MCNames == {"l1", "l2"}
MCMembers == {"fe", "bs"}

NewList(l, p) == [op |-> "create", list |-> l, public |-> p]
TurnList(l, p) == [op |-> "update", list |-> l, public |-> p]
DropList(l) == [op |-> "delete", list |-> l]
AddTo(l, a) == [op |-> "add", list |-> l, actor |-> a]
TakeFrom(l, a) == [op |-> "remove", list |-> l, actor |-> a]
JoinRelay(r) == [op |-> "join", relay |-> r]
LeaveRelay(r) == [op |-> "leave", relay |-> r]
ListRun(ops, n, f) == [ops |-> ops, atOnce |-> n, faults |-> f, leaves |-> 0]

MCListScripts ==
    {ListRun({NewList("l1", TRUE), NewList("l2", FALSE), AddTo("l1", "fe"), AddTo("l2", "fe"), TakeFrom("l1", "fe"), TakeFrom("l2", "fe")}, 1, 0),
     ListRun({NewList("l1", FALSE), AddTo("l1", "bs"), TurnList("l1", TRUE), TurnList("l1", FALSE), AddTo("l1", "fe"), DropList("l1")}, 1, 0),
     ListRun({NewList("l1", TRUE), AddTo("l1", "bs"), TurnList("l1", FALSE), TurnList("l1", TRUE), TakeFrom("l1", "bs")}, 2, 0),
     ListRun({NewList("l1", TRUE), AddTo("l1", "bs"), AddTo("l1", "fe"), DropList("l1")}, 2, 1),
     ListRun({NewList("l1", TRUE), AddTo("l1", "bs"), TurnList("l1", FALSE), TurnList("l1", TRUE)}, 1, 1),
     ListRun({NewList("l1", TRUE), NewList("l2", TRUE), AddTo("l2", "bs"), DropList("l1"), TurnList("l1", FALSE)}, 2, 0),
     [ListRun({JoinRelay("r1"), LeaveRelay("r1"), JoinRelay("r2"), LeaveRelay("r2")}, 2, 1) EXCEPT !.leaves = 1]}

-----------------------------------------------------------------------------
VARIABLES which,
    tables, published, profile, lastKey, requests, todo, tasks, deliveries, rowLock, asked, errors, crashes, lone, sent
notes == <<tables, published, profile, lastKey, requests, todo, tasks, deliveries, rowLock, asked, errors, crashes, lone, sent>>

N == INSTANCE Notes WITH
        Actors <- NotesActors, Local <- MCLocal, ActorType <- MCActorType, Relays <- {relay}, Scripts <- MCNotesScripts,
        Calls <- {1, 2}, MaxPins <- 1, MaxPosts <- 5, MaxContacts <- 2, MaxAttempts <- 2,
        db <- tables, records <- published, nextKey <- lastKey, calls <- requests, jobs <- deliveries, lock <- rowLock,
        script <- asked, faults <- errors

NoFeeds == db = None /\ req = Idle /\ changes = None
NoNotes ==
    /\ tables = None /\ published = None /\ profile = None /\ lastKey = None /\ requests = None /\ todo = None /\ tasks = None
    /\ deliveries = None /\ rowLock = None /\ asked = None /\ errors = None /\ crashes = None /\ lone = None /\ sent = None
NoLists ==
    /\ lists = None /\ rows = None /\ records = None /\ nextKey = None /\ follows = None /\ far = None /\ relays = None
    /\ joined = None /\ mail = None /\ calls = None /\ jobs = None /\ script = None /\ faults = None /\ hist = [calm |-> FALSE, over |-> {}, stale |-> {}]

MCInit ==
    \/ which = "feeds" /\ FeedsInit /\ NoNotes /\ NoLists
    \/ which = "notes" /\ N!Init /\ NoFeeds /\ NoLists
    \/ which = "lists" /\ ListsInit /\ NoFeeds /\ NoNotes
MCNext ==
    \/ which = "feeds" /\ FeedsNext /\ UNCHANGED <<which, notes, listsVars>>
    \/ which = "notes" /\ N!Next /\ UNCHANGED <<which, feedsVars, listsVars>>
    \/ which = "lists" /\ ListsNext /\ UNCHANGED <<which, feedsVars, notes>>
MCSpec == MCInit /\ [][MCNext]_<<which, feedsVars, notes, listsVars>>

(* Nothing private leaves the server, by whichever API a post is made.        *)
PrivacyKept == which = "notes" => N!PrivateStaysIn /\ N!PrivateKept
(* Counts and tallies are exact whatever requests meet, and the AT repository *)
(* is what the database says once requests that did not meet are through.     *)
PostsAccounted == which = "notes" => N!CountsMatch /\ N!VotesHold /\ N!LoneCallSettles
====

-------------------------------- MODULE Dm --------------------------------
(***************************************************************************)
(* Direct messages with Bluesky users: the jobs that send a message, a      *)
(* reaction or a deletion to the chat service (bsky_dm_send.rs,             *)
(* bsky_dm_reaction.rs), the poll that fetches what happened there          *)
(* (bsky_dm_poll.rs), and the handlers of threads, read marks and           *)
(* reactions (dm.rs, dm_bsky_reactions.rs).                                 *)
(*                                                                         *)
(* A conversation is a pair <<local user, peer>>; the chat service, which    *)
(* is external, keeps the sequence of its messages.  Post ids are            *)
(* snowflakes of the time a message was written: a message imported late     *)
(* has the id of the moment it was sent.  Besides the fields of Posts a      *)
(* row has root (thread_root_post_id) and msg (bsky_message_id).             *)
(*                                                                         *)
(*   db.links      bsky_convo_links by thread root: convo, last (message)    *)
(*   db.read       dm_read_states by <<actor, root>>                         *)
(*   db.reactions  dm_bsky_reactions: <<post, actor, emoji>>                 *)
(*   db.hiddenDms  dm_hidden_messages: <<actor, post>>                       *)
(***************************************************************************)
EXTENDS Posts

CONSTANTS
    Scripts,        \* requests, what peers do in the chat service, database, conversations; bounds: faults
    Calls,          \* slots for requests under way at the same time
    PageSize,       \* messages of a page of getMessages (100)
    MaxPages,       \* MAX_INITIAL_SYNC_PAGES
    MaxMessages,    \* MAX_INITIAL_SYNC_MESSAGES
    MaxReactions,   \* MAX_BSKY_DM_REACTIONS_PER_MESSAGE
    DmAttempts      \* attempts of a job

(* What the tables and the chat service hold before the first step: rows and *)
(* messages with their columns, snowflakes drawn once, and cursors behind    *)
(* which every message of the peer is a post.                                *)
RowOk(row) ==
    /\ DOMAIN row = {"author", "vis", "reply", "quote", "repost", "to", "deleted", "root", "msg"}
    /\ row.to \subseteq Actors
MessageOk(m) == DOMAIN m = {"from", "at", "post", "reactions", "gone"} /\ m.at \in Nat
DbOk(d, n) ==
    /\ {"posts", "links", "read", "reactions", "hiddenDms"} \subseteq DOMAIN d
    /\ DOMAIN d.posts \subseteq 1..n
    /\ \A p \in DOMAIN d.posts : RowOk(d.posts[p])
    /\ \A r \in DOMAIN d.links : d.links[r].convo \in Actors \X Actors
    /\ \A k \in DOMAIN d.read : d.read[k] \in Nat
ChatOk(ch, n) ==
    /\ DOMAIN ch \subseteq Actors \X Actors
    /\ \A c \in DOMAIN ch :
          /\ ch[c] = [i \in 1..Len(ch[c]) |-> ch[c][i]] /\ Len(ch[c]) \in Nat
          /\ \A i \in 1..Len(ch[c]) : MessageOk(ch[c][i]) /\ ch[c][i].at \in 1..n
Imported(d, c, i) == \E p \in DOMAIN d.posts : d.posts[p].msg = <<c, i>>
(* Of the peer's messages of the page, those up to the k-th are posts.         *)
Covered(d, ch, c, k) ==
    /\ c \in DOMAIN ch /\ k \in 0..Len(ch[c])
    /\ \A i \in 1..k : ch[c][i].from # c[1] /\ Len(ch[c]) - i < PageSize => Imported(d, c, i)
CursorsOk(d, ch) ==
    \A r \in DOMAIN d.links :
        \/ d.links[r].last = None
        \/ \E c \in DOMAIN ch : \E k \in 1..Len(ch[c]) : d.links[r].last = <<c, k>> /\ Covered(d, ch, c, k)
(* A snowflake is drawn once: for a post or for a message, whose post has it. *)
SnowflakesOk(d, ch) ==
    \A c \in DOMAIN ch : \A i \in 1..Len(ch[c]) :
        /\ \A b \in DOMAIN ch : \A k \in 1..Len(ch[b]) : ch[b][k].at = ch[c][i].at => b = c /\ k = i
        /\ ch[c][i].at \in DOMAIN d.posts => d.posts[ch[c][i].at].msg = <<c, i>>
RequestOk(r) ==
    /\ r.op \in {"send", "react", "unreact", "hide", "read"}
    /\ r.by \in Local /\ (r.op = "send" => r.to \in Actors)
ASSUME ScriptsAssumption ==
    \A s \in Scripts :
        /\ s.clock \in Nat
        /\ DbOk(s.db, s.clock) /\ ChatOk(s.chat, s.clock) /\ CursorsOk(s.db, s.chat) /\ SnowflakesOk(s.db, s.chat)
        /\ \A r \in s.requests : RequestOk(r)
        /\ \A e \in s.events : e.convo \in Actors \X Actors
ASSUME PageSizeAssumption == PageSize \in Nat \ {0}
ASSUME NullAssumption == None \notin (Actors \X Actors) \X Nat

VARIABLES
    db, chat,       \* the tables; the messages of each conversation in the chat service
    clock,          \* the last snowflake
    calls, todo, events,
    jobs,           \* jobs queued or under way
    poll,           \* the round of the poller
    dmFaults,       \* bound on failures
    seen            \* history: the newest message when a completed read mark was asked for, by <<actor, root>>

dmVars == <<db, chat, clock, calls, todo, events, jobs, poll, dmFaults, seen>>

NoCall == [op |-> "none"]
Called(r) == [op |-> r.op, by |-> r.by, on |-> r.on, to |-> r.to, content |-> r.content, pc |-> r.op, latest |-> None]
At(s, l) == calls[s].op # "none" /\ calls[s].pc = l
Row(p) == db.posts[p]
DmPost(author, reply, to, root, msg) ==
    [author |-> author, vis |-> "direct", reply |-> reply, quote |-> None, repost |-> None, to |-> to,
     deleted |-> FALSE, root |-> root, msg |-> msg]
Larger(a, b) == IF a > b THEN a ELSE b
Smaller(a, b) == IF a < b THEN a ELSE b

-----------------------------------------------------------------------------
(* repository/dm.rs: threads *)

Takes(a, p) == Own(db, a, p) \/ a \in Row(p).to
InThread(root) == {p \in Live(db) : Row(p).root = root}
IsParticipant(root, a) == \E p \in InThread(root) : Takes(a, p)
LatestPostId(root) == IF InThread(root) = {} THEN None ELSE Max(InThread(root))
Peers(root, a) == UNION {{Row(p).author} \cup Row(p).to : p \in InThread(root)} \ {a}

(* Shown unless every other participant is muted or blocked.                *)
VisibleThread(root, a) == Peers(root, a) = {} \/ \E q \in Peers(root, a) : ~Hidden(db, a, q)
Sessions(a) == {r \in {Row(p).root : p \in {q \in Live(db) : Row(q).root # None}} : IsParticipant(r, a) /\ VisibleThread(r, a)}

ReadState(a, root) == IF <<a, root>> \in DOMAIN db.read THEN db.read[<<a, root>>] ELSE 0
ReceivedUnread(a, root) == {p \in InThread(root) : a \in Row(p).to /\ p > ReadState(a, root)}
UnreadSessions(a) == {r \in Sessions(a) : ReceivedUnread(a, r) # {}}

(* What the list of sessions flags: its last message, whoever sent it.      *)
FlaggedUnread(a) == {r \in Sessions(a) : LatestPostId(r) > ReadState(a, r)}

MarkedRead(a, root, p) == [db EXCEPT !.read = Put(@, <<a, root>>, Larger(ReadState(a, root), p))]

-----------------------------------------------------------------------------
(* repository/dm.rs: messages of the chat service *)

PostIdByBskyMessageId(m) == {p \in DOMAIN db.posts : Row(p).msg = m}
ConvoIdForThread(root) == IF root \in DOMAIN db.links THEN db.links[root].convo ELSE None
RootOf(p) == IF Row(p).root = None THEN p ELSE Row(p).root
BskyDmContext(p) ==
    IF RootOf(p) \in DOMAIN db.links THEN [convo |-> db.links[RootOf(p)].convo, msg |-> Row(p).msg] ELSE None
BskyPeer(p) == {a \in Row(p).to : a \notin Local}

SavedConvoId(root, c) ==
    [db EXCEPT !.links = Put(@, root, [convo |-> c, last |-> IF root \in DOMAIN @ THEN @[root].last ELSE None])]
AdvancedConvoCursor(d, root, c, m) ==
    [d EXCEPT !.links = Put(@, root, [convo |-> IF root \in DOMAIN @ THEN @[root].convo ELSE c, last |-> m])]

(* One transaction: the row unless the message has one, the recipient and   *)
(* the cursor of the thread the row is in.                                  *)
ImportBskyDm(c, m, at, candidate) ==
    LET known == PostIdByBskyMessageId(m)
        id == IF known = {} THEN at ELSE CHOOSE p \in known : TRUE
        root == IF known = {} THEN candidate ELSE RootOf(id)
        fresh == DmPost(c[2], None, {}, candidate, m)
        inserted == IF known = {} THEN [db EXCEPT !.posts = Put(@, id, fresh)] ELSE db
    IN  [db |-> AdvancedConvoCursor([inserted EXCEPT !.posts[id].to = @ \cup {c[1]}], root, c, m), root |-> root]

(* Faulty variant: what is gone in the chat service stays.                  *)
SyncBskyReactionsAdd(p, latest) == [db EXCEPT !.reactions = @ \cup {<<p, r[1], r[2]>> : r \in latest}]
SyncBskyReactions(p, latest) ==
    [db EXCEPT !.reactions = {r \in @ : r[1] # p} \cup {<<p, r[1], r[2]>> : r \in latest}]

-----------------------------------------------------------------------------
(* The chat service, external *)

Message(from, at, post) == [from |-> from, at |-> at, post |-> post, reactions |-> {}, gone |-> {}]
Said(c) == IF c \in DOMAIN chat THEN chat[c] ELSE <<>>
Reacted(c, i, reactions) == [chat EXCEPT ![c][i].reactions = reactions]
GoneFor(c, i, actors) == [chat EXCEPT ![c][i].gone = actors]
Appended(c, m) == Put(chat, c, Append(Said(c), m))

(* What happens without seiran: a peer, or the user in another client,       *)
(* writes or reacts.                                                         *)
ChatEvent(e) ==
    /\ events' = events \ {e}
    /\ \/ /\ e.op = "write"
          /\ chat' = Appended(e.convo, Message(e.by, clock + 1, None))
          /\ clock' = clock + 1
       \/ /\ e.op \in {"react", "unreact"}
          /\ e.convo \in DOMAIN chat /\ e.on <= Len(chat[e.convo])
          /\ LET shown == chat[e.convo][e.on].reactions
             IN  \/ /\ e.op = "react" /\ Cardinality(shown) < MaxReactions
                    /\ chat' = Reacted(e.convo, e.on, shown \cup {<<e.by, e.content>>})
                 \/ e.op = "unreact" /\ chat' = Reacted(e.convo, e.on, shown \ {<<e.by, e.content>>})
          /\ UNCHANGED clock
    /\ UNCHANGED <<db, calls, todo, jobs, poll, dmFaults, seen>>

-----------------------------------------------------------------------------
(* Handlers *)

Job(kind, p, a, content) ==
    [kind |-> kind, post |-> p, by |-> a, content |-> content, pc |-> "ready", convo |-> None, msg |-> None, attempts |-> 0]

(* A job that cannot be queued is logged.                                    *)
Enqueue(wanted, job) ==
    \/ jobs' = jobs \cup (IF wanted THEN {job} ELSE {}) /\ UNCHANGED dmFaults
    \/ wanted /\ dmFaults > 0 /\ dmFaults' = dmFaults - 1 /\ UNCHANGED jobs

End(s) == calls' = [calls EXCEPT ![s] = NoCall]
GoOn(s, l) == calls' = [calls EXCEPT ![s].pc = l]
Rest == UNCHANGED <<chat, clock, todo, events, poll>>

Start(s) ==
    /\ calls[s] = NoCall
    /\ \E r \in todo :
        /\ r.op = "send" \/ r.on \in Live(db)
        /\ todo' = todo \ {r}
        /\ calls' = [calls EXCEPT ![s] = Called(r)]
    /\ UNCHANGED <<db, chat, clock, events, jobs, poll, dmFaults, seen>>

(* create_note of a direct message: the row with the thread of the parent,   *)
(* then BskyDmSend.                                                          *)
SendDm(s) ==
    LET c == calls[s]
        id == clock + 1
        reply == IF c.on \in Live(db) THEN c.on ELSE None
        parent == IF reply # None /\ Row(reply).vis = "direct" THEN Row(reply).root ELSE None
        row == DmPost(c.by, reply, {c.to}, IF parent = None THEN id ELSE parent, None)
    IN  /\ At(s, "send")
        /\ clock' = id
        /\ db' = [db EXCEPT !.posts = Put(@, id, row)]
        /\ Enqueue(TRUE, Job("send", id, c.by, None))
        /\ End(s)
        /\ UNCHANGED <<chat, todo, events, poll, seen>>

(* The checks and the count, then the insert.                                *)
CreateDmBskyReaction(s) ==
    LET c == calls[s]
        count == Cardinality({r \in db.reactions : r[1] = c.on})
        ok == PostIsVisibleTo(db, c.by, c.on, FALSE) /\ BskyDmContext(c.on) # None /\ count < MaxReactions
    IN  /\ At(s, "react")
        /\ IF ok THEN GoOn(s, "insert") ELSE End(s)
        /\ UNCHANGED <<db, jobs, dmFaults, seen>> /\ Rest

(* What was there already is refused.                                        *)
AddBskyReaction(s) ==
    LET c == calls[s]
        r == <<c.on, c.by, c.content>>
    IN  /\ At(s, "insert")
        /\ End(s)
        /\ db' = [db EXCEPT !.reactions = @ \cup {r}]
        /\ Enqueue(r \notin db.reactions, Job("add", c.on, c.by, c.content))
        /\ UNCHANGED seen /\ Rest

DeleteDmBskyReaction(s) ==
    LET c == calls[s]
        r == <<c.on, c.by, c.content>>
        ok == PostIsVisibleTo(db, c.by, c.on, FALSE) /\ r \in db.reactions
    IN  /\ At(s, "unreact")
        /\ End(s)
        /\ db' = IF ok THEN [db EXCEPT !.reactions = @ \ {r}] ELSE db
        /\ Enqueue(ok, Job("remove", c.on, c.by, c.content))
        /\ UNCHANGED seen /\ Rest

HideDmMessage(s) ==
    LET c == calls[s]
        ok == PostIsVisibleTo(db, c.by, c.on, FALSE)
    IN  /\ At(s, "hide")
        /\ End(s)
        /\ db' = IF ok THEN [db EXCEPT !.hiddenDms = @ \cup {<<c.by, c.on>>}] ELSE db
        /\ Enqueue(ok /\ BskyDmContext(c.on) # None, Job("hide", c.on, c.by, None))
        /\ UNCHANGED seen /\ Rest

(* mark_read: the newest message of the thread, then the mark.               *)
ReadLatest(s) ==
    LET c == calls[s]
        root == RootOf(c.on)
    IN  /\ At(s, "read")
        /\ calls' = [calls EXCEPT ![s] = IF ~IsParticipant(root, c.by) THEN NoCall
                                         ELSE [c EXCEPT !.pc = "mark", !.latest = LatestPostId(root)]]
        /\ UNCHANGED <<db, jobs, dmFaults, seen>> /\ Rest
MarkRead(s) ==
    LET c == calls[s]
        k == <<c.by, RootOf(c.on)>>
    IN  /\ At(s, "mark")
        /\ db' = MarkedRead(c.by, RootOf(c.on), c.latest)
        /\ seen' = Put(seen, k, Larger(c.latest, IF k \in DOMAIN seen THEN seen[k] ELSE 0))
        /\ End(s)
        /\ UNCHANGED <<jobs, dmFaults>> /\ Rest

-----------------------------------------------------------------------------
(* Jobs *)

Finish(j) == jobs' = jobs \ {j}
Proceed(j, k) == jobs' = (jobs \ {j}) \cup {k}
JobRest == UNCHANGED <<clock, calls, todo, events, poll, seen>>

(* An error puts the job back until its attempts are used up; the chat       *)
(* service may have done what was asked (the answer is lost) or not.         *)
AfterError(j) ==
    IF j.attempts + 1 = DmAttempts THEN jobs \ {j}
    ELSE (jobs \ {j}) \cup {[Job(j.kind, j.post, j.by, j.content) EXCEPT !.attempts = j.attempts + 1]}
JobFails(j) == dmFaults > 0 /\ dmFaults' = dmFaults - 1 /\ jobs' = AfterError(j)

(* bsky_dm_send: the conversation of the thread, asked for once.             *)
ResolveConvoId(j) ==
    LET cached == ConvoIdForThread(Row(j.post).root)
    IN  /\ j.kind = "send" /\ j.pc = "ready"
        /\ \/ \E q \in BskyPeer(j.post) :
                 LET c == IF cached # None THEN cached ELSE <<j.by, q>>
                 IN  /\ chat' = Put(chat, c, Said(c))
                     /\ Proceed(j, [j EXCEPT !.pc = IF cached # None THEN "post" ELSE "save", !.convo = c])
                     /\ UNCHANGED dmFaults
           \/ JobFails(j) /\ UNCHANGED chat
        /\ UNCHANGED db /\ JobRest
SaveConvoId(j) ==
    /\ j.pc = "save"
    /\ \/ db' = SavedConvoId(Row(j.post).root, j.convo) /\ Proceed(j, [j EXCEPT !.pc = "post"])
          /\ UNCHANGED dmFaults
       \/ JobFails(j) /\ UNCHANGED db
    /\ UNCHANGED chat /\ JobRest

(* sendMessage; 400 ends the job, and so does success, whose message id is   *)
(* kept by a second statement.                                               *)
SendMessage(j) ==
    LET sent == Appended(j.convo, Message(j.by, clock + 1, j.post))
    IN  /\ j.kind = "send" /\ j.pc = "post"
        /\ \/ /\ chat' = sent /\ clock' = clock + 1 /\ UNCHANGED dmFaults
              /\ Proceed(j, [j EXCEPT !.pc = "setid", !.msg = <<j.convo, Len(chat[j.convo]) + 1>>])
           \/ Finish(j) /\ dmFaults > 0 /\ dmFaults' = dmFaults - 1 /\ UNCHANGED <<chat, clock>>
           \/ JobFails(j) /\ UNCHANGED <<chat, clock>>
           \/ JobFails(j) /\ chat' = sent /\ clock' = clock + 1
        /\ UNCHANGED <<db, calls, todo, events, poll, seen>>
SetBskyMessageId(j) ==
    /\ j.pc = "setid"
    /\ Finish(j)
    /\ \/ db' = [db EXCEPT !.posts[j.post].msg = j.msg] /\ UNCHANGED dmFaults
       \/ dmFaults > 0 /\ dmFaults' = dmFaults - 1 /\ UNCHANGED db
    /\ UNCHANGED chat /\ JobRest

(* send_action: nothing to do without a conversation or a message id.        *)
SendAction(j) ==
    LET ctx == BskyDmContext(j.post)
        found == ctx # None /\ Row(j.post).msg # None
    IN  /\ j.kind # "send" /\ j.pc = "ready"
        /\ \/ ~found /\ Finish(j) /\ UNCHANGED dmFaults
           \/ /\ found
              /\ Proceed(j, [j EXCEPT !.pc = "post", !.convo = ctx.convo, !.msg = ctx.msg])
              /\ UNCHANGED dmFaults
           \/ JobFails(j)
        /\ UNCHANGED <<db, chat>> /\ JobRest

(* addReaction is refused with 400 at the limit of the chat service.         *)
Done(j) ==
    LET c == j.msg[1]
        i == j.msg[2]
    IN  CASE j.kind = "add" ->
               IF Cardinality(chat[c][i].reactions) >= MaxReactions THEN chat
               ELSE Reacted(c, i, chat[c][i].reactions \cup {<<j.by, j.content>>})
          [] j.kind = "remove" -> Reacted(c, i, chat[c][i].reactions \ {<<j.by, j.content>>})
          [] j.kind = "hide" -> GoneFor(c, i, chat[c][i].gone \cup {j.by})
PostAction(j) ==
    /\ j.kind # "send" /\ j.pc = "post"
    /\ \/ Finish(j) /\ chat' = Done(j) /\ UNCHANGED dmFaults
       \/ JobFails(j) /\ chat' \in {chat, Done(j)}
    /\ UNCHANGED db /\ JobRest

-----------------------------------------------------------------------------
(* The poll of bsky_dm_poll.rs *)

Idle == [pc |-> "idle", left |-> {}, convo |-> None, root |-> None, last |-> None, upto |-> 0, pages |-> 0,
         news |-> <<>>, fetched |-> <<>>]
PollRest == UNCHANGED <<chat, clock, calls, todo, events, jobs, seen>>

(* poll_once, poll_user: the conversations of the users with a key.          *)
PollOnce ==
    /\ poll.pc = "idle"
    /\ poll' = [Idle EXCEPT !.pc = "convo", !.left = {c \in DOMAIN chat : c[1] \in Local}]
    /\ UNCHANGED <<db, dmFaults>> /\ PollRest

(* One of the rows of the conversation, when there are several.              *)
LoadConvoLink ==
    /\ poll.pc = "convo"
    /\ \/ poll.left = {} /\ poll' = Idle
       \/ \E c \in poll.left :
            LET rows == {r \in DOMAIN db.links : db.links[r].convo = c}
                from == [poll EXCEPT !.pc = "fetch", !.left = @ \ {c}, !.convo = c, !.upto = Len(chat[c]),
                                     !.pages = 0, !.news = <<>>, !.fetched = <<>>]
            IN  \/ rows = {} /\ poll' = [from EXCEPT !.root = None, !.last = None]
                \/ \E r \in rows : poll' = [from EXCEPT !.root = r, !.last = db.links[r].last]
    /\ UNCHANGED <<db, dmFaults>> /\ PollRest

(* A page, newest first, up to the message the cursor is at; only a           *)
(* conversation never synchronised is paged.                                  *)
PageIds(upto) == [k \in 1..Smaller(PageSize, upto) |-> upto + 1 - k]
Known(ids) == {k \in DOMAIN ids : poll.last = <<poll.convo, ids[k]>>}
Fresh(ids) == IF Known(ids) = {} THEN ids ELSE SubSeq(ids, 1, (CHOOSE k \in Known(ids) : TRUE) - 1)
FetchConvoMessages ==
    LET c == poll.convo
        upto == IF poll.pages = 0 THEN Len(chat[c]) ELSE poll.upto
        ids == PageIds(upto)
        news == poll.news \o Fresh(ids)
        more == /\ poll.last = None /\ Known(ids) = {} /\ upto > PageSize
                /\ poll.pages + 1 < MaxPages /\ Len(news) < MaxMessages
        viewed == [k \in DOMAIN ids |-> [id |-> ids[k], of |-> chat[c][ids[k]]]]
    IN  /\ poll.pc = "fetch"
        /\ poll' = [poll EXCEPT !.news = news, !.fetched = @ \o viewed, !.pages = @ + 1,
                                !.upto = upto - PageSize, !.pc = IF more THEN "fetch" ELSE "sync"]
        /\ UNCHANGED <<db, dmFaults>> /\ PollRest

(* What was fetched replaces the reactions of a message that has a row; a    *)
(* message deleted for the user has none to show.                            *)
SyncMessageReactions ==
    /\ poll.pc = "sync"
    /\ \/ poll.fetched = <<>> /\ poll' = [poll EXCEPT !.pc = "import"] /\ UNCHANGED db
       \/ /\ poll.fetched # <<>>
          /\ poll' = [poll EXCEPT !.fetched = Tail(@)]
          /\ LET m == poll.fetched[1]
                 rows == PostIdByBskyMessageId(<<poll.convo, m.id>>)
             IN  db' = IF rows = {} \/ poll.convo[1] \in m.of.gone THEN db
                       ELSE SyncBskyReactions(CHOOSE p \in rows : TRUE, m.of.reactions)
    /\ UNCHANGED dmFaults /\ PollRest

(* The oldest of the new messages.  Faulty variant: the newest first.        *)
NextMessageNewest(news) == [id |-> news[1], rest |-> Tail(news)]
NextMessage(news) == [id |-> news[Len(news)], rest |-> SubSeq(news, 1, Len(news) - 1)]

(* One's own messages only move the cursor; the peer's are imported.         *)
ImportMessage ==
    /\ poll.pc = "import"
    /\ \/ poll.news = <<>> /\ poll' = [poll EXCEPT !.pc = "convo"] /\ UNCHANGED db
       \/ /\ poll.news # <<>>
          /\ LET c == poll.convo
                 oldest == NextMessage(poll.news)
                 m == chat[c][oldest.id]
                 id == <<c, oldest.id>>
                 imported == ImportBskyDm(c, id, m.at, IF poll.root = None THEN m.at ELSE poll.root)
             IN  \/ /\ m.from = c[1]
                    /\ db' = IF poll.root = None THEN db ELSE AdvancedConvoCursor(db, poll.root, c, id)
                    /\ poll' = [poll EXCEPT !.news = oldest.rest]
                 \/ /\ m.from # c[1]
                    /\ db' = imported.db
                    /\ poll' = [poll EXCEPT !.news = oldest.rest, !.root = imported.root]
    /\ UNCHANGED dmFaults /\ PollRest

(* An error ends the conversation's turn; one while synchronising reactions  *)
(* is only logged.                                                           *)
PollFails ==
    /\ dmFaults > 0 /\ dmFaults' = dmFaults - 1
    /\ \/ poll.pc \in {"fetch", "import"} /\ poll' = [poll EXCEPT !.pc = "convo"]
       \/ poll.pc = "sync" /\ poll' = [poll EXCEPT !.pc = "import", !.fetched = <<>>]
    /\ UNCHANGED db /\ PollRest

-----------------------------------------------------------------------------
DmInitWith(script) ==
    /\ db = script.db /\ chat = script.chat /\ clock = script.clock
    /\ todo = script.requests /\ events = script.events /\ dmFaults = script.faults
    /\ calls = [s \in Calls |-> NoCall] /\ jobs = {} /\ poll = Idle /\ seen = script.db.read
DmInit == \E script \in Scripts : DmInitWith(script)

CallStep(s) ==
    \/ Start(s) \/ SendDm(s) \/ CreateDmBskyReaction(s) \/ AddBskyReaction(s) \/ DeleteDmBskyReaction(s)
    \/ HideDmMessage(s) \/ ReadLatest(s) \/ MarkRead(s)
JobStep(j) == ResolveConvoId(j) \/ SaveConvoId(j) \/ SendMessage(j) \/ SetBskyMessageId(j) \/ SendAction(j) \/ PostAction(j)
PollStep == PollOnce \/ LoadConvoLink \/ FetchConvoMessages \/ SyncMessageReactions \/ ImportMessage
DmNext ==
    \/ \E s \in Calls : CallStep(s)
    \/ \E j \in jobs : JobStep(j)
    \/ \E e \in events : ChatEvent(e)
    \/ PollStep \/ PollFails

(* The poller repeats its round every minute, workers take jobs, and calls   *)
(* run to their end.                                                         *)
DmSpec ==
    /\ DmInit /\ [][DmNext]_dmVars
    /\ WF_dmVars(PollStep) /\ WF_dmVars(\E j \in jobs : JobStep(j)) /\ \A s \in Calls : WF_dmVars(CallStep(s))

-----------------------------------------------------------------------------
(* Properties *)

Newer(c, i) == Len(chat[c]) - i
Synced(c, i) ==
    \E r \in DOMAIN db.links :
        LET last == db.links[r].last
        IN  db.links[r].convo = c /\ last # None /\ last[1] = c /\ last[2] >= i
Received(c, i) == chat[c][i].from # c[1]

(* Of the messages of a page, none from the peer is behind the cursor of a   *)
(* conversation without being a post: the cursor of bsky_convo_links moves   *)
(* with the import, in the order of the messages, whichever row of the       *)
(* conversation a round of the poll reads and wherever it fails.             *)
NothingSkipped ==
    \A c \in DOMAIN chat : \A i \in DOMAIN chat[c] :
        Received(c, i) /\ Newer(c, i) < PageSize /\ Synced(c, i) => PostIdByBskyMessageId(<<c, i>>) # {}

(* unread_session_count counts the shown threads with a received message      *)
(* later than every one that was the newest of its thread when the user      *)
(* asked to mark it, however marks from two clients, sends and imports        *)
(* interleave, and the list of sessions flags each of them.                  *)
Seen(a, root) == IF <<a, root>> \in DOMAIN seen THEN seen[<<a, root>>] ELSE 0
UnreadExact ==
    \A a \in Local :
        /\ UnreadSessions(a) = {r \in Sessions(a) : \E p \in InThread(r) : a \in Row(p).to /\ p > Seen(a, r)}
        /\ UnreadSessions(a) \subseteq FlaggedUnread(a)

(* No message of a page is skipped, and the unread count is exact.           *)
DmSafe == NothingSkipped /\ UnreadExact

(* Once nobody does anything more, the last page of every conversation is    *)
(* here: the peer's messages are posts and the reactions of each message     *)
(* that has a row are those of the chat service, whatever was reacted here   *)
(* and there meanwhile and whatever job or poll failed.                      *)
PageHere(c) ==
    \A i \in DOMAIN chat[c] :
        Newer(c, i) < PageSize =>
            /\ Received(c, i) => PostIdByBskyMessageId(<<c, i>>) # {}
            /\ c[1] \notin chat[c][i].gone =>
                \A p \in PostIdByBskyMessageId(<<c, i>>) :
                    {<<r[2], r[3]>> : r \in {x \in db.reactions : x[1] = p}} = chat[c][i].reactions
Converges == <>[](\A c \in DOMAIN chat : PageHere(c))

(* bsky_dm_send.rs, its heading: a direct message is sent to its recipient.  *)
SentToRecipient ==
    \A c \in DOMAIN chat : \A i \in DOMAIN chat[c] : chat[c][i].post # None => c[2] \in Row(chat[c][i].post).to
=============================================================================

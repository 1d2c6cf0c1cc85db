------------------------------- MODULE Streams -------------------------------
(***************************************************************************)
(* Live updates over WebSockets.  Handlers and jobs of any process publish   *)
(* stream events (common streaming.rs) on the event bus (event_bus.rs): with *)
(* Redis each process sends its events through one task and hands out what   *)
(* its subscription brings; without Redis they stay in the process.  A       *)
(* connection of the web client (handlers/streaming.rs) forwards events; one *)
(* of a Mastodon client (mastodon/streaming.rs) takes an event for its actor *)
(* as a hint to read the notification table 0.8 s later, and reads it every  *)
(* 30 s besides.                                                            *)
(*                                                                         *)
(* An operation publishes and inserts its notification in separate steps;    *)
(* the id of a notification is drawn before the row is committed.  Faults:   *)
(* the subscription to Redis is lost, a send to Redis fails (with or without *)
(* having arrived), a read or a send to the client fails.                    *)
(***************************************************************************)
EXTENDS Integers, FiniteSets, Sequences, SequencesExt, FiniteSetsExt

CONSTANTS
    None,
    Procs, Conns, At,       \* processes; connections, and the process of each
    Style, Viewer,          \* "web" or "mastodon", and the actor, of each connection
    Followers,              \* [actors -> accepted local followers]
    ListOwner, PublicLists, \* owners of the lists; the public ones
    Capacity,               \* STREAM_EVENTS_CAPACITY
    ListLimit,              \* notifications read at once (20)
    Scripts                 \* operations, client messages, Redis or not; bounds: faults

VARIABLES
    table, muted,           \* notifications; <<actor, actor>> hidden from each other
    nextId,                 \* last id drawn
    tasks,                  \* operations under way: what each has still to do
    outbound, wire, linked, \* per process: events to send, events on the way, subscribed
    conn,                   \* connections
    script, faults,         \* what may still be asked for; failures left
    hist                    \* history of each connection: base, due, sent, skipped

vars == <<table, muted, nextId, tasks, outbound, wire, linked, conn, script, faults, hist>>
bus == <<outbound, wire, linked>>

-----------------------------------------------------------------------------
(* Events and channels *)

Event(to, all, scope) == [to |-> to, all |-> all, scope |-> scope]
Channel(k, x) == [kind |-> k, arg |-> x]

(* parse: a list or a tag is named, or there is no channel.                 *)
ParseChannel(k, x) ==
    IF k \in {"home", "local", "hybrid", "global"} THEN Channel(k, None)
    ELSE IF k \in {"list", "hashtag"} /\ x # None THEN Channel(k, x)
    ELSE None

(* ChannelScope: to which channels a new note belongs, for a viewer.        *)
Matches(sc, ch, v) ==
    LET publicIsh == sc.visibility \notin {"unlisted", "followers_only"}
    IN  CASE ch.kind = "home" -> v \in sc.home
          [] ch.kind = "local" -> sc.local /\ publicIsh
          [] ch.kind = "hybrid" -> (sc.local /\ publicIsh) \/ v \in sc.home
          [] ch.kind = "global" -> publicIsh
          [] ch.kind = "list" -> ch.arg \in sc.lists
          [] ch.kind = "hashtag" -> sc.visibility # "followers_only" /\ ch.arg \in sc.tags

(* What an operation publishes.                                             *)
PublishEvent(to) == Event(to, FALSE, None)
PublishBroadcast == Event({}, TRUE, None)
PublishChannelNote(scope) == Event({}, FALSE, scope)
BroadcastReactionUpdate(author) == PublishEvent({author} \cup Followers[author])
BroadcastDmReactionUpdate(author, recipients) == PublishEvent({author} \cup recipients)
BroadcastPollUpdate(author) == PublishEvent({author} \cup Followers[author])
BroadcastNewNote(o) ==
    PublishChannelNote([local |-> o.local, visibility |-> o.visibility, home |-> {o.by} \cup Followers[o.by],
                        lists |-> o.lists, tags |-> o.tags])

(* The steps of an operation: publish, draw an id, commit the row.          *)
Pub(e) == [do |-> "publish", ev |-> e]
Draw(o) == [do |-> "draw", to |-> o.to, by |-> o.by]
NotifyLocalActor(o) == IF o.to = o.by THEN <<>> ELSE <<Pub(PublishEvent({o.to})), Draw(o)>>
FollowLocal(o) == <<Draw(o), Pub(PublishEvent({o.to}))>>
CreateReaction(o) ==
    NotifyLocalActor(o) \o
        <<Pub(IF o.direct THEN BroadcastDmReactionUpdate(o.to, {o.by}) ELSE BroadcastReactionUpdate(o.to))>>
CreateNote(o) == NotifyLocalActor(o) \o <<Pub(BroadcastNewNote(o))>>
Steps(o) ==
    CASE o.op = "react" -> CreateReaction(o)
      [] o.op = "note" -> CreateNote(o)
      [] o.op = "follow" -> FollowLocal(o)
      [] o.op = "dm" -> <<Pub(PublishEvent({o.by, o.to}))>>
      [] o.op = "vote" -> <<Pub(BroadcastPollUpdate(o.to))>>
      [] o.op = "link" -> <<Pub(PublishBroadcast)>>

-----------------------------------------------------------------------------
(* The event bus *)

(* A connection that reads too slowly loses the oldest events (Lagged).      *)
Offered(c, es) ==
    IF conn[c].pc = "closed" THEN conn[c]
    ELSE LET all == conn[c].rx \o es
         IN  [conn[c] EXCEPT !.rx = IF Len(all) > Capacity THEN SubSeq(all, Len(all) - Capacity + 1, Len(all)) ELSE all]
SendLocal(p, es) == [c \in Conns |-> IF At[c] = p THEN Offered(c, es) ELSE conn[c]]

(* publish: to the sending task, or to this process when there is no Redis.  *)
Publish(p, e) ==
    \/ /\ script.redis
       /\ outbound' = [outbound EXCEPT ![p] = Append(@, e)]
       /\ UNCHANGED <<wire, linked, conn>>
    \/ /\ ~script.redis
       /\ conn' = SendLocal(p, <<e>>)
       /\ UNCHANGED bus

Delivered(e) == [q \in Procs |-> IF linked[q] THEN Append(wire[q], e) ELSE wire[q]]

(* A failed send may have arrived all the same; its process hands the event   *)
(* out itself.                                                              *)
RunPublisher(p) ==
    /\ outbound[p] # <<>>
    /\ outbound' = [outbound EXCEPT ![p] = Tail(@)]
    /\ \/ wire' = Delivered(Head(outbound[p])) /\ UNCHANGED <<conn, faults>>
       \/ /\ faults > 0 /\ faults' = faults - 1
          /\ conn' = SendLocal(p, <<Head(outbound[p])>>)
          /\ wire' \in {wire, Delivered(Head(outbound[p]))}
    /\ UNCHANGED <<table, muted, nextId, tasks, linked, script, hist>>

RunSubscriber(p) ==
    /\ wire[p] # <<>>
    /\ conn' = SendLocal(p, <<Head(wire[p])>>)
    /\ wire' = [wire EXCEPT ![p] = Tail(@)]
    /\ UNCHANGED <<table, muted, nextId, tasks, outbound, linked, script, faults, hist>>

(* The subscription breaks off, and is made again after three seconds.      *)
Unsubscribed(p) ==
    /\ linked[p] /\ faults > 0 /\ script.redis
    /\ linked' = [linked EXCEPT ![p] = FALSE] /\ wire' = [wire EXCEPT ![p] = <<>>]
    /\ faults' = faults - 1
    /\ UNCHANGED <<table, muted, nextId, tasks, outbound, conn, script, hist>>
SubscribeOnce(p) ==
    /\ ~linked[p] /\ linked' = [linked EXCEPT ![p] = TRUE]
    /\ UNCHANGED <<table, muted, nextId, tasks, outbound, wire, conn, script, faults, hist>>

-----------------------------------------------------------------------------
(* Operations *)

Begin(o) ==
    /\ o \in script.ops
    /\ script' = [script EXCEPT !.ops = @ \ {o}]
    /\ tasks' = tasks \cup {[op |-> o, rest |-> Steps(o)]}
    /\ UNCHANGED <<table, muted, nextId, bus, conn, faults, hist>>

Advance(t) == tasks' = (tasks \ {t}) \cup (IF Len(t.rest) > 1 THEN {[t EXCEPT !.rest = Tail(@)]} ELSE {})

PublishStep(t) ==
    /\ Head(t.rest).do = "publish"
    /\ Publish(t.op.proc, Head(t.rest).ev)
    /\ Advance(t)
    /\ UNCHANGED <<table, muted, nextId, script, faults, hist>>

(* generate_snowflake_id, then insert: two notifications may be committed in  *)
(* the other order.  The row is left out when the two hide from each other.   *)
DrawId(t) ==
    /\ Head(t.rest).do = "draw"
    /\ nextId' = nextId + 1
    /\ tasks' = (tasks \ {t}) \cup {[t EXCEPT !.rest[1] = [do |-> "commit", row |-> [id |-> nextId + 1, to |-> @.to, by |-> @.by]]]}
    /\ UNCHANGED <<table, muted, bus, conn, script, faults, hist>>

Hidden(n) == <<n.to, n.by>> \in muted
InsertNotification(n) == IF Hidden(n) THEN table ELSE table \cup {n}
Due(c, n) == Style[c] = "mastodon" /\ conn[c].pc = "open" /\ Viewer[c] = n.to /\ ~Hidden(n) /\ conn[c].last < n.id
CommitStep(t) ==
    /\ Head(t.rest).do = "commit"
    /\ LET n == Head(t.rest).row
       IN  /\ table' = InsertNotification(n)
           /\ hist' = [c \in Conns |-> IF Due(c, n) THEN [hist[c] EXCEPT !.due = @ \cup {n.id}] ELSE hist[c]]
    /\ Advance(t)
    /\ UNCHANGED <<muted, nextId, bus, conn, script, faults>>

Mute(a, b) ==
    /\ <<a, b>> \in script.mutes /\ muted' = muted \cup {<<a, b>>}
    /\ script' = [script EXCEPT !.mutes = @ \ {<<a, b>>}]
    /\ UNCHANGED <<table, nextId, tasks, bus, conn, faults, hist>>

-----------------------------------------------------------------------------
(* Connections *)

Closed == [pc |-> "closed"]
Close(c) == conn' = [conn EXCEPT ![c] = Closed]

(* A Mastodon stream: its channel, and whether notifications belong to it.   *)
Stream(ch, n) == [channel |-> ch, notifications |-> n]
ParseStream(k, x) ==
    CASE k = "user" -> Stream(Channel("home", None), TRUE)
      [] k = "user:notification" -> Stream(None, TRUE)
      [] k = "public" -> Stream(Channel("global", None), FALSE)
      [] k = "public:local" -> Stream(Channel("local", None), FALSE)
      [] k \in {"hashtag", "list"} /\ x # None -> Stream(Channel(k, x), FALSE)
      [] OTHER -> None

(* The owner of a list, or anybody when it is public.                       *)
Authorize(v, ch) == ch = None \/ ch.kind # "list" \/ ch.arg \in PublicLists \/ ListOwner[ch.arg] = v
Parsed(c, k, x) ==
    IF Style[c] = "mastodon" THEN ParseStream(k, x)
    ELSE IF ParseChannel(k, x) = None THEN None ELSE Stream(ParseChannel(k, x), FALSE)
Accepted(c, k, x) == Parsed(c, k, x) # None /\ Authorize(Viewer[c], Parsed(c, k, x).channel)

(* Subscribed to the bus before anything is read.                           *)
Connect(c) ==
    /\ conn[c].pc = "closed" /\ script.connects[c] > 0
    /\ script' = [script EXCEPT !.connects[c] = @ - 1]
    /\ conn' = [conn EXCEPT ![c] =
            [pc |-> IF Style[c] = "web" THEN "open" ELSE "baseline", rx |-> <<>>, armed |-> FALSE, last |-> None,
             subs |-> {Parsed(c, i[1], i[2]) : i \in script.initial[c]}]]
    /\ UNCHANGED <<table, muted, nextId, tasks, bus, faults, hist>>

WantsNotifications(c) == \E s \in conn[c].subs : s.notifications

(* notifications.list: the newest ones above the last id, at most a page.    *)
Above(c, id) == {n \in table : n.to = Viewer[c] /\ n.id > id /\ ~Hidden(n)}
Page(ns) == {n \in ns : Cardinality({m \in ns : m.id > n.id}) < ListLimit}
Rows(c) == Page(Above(c, IF conn[c].last = None THEN 0 ELSE conn[c].last))
NewestId(ns) == Max({n.id : n \in ns})

(* The first check sets the base line and sends nothing; without a stream    *)
(* that wants notifications it reads nothing, and the base line is zero.     *)
Baseline(c) == IF WantsNotifications(c) /\ Rows(c) # {} THEN NewestId(Rows(c)) ELSE 0
SetBaseline(c) ==
    /\ conn[c].pc = "baseline"
    /\ \/ /\ conn' = [conn EXCEPT ![c].pc = "open", ![c].last = Baseline(c)]
          /\ hist' = [hist EXCEPT ![c] = [base |-> IF Above(c, 0) = {} \/ ~WantsNotifications(c) THEN 0 ELSE NewestId(Above(c, 0)),
                                          due |-> {}, sent |-> <<>>, skipped |-> {}]]
          /\ UNCHANGED faults
       \/ /\ faults > 0 /\ faults' = faults - 1                    \* the read fails
          /\ conn' = [conn EXCEPT ![c].pc = "open", ![c].last = 0]
          /\ hist' = [hist EXCEPT ![c] = [base |-> 0, due |-> {}, sent |-> <<>>, skipped |-> {}]]
    /\ UNCHANGED <<table, muted, nextId, tasks, bus, script>>

(* notification_frames: the last id moves before the notifications are built. *)
InOrder(ns) == SetToSortSeq(ns, LAMBDA m, n : m.id < n.id)
LastAfterOldest(c, rows) == Min({n.id : n \in rows})
LastAfter(c, rows) == NewestId(rows)
NotificationFrames(c, armed) ==
    LET rows == Rows(c)
    IN  \/ /\ ~WantsNotifications(c) \/ rows = {}
           /\ conn' = [conn EXCEPT ![c].armed = armed] /\ UNCHANGED <<faults, hist>>
        \/ /\ WantsNotifications(c) /\ rows # {}
           /\ conn' = [conn EXCEPT ![c].armed = armed, ![c].last = LastAfter(c, rows)]
           /\ hist' = [hist EXCEPT ![c].sent = @ \o [i \in 1 .. Cardinality(rows) |-> InOrder(rows)[i].id],
                                   ![c].skipped = @ \cup {n.id : n \in Above(c, conn[c].last) \ rows}]
           /\ UNCHANGED faults
        \/ /\ WantsNotifications(c) /\ rows # {} /\ faults > 0      \* build_notifications fails
           /\ conn' = [conn EXCEPT ![c].armed = armed, ![c].last = LastAfter(c, rows)]
           /\ hist' = [hist EXCEPT ![c].skipped = @ \cup {n.id : n \in Above(c, conn[c].last)}]
           /\ faults' = faults - 1

(* An event arrives: a hint, and a note for the streams it belongs to; what   *)
(* the viewer may not see, find_status drops (module Posts).                 *)
Arms(c, e) == Style[c] = "mastodon" /\ Viewer[c] \in e.to /\ WantsNotifications(c)
Frames(c, e) ==
    (IF Style[c] = "web" /\ (e.all \/ Viewer[c] \in e.to) THEN {"event"} ELSE {})
        \cup {s \in conn[c].subs : e.scope # None /\ s.channel # None /\ Matches(e.scope, s.channel, Viewer[c])}
Receive(c) ==
    /\ conn[c].pc = "open" /\ conn[c].rx # <<>>
    /\ LET e == Head(conn[c].rx)
       IN  \/ conn' = [conn EXCEPT ![c].rx = Tail(@), ![c].armed = @ \/ Arms(c, e)] /\ UNCHANGED faults
           \/ Frames(c, e) # {} /\ faults > 0 /\ faults' = faults - 1 /\ Close(c)
    /\ UNCHANGED <<table, muted, nextId, tasks, bus, script, hist>>

SettleTick(c) ==
    /\ conn[c].pc = "open" /\ conn[c].armed
    /\ NotificationFrames(c, FALSE)
    /\ UNCHANGED <<table, muted, nextId, tasks, bus, script>>

PeriodicTickPing(c) == conn[c].pc = "open" /\ Style[c] = "mastodon" /\ UNCHANGED vars
PeriodicTick(c) ==
    /\ conn[c].pc = "open" /\ Style[c] = "mastodon"
    /\ NotificationFrames(c, conn[c].armed)
    /\ UNCHANGED <<table, muted, nextId, tasks, bus, script>>

(* connect / subscribe, disconnect / unsubscribe; a wrong one changes nothing. *)
ClientMessage(c, m) ==
    /\ m \in script.messages[c] /\ conn[c].pc = "open"
    /\ script' = [script EXCEPT !.messages[c] = @ \ {m}]
    /\ conn' = [conn EXCEPT ![c].subs =
            IF m.do = "unsubscribe" THEN @ \ {Parsed(c, m.stream, m.arg)}
            ELSE IF Accepted(c, m.stream, m.arg) THEN @ \cup {Parsed(c, m.stream, m.arg)} ELSE @]
    /\ UNCHANGED <<table, muted, nextId, tasks, bus, faults, hist>>

(* The client goes, or the process stops and says so.                       *)
Disconnect(c) ==
    /\ conn[c].pc = "open" /\ script.connects[c] > 0
    /\ Close(c)
    /\ UNCHANGED <<table, muted, nextId, tasks, bus, script, faults, hist>>
Shutdown(p) ==
    /\ p \in script.stops /\ script' = [script EXCEPT !.stops = @ \ {p}]
    /\ conn' = [c \in Conns |-> IF At[c] = p THEN Closed ELSE conn[c]]
    /\ outbound' = [outbound EXCEPT ![p] = <<>>] /\ wire' = [wire EXCEPT ![p] = <<>>]
    /\ tasks' = {t \in tasks : t.op.proc # p}
    /\ UNCHANGED <<table, muted, nextId, linked, faults, hist>>

-----------------------------------------------------------------------------
InitWith(s) ==
    /\ script = [x \in DOMAIN s \ {"old", "faults"} |-> s[x]]
    /\ faults = s.faults /\ nextId = Cardinality(s.old) /\ table = s.old
    /\ muted = {} /\ tasks = {}
    /\ outbound = [p \in Procs |-> <<>>] /\ wire = [p \in Procs |-> <<>>] /\ linked = [p \in Procs |-> TRUE]
    /\ conn = [c \in Conns |-> Closed]
    /\ hist = [c \in Conns |-> [base |-> 0, due |-> {}, sent |-> <<>>, skipped |-> {}]]
Init == \E s \in Scripts : InitWith(s)

Task == \E t \in tasks : PublishStep(t) \/ DrawId(t) \/ CommitStep(t)
Next ==
    \/ \E o \in script.ops : Begin(o)
    \/ Task
    \/ \E m \in script.mutes : Mute(m[1], m[2])
    \/ \E p \in Procs : RunPublisher(p) \/ RunSubscriber(p) \/ Unsubscribed(p) \/ SubscribeOnce(p) \/ Shutdown(p)
    \/ \E c \in Conns : Connect(c) \/ SetBaseline(c) \/ Receive(c) \/ SettleTick(c) \/ PeriodicTick(c) \/ Disconnect(c)
    \/ \E c \in Conns : \E m \in script.messages[c] : ClientMessage(c, m)

(* The timers fire, the tasks and the loops of the connections go on; nobody  *)
(* has to ask for anything.                                                 *)
Fairness ==
    /\ WF_vars(Task)
    /\ \A p \in Procs : WF_vars(RunPublisher(p)) /\ WF_vars(RunSubscriber(p)) /\ WF_vars(SubscribeOnce(p))
    /\ \A c \in Conns : /\ WF_vars(SetBaseline(c)) /\ WF_vars(Receive(c))
                        /\ WF_vars(SettleTick(c)) /\ WF_vars(PeriodicTick(c))
Spec == Init /\ [][Next]_vars /\ Fairness

-----------------------------------------------------------------------------
(* A connection sends no notification twice, and sends them in the order of   *)
(* their ids, whatever the hint, the timer and the order of the commits do    *)
(* (notification_frames moves last_notification_id).                         *)
SentOnce == \A c \in Conns : \A i, j \in 1 .. Len(hist[c].sent) : i < j => hist[c].sent[i] < hist[c].sent[j]

(* What was there when the connection was made is not sent as news            *)
(* (mastodon/streaming.rs: the first check only sets the base line), unless   *)
(* that first read failed or the client asked for notifications only later,   *)
(* which both leave the base line at zero.                                  *)
OnlyNews == \A c \in Conns : \A i \in 1 .. Len(hist[c].sent) : hist[c].sent[i] > hist[c].base

(* A notification is missed only in ways the code has: more than a page came  *)
(* between two reads, or its row was committed after a newer one was read, or *)
(* reading failed.  Lost, late and duplicated hints, a lagging receiver and a *)
(* broken subscription to Redis only delay it (the check every 30 s).         *)
Missed(c, id) == id \notin hist[c].skipped \cup Range(hist[c].sent) /\ \A n \in table : n.id = id => ~Hidden(n)
Notified ==
    <>[](\A c \in Conns : conn[c].pc = "open" /\ WantsNotifications(c) => \A id \in hist[c].due : ~Missed(c, id))
====

-------------------------------- MODULE MCPeers --------------------------------
(* DeferredCommit, Remote and Streams in one run: one of them takes steps, the *)
(* others are left in an initial state.                                     *)
EXTENDS DeferredCommit, Sequences, TLC
ASSUME AttemptsAssumption /\ DelaysAssumption /\ TimeoutAssumption

CONSTANTS None, c1, c2,
    Parts, RemoteScripts, StreamScripts     \* which of them run

-----------------------------------------------------------------------------
(* Remote: a profile with every kind of claim, link and bridge, and a follow  *)
(* list longer than one live fetch.                                         *)

MCPersons == {"me", "ann", "bea", "sky", "sol", "duo", "bri"}
MCKind == [p \in MCPersons |-> CASE p = "me" -> "local" [] p \in {"sky", "sol"} -> "bsky" [] p = "duo" -> "remote_seiran" [] OTHER -> "fedi"]
MCReal == [p \in MCPersons |-> CASE p = "bri" -> "sky" [] p = "sol" -> "bea" [] OTHER -> None]
MCLink == [p \in MCPersons |-> CASE p = "sky" -> "toPost" [] p = "me" -> "toBea" [] p = "sol" -> "toNothing" [] p = "bea" -> "toSky" [] OTHER -> None]
MCTarget == [u \in {"toPost", "toBea", "toNothing", "toSky"} |->
    CASE u = "toPost" -> [way |-> "url", to |-> "p1", by |-> "ann"] [] u = "toBea" -> [way |-> "name", to |-> "bea", by |-> None]
      [] u = "toSky" -> [way |-> "bsky", to |-> "p3", by |-> "sky"] [] OTHER -> None]
MCByDid == {<<"duo", "sky">>, <<"bri", "me">>}

Document == [name |-> "n0", inbox |-> TRUE, at |-> "a0", avatar |-> "v0", aka |-> {}, list |-> {}, pins |-> {}, software |-> "s"]
World == [p \in MCPersons |-> Document]
Tables(known) ==
    [known |-> known, profile |-> [p \in MCPersons |-> [name |-> IF MCKind[p] = "bsky" THEN "a0" ELSE "n0", avatar |-> "v0"]],
     handle |-> [p \in MCPersons |-> IF p = "me" THEN "local" ELSE "at"], pins |-> [p \in MCPersons |-> {}], posts |-> {},
     aka |-> {}, verified |-> {}, snap |-> [p \in MCPersons |-> None], bridge |-> [p \in MCPersons |-> None],
     meta |-> [p \in MCPersons |-> "full"], links |-> [u \in DOMAIN MCTarget |-> None]]
Script(ops, changes, d, w, n) == [ops |-> ops, changes |-> changes, db |-> d, world |-> w, faults |-> n, slots |-> 1]
Two(s) == [s EXCEPT !.slots = 2]    \* two jobs or requests at a time
Edit(p, f, v) == [of |-> p, edit |-> (f :> v)]
Views(p) == {<<"view", p>>}

(* A profile whose owner edits it while it is being looked at.              *)
MCEdited == {Script(Views("ann"), {Edit("ann", "name", "n1")}, [Tables({"me", "ann"}) EXCEPT !.meta["ann"] = None], World, 1),
             Script(Views("ann"), {Edit("ann", "pins", {"p1"}), Edit("ann", "avatar", None)}, Tables({"me", "ann"}), World, 0),
             Two(Script(Views("duo"), {Edit("duo", "at", "a1")}, Tables({"me", "duo"}), World, 0))}
(* Claims: one that becomes mutual, one by DID, one of a local user, and the *)
(* local user's own list.                                                   *)
MCClaims == {Script(Views("ann"), {Edit("bea", "aka", {"ann"})}, Tables({"me", "ann"}), [World EXCEPT !["ann"].aka = {"bea"}], 1),
             Script(Views("duo"), {}, Tables({"me", "duo"}), [World EXCEPT !["duo"].aka = {"sky"}], 0),
             Two(Script(Views("me") \cup {<<"add", "bea">>, <<"remove", "bea">>}, {}, Tables({"me"}), [World EXCEPT !["bea"].aka = {"me"}], 0)),
             Script(Views("ann") \cup {<<"add", "ann">>}, {}, Tables({"me", "ann"}), [World EXCEPT !["ann"].aka = {"me"}], 0)}
MCLinks == {Two(Script(Views("sky"), {}, Tables({"me", "sky"}), World, 0)),
            Script(Views("sky"), {}, Tables({"me", "sky"}), World, 1),
            Script(Views("sol"), {}, Tables({"me", "sol"}), World, 0),
            Script({<<"handle", "sol">>}, {}, Tables({"me", "sol"}), [World EXCEPT !["sol"].pins = {"p2"}], 1),
            Script({<<"handle", "sky">>, <<"handle", "me">>, <<"add", "me">>}, {}, Tables({"me"}), World, 0),
            Script(Views("bri"), {}, Tables({"me", "bri"}), World, 1),
            Script(Views("bea") \cup {<<"first", "bea">>}, {}, Tables({"me"}), [World EXCEPT !["bea"].pins = {"p1"}], 0),
            Script({<<"first", "bri">>}, {}, Tables({"me", "sky"}), [World EXCEPT !["bri"].pins = {"p1"}], 1)}
MCLists == {Two(Script({<<"open", "ann">>}, {}, Tables({"me", "ann", "bea", "bri"}), [World EXCEPT !["ann"].list = {"bea", "bri"}], 0)),
            Script({<<"open", "ann">>}, {}, Tables({"me", "ann"}), [World EXCEPT !["ann"].list = {"bea"}], 1),
            Script({<<"open", "ann">>}, {Edit("bea", "inbox", FALSE)}, Tables({"me", "ann"}), [World EXCEPT !["ann"].list = {"bea"}], 0),
            Script({<<"open", "ann">>}, {Edit("ann", "list", {"bri", "me"})}, Tables({"me", "ann", "bri"}), [World EXCEPT !["ann"].list = {"bri"}], 0),
            Script({<<"open", "ann">>}, {Edit("ann", "list", {"bea"})}, Tables({"me", "ann"}), [World EXCEPT !["ann"].list = None], 0)}
MCRemoteScripts == MCEdited \cup MCClaims \cup MCLinks \cup MCLists

-----------------------------------------------------------------------------
(* Streams: two processes, a Mastodon client and a web client.               *)

MCProcs == {"p1", "p2"}
MCConns == {"mas", "web"}
MCAt == [c \in MCConns |-> "p1"]
MCStyle == [c \in MCConns |-> IF c = "mas" THEN "mastodon" ELSE "web"]
MCViewer == [c \in MCConns |-> IF c = "mas" THEN "me" ELSE "ann"]
MCFollowers == [a \in {"me", "ann", "bob"} |-> IF a = "bob" THEN {"me"} ELSE {"ann"}]
MCListOwner == [l \in {"l1", "l2"} |-> "bob"]

Op(k, p, by, to) == [op |-> k, proc |-> p, by |-> by, to |-> to, direct |-> FALSE, local |-> TRUE,
                     visibility |-> "public", lists |-> {"l1"}, tags |-> {"t"}]
Nobody == [c \in MCConns |-> {}]
Only(c, n) == [x \in MCConns |-> IF x = c THEN n ELSE 0]
For(c, S) == [x \in MCConns |-> IF x = c THEN S ELSE {}]
Say(d, s, x) == [do |-> d, stream |-> s, arg |-> x]
Base == [ops |-> {}, mutes |-> {}, messages |-> Nobody, initial |-> Nobody, redis |-> TRUE, stops |-> {},
         connects |-> Only("mas", 1), old |-> {}, faults |-> 0]
User == For("mas", {<<"user", None>>})

(* Three notifications in every order of their commits, with and without      *)
(* Redis, and with failures.                                                *)
MCNotified ==
    {[Base EXCEPT !.initial = User, !.ops = {Op("react", "p2", "bob", "me"), Op("follow", "p1", "ann", "me")}, !.faults = 1],
     [Base EXCEPT !.initial = User, !.redis = FALSE, !.old = {[id |-> 1, to |-> "me", by |-> "bob"]},
                  !.ops = {Op("follow", "p1", "ann", "me"), [Op("react", "p1", "bob", "me") EXCEPT !.direct = TRUE]}, !.connects = Only("mas", 2)],
     [Base EXCEPT !.initial = For("mas", {<<"user:notification", None>>}), !.redis = FALSE,
                  !.ops = {Op("follow", "p1", "ann", "me"), Op("follow", "p1", "bob", "me"), Op("follow", "p2", "bob", "me")},
                  !.mutes = {<<"me", "bob">>}],
     [Base EXCEPT !.initial = User, !.ops = {Op("note", "p1", "bob", "me")}, !.stops = {"p1"}, !.connects = Only("mas", 2),
                  !.messages = For("mas", {Say("unsubscribe", "user", None), Say("subscribe", "public", None), Say("subscribe", "list", "l2")})]}

(* The web client: every kind of event and of channel.                      *)
MCWeb ==
    {[Base EXCEPT !.connects = Only("web", 1), !.redis = FALSE,
                  !.messages = For("web", {Say("subscribe", k, "l1")}), !.ops = {[Op("note", "p1", "bob", "bob") EXCEPT !.visibility = v]}] :
        k \in {"home", "local", "hybrid", "list", "hashtag", "other"}, v \in {"public", "followers_only"}}
    \cup {[Base EXCEPT !.connects = Only("web", 1), !.faults = 1, !.ops = {o}] :
        o \in {Op("dm", "p1", "bob", "ann"), Op("vote", "p1", "bob", "me"), Op("link", "p1", "bob", "me")}}
MCMany == {[Base EXCEPT !.connects = Only("mas", 1), !.initial = For("mas", {<<k, "t">>}), !.redis = FALSE,
                        !.messages = For("mas", {Say("subscribe", "hashtag", None)}), !.ops = {Op("note", "p1", "bob", "bob")}] :
                k \in {"public:local", "hashtag"}}
(* A client that connects first and subscribes by a message.                *)
MCLate == {[Base EXCEPT !.old = {[id |-> 1, to |-> "me", by |-> "bob"]},
                        !.messages = For("mas", {Say("subscribe", "user", None)})]}
MCStreamScripts == MCLate \cup MCNotified \cup MCWeb \cup MCMany

-----------------------------------------------------------------------------
VARIABLES which, db, world, queue, running, cool, script, remoteFaults, fetched,
    table, muted, lastId, tasks, outbound, wire, linked, conn, asked, failures, past
remote == <<db, world, queue, running, cool, script, remoteFaults, fetched>>
streams == <<table, muted, lastId, tasks, outbound, wire, linked, conn, asked, failures, past>>
R == INSTANCE Remote WITH
        Persons <- MCPersons, Me <- "me", Kind <- MCKind, Real <- MCReal, Link <- MCLink, Target <- MCTarget, ByDid <- MCByDid,
        Scripts <- RemoteScripts, LiveMax <- 1, WholeMax <- 2, MaxAka <- 1, MaxAttempts <- 2, Slots <- {1, 2},
        faults <- remoteFaults
S == INSTANCE Streams WITH
        Procs <- MCProcs, Conns <- MCConns, At <- MCAt, Style <- MCStyle, Viewer <- MCViewer, Followers <- MCFollowers,
        ListOwner <- MCListOwner, PublicLists <- {"l1"}, Capacity <- 1, ListLimit <- 2, Scripts <- StreamScripts,
        nextId <- lastId, script <- asked, faults <- failures, hist <- past
NoStreams == S!InitWith([Base EXCEPT !.connects = Only("mas", 0)])
NoRemote == R!InitWith(CHOOSE s \in RemoteScripts : TRUE)

MCInit ==
    /\ which \in Parts
    /\ Init /\ (which # "deferred" => monolith)
    /\ IF which = "remote" THEN R!Init ELSE NoRemote
    /\ IF which = "streams" THEN S!Init ELSE NoStreams
MCNext ==
    \/ which = "deferred" /\ Next /\ UNCHANGED <<which, remote, streams>>
    \/ which = "remote" /\ R!Next /\ UNCHANGED <<which, vars, streams>>
    \/ which = "streams" /\ S!Next /\ UNCHANGED <<which, vars, remote>>
(* The fairness of the three modules, for the part that runs.                 *)
MCFairness ==
    /\ WF_vars(which = "deferred" /\ Tick)
    /\ WF_vars(which = "deferred" /\ (SetPending \/ EnqueueCopy))
    /\ \A c \in Copies : WF_vars(which = "deferred" /\ Step(c))
    /\ WF_remote(which = "remote" /\ \E s \in {1, 2} : R!Step(s))
    /\ SF_remote(which = "remote" /\ \E s \in {1, 2} : R!Take(s))
    /\ \A k \in R!Keys : WF_remote(which = "remote" /\ R!Expire(k))
    /\ WF_remote(which = "remote" /\ \E u \in DOMAIN MCTarget : R!Age(u))
    /\ WF_streams(which = "streams" /\ S!Task)
    /\ \A p \in MCProcs : /\ WF_streams(which = "streams" /\ S!RunPublisher(p)) /\ WF_streams(which = "streams" /\ S!RunSubscriber(p))
                           /\ WF_streams(which = "streams" /\ S!SubscribeOnce(p))
    /\ \A c \in MCConns : /\ WF_streams(which = "streams" /\ S!SetBaseline(c)) /\ WF_streams(which = "streams" /\ S!Receive(c))
                           /\ WF_streams(which = "streams" /\ S!SettleTick(c)) /\ WF_streams(which = "streams" /\ S!PeriodicTick(c))
MCSpec == MCInit /\ [][MCNext]_<<which, vars, remote, streams>> /\ MCFairness

(* A follow list shown as whole is whole, nobody else names a local user       *)
(* (Remote), and a connection is sent each notification once and none from     *)
(* before it (Streams).                                                     *)
ViewsKept == R!SnapshotWhole /\ R!LocalNameKept /\ S!SentOnce /\ S!OnlyNews
(* Once a profile or a follow list is looked at again and again, what is       *)
(* stored is what the other server says (Remote).                           *)
RemoteSettles == which = "remote" => R!Looked
(* Every notification reaches the clients that stay (Streams).               *)
StreamsNotify == which = "streams" => S!Notified
====

-------------------------------- MODULE Remote --------------------------------
(***************************************************************************)
(* What this server keeps about people of other servers, and how it is      *)
(* brought up to date when somebody looks: the profile handler and the      *)
(* handler of the follow lists (users.rs), the "other accounts" of a        *)
(* profile (also_known_as.rs), the jobs they queue (jobs/remote_*.rs,       *)
(* also_known_as_*.rs, bridge_user_link_resolve.rs, link_resolve.rs,        *)
(* actor_history_sync.rs), the in-process cooldowns of those jobs, and the  *)
(* resolution of a name or URL to a row (target_resolve.rs, link_target.rs).*)
(*                                                                         *)
(* A person is a row of actors when known, and a document at its own server *)
(* (world, external) otherwise.  A job or request goes through stages: a     *)
(* stage reads the tables and fetches, in one step, and leaves a list of     *)
(* statements (todo) that are executed one step at a time, so anything may   *)
(* happen between a fetch and a write and between two writes.  A statement   *)
(* that fails is handled as its field fails says.  Copies of one job that    *)
(* wait together are one element of queue; a copy that waits while another   *)
(* runs is kept.                                                            *)
(*                                                                         *)
(*   db.known     persons with a row          db.profile  name and avatar   *)
(*   db.handle    name a local row is found by                              *)
(*   db.pins      pinned_posts                db.posts    stored posts      *)
(*   db.aka       actor_also_known_as: <<owner, target>>, db.verified       *)
(*   db.snap      remote_follow_snapshots     db.bridge   bridge_real_actor_id *)
(*   db.meta      remote_instance_meta        db.links    link_resolutions  *)
(***************************************************************************)
EXTENDS Integers, FiniteSets, Sequences, SequencesExt, FiniteSetsExt

CONSTANTS
    None,
    Persons, Me,    \* people; the local actor who registers other accounts
    Kind,           \* [Persons -> actor_type]
    Real,           \* [Persons -> the person a bridge account stands for, or None]
    Link,           \* [Persons -> the URL in the profile, or None]
    Target,         \* [URL -> what is behind it, and how it is written, or None]
    ByDid,          \* <<owner, target>>: owner's document names target by its DID
    Scripts,        \* who is known, what is looked at, what changes elsewhere; bounds: faults, slots
    LiveMax,        \* REMOTE_FOLLOW_LIVE_MAX_ITEMS
    WholeMax,       \* MAX_ITEMS of remote_follow_list_sync
    MaxAka,         \* MAX_ALSO_KNOWN_AS
    MaxAttempts,    \* attempts of a job
    Slots           \* numbers of the jobs and requests under way at the same time

VARIABLES
    db, world,      \* the tables; the documents at the other servers
    queue, running, \* jobs that wait, with their attempts; the job or request of each slot
    cool,           \* keys in cooldown, kept in the memory of the process
    script,         \* what is looked at, and what has still to happen elsewhere
    faults,         \* bound on failures
    fetched         \* history: the follow lists that were stored, by person

vars == <<db, world, queue, running, cool, script, faults, fetched>>

Fedi(p) == Kind[p] \in {"fedi", "remote_seiran"}
Bsky(p) == Kind[p] \in {"bsky", "remote_seiran"}
IsLocal(p) == Kind[p] = "local"
Job(k, p) == [kind |-> k, of |-> p, to |-> None]
Verify(o, t) == [kind |-> "verify", of |-> o, to |-> t]
Requests == {"first", "handle", "open", "add"}

(* A slot: the job, its stage, the statements it has still to execute, what  *)
(* it found so far and what it has still to look at.                        *)
Running(j, n) == [job |-> j, tries |-> n, stage |-> "start", todo |-> <<>>, found |-> {}, rest |-> {}]
Idle == Running(Job("none", None), 0)
Free(s) == s <= script.slots /\ running[s] = Idle /\ \A z \in Slots : z < s => running[z] # Idle
Begin(s, j, n) == running' = [running EXCEPT ![s] = Running(j, n)]
End(s) == running' = [running EXCEPT ![s] = Idle]

(* Failures that happen in this step.                                       *)
Spend(n) == n <= faults /\ faults' = faults - n

-----------------------------------------------------------------------------
(* Tables *)

Coalesce(new, old) == IF new = None THEN old ELSE new
OldAvatar(d, p) == IF p \in d.known THEN d.profile[p].avatar ELSE None
OldName(d, p) == IF p \in d.known THEN d.profile[p].name ELSE None

(* The two sides of a merged account write the same columns.                *)
UpsertRemoteFedi(d, p, doc) ==
    [d EXCEPT !.known = @ \cup {p}, !.profile[p] = [name |-> doc.name, avatar |-> Coalesce(doc.avatar, OldAvatar(d, p))]]

(* Found by its DID; the username is protected in merged rows only.         *)
UpsertRemoteBsky(d, p, doc) ==
    [d EXCEPT !.known = @ \cup {p},
              !.profile[p] = [name |-> Coalesce(doc.at, OldName(d, p)), avatar |-> Coalesce(doc.avatar, OldAvatar(d, p))],
              !.handle[p] = IF IsLocal(p) THEN "at" ELSE @]

UpsertPost(d, x) == [d EXCEPT !.posts = @ \cup {x}]
SyncFromRemote(d, p, posts) == [d EXCEPT !.pins[p] = posts]

(* Never backwards: a shorter list does not replace a longer one.           *)
NotShorter(s, new) == s = None \/ Cardinality(new.uris) >= Cardinality(s.uris)
SaveSnapshot(d, p, new) == [d EXCEPT !.snap[p] = IF NotShorter(@, new) THEN new ELSE @]

SetBridgeRealActor(d, p, r) == [d EXCEPT !.bridge[p] = r]
UpsertMeta(d, p, m) == [d EXCEPT !.meta[p] = m]
UpsertLink(d, u, k) == [d EXCEPT !.links[u] = [kind |-> k, old |-> FALSE]]

AddAka(d, o, t) == [d EXCEPT !.aka = @ \cup {<<o, t>>}]
RemoveAka(d, o, t) == [d EXCEPT !.aka = @ \ {<<o, t>>}, !.verified = @ \ {<<o, t>>}]
CountByOwner(d, o) == Cardinality({r \in d.aka : r[1] = o})
IsListedBy(d, t, o) == <<t, o>> \in d.aka
SetVerification(d, o, t, v) ==
    [d EXCEPT !.verified = IF v /\ <<o, t>> \in d.aka THEN @ \cup {<<o, t>>} ELSE @ \ {<<o, t>>}]

(* sync_remote_owner_targets: two statements, no transaction.                *)
DeleteOthers(d, o, ts) ==
    LET gone == {r \in d.aka : r[1] = o /\ r[2] \notin ts} IN [d EXCEPT !.aka = @ \ gone, !.verified = @ \ gone]
InsertTargets(d, o, ts) == [d EXCEPT !.aka = @ \cup ({o} \X ts)]

-----------------------------------------------------------------------------
(* Statements *)

(* A table and the row to write, and what is done when the database refuses. *)
Statement(do, of, arg, fails) == [write |-> <<do, of, arg>>, fails |-> fails]
Do(x) == x.write[1]
Of(x) == x.write[2]
Arg(x) == x.write[3]
EnqueueJobs(js) == Statement("enqueue", js, None, "none")
SavePosts(posts) == SetToSeq({Statement("post", x, None, "skip") : x \in posts})

(* The posts that could not be saved are not pinned.                        *)
Execute(d, x, found) ==
    LET of == Of(x)
        arg == Arg(x)
    IN  CASE Do(x) = "fedi" -> UpsertRemoteFedi(d, of, arg)
          [] Do(x) = "bsky" -> UpsertRemoteBsky(d, of, arg)
          [] Do(x) = "post" -> UpsertPost(d, of)
          [] Do(x) = "pins" -> SyncFromRemote(d, of, found \cap arg)
          [] Do(x) = "bridge" -> SetBridgeRealActor(d, of, arg)
          [] Do(x) = "snap" -> SaveSnapshot(d, of, arg)
          [] Do(x) = "meta" -> UpsertMeta(d, of, arg)
          [] Do(x) = "link" -> UpsertLink(d, of, arg)
          [] Do(x) = "verify" -> SetVerification(d, of.of, of.to, arg)
          [] Do(x) = "akaAdd" -> AddAka(d, of, arg)
          [] Do(x) = "akaDelete" -> DeleteOthers(d, of, arg)
          [] Do(x) = "akaInsert" -> InsertTargets(d, of, arg)
Finds == {"fedi", "bsky", "post"}

-----------------------------------------------------------------------------
(* Jobs and their cooldowns *)

(* The kinds whose enqueue looks at a cooldown first, with their key.       *)
Key(j) == CASE j.kind \in {"resolve", "list", "bridge"} -> <<j.kind, j.of>>
            [] j.kind = "link" -> <<"link", Link[j.of]>>
            [] OTHER -> None

ShouldEnqueue(j, c) == Key(j) = None \/ Key(j) \notin c
Cooled(js) == {Key(j) : j \in js} \ {None}

(* A copy of a job that waits already adds nothing.                        *)
Fresh(j) == [job |-> j, tries |-> 0]
Push(q, ws) == q \o SetToSeq(ws \ Range(q))

(* The cooldown starts before the push: a push that fails (lost) leaves the *)
(* key cooling down and no job.                                             *)
Enqueue(js) ==
    LET allowed == {j \in js : ShouldEnqueue(j, cool)}
    IN  /\ cool' = cool \cup Cooled(allowed)
        /\ \E lost \in SUBSET allowed :
            /\ queue' = Push(queue, {Fresh(j) : j \in allowed \ lost})
            /\ Spend(Cardinality(lost))

(* An error is retried until the attempts are used up; a retry that cannot  *)
(* be queued is lost.                                                       *)
Retry(r) == IF r.job.kind \notin Requests /\ r.tries + 1 < MaxAttempts THEN {[r EXCEPT !.tries = @ + 1]} ELSE {}
Err(s, n) ==
    /\ \E kept \in SUBSET Retry(running[s]) :
        /\ queue' = Push(queue, {[job |-> r.job, tries |-> r.tries] : r \in kept})
        /\ Spend(n + Cardinality(Retry(running[s]) \ kept))
    /\ End(s)
    /\ UNCHANGED <<db, world, cool, script, fetched>>

-----------------------------------------------------------------------------
(* Steps of a job or request *)

Advance(s, r) == running' = [running EXCEPT ![s] = IF r.stage = "end" /\ r.todo = <<>> THEN Idle ELSE r]

At(s, k, stage) == running[s].job.kind = k /\ running[s].stage = stage /\ running[s].todo = <<>>

(* What a fetch may come to: the statements it leads to and the failures it  *)
(* takes.                                                                   *)
Does(todo) == [todo |-> todo, cost |-> 0]
Fails == [todo |-> <<>>, cost |-> 1]

(* FediActorProfile::from_ap_actor refuses a document without inbox.         *)
Upsert(do, p, fails) == IF do = "fedi" /\ ~world[p].inbox THEN <<>> ELSE <<Statement(do, p, world[p], fails)>>
Upserts(do, p, fails) == {Fails, Does(Upsert(do, p, fails))}

(* The outcome is known: todo comes before the next stage.                  *)
Goto(s, stage, outcome) ==
    /\ Advance(s, [running[s] EXCEPT !.stage = stage, !.todo = outcome.todo])
    /\ Spend(outcome.cost)
    /\ UNCHANGED <<db, world, queue, cool, script, fetched>>
GotoWith(s, stage, outcome, found, rest) ==
    /\ running' = [running EXCEPT ![s] = [@ EXCEPT !.stage = stage, !.todo = outcome.todo, !.found = found, !.rest = rest]]
    /\ Spend(outcome.cost)
    /\ UNCHANGED <<db, world, queue, cool, script, fetched>>
Stop(s) == Goto(s, "end", Does(<<>>))

Write(s) ==
    LET r == running[s]
        x == Head(r.todo)
    IN  /\ r.todo # <<>> /\ Do(x) # "enqueue"
        /\ db' = Execute(db, x, r.found)
        /\ fetched' = IF Do(x) = "snap" THEN [fetched EXCEPT ![Of(x)] = @ \cup {Arg(x)}] ELSE fetched
        /\ Advance(s, [r EXCEPT !.todo = Tail(@), !.found = IF Do(x) \in Finds THEN @ \cup {Of(x)} ELSE @])
        /\ UNCHANGED <<world, queue, cool, script, faults>>

EnqueueStep(s) ==
    LET r == running[s]
    IN  /\ r.todo # <<>> /\ Do(Head(r.todo)) = "enqueue"
        /\ Enqueue(Of(Head(r.todo)))
        /\ Advance(s, [r EXCEPT !.todo = Tail(@)])
        /\ UNCHANGED <<db, world, script, fetched>>

(* The database refuses a statement: the handler returns the error, goes on  *)
(* without it, gives up quietly, notes a link that leads nowhere, or shows   *)
(* an unsaved profile.                                                      *)
ResolveProfileInstanceInfo(d, p) == IF Fedi(p) /\ d.meta[p] = None THEN {Job("instance", p)} ELSE {}
NoLink(p) == <<Statement("link", Link[p], "none", "error")>>
WriteFails(s) ==
    LET r == running[s]
        x == Head(r.todo)
    IN  /\ r.todo # <<>> /\ Do(x) # "enqueue"
        /\ \/ x.fails = "error" /\ Err(s, 1)
           \/ x.fails = "skip" /\ Goto(s, r.stage, [todo |-> Tail(r.todo), cost |-> 1])
           \/ x.fails = "stop" /\ Goto(s, "end", Fails)
           \/ x.fails = "none" /\ Goto(s, "end", [todo |-> NoLink(r.job.of), cost |-> 1])
           \/ x.fails = "unsaved" /\ Goto(s, "end", [todo |-> <<EnqueueJobs(ResolveProfileInstanceInfo(db, r.job.of))>>, cost |-> 1])

(* The database refuses the first query of a job, which is about its actor;  *)
(* the two requests that begin with a query answer with an error.            *)
ReadFails(s) ==
    /\ running[s] # Idle /\ running[s].stage = "start" /\ running[s].todo = <<>>
    /\ running[s].job.kind \notin {"link", "first", "handle"}
    /\ Err(s, 1)

-----------------------------------------------------------------------------
(* The profile of a known actor *)

(* The pins of a profile seen for the first time are fetched at once.        *)
ScheduleRemoteActorSync(d, p, first) ==
    (IF Fedi(p) /\ ~first THEN {Job("featured", p)} ELSE {})
        \cup (IF ~IsLocal(p) /\ ~first THEN {Job("profile", p)} ELSE {})
        \cup (IF Real[p] # None /\ d.bridge[p] = None THEN {Job("bridge", p)} ELSE {})

ResolveProfileLinkTargetsOnce(d, p) == IF Link[p] # None /\ d.links[Link[p]] = None THEN {Job("link", p)} ELSE {}

(* Unknown links, and links found to be nothing more than 48 hours ago.     *)
ResolveProfileLinkTargets(d, p) ==
    IF Link[p] # None /\ (d.links[Link[p]] = None \/ d.links[Link[p]] = [kind |-> "none", old |-> TRUE])
    THEN {Job("link", p)} ELSE {}

LoadAlsoKnownAs(d, p) ==
    IF Fedi(p) THEN {Job("akasync", p)}
    ELSE {Verify(r[1], r[2]) : r \in {x \in d.aka : x[1] = p /\ IsLocal(p) /\ Kind[x[2]] # "bsky"}}

BuildProfileResponseInner(d, p, first) ==
    ScheduleRemoteActorSync(d, p, first) \cup ResolveProfileLinkTargets(d, p)
        \cup ResolveProfileInstanceInfo(d, p) \cup LoadAlsoKnownAs(d, p)

(* user_profile, lookup_by_uri: the row is shown as it is, to a viewer whom  *)
(* its owner does not block.                                                *)
View(p) ==
    /\ <<"view", p>> \in script.ops /\ p \in db.known
    /\ Enqueue(BuildProfileResponseInner(db, p, FALSE))
    /\ UNCHANGED <<db, world, running, script, fetched>>

-----------------------------------------------------------------------------
(* Requests that fetch before they answer, and workers that take a job *)

(* fetch_remote_profile for an unknown name; fetch_bsky_profile_from_appview *)
(* for a handle; user_remote_follow_summary; add.                           *)
Ask(s, k, p) ==
    /\ <<k, p>> \in script.ops /\ Free(s)
    /\ CASE k = "first" -> Fedi(p) /\ p \notin db.known
         [] k = "handle" -> Bsky(p) \/ IsLocal(p)
         [] k = "open" -> Fedi(p) /\ p \in db.known
         [] k = "add" -> TRUE
    /\ Begin(s, Job(k, p), 0)
    /\ script' = IF k = "open" THEN script ELSE [script EXCEPT !.ops = @ \ {<<k, p>>}]
    /\ UNCHANGED <<db, world, queue, cool, faults, fetched>>

RemoveClaim(t) ==
    /\ <<"remove", t>> \in script.ops
    /\ db' = RemoveAka(db, Me, t)
    /\ script' = [script EXCEPT !.ops = @ \ {<<"remove", t>>}]
    /\ UNCHANGED <<world, queue, running, cool, faults, fetched>>

Take(s) ==
    /\ queue # <<>> /\ Free(s)
    /\ queue' = Tail(queue)
    /\ Begin(s, Head(queue).job, Head(queue).tries)
    /\ UNCHANGED <<db, world, cool, script, faults, fetched>>

-----------------------------------------------------------------------------
(* Jobs about one profile *)

(* jobs/remote_profile_refresh.rs: one side, then the other; failures are    *)
(* skipped.                                                                 *)
RefreshFedi(p) == IF Fedi(p) THEN Upserts("fedi", p, "skip") ELSE {Does(<<>>)}
RefreshBsky(p) == IF Bsky(p) THEN Upserts("bsky", p, "skip") ELSE {Does(<<>>)}
RemoteProfileRefresh(s) ==
    LET p == running[s].job.of
    IN  \/ At(s, "profile", "start") /\ \E f \in RefreshFedi(p) : Goto(s, "at", f)
        \/ At(s, "profile", "at") /\ \E f \in RefreshBsky(p) : Goto(s, "end", f)

(* ap/outbox.rs fetch_ap_featured: without the actor there is an error,      *)
(* without the collection no post.                                          *)
SyncPinned(p, posts, fails) == SavePosts(posts) \o <<Statement("pins", p, posts, fails)>>
FetchApFeatured(p, fails) ==
    {Fails, Does(SyncPinned(p, world[p].pins, fails)), [todo |-> SyncPinned(p, {}, fails), cost |-> 1]}
RemoteFeaturedSync(s) ==
    At(s, "featured", "start") /\ \E f \in FetchApFeatured(running[s].job.of, "error") : Goto(s, "end", f)

(* jobs/bridge_user_link_resolve.rs: the person a bridge account stands for  *)
(* is looked up, and fetched when unknown: by DID for an account of the      *)
(* bridge in the Fediverse, by WebFinger and remote_actor_resolve for one    *)
(* in Bluesky.                                                              *)
Bridge(p) == <<Statement("bridge", p, Real[p], "error")>>
ResolveBridge(s, p) ==
    IF Real[p] \in db.known THEN Goto(s, "end", Does(Bridge(p)))
    ELSE \/ Goto(s, "end", Fails)
         \/ Kind[p] = "fedi" /\ Goto(s, "end", Does(Upsert("bsky", Real[p], "error") \o Bridge(p)))
         \/ Kind[p] = "bsky" /\ Goto(s, "found", Does(Upsert("fedi", Real[p], "stop")))
BridgeUserLinkResolve(s) ==
    LET p == running[s].job.of
    IN  \/ At(s, "bridge", "start") /\ db.bridge[p] # None /\ Stop(s)
        \/ At(s, "bridge", "start") /\ db.bridge[p] = None /\ ResolveBridge(s, p)
        \/ At(s, "bridge", "found") /\ Goto(s, "end", Does(IF Real[p] \in db.known THEN Bridge(p) ELSE <<>>))

(* jobs/remote_instance_info_resolve.rs: retried when the server may come    *)
(* back, a row with gaps when it has no nodeinfo or its homepage no icon.    *)
Meta(p, m) == <<Statement("meta", p, m, "error")>>
RemoteInstanceInfoResolve(s) ==
    LET p == running[s].job.of
    IN  /\ At(s, "instance", "start")
        /\ \/ Err(s, 1)
           \/ Goto(s, "end", Does(Meta(p, IF world[p].software = None THEN "gaps" ELSE "full")))
           \/ Goto(s, "end", [todo |-> Meta(p, "gaps"), cost |-> 1])

(* jobs/actor_history_sync.rs, the side of Bluesky: what cannot be fetched   *)
(* is empty.                                                                *)
ActorHistorySync(s) ==
    LET p == running[s].job.of
    IN  /\ At(s, "history", "start")
        /\ IF p \in db.known THEN \E f \in {Fails, Does(SavePosts(world[p].pins))} : Goto(s, "end", f)
           ELSE Stop(s)

-----------------------------------------------------------------------------
(* Follow lists *)

(* jobs/remote_actor_resolve.rs resolve_and_upsert: a local user's URI is    *)
(* left alone.                                                              *)
RemoteActorResolve(s) ==
    LET p == running[s].job.of
    IN  /\ At(s, "resolve", "start")
        /\ \/ (p \in db.known \/ IsLocal(p)) /\ Stop(s)
           \/ p \notin db.known /\ ~IsLocal(p) /\ (Err(s, 1) \/ Goto(s, "end", Does(Upsert("fedi", p, "error"))))

(* ap/collection.rs: the pages up to max, and whether they are all of it; a  *)
(* page that fails ends the list, as does a page to come when max is         *)
(* reached.                                                                 *)
List(uris, complete) == [uris |-> uris, complete |-> complete]
Pages(list, max) ==
    (IF Cardinality(list) <= max THEN {List(list, TRUE)} ELSE {}) \cup {List(u, FALSE) : u \in kSubset(max, list)}
PartOf(list, max) == {List(u, FALSE) : u \in {x \in SUBSET list : Cardinality(x) <= max}}
Collection(list, max) ==
    {[list |-> l, cost |-> 0] : l \in Pages(list, max)} \cup {[list |-> l, cost |-> 1] : l \in PartOf(list, max)}

(* enqueue_unknown_actor_resolves: a local row has no ap_uri and is never    *)
(* found; when the query fails all are unknown.                             *)
KnownActors(d, uris) == {u \in uris : u \in d.known /\ ~IsLocal(u)}
EnqueueUnknownActorResolves(s, stage, uris) ==
    \E known \in {KnownActors(db, uris), {}} :
        Goto(s, stage, [todo |-> <<EnqueueJobs({Job("resolve", u) : u \in uris \ known})>>,
                        cost |-> IF known = KnownActors(db, uris) THEN 0 ELSE 1])

(* jobs/remote_follow_list_sync.rs; a document may name no list.             *)
RemoteFollowListSync(s) ==
    LET p == running[s].job.of
    IN  \/ At(s, "list", "start") /\ Err(s, 1)
        \/ At(s, "list", "start") /\ world[p].list = None /\ Stop(s)
        \/ /\ At(s, "list", "start") /\ world[p].list # None
           /\ \E c \in Collection(world[p].list, WholeMax) :
                GotoWith(s, "resolves", [todo |-> <<Statement("snap", p, c.list, "error")>>, cost |-> c.cost], {}, c.list.uris)
        \/ At(s, "list", "resolves") /\ EnqueueUnknownActorResolves(s, "end", running[s].rest)

(* user_remote_follow_summary: 200 ms, then the stored list; it is the        *)
(* stored one that is shown, after it was saved without shrinking.           *)
SaveLive(p, list) ==
    <<Statement("snap", p, list, "skip")>> \o (IF list.complete THEN <<>> ELSE <<EnqueueJobs({Job("list", p)})>>)
RemoteFollowSummary(s) ==
    LET p == running[s].job.of
    IN  \/ At(s, "open", "start") /\ Goto(s, "load", Does(<<EnqueueJobs({Job("list", p)})>>))
        \/ /\ At(s, "open", "start") /\ world[p].list # None
           /\ \E c \in Collection(world[p].list, LiveMax) : Goto(s, "load", [todo |-> SaveLive(p, c.list), cost |-> c.cost])
        \/ At(s, "open", "load") /\ EnqueueUnknownActorResolves(s, "end", IF db.snap[p] = None THEN {} ELSE db.snap[p].uris)
        \/ At(s, "open", "load") /\ Goto(s, "end", Fails)      \* the stored list cannot be read

-----------------------------------------------------------------------------
(* Other accounts *)

(* target_resolve.rs: a local user, found by name or by DID, is left alone;  *)
(* somebody known in the Fediverse is not fetched.  Missing: an error.       *)
ResolveAndUpsertTarget(t, fails) ==
    CASE IsLocal(t) -> {Does(<<>>)}
      [] Kind[t] = "bsky" -> {Does(Upsert("bsky", t, fails))}
      [] Fedi(t) /\ t \in db.known -> {Does(<<>>)}
      [] Fedi(t) /\ t \notin db.known /\ world[t].inbox -> {Does(Upsert("fedi", t, fails))}
      [] OTHER -> {}
NeedsFetch(t) == Kind[t] = "bsky" \/ (~IsLocal(t) /\ t \notin db.known)
CannotResolve(t) == {f \in {Fails, Does(<<>>)} : NeedsFetch(t) /\ (f = Fails \/ (Fedi(t) /\ ~world[t].inbox))}

(* add: the number of entries is read long before the row is written.        *)
AddAlsoKnownAs(s) ==
    LET t == running[s].job.of
    IN  \/ At(s, "add", "start") /\ CountByOwner(db, Me) >= MaxAka /\ Stop(s)
        \/ /\ At(s, "add", "start") /\ CountByOwner(db, Me) < MaxAka
           /\ \/ \E f \in ResolveAndUpsertTarget(t, "error") : Goto(s, "add", f)
              \/ \E f \in CannotResolve(t) : Goto(s, "end", f)
        \/ At(s, "add", "add") /\ t = Me /\ Stop(s)
        \/ /\ At(s, "add", "add") /\ t # Me
           /\ Goto(s, "end", Does(<<Statement("akaAdd", Me, t, "error"), EnqueueJobs({Verify(Me, t)})>>))

(* jobs/also_known_as_verify.rs: what cannot be fetched is not verified.     *)
Verified(o, t) ==
    CASE Kind[t] = "bsky" -> FALSE
      [] IsLocal(t) -> IsListedBy(db, t, o)
      [] OTHER -> o \in world[t].aka
AlsoKnownAsVerify(s) ==
    LET j == running[s].job
        Save(v) == <<Statement("verify", j, v, "error")>>
    IN  /\ At(s, "verify", "start")
        /\ \/ Goto(s, "end", Does(Save(Verified(j.of, j.to))))
           \/ Fedi(j.to) /\ Goto(s, "end", [todo |-> Save(FALSE), cost |-> 1])

(* jobs/also_known_as_sync.rs: entry by entry; a DID is looked up at the      *)
(* AppView and upserted whoever it belongs to.                              *)
ResolveAlsoKnownAsUri(s, o, t) ==
    LET rest == running[s].rest \ {t}
        found == running[s].found
    IN  CASE <<o, t>> \in ByDid -> \E f \in Upserts("bsky", t, "skip") : GotoWith(s, "entry", f, found, rest)
          [] <<o, t>> \notin ByDid /\ (IsLocal(t) \/ t \in db.known) -> GotoWith(s, "entry", Does(<<>>), found \cup {t}, rest)
          [] OTHER -> \E f \in Upserts("fedi", t, "skip") : GotoWith(s, "entry", f, found, rest)
RemoteAlsoKnownAsSync(s) ==
    LET o == running[s].job.of
        ts == running[s].found \ {o}
    IN  \/ At(s, "akasync", "start") /\ (Err(s, 1) \/ GotoWith(s, "entry", Does(<<>>), {}, world[o].aka))
        \/ /\ At(s, "akasync", "entry") /\ running[s].rest # {}
           /\ ResolveAlsoKnownAsUri(s, o, CHOOSE t \in running[s].rest : TRUE)
        \/ /\ At(s, "akasync", "entry") /\ running[s].rest = {}
           /\ Goto(s, "end", Does(<<Statement("akaDelete", o, ts, "error"), Statement("akaInsert", o, ts, "error"),
                                    EnqueueJobs({Verify(o, t) : t \in ts})>>))

-----------------------------------------------------------------------------
(* Links in a profile: jobs/link_resolve.rs over link_target.rs             *)

(* What cannot be resolved leads nowhere; Resolved ends with the row.        *)
Found(p, k) == <<Statement("link", Link[p], k, "error")>>
Nowhere(s, p, n) == Goto(s, "end", [todo |-> NoLink(p), cost |-> n])

ResolveActor(s, p, t) ==
    \/ \E f \in ResolveAndUpsertTarget(t, "none") : Goto(s, "end", Does(f.todo \o Found(p, "actor")))
    \/ \E f \in CannotResolve(t) : Nowhere(s, p, f.cost)

(* Its author is looked up like any target, then the post is stored.         *)
ResolveBskyPost(s, p, t) ==
    \/ Nowhere(s, p, 1)
    \/ \E f \in ResolveAndUpsertTarget(t.by, "none") :
        Goto(s, "end", Does(f.todo \o <<Statement("post", t.to, None, "none")>> \o Found(p, "post")))

(* An unknown post of the Fediverse is imported by a job of its own, queued  *)
(* before all others; the resolver looks for it for four seconds.            *)
EnqueueAndAwaitImport(s, p) ==
    /\ queue' = IF Fresh(Job("import", p)) \in Range(queue) THEN queue ELSE <<Fresh(Job("import", p))>> \o queue
    /\ running' = [running EXCEPT ![s].stage = "await"]
    /\ UNCHANGED <<db, world, cool, script, faults, fetched>>
ResolveActivityPubUrl(s, p, t) ==
    \/ t.to \in db.posts /\ Goto(s, "end", Does(Found(p, "post")))
    \/ t.to \notin db.posts /\ Nowhere(s, p, 1)
    \/ t.to \notin db.posts /\ t.to \in Persons /\ ResolveActor(s, p, t.to)
    \/ t.to \notin db.posts /\ t.to \notin Persons /\ EnqueueAndAwaitImport(s, p)

LinkResolve(s) ==
    LET p == running[s].job.of
        t == Target[Link[p]]
    IN  \/ /\ At(s, "link", "start")
           /\ \/ t = None /\ Nowhere(s, p, 0)
              \/ t # None /\ t.way = "name" /\ ResolveActor(s, p, t.to)
              \/ t # None /\ t.way = "bsky" /\ ResolveBskyPost(s, p, t)
              \/ t # None /\ t.way = "url" /\ ResolveActivityPubUrl(s, p, t)
        \/ At(s, "link", "await") /\ t.to \in db.posts /\ Goto(s, "end", Does(Found(p, "post")))
        \/ At(s, "link", "await") /\ t.to \notin db.posts /\ Stop(s)
        \/ At(s, "link", "await") /\ Nowhere(s, p, 1)

(* External: the import (InboundActivityProcess, module Ingest).             *)
Import(s) ==
    /\ At(s, "import", "start")
    /\ Goto(s, "end", Does(<<Statement("post", Target[Link[running[s].job.of]].to, None, "error")>>))

-----------------------------------------------------------------------------
(* The requests of Ask *)

(* fetch_remote_profile: saved, its pins fetched at once, then shown.        *)
FetchRemoteProfile(s) ==
    LET p == running[s].job.of
    IN  \/ At(s, "first", "start") /\ Goto(s, "end", Fails)
        \/ At(s, "first", "start") /\ ~world[p].inbox /\ Stop(s)
        \/ At(s, "first", "start") /\ world[p].inbox /\ Goto(s, "pinned", Does(Upsert("fedi", p, "unsaved")))
        \/ At(s, "first", "pinned") /\ \E f \in FetchApFeatured(p, "skip") : Goto(s, "shown", f)
        \/ At(s, "first", "shown") /\ Goto(s, "end", Does(<<EnqueueJobs(BuildProfileResponseInner(db, p, TRUE))>>))

(* The pin of the answer is fetched, and dropped when that fails.            *)
SyncRemoteBskyPinned(s, p) ==
    \/ Goto(s, "shown", Does(SyncPinned(p, running[s].rest, "skip")))
    \/ Goto(s, "shown", [todo |-> SyncPinned(p, {}, "skip"), cost |-> 1])

(* fetch_bsky_profile_from_appview: a stranger is shown and not stored.      *)
FetchBskyProfileFromAppview(s) ==
    LET p == running[s].job.of
    IN  \/ At(s, "handle", "start") /\ Goto(s, "end", Fails)
        \/ At(s, "handle", "start") /\ IsLocal(p) /\ Goto(s, "shown", Does(<<>>))
        \/ At(s, "handle", "start") /\ ~IsLocal(p) /\ p \notin db.known /\ Stop(s)
        \/ /\ At(s, "handle", "start") /\ ~IsLocal(p) /\ p \in db.known
           /\ GotoWith(s, "pinned", Does(Upsert("bsky", p, "skip") \o <<EnqueueJobs({Job("history", p)})>>), {}, world[p].pins)
        \/ At(s, "handle", "pinned") /\ SyncRemoteBskyPinned(s, p)
        \/ At(s, "handle", "shown") /\ Goto(s, "end", Does(<<EnqueueJobs(BuildProfileResponseInner(db, p, FALSE))>>))

Handle(s) ==
    \/ RemoteProfileRefresh(s) \/ RemoteFeaturedSync(s) \/ BridgeUserLinkResolve(s) \/ RemoteInstanceInfoResolve(s)
    \/ ActorHistorySync(s) \/ RemoteActorResolve(s) \/ RemoteFollowListSync(s) \/ RemoteFollowSummary(s)
    \/ AddAlsoKnownAs(s) \/ AlsoKnownAsVerify(s) \/ RemoteAlsoKnownAsSync(s) \/ LinkResolve(s) \/ Import(s)
    \/ FetchRemoteProfile(s) \/ FetchBskyProfileFromAppview(s)
Step(s) == Handle(s) \/ Write(s) \/ EnqueueStep(s)

-----------------------------------------------------------------------------
(* Time, the other servers, and the end of the process *)

Expire(k) == k \in cool /\ cool' = cool \ {k} /\ UNCHANGED <<db, world, queue, running, script, faults, fetched>>

(* 48 hours after a link was found to be nothing.                           *)
Age(u) ==
    /\ db.links[u] = [kind |-> "none", old |-> FALSE]
    /\ db' = [db EXCEPT !.links[u].old = TRUE]
    /\ UNCHANGED <<world, queue, running, cool, script, faults, fetched>>

(* External: somebody edits a profile, a list, the pins or the claims.      *)
Change(c) ==
    /\ c \in script.changes
    /\ world' = [world EXCEPT ![c.of] = c.edit @@ @]
    /\ script' = [script EXCEPT !.changes = @ \ {c}]
    /\ UNCHANGED <<db, queue, running, cool, faults, fetched>>

(* Jobs under way and cooldowns are lost; waiting jobs are in Redis.  The    *)
(* start-up asks again for servers whose row is missing or has gaps.        *)
BackfillRemoteInstanceMeta == {Job("instance", p) : p \in {x \in db.known : Fedi(x) /\ db.meta[x] # "full"}}
Restart ==
    /\ running' = [s \in Slots |-> Idle] /\ cool' = {}
    /\ \E lost \in SUBSET BackfillRemoteInstanceMeta :
        /\ queue' = Push(queue, {Fresh(j) : j \in BackfillRemoteInstanceMeta \ lost})
        /\ Spend(1 + Cardinality(lost))
    /\ UNCHANGED <<db, world, script, fetched>>

-----------------------------------------------------------------------------
InitWith(s) ==
    /\ script = [ops |-> s.ops, changes |-> s.changes, slots |-> s.slots]
    /\ db = s.db /\ world = s.world /\ faults = s.faults
    /\ queue = <<>> /\ running = [t \in Slots |-> Idle] /\ cool = {}
    /\ fetched = [p \in Persons |-> {}]
Init == \E s \in Scripts : InitWith(s)

Next ==
    \/ \E p \in Persons : View(p) \/ RemoveClaim(p)
    \/ \E s \in Slots, k \in Requests, p \in Persons : Ask(s, k, p)
    \/ \E s \in Slots : Take(s) \/ Step(s) \/ WriteFails(s) \/ ReadFails(s)
    \/ \E k \in cool : Expire(k)
    \/ \E u \in DOMAIN Target : Age(u)
    \/ \E c \in script.changes : Change(c)
    \/ Restart

(* Workers and requests share nothing but the slots of this model, so a      *)
(* waiting job is taken sooner or later; what is under way ends; time passes.*)
Keys == ({"resolve", "list"} \X {p \in Persons : Fedi(p)}) \cup ({"bridge"} \X {p \in Persons : Real[p] # None}) \cup ({"link"} \X DOMAIN Target)
Fairness ==
    /\ WF_vars(\E s \in Slots : Step(s))
    /\ SF_vars(\E s \in Slots : Take(s))
    /\ \A k \in Keys : WF_vars(Expire(k))
    /\ WF_vars(\E u \in DOMAIN Target : Age(u))
Spec == Init /\ [][Next]_vars /\ Fairness

-----------------------------------------------------------------------------
(* Types of the state.                                                      *)
TypeOK ==
    /\ db.known \subseteq Persons /\ db.verified \subseteq db.aka
    /\ \A p \in Persons : db.pins[p] \subseteq db.posts
    /\ \A s \in Slots : running[s].stage \in {"start", "at", "found", "resolves", "load", "add", "entry", "await", "pinned", "shown", "end"}
    /\ faults \in Nat

(* A stored follow list is one that some fetch brought, none brought a       *)
(* longer one, and it is marked complete only if that very fetch reached     *)
(* the last page: the live fetch of 500 and the job's of 5000 save the same  *)
(* row in any order (remote_follow_snapshot.rs save).                       *)
SnapshotWhole ==
    \A p \in Persons :
        db.snap[p] # None =>
            /\ db.snap[p] \in fetched[p]
            /\ \A f \in fetched[p] : Cardinality(f.uris) <= Cardinality(db.snap[p].uris)

(* A local user keeps the name the row is found by, whatever other servers   *)
(* say about its DID (target_resolve.rs resolve_bsky and users.rs skip the    *)
(* upsert for that reason) - unless an account elsewhere claims that DID as   *)
(* another account of its own: resolve_also_known_as_uri has no such guard.  *)
ClaimedByDid(p) == \E o \in Persons : <<o, p>> \in ByDid /\ p \in world[o].aka
LocalNameKept == \A p \in Persons : IsLocal(p) /\ ~ClaimedByDid(p) => db.handle[p] = "local"

(* What the profile should show: the other accounts that can be resolved.    *)
Resolvable(t) == ~Fedi(t) \/ world[t].inbox \/ t \in db.known
Claims(o) ==
    IF IsLocal(o) THEN {r[2] : r \in {x \in db.aka : x[1] = o}}
    ELSE {t \in world[o].aka \ {o} : Resolvable(t)}
ClaimedBack(o, t) == Verified(o, t)

LinkKind(u) == IF Target[u] = None THEN "none" ELSE IF Target[u].to \in Persons THEN "actor" ELSE "post"

(* The row says what the other servers say.                                 *)
Current(p) ==
    /\ ~IsLocal(p) /\ Resolvable(p) =>
        /\ db.profile[p].name \in (IF Fedi(p) THEN {world[p].name} ELSE {}) \cup (IF Bsky(p) THEN {world[p].at} ELSE {})
        /\ world[p].avatar \in {None, db.profile[p].avatar}
    /\ Fedi(p) => db.pins[p] = world[p].pins /\ db.meta[p] # None
    /\ Real[p] # None => db.bridge[p] = Real[p]
    /\ Kind[p] # "bsky" => {r \in db.aka : r[1] = p} = {p} \X Claims(p)
    /\ \A t \in Claims(p) : Kind[p] # "bsky" => (<<p, t>> \in db.verified <=> ClaimedBack(p, t))
    /\ Link[p] # None => db.links[Link[p]] # None /\ db.links[Link[p]].kind = LinkKind(Link[p])

(* Looking is enough: a profile that is opened again and again comes to      *)
(* show, for good, what the other servers say - through stale fetches,       *)
(* failures, cooldowns and restarts (remote_profile_refresh.rs:3,            *)
(* also_known_as_verify.rs:4, link_resolve.rs).  A script has one profile to   *)
(* look at, or one list to open.                                            *)
ViewsSettle ==
    []<><<\E p \in Persons : View(p)>>_vars => <>[](\A p \in Persons : <<"view", p>> \in script.ops => Current(p))

(* The people of a follow list that is opened again and again become known, *)
(* although each of them is asked for once per cooldown; a local user, and   *)
(* an account without inbox, are asked for again and again.                  *)
ListSettles ==
    []<><<\E s \in Slots, p \in Persons : Ask(s, "open", p)>>_vars =>
        <>[](\A p \in Persons : db.snap[p] # None => \A u \in db.snap[p].uris : Resolvable(u) => u \in db.known)

Looked == ViewsSettle /\ ListSettles
====

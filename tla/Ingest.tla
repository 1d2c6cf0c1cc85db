------------------------------- MODULE Ingest -------------------------------
(***************************************************************************)
(* What remote people publish arrives twice: as ActivityPub activities in    *)
(* the inbox jobs (jobs/inbound_activity_process) and as repository events   *)
(* of the Jetstream (seiran-atp-repo firehose.rs).  A person of another      *)
(* seiran server has both identities, and so has each of their posts; the    *)
(* two halves are merged into one row when each names the other              *)
(* (seiran_actor_merge.rs, insert_remote_with_dedup, insert_or_merge_bsky_   *)
(* post, Update(Note)).  A post copied to the other network by a bridge      *)
(* stays a row of its own and is linked to the original (bridge_post.rs).    *)
(*                                                                         *)
(* A handler is a call in a slot.  It takes one statement or transaction     *)
(* half at a time: a transaction reads under READ COMMITTED and writes       *)
(* later, when the unique indexes are checked.                              *)
(***************************************************************************)
EXTENDS Integers, FiniteSets, Sequences, TLC

CONSTANTS
    None,
    Persons,        \* remote people
    Objects,        \* what they publish: posts, notes, reposts
    Obj,            \* Obj[o]: by, ap, at (published there?), late (the counterpart comes in an Update), copyOf, target
    Dual,           \* persons with both identities, who declare each one in the other
    Scripts,        \* what may happen: inbox (activities), stream (events), known and here (rows at first), followed
                    \* and suspended persons; bounds: repeats (of a delivery), drops (of the connection), faults (what
                    \* cannot be fetched), crashes
    Calls,          \* slots for calls under way at the same time
    MaxTries,       \* attempts of a transaction (MAX_UNIQUE_VIOLATION_RETRIES)
    MaxAttempts     \* attempts of a job

VARIABLES
    actors,     \* rows by id: ap, did, claimedDid, claimedAp (persons or None)
    posts,      \* rows by id: author, ap, at, claimedAt, claimedAp, copyOf, copyUri, bridge, target, deleted, gone
    reactions,  \* rows [post, actor, act, at], one per post and actor
    counts,     \* notes_count by actor row
    calls,      \* the call in each slot
    jobs,       \* queued jobs with the attempts made: inbox activities and the jobs they lead to
    reader,     \* the Jetstream connection: up, next (index), wanted (dids), stale (the set was touched), fresh
    cursor,     \* jetstream_cursor in site_settings
    script, repeats, drops, faults, crashes,
    met,        \* history: notes whose Update found them
    deleted,    \* history: notes a Delete of their author removed
    handled     \* history: inbox activities and stream positions handled to the end

db == <<actors, posts, reactions, counts>>
bounds == <<script, repeats, drops, faults, crashes>>
stream == <<reader, cursor>>
past == <<met, deleted>>
vars == <<db, calls, jobs, stream, bounds, past, handled>>

NoCall == [op |-> "none"]
(* who: whose actor row is looked for; note: what is being saved; then: the  *)
(* step after the actor is known; back: the step after a nested save; plain: *)
(* fetched from the AppView, without what the author declares.               *)
NewCall(op, arg, pc) ==
    [op |-> op, arg |-> arg, pc |-> pc, who |-> None, note |-> None, side |-> "ap", claim |-> None, actor |-> None,
     me |-> None, found |-> None, marry |-> FALSE, copyOf |-> None, post |-> None, then |-> "end", back |-> "end",
     tries |-> 0, announce |-> TRUE, plain |-> FALSE]

NextId(rows) == Cardinality(DOMAIN rows) + 1
Row(rows, id, r) == (id :> r) @@ rows
Live(p) == p \in DOMAIN posts /\ ~posts[p].deleted
Coalesce(x, y) == IF x # None THEN x ELSE y
One(S) == IF S = {} THEN None ELSE CHOOSE x \in S : TRUE

-----------------------------------------------------------------------------
(* Lookups *)

FindByApUri(p) == One({a \in DOMAIN actors : p # None /\ actors[a].ap = p})
FindByDid(p) == One({a \in DOMAIN actors : p # None /\ actors[a].did = p})
ActorType(r) == IF r.ap # None /\ r.did # None THEN "remote_seiran" ELSE IF r.ap # None THEN "fedi" ELSE "bsky"
(* Deleted rows are found by these, so what was deleted is not saved again.  *)
PostByAp(o) == One({p \in DOMAIN posts : o # None /\ posts[p].ap = o})
PostByAt(o) == One({p \in DOMAIN posts : o # None /\ posts[p].at = o})
FindIdByUri(o, side) == IF side = "ap" THEN PostByAp(o) ELSE PostByAt(o)
FindIdAndActorByAp(o) == One({p \in DOMAIN posts : Live(p) /\ posts[p].ap = o})
FindIdAndActorByAt(o) == One({p \in DOMAIN posts : Live(p) /\ posts[p].at = o})
FindRepostUndoInfo(a, t) == One({p \in DOMAIN posts : Live(p) /\ posts[p].author = a /\ posts[p].target = t})
ResolveBridgeTarget(o, side) == IF side = "at" THEN FindIdAndActorByAt(o) ELSE FindIdAndActorByAp(o)
IsSuspended(p) == p \in script.suspended
(* The accounts with a did that somebody here follows.                       *)
WantedDids == {p \in script.followed : FindByDid(p) # None}
SaveableAuthor(p) == IF p \in script.followed /\ ~IsSuspended(p) THEN FindByDid(p) ELSE None

(* A unique index: no two of its rows agree on a key without nulls.          *)
UniqueIn(rows, in(_), key(_)) ==
    \A x, y \in DOMAIN rows :
        x # y /\ in(rows[x]) /\ in(rows[y]) /\ (\A i \in DOMAIN key(rows[x]) : key(rows[x])[i] # None) =>
            key(rows[x]) # key(rows[y])
AnyRow(r) == TRUE
NotDeleted(r) == ~r.deleted
ActorsMutualClaimKey(rows) ==
    UniqueIn(rows, AnyRow, LAMBDA r : <<Coalesce(r.ap, r.claimedAp), Coalesce(r.did, r.claimedDid)>>)
ActorsUnique(rows) ==
    UniqueIn(rows, AnyRow, LAMBDA r : <<r.ap>>) /\ UniqueIn(rows, AnyRow, LAMBDA r : <<r.did>>) /\ ActorsMutualClaimKey(rows)
PostsMutualClaimKey(rows) ==
    UniqueIn(rows, NotDeleted, LAMBDA r : <<Coalesce(r.ap, r.claimedAp), Coalesce(r.at, r.claimedAt)>>)
IdxPostsUniqueRepost(rows) == UniqueIn(rows, NotDeleted, LAMBDA r : <<r.author, r.target>>)
PostsUnique(rows) ==
    /\ UniqueIn(rows, AnyRow, LAMBDA r : <<r.ap>>) /\ UniqueIn(rows, AnyRow, LAMBDA r : <<r.at>>)
    /\ PostsMutualClaimKey(rows) /\ IdxPostsUniqueRepost(rows)

-----------------------------------------------------------------------------
(* Steps of a call *)

At(s, l) == calls[s].op # "none" /\ calls[s].pc = l
Job(what) == [what |-> what, attempts |-> 0]
(* A call ends: a job that failed is queued again while it has attempts.     *)
Finish(s, ok, new) ==
    LET c == calls[s]
        again == ~ok /\ c.op = "job" /\ c.arg.attempts < MaxAttempts
    IN  /\ calls' = [calls EXCEPT ![s] = NoCall]
        /\ jobs' = jobs \cup new \cup (IF again THEN {c.arg} ELSE {})
        /\ handled' = IF again THEN handled ELSE handled \cup {c.arg.what}
Goto(s, c, l, new) ==
    IF l = "end" THEN Finish(s, TRUE, new)
    ELSE calls' = [calls EXCEPT ![s] = [c EXCEPT !.pc = l, !.tries = 0]] /\ jobs' = jobs \cup new /\ UNCHANGED handled
(* A fetched note that cannot be saved leaves the Announce's reference       *)
(* unresolved; elsewhere the error ends the call.                            *)
Abandon(s) ==
    LET c == calls[s]
    IN  IF c.back = "repost" /\ c.op = "job" THEN Goto(s, [c EXCEPT !.post = None], "repost", {})
        ELSE Finish(s, FALSE, {})
(* Faulty variant: the statement is tried again, not the transaction.        *)
RetryStatement(s, l) ==
    LET c == calls[s]
    IN  IF c.tries + 1 < MaxTries
        THEN calls' = [calls EXCEPT ![s] = [c EXCEPT !.tries = @ + 1]] /\ UNCHANGED <<jobs, handled>>
        ELSE Abandon(s)
(* A transaction that met a unique violation starts again, or gives up.     *)
RetryOnUniqueViolation(s, l) ==
    LET c == calls[s]
    IN  IF c.tries + 1 < MaxTries
        THEN calls' = [calls EXCEPT ![s] = [c EXCEPT !.pc = l, !.tries = @ + 1]] /\ UNCHANGED <<jobs, handled>>
        ELSE Abandon(s)
CountFault == faults < script.faults /\ faults' = faults + 1 /\ UNCHANGED <<script, repeats, drops, crashes>>
Quiet == UNCHANGED <<stream, bounds, past>>

-----------------------------------------------------------------------------
(* The person behind an activity or a record: seiran_actor_merge.rs *)

Declares(p) == IF p \in Dual THEN p ELSE None

(* The actor document is fetched; the transaction reads.                     *)
DiscoverFediActor(s) ==
    /\ At(s, "actorAp")
    /\ LET c == calls[s]
           claim == Declares(c.who)
           own == FindByApUri(c.who)
           other == IF claim = None THEN None ELSE FindByDid(claim)
           marry == own = None /\ other # None /\ actors[other].claimedAp = c.who
       IN  \/ /\ CountFault /\ c.tries = 0 /\ Abandon(s) /\ UNCHANGED <<stream, past>>
           \/ /\ calls' = [calls EXCEPT ![s] = [c EXCEPT !.pc = "actorApWrite", !.claim = claim, !.marry = marry,
                                                        !.found = IF marry THEN other ELSE own]]
              /\ UNCHANGED <<jobs, handled>> /\ Quiet
    /\ UNCHANGED db

(* The write commits unless an index refuses it; a marriage changes the set  *)
(* of wanted dids, another declared identity is looked up by a job.          *)
PromoteAfterDiscovery(s, id, row, from) ==
    LET c == calls[s]
        rows == Row(actors, id, row)
        look == ~c.marry /\ c.claim # None /\ c.announce
    IN  IF ActorsUnique(rows)
        THEN /\ actors' = rows
             /\ counts' = IF id \in DOMAIN counts THEN counts ELSE Row(counts, id, 0)
             /\ reader' = [reader EXCEPT !.stale = @ \/ (c.marry /\ reader.up)]
             /\ Goto(s, [c EXCEPT !.actor = id, !.found = None, !.marry = FALSE, !.claim = None], c.then,
                     IF look THEN {Job([kind |-> "ActorMetadataResolve", actor |-> id])} ELSE {})
        ELSE RetryOnUniqueViolation(s, from) /\ UNCHANGED <<actors, counts, reader>>

(* It writes: the row's own profile, the counterpart that named this one, or *)
(* a new row.  promote_after_discovery follows.                             *)
WriteFediActor(s) ==
    /\ At(s, "actorApWrite")
    /\ LET c == calls[s]
           id == IF c.found = None THEN NextId(actors) ELSE c.found
           row == IF c.found = None THEN [ap |-> c.who, did |-> None, claimedDid |-> c.claim, claimedAp |-> None]
                  ELSE IF c.marry THEN [actors[id] EXCEPT !.ap = c.who, !.claimedAp = None]
                  ELSE IF ActorType(actors[id]) = "remote_seiran" THEN actors[id]
                  ELSE [actors[id] EXCEPT !.claimedDid = Coalesce(@, c.claim)]
       IN  PromoteAfterDiscovery(s, id, row, "actorAp")
    /\ UNCHANGED <<posts, reactions, cursor, bounds, past>>

(* resolve_or_upsert_bsky_actor: a known did is not looked up again.         *)
ResolveOrUpsertBskyActor(s) ==
    /\ At(s, "actorAt")
    /\ LET c == calls[s]
       IN  IF FindByDid(c.who) # None THEN Goto(s, [c EXCEPT !.actor = FindByDid(c.who)], c.then, {})
           ELSE Goto(s, c, "discoverAt", {})
    /\ UNCHANGED db /\ Quiet

(* The declaration of the other identity may not be there when it is read.   *)
DiscoverBskyActor(s) ==
    /\ At(s, "discoverAt")
    /\ \E claim \in IF calls[s].tries > 0 THEN {calls[s].claim} ELSE {Declares(calls[s].who), None} :
        LET c == calls[s]
            own == FindByDid(c.who)
            other == IF claim = None THEN None ELSE FindByApUri(claim)
            marry == own = None /\ other # None /\ actors[other].claimedDid = c.who
        IN  /\ calls' = [calls EXCEPT ![s] = [c EXCEPT !.pc = "discoverAtWrite", !.claim = claim, !.marry = marry,
                                                      !.found = IF marry THEN other ELSE own]]
            /\ IF c.tries = 0 /\ claim # Declares(c.who) THEN CountFault ELSE UNCHANGED bounds
    /\ UNCHANGED <<db, jobs, handled, stream, past>>

(* The profile cannot be fetched.                                            *)
ProfileUnavailable(s) ==
    /\ At(s, "discoverAt") /\ calls[s].tries = 0
    /\ CountFault /\ Abandon(s)
    /\ UNCHANGED <<db, stream, past>>

WriteBskyActor(s) ==
    /\ At(s, "discoverAtWrite")
    /\ LET c == calls[s]
           id == IF c.found = None THEN NextId(actors) ELSE c.found
           row == IF c.found = None THEN [ap |-> None, did |-> c.who, claimedDid |-> None, claimedAp |-> c.claim]
                  ELSE IF c.marry THEN [actors[id] EXCEPT !.did = c.who, !.claimedDid = None]
                  ELSE IF ActorType(actors[id]) = "remote_seiran" THEN actors[id]
                  ELSE [actors[id] EXCEPT !.claimedAp = Coalesce(@, c.claim)]
       IN  PromoteAfterDiscovery(s, id, row, "discoverAt")
    /\ UNCHANGED <<posts, reactions, cursor, bounds, past>>

-----------------------------------------------------------------------------
(* Saving a post: save_ap_note_core and save_bsky_post *)

Opposite(side) == IF side = "ap" THEN "at" ELSE "ap"
(* The id on the other network that the post itself declares.                *)
Counterpart(o, side) ==
    IF side = "ap" THEN IF Obj[o].at /\ ~Obj[o].late THEN o ELSE None
    ELSE IF Obj[o].ap THEN o ELSE None
PostRow(o, side, author, claim, copyOf, copyUri, target) ==
    [author |-> author, ap |-> IF side = "ap" THEN o ELSE None, at |-> IF side = "at" THEN o ELSE None,
     claimedAt |-> IF side = "ap" THEN claim ELSE None, claimedAp |-> IF side = "at" THEN claim ELSE None,
     copyOf |-> copyOf, copyUri |-> copyUri, bridge |-> None, target |-> target, deleted |-> FALSE, gone |-> FALSE]

SaveApNoteCore(s) ==
    /\ At(s, "saveAp")
    /\ LET c == calls[s]
           old == PostByAp(c.note)
       IN  IF old # None THEN Goto(s, [c EXCEPT !.post = old], c.back, {})
           ELSE Goto(s, [c EXCEPT !.who = Obj[c.note].by, !.then = "bridge"], "actorAp", {})
    /\ UNCHANGED db /\ Quiet

(* Is it a bridge's copy of a post that is here already?                     *)
ResolveBridgeOriginal(s) ==
    /\ At(s, "bridge")
    /\ LET c == calls[s]
           of == Obj[c.note].copyOf
       IN  Goto(s, [c EXCEPT !.copyOf = IF of = None THEN None ELSE ResolveBridgeTarget(of, Opposite(c.side))],
                IF c.plain THEN "insert" ELSE "dedup", {})
    /\ UNCHANGED db /\ Quiet

(* The transaction reads: a row of the same author that names this post.     *)
FindMergeTarget(s) ==
    /\ At(s, "dedup")
    /\ LET c == calls[s]
           x == Counterpart(c.note, c.side)
           p == FindIdByUri(x, Opposite(c.side))
           mutual == IF p = None THEN FALSE
                     ELSE /\ (IF c.side = "ap" THEN posts[p].claimedAp ELSE posts[p].claimedAt) = c.note
                          /\ posts[p].author = c.actor
       IN  calls' = [calls EXCEPT ![s] = [c EXCEPT !.pc = "insert", !.claim = x, !.found = IF mutual THEN p ELSE None]]
    /\ UNCHANGED <<db, jobs, handled>> /\ Quiet

(* It writes: the id joins that row, or a row is added unless the id has one.*)
InsertRemoteWithDedup(s) ==
    /\ At(s, "insert") /\ calls[s].side = "ap"
    /\ LET c == calls[s]
           new == c.found = None /\ PostByAp(c.note) = None
           id == IF c.found # None THEN c.found ELSE NextId(posts)
           row == IF new THEN PostRow(c.note, "ap", c.actor, c.claim, c.copyOf, Obj[c.note].copyOf, None)
                  ELSE [posts[id] EXCEPT !.ap = c.note, !.claimedAp = None]
           rows == IF new \/ c.found # None THEN Row(posts, id, row) ELSE posts
       IN  IF PostsUnique(rows)
           THEN /\ posts' = rows
                /\ counts' = IF new THEN [counts EXCEPT ![c.actor] = @ + 1] ELSE counts
                /\ Goto(s, [c EXCEPT !.post = CHOOSE p \in DOMAIN rows : rows[p].ap = c.note], "link", {})
           ELSE RetryOnUniqueViolation(s, "dedup") /\ UNCHANGED <<posts, counts>>
    /\ UNCHANGED <<actors, reactions>> /\ Quiet

InsertOrMergeBskyPost(s) ==
    /\ At(s, "insert") /\ calls[s].side = "at"
    /\ LET c == calls[s]
           new == c.found = None /\ PostByAt(c.note) = None
           id == IF c.found # None THEN c.found ELSE NextId(posts)
           row == IF new THEN PostRow(c.note, "at", c.actor, IF c.plain THEN None ELSE c.claim,
                                      c.copyOf, Obj[c.note].copyOf, None)
                  ELSE [posts[id] EXCEPT !.at = c.note, !.claimedAt = None]
           rows == IF new \/ c.found # None THEN Row(posts, id, row) ELSE posts
       IN  IF PostsUnique(rows)
           THEN /\ posts' = rows
                /\ Goto(s, [c EXCEPT !.post = CHOOSE p \in DOMAIN rows : rows[p].at = c.note],
                        IF new THEN "link" ELSE c.back, {})
           ELSE /\ UNCHANGED posts
                /\ IF c.plain THEN Abandon(s) ELSE RetryOnUniqueViolation(s, "dedup")
    /\ UNCHANGED <<actors, reactions, counts>> /\ Quiet

(* The copies that wait for this post.                                       *)
LinkPendingBridges(rows, p, o) ==
    LET waiting == {b \in DOMAIN rows : rows[b].copyUri = o /\ rows[b].copyOf = None /\ o # None}
    IN  [b \in DOMAIN rows |->
            IF b \in waiting THEN [rows[b] EXCEPT !.copyOf = p]
            ELSE IF b = p /\ waiting # {} THEN [rows[b] EXCEPT !.bridge = One(waiting)] ELSE rows[b]]

LinkBridgePosts(s) ==
    /\ At(s, "link")
    /\ LET c == calls[s]
           of == Obj[c.note].copyOf
           told == IF c.copyOf = None THEN posts ELSE [posts EXCEPT ![c.copyOf].bridge = c.post]
           fetch == IF of # None /\ c.copyOf = None
                    THEN {Job([kind |-> "FetchBridgeOriginal", obj |-> of, side |-> Opposite(c.side)])} ELSE {}
       IN  /\ posts' = LinkPendingBridges(told, c.post, c.note)
           /\ Goto(s, c, c.back, fetch)
    /\ UNCHANGED <<actors, reactions, counts>> /\ Quiet

(* A post fetched from the AppView (upsert_bsky_post).                       *)
UpsertBskyPost(s) ==
    /\ At(s, "saveAt")
    /\ LET c == calls[s]
           old == PostByAt(c.note)
       IN  IF old # None THEN Goto(s, [c EXCEPT !.post = old], c.back, {})
           ELSE Goto(s, [c EXCEPT !.plain = TRUE, !.found = None], "bridge", {})
    /\ UNCHANGED db /\ Quiet

-----------------------------------------------------------------------------
(* Reposts: handle_announce and handle_inbound_repost_create *)

Nested(c, o, side) == [c EXCEPT !.me = c.actor, !.note = o, !.side = side, !.who = Obj[o].by, !.back = "repost",
                                !.announce = TRUE]

(* The reposted post: known, fetched and saved, or left unresolved.          *)
ResolveReference(s) ==
    /\ At(s, "reference")
    /\ LET c == calls[s]
           t == Obj[c.arg.what.obj].target
           known == PostByAp(t)
       IN  \/ known # None /\ Goto(s, [c EXCEPT !.me = c.actor, !.post = known], "repost", {}) /\ UNCHANGED bounds
           \/ known = None /\ Goto(s, Nested(c, t, "ap"), "saveAp", {}) /\ UNCHANGED bounds
           \/ known = None /\ CountFault /\ Goto(s, [c EXCEPT !.me = c.actor, !.post = None], "repost", {})
    /\ UNCHANGED <<db, stream, past>>

ResolveSubject(s) ==
    /\ At(s, "subject")
    /\ LET c == calls[s]
           t == Obj[c.arg.obj].target
           known == PostByAt(t)
       IN  \/ IsSuspended(c.who) /\ Finish(s, TRUE, {}) /\ UNCHANGED bounds
           \/ /\ ~IsSuspended(c.who)
              /\ \/ known # None /\ Goto(s, [c EXCEPT !.me = c.actor, !.post = known], "repost", {}) /\ UNCHANGED bounds
                 \/ known = None /\ Goto(s, [Nested(c, t, "at") EXCEPT !.then = "saveAt"], "actorAt", {}) /\ UNCHANGED bounds
                 \/ known = None /\ CountFault /\ Finish(s, TRUE, {})
    /\ UNCHANGED <<db, stream, past>>

Subject(c) == IF c.op = "job" THEN c.arg.what.obj ELSE c.arg.obj
(* The repost is dropped when the account has one of that post.              *)
CheckRepost(s) ==
    /\ At(s, "repost")
    /\ LET c == calls[s]
       IN  IF c.post # None /\ FindRepostUndoInfo(c.me, c.post) # None THEN Finish(s, TRUE, {})
           ELSE Goto(s, c, "repostWrite", {})
    /\ UNCHANGED db /\ Quiet

InsertRepost(s) ==
    /\ At(s, "repostWrite")
    /\ LET c == calls[s]
           o == Subject(c)
           side == IF c.op = "job" THEN "ap" ELSE "at"
           skip == side = "ap" /\ PostByAp(o) # None
           rows == IF skip THEN posts ELSE Row(posts, NextId(posts), PostRow(o, side, c.me, None, None, None, c.post))
       IN  IF PostsUnique(rows)
           THEN /\ posts' = rows /\ counts' = IF skip THEN counts ELSE [counts EXCEPT ![c.me] = @ + 1]
                /\ Finish(s, TRUE, {})
           ELSE Finish(s, FALSE, {}) /\ UNCHANGED <<posts, counts>>
    /\ UNCHANGED <<actors, reactions>> /\ Quiet

-----------------------------------------------------------------------------
(* Reactions: one per post and actor; the activity id is overwritten, the    *)
(* record's uri kept when the new one has none.                             *)

UpsertReaction(rows, p, a, act, uri) ==
    LET old == {r \in rows : r.post = p /\ r.actor = a}
        kept == IF old = {} THEN None ELSE (CHOOSE r \in old : TRUE).at
    IN  (rows \ old) \cup {[post |-> p, actor |-> a, act |-> act, at |-> Coalesce(uri, kept)]}

HandleReaction(s) ==
    /\ At(s, "react")
    /\ LET c == calls[s]
           o == Subject(c)
           drop == c.op = "event" /\ IsSuspended(c.who)
       IN  /\ reactions' = IF drop \/ posts[c.post].gone THEN reactions
                           ELSE IF c.op = "job" THEN UpsertReaction(reactions, c.post, c.actor, o, None)
                           ELSE UpsertReaction(reactions, c.post, c.actor, None, o)
           /\ Finish(s, drop \/ ~posts[c.post].gone, {})
    /\ UNCHANGED <<actors, posts, counts>> /\ Quiet

-----------------------------------------------------------------------------
(* Deletes *)

Decrement(a) == [counts EXCEPT ![a] = IF @ > 0 THEN @ - 1 ELSE 0]
SoftDelete(p) ==
    IF p # None /\ Live(p)
    THEN posts' = [posts EXCEPT ![p].deleted = TRUE] /\ counts' = Decrement(posts[p].author)
    ELSE UNCHANGED <<posts, counts>>

(* Undo(Announce): soft_delete_by_ap_object_id; Undo(Like): by activity id.  *)
HandleUndo(s) ==
    /\ At(s, "undo")
    /\ LET o == calls[s].arg.what.obj
       IN  /\ SoftDelete(FindIdAndActorByAp(o))
           /\ reactions' = {r \in reactions : r.act # o}
    /\ Finish(s, TRUE, {})
    /\ UNCHANGED actors /\ Quiet

(* Delete: the sender must be the author of the live row.                    *)
HandleDelete(s) ==
    /\ At(s, "delete")
    /\ LET c == calls[s]
           p == FindIdAndActorByAp(c.arg.what.obj)
           owner == p # None /\ FindByApUri(c.arg.what.by) = posts[p].author
       IN  IF owner THEN Goto(s, [c EXCEPT !.post = p], "deleteWrite", {}) ELSE Finish(s, TRUE, {})
    /\ UNCHANGED db /\ Quiet
DeletePost(s) ==
    /\ At(s, "deleteWrite")
    /\ SoftDelete(calls[s].post)
    /\ deleted' = deleted \cup {calls[s].arg.what.obj}
    /\ Finish(s, TRUE, {})
    /\ UNCHANGED <<actors, reactions, stream, bounds, met>>

(* Jetstream: a post or a repost by its uri, a like by its record.           *)
HandleInboundPostDelete(s) ==
    /\ At(s, "deleteAt")
    /\ SoftDelete(FindIdAndActorByAt(calls[s].arg.obj))
    /\ Finish(s, TRUE, {})
    /\ UNCHANGED <<actors, reactions>> /\ Quiet
HandleInboundLikeDelete(s) ==
    /\ At(s, "unlikeAt")
    /\ reactions' = {r \in reactions : r.at # calls[s].arg.obj}
    /\ Finish(s, TRUE, {})
    /\ UNCHANGED <<actors, posts, counts>> /\ Quiet

-----------------------------------------------------------------------------
(* Update(Note): the counterpart that was not known when the note was sent   *)

HandleUpdateSeiranpost(s) ==
    /\ At(s, "update")
    /\ LET c == calls[s]
           p == PostByAp(c.arg.what.obj)
           own == p # None /\ FindByApUri(c.arg.what.by) = posts[p].author
       IN  /\ IF own /\ posts[p].at = None THEN Goto(s, [c EXCEPT !.post = p, !.actor = posts[p].author], "claim", {})
              ELSE Finish(s, TRUE, {})
           /\ met' = IF own THEN met \cup {c.arg.what.obj} ELSE met
    /\ UNCHANGED <<db, stream, bounds, deleted>>

FindDoomed(s) ==
    /\ At(s, "claim")
    /\ LET c == calls[s]
           o == c.arg.what.obj
           q == PostByAt(o)
           mutual == q # None /\ posts[q].claimedAp = o /\ posts[q].author = c.actor
       IN  Goto(s, [c EXCEPT !.found = IF mutual THEN q ELSE None], IF mutual THEN "finalize" ELSE "claimWrite", {})
    /\ UNCHANGED db /\ Quiet

ClaimCounterpart(s) ==
    /\ At(s, "claimWrite")
    /\ LET c == calls[s]
           rows == [posts EXCEPT ![c.post].claimedAt = c.arg.what.obj]
       IN  IF PostsUnique(rows) THEN posts' = rows /\ Finish(s, TRUE, {})
           ELSE RetryOnUniqueViolation(s, "claim") /\ UNCHANGED posts
    /\ UNCHANGED <<actors, reactions, counts>> /\ Quiet

(* finalize_post_merge: the ids go to the survivor, the other row is         *)
(* soft-deleted.                                                            *)
Merged(rows, survivor, doomed, o) ==
    [rows EXCEPT ![doomed] = [@ EXCEPT !.ap = None, !.at = None, !.deleted = TRUE],
                 ![survivor] = [@ EXCEPT !.ap = o, !.at = o, !.claimedAp = None, !.claimedAt = None]]
FinalizePostMerge(s) ==
    /\ At(s, "finalize")
    /\ LET c == calls[s]
           rows == Merged(posts, c.post, c.found, c.arg.what.obj)
       IN  IF PostsUnique(rows) THEN posts' = rows /\ Goto(s, c, "enqueueCleanup", {})
           ELSE Finish(s, FALSE, {}) /\ UNCHANGED posts
    /\ UNCHANGED <<actors, reactions, counts>> /\ Quiet
EnqueueCleanup(s) ==
    /\ At(s, "enqueueCleanup")
    /\ Finish(s, TRUE, {Job([kind |-> "PostMergeCleanup", survivor |-> calls[s].post, doomed |-> calls[s].found])})
    /\ UNCHANGED db /\ Quiet

(* cleanup_merged_post: each table is moved by one statement, which moves    *)
(* nothing when a unique index refuses one of its rows; then the row goes.   *)
MoveReactions(survivor, doomed) ==
    LET moved == {r \in reactions : r.post = doomed}
        clash == \E r \in moved, q \in reactions : q.post = survivor /\ q.actor = r.actor
    IN  (reactions \ moved) \cup IF clash THEN {} ELSE {[r EXCEPT !.post = survivor] : r \in moved}
MoveReposts(survivor, doomed) ==
    LET moved == [p \in DOMAIN posts |-> IF posts[p].target = doomed THEN [posts[p] EXCEPT !.target = survivor] ELSE posts[p]]
    IN  IF PostsUnique(moved) THEN moved
        ELSE [p \in DOMAIN posts |-> IF posts[p].target = doomed THEN [posts[p] EXCEPT !.target = None] ELSE posts[p]]
CleanupMergedPost(s) ==
    /\ At(s, "cleanup")
    /\ LET w == calls[s].arg.what
       IN  IF posts[w.doomed].gone \/ ~posts[w.doomed].deleted
           THEN Finish(s, posts[w.doomed].gone, {}) /\ UNCHANGED <<posts, reactions>>
           ELSE /\ reactions' = MoveReactions(w.survivor, w.doomed)
                /\ posts' = [p \in DOMAIN posts |->
                                LET r == MoveReposts(w.survivor, w.doomed)[p]
                                IN  IF p = w.doomed THEN [r EXCEPT !.gone = TRUE]
                                    ELSE [r EXCEPT !.copyOf = IF @ = w.doomed THEN None ELSE @,
                                                   !.bridge = IF @ = w.doomed THEN None ELSE @]]
                /\ Finish(s, TRUE, {})
    /\ UNCHANGED <<actors, counts>> /\ Quiet

-----------------------------------------------------------------------------
(* Jobs *)

(* Where an activity goes (inbound_activity_process::handle): new activities *)
(* of a suspended account are dropped.                                       *)
Entry(a) ==
    CASE a.kind = "Create" -> [NewCall("job", None, "saveAp") EXCEPT !.note = a.obj]
      [] a.kind = "Announce" -> IF PostByAp(a.obj) # None THEN NewCall("job", None, "end")
                                ELSE [NewCall("job", None, "actorAp") EXCEPT !.who = a.by, !.then = "reference"]
      [] a.kind = "Like" -> IF FindIdAndActorByAp(Obj[a.obj].target) = None THEN NewCall("job", None, "end")
                            ELSE [NewCall("job", None, "actorAp") EXCEPT
                                    !.who = a.by, !.then = "react", !.post = FindIdAndActorByAp(Obj[a.obj].target)]
      [] a.kind = "Undo" -> NewCall("job", None, "undo")
      [] a.kind = "Delete" -> NewCall("job", None, "delete")
      [] a.kind = "Update" -> NewCall("job", None, "update")
Suspends(a) == a.kind \in {"Create", "Like", "Announce"} /\ FindByApUri(a.by) # None /\ IsSuspended(a.by)

(* The other identity of a row that declares one.                            *)
ActorMetadataResolve(a) ==
    LET r == actors[a.actor]
    IN  CASE ActorType(r) = "fedi" /\ r.claimedDid # None ->
                [NewCall("job", None, "discoverAt") EXCEPT !.who = r.claimedDid, !.announce = FALSE]
          [] ActorType(r) = "bsky" /\ r.claimedAp # None ->
                [NewCall("job", None, "actorAp") EXCEPT !.who = r.claimedAp, !.announce = FALSE]
          [] OTHER -> NewCall("job", None, "end")
FetchBridgeOriginal(a) ==
    IF a.side = "ap" THEN [NewCall("job", None, "saveAp") EXCEPT !.note = a.obj]
    ELSE [NewCall("job", None, "fetchAtp") EXCEPT !.note = a.obj, !.side = "at"]

Started(a) ==
    CASE a.kind = "ActorMetadataResolve" -> ActorMetadataResolve(a)
      [] a.kind = "FetchBridgeOriginal" -> FetchBridgeOriginal(a)
      [] a.kind = "PostMergeCleanup" -> NewCall("job", None, "cleanup")
      [] OTHER -> IF Suspends(a) THEN NewCall("job", None, "end") ELSE Entry(a)

Handle(s) ==
    /\ calls[s].op = "none"
    /\ \E j \in jobs, again \in BOOLEAN :
        LET c == [Started(j.what) EXCEPT !.arg = [j EXCEPT !.attempts = @ + 1]]
        IN  /\ again => repeats < script.repeats
            /\ repeats' = repeats + IF again THEN 1 ELSE 0
            /\ jobs' = IF again THEN jobs ELSE jobs \ {j}
            /\ IF c.pc = "end" THEN handled' = handled \cup {j.what} /\ UNCHANGED calls
               ELSE calls' = [calls EXCEPT ![s] = c] /\ UNCHANGED handled
    /\ UNCHANGED <<db, stream, script, drops, faults, crashes, past>>

(* fetch_atp_original: the author's row is added without a declaration.      *)
FetchAtpOriginal(s) ==
    /\ At(s, "fetchAtp")
    /\ LET c == calls[s]
           by == Obj[c.note].by
           id == IF FindByDid(by) = None THEN NextId(actors) ELSE FindByDid(by)
           new == [ap |-> None, did |-> by, claimedDid |-> None, claimedAp |-> None]
       IN  \/ /\ CountFault /\ Finish(s, FALSE, {}) /\ UNCHANGED <<actors, counts>>
           \/ /\ actors' = IF FindByDid(by) = None THEN Row(actors, id, new) ELSE actors
              /\ counts' = IF id \in DOMAIN counts THEN counts ELSE Row(counts, id, 0)
              /\ Goto(s, [c EXCEPT !.actor = id], "saveAt", {}) /\ UNCHANGED bounds
    /\ UNCHANGED <<posts, reactions, stream, past>>

-----------------------------------------------------------------------------
(* The Jetstream reader *)

(* Faulty variant: the connection starts where the last one stopped being    *)
(* served.                                                                  *)
ConnectLive ==
    /\ ~reader.up
    /\ \E n \in cursor .. Len(script.stream) + 1 :
        reader' = [up |-> TRUE, next |-> n, last |-> None, wanted |-> WantedDids, stale |-> FALSE]
    /\ UNCHANGED <<db, calls, jobs, cursor, bounds, past, handled>>
(* Playback begins at the saved cursor and brings the wanted dids only; no   *)
(* wanted did means no filter.                                               *)
Connect ==
    /\ ~reader.up
    /\ reader' = [up |-> TRUE, next |-> cursor, last |-> None, wanted |-> WantedDids, stale |-> FALSE]
    /\ UNCHANGED <<db, calls, jobs, cursor, bounds, past, handled>>

Spawned(e, i) ==
    LET c(pc) == [NewCall("event", e @@ [what |-> [kind |-> "event", pos |-> i], attempts |-> 0], pc) EXCEPT
                    !.side = "at", !.who = e.by, !.note = e.obj]
    IN  CASE e.kind = "post" ->
                IF SaveableAuthor(e.by) = None \/ PostByAt(e.obj) # None THEN NoCall
                ELSE [c("bridge") EXCEPT !.actor = SaveableAuthor(e.by)]
          [] e.kind = "delete" -> c("deleteAt")
          [] e.kind = "repost" -> [c("actorAt") EXCEPT !.then = "subject"]
          [] e.kind = "like" ->
                IF FindIdAndActorByAt(Obj[e.obj].target) = None THEN NoCall
                ELSE [c("actorAt") EXCEPT !.then = "react", !.post = FindIdAndActorByAt(Obj[e.obj].target)]
          [] e.kind = "unlike" -> c("unlikeAt")

(* A message: the cursor is saved at most every few seconds (the first time  *)
(* at once), before the message is looked at; the work is left to a task.    *)
ProcessMessage(s) ==
    /\ reader.up /\ reader.next <= Len(script.stream) /\ calls[s].op = "none"
    /\ LET e == script.stream[reader.next]
           seen == reader.wanted = {} \/ e.by \in reader.wanted
       IN  /\ \E save \in IF seen THEN IF reader.last = None THEN {TRUE} ELSE BOOLEAN ELSE {FALSE} :
                cursor' = IF save THEN reader.next ELSE cursor
           /\ calls' = IF seen THEN [calls EXCEPT ![s] = Spawned(e, reader.next)] ELSE calls
           /\ reader' = [reader EXCEPT !.next = @ + 1, !.last = IF seen THEN reader.next ELSE @]
    /\ UNCHANGED <<db, jobs, bounds, past, handled>>

(* The socket fails, or the wanted dids changed: connect_and_process ends.   *)
Disconnect ==
    /\ reader.up
    /\ \/ reader.stale /\ UNCHANGED drops
       \/ drops < script.drops /\ drops' = drops + 1
    /\ reader' = [reader EXCEPT !.up = FALSE, !.stale = FALSE]
    /\ UNCHANGED <<db, calls, jobs, cursor, script, repeats, faults, crashes, past, handled>>

(* The process ends, in order (the last time is saved) or not: its tasks are *)
(* gone, its jobs are delivered again.                                       *)
Stop ==
    /\ crashes < script.crashes /\ crashes' = crashes + 1
    /\ \E orderly \in BOOLEAN :
        cursor' = IF orderly /\ reader.up /\ reader.last # None THEN reader.last ELSE cursor
    /\ reader' = [reader EXCEPT !.up = FALSE, !.stale = FALSE]
    /\ jobs' = jobs \cup {calls[s].arg : s \in {x \in Calls : calls[x].op = "job"}}
    /\ calls' = [s \in Calls |-> NoCall]
    /\ UNCHANGED <<db, script, repeats, drops, faults, past, handled>>

(* Nothing is left to do.                                                    *)
Settled == (\A s \in Calls : calls[s].op = "none") /\ jobs = {} /\ reader.up /\ reader.next > Len(script.stream)
Done == Settled /\ ~reader.stale /\ UNCHANGED vars

Init ==
    /\ script \in Scripts
    /\ actors = [i \in 1 .. Len(script.known) |-> script.known[i]]
    /\ posts = [i \in 1 .. Len(script.here) |-> script.here[i]]
    /\ counts = [i \in 1 .. Len(script.known) |-> Cardinality({p \in DOMAIN posts : posts[p].author = i})]
    /\ reactions = {} /\ calls = [s \in Calls |-> NoCall]
    /\ jobs = {Job(a) : a \in script.inbox}
    /\ reader = [up |-> FALSE, next |-> 1, last |-> None, wanted |-> {}, stale |-> FALSE] /\ cursor = 1
    /\ repeats = 0 /\ drops = 0 /\ faults = 0 /\ crashes = 0
    /\ met = {} /\ deleted = {} /\ handled = {}

Next ==
    \/ \E s \in Calls :
        \/ Handle(s) \/ DiscoverFediActor(s) \/ WriteFediActor(s) \/ ResolveOrUpsertBskyActor(s) \/ DiscoverBskyActor(s)
        \/ ProfileUnavailable(s) \/ WriteBskyActor(s) \/ SaveApNoteCore(s) \/ ResolveBridgeOriginal(s)
        \/ FindMergeTarget(s) \/ InsertRemoteWithDedup(s) \/ InsertOrMergeBskyPost(s) \/ LinkBridgePosts(s)
        \/ UpsertBskyPost(s) \/ ResolveReference(s) \/ ResolveSubject(s) \/ CheckRepost(s) \/ InsertRepost(s)
        \/ HandleReaction(s) \/ HandleUndo(s) \/ HandleDelete(s) \/ DeletePost(s) \/ HandleInboundPostDelete(s)
        \/ HandleInboundLikeDelete(s) \/ HandleUpdateSeiranpost(s) \/ FindDoomed(s) \/ ClaimCounterpart(s)
        \/ FinalizePostMerge(s) \/ EnqueueCleanup(s) \/ CleanupMergedPost(s) \/ FetchAtpOriginal(s) \/ ProcessMessage(s)
    \/ Connect \/ Disconnect \/ Stop \/ Done
Spec == Init /\ [][Next]_vars

-----------------------------------------------------------------------------
(* Properties *)

Idle == (\A s \in Calls : calls[s].op = "none") /\ jobs = {}

(* A person who declares each identity in the other has one actor row once   *)
(* both are discovered, however the two discoveries interleave (a row from   *)
(* before the declaration stays apart, which the module comment of           *)
(* seiran_actor_merge.rs leaves out of scope).                              *)
PersonsMeet ==
    Idle /\ faults = 0 =>
        \A p \in Dual :
            (\A i \in DOMAIN script.known : script.known[i].did = p => script.known[i].claimedAp = p) =>
                ~\E a, b \in DOMAIN actors : a # b /\ actors[a].ap = p /\ actors[b].did = p

HandledOn(o, kind) == \E a \in handled : a.kind = kind /\ a.kind # "event" /\ a.obj = o
SeenOn(o) == \E a \in handled : a.kind = "event" /\ script.stream[a.pos].obj = o /\ script.stream[a.pos].kind = "post"
DeletedSomewhere(o) == o \in deleted \/ \E i \in DOMAIN script.stream : script.stream[i] = [kind |-> "delete", by |-> Obj[o].by, obj |-> o]

(* A post of such a person that arrived from both networks, with an Update   *)
(* that found it when it was sent before its counterpart, is one row with    *)
(* both ids.                                                                *)
PostsMeet ==
    Idle =>
        \A o \in Objects :
            /\ HandledOn(o, "Create") /\ SeenOn(o) /\ (Obj[o].late => o \in met) /\ ~DeletedSomewhere(o)
            /\ \E a \in DOMAIN actors : actors[a].ap = Obj[o].by /\ actors[a].did = Obj[o].by
            => \E p \in DOMAIN posts : Live(p) /\ posts[p].ap = o /\ posts[p].at = o

(* A note its author deleted is never shown again: not by a second Create,   *)
(* a late half, an Update or a merge.                                        *)
NoteStaysDeleted == \A o \in deleted : FindIdAndActorByAp(o) = None

(* While the process lives, no post of a followed Bluesky account is missed: *)
(* lost connections and reconnections for new dids included.                 *)
NothingMissed ==
    Settled /\ crashes = 0 =>
        \A i \in DOMAIN script.stream :
            LET e == script.stream[i]
            IN  e.kind = "post" /\ e.by \notin Dual /\ e.by \in script.followed /\ ~IsSuspended(e.by)
                /\ (\E a \in DOMAIN script.known : script.known[a].did = e.by) => PostByAt(e.obj) # None

(* docs/protocols.md on two halves whose authors are not one row: each half  *)
(* is kept as a row of its own.                                              *)
HalvesKept ==
    Idle =>
        \A o \in Objects : (HandledOn(o, "Create") => PostByAp(o) # None) /\ (SeenOn(o) => PostByAt(o) # None)

TypeOK ==
    /\ \A a \in DOMAIN actors : /\ {actors[a].ap, actors[a].did, actors[a].claimedDid, actors[a].claimedAp} \subseteq Persons \cup {None}
                                /\ {actors[a].ap, actors[a].did} # {None}
    /\ \A p \in DOMAIN posts : posts[p].author \in DOMAIN actors /\ {posts[p].copyOf, posts[p].bridge, posts[p].target} \subseteq DOMAIN posts \cup {None}
    /\ ActorsUnique(actors) /\ PostsUnique(posts)
    /\ \A r, q \in reactions : r.post = q.post /\ r.actor = q.actor => r = q
    /\ \A r \in reactions : ~posts[r.post].gone
    /\ \A a \in DOMAIN counts : counts[a] >= 0
    /\ cursor \in 1 .. Len(script.stream) + 1
=============================================================================

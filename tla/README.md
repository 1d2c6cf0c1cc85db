# Verification of Seiran's core protocols

Seiran is a social server that speaks ActivityPub and AT Protocol. It runs as
one process (`--role all`) or as several (API, worker, federation inbox, AT
tasks) that share PostgreSQL and, optionally, Redis. This directory holds TLA+
models of the parts where processes, futures, requests and retries meet, the TLC
configurations that check them on small instances, and proofs, checked by
TLAPS, of the properties of the job queue, leader election, follow imports,
repository commits, the event stream and the deferred commit.

Paths below are relative to `src/crates/`; `common` stands for
`seiran-common/src`, `api` for `seiran-api/src`, `atp` for `seiran-atp-repo/src`.

## 1. Inventory

| Part | State it keeps | Operations | Interacts with |
|---|---|---|---|
| Worker engine (`common/queue/worker.rs`) | semaphore, loop position, spawned executions | take permit, dequeue, spawn, run handler, retry or discard, drain | a job queue; the signal handler in `seiran-server/src/main.rs` |
| Redis queue (`common/queue/redis.rs`) | sorted sets `ready` and `delayed`, counter `seq` | `enqueue`, `enqueue_retry`, `dequeue` (promote, pop) | every process that enqueues, every worker |
| In-memory queue (`common/queue/memory.rs`) | heap, `Notify`, sleeping retries | same | one process |
| Leader election (`common/leader.rs`) | a session lock per resident task | acquire, check, stop, hand over | Jetstream, pollers |
| Advisory lock (`common/advisory_lock.rs`) | a PostgreSQL session lock | `try_acquire`, `release` | the jobs that must not overlap |
| Follow import (`common/jobs/follow_import.rs`, `api/handlers/follow_import.rs`) | request and item rows | start, cancel, claim, follow, record, complete, recover | queue, advisory lock, follow protocol |
| Repository commits (`common/atp/service.rs`, `atp/repo.rs`) | head, blocks, record rows, event rows | `apply_write`, `build_mst` | every API call and job that writes a record |
| Repository readers (`common/atp/mst_walk.rs`, `car.rs`, `api/handlers/xrpc/sync.rs`, `xrpc/repo.rs`) | none | `getRepo`, `getRecord`, `listRecords`, walking a CAR | repository commits |
| Event bus and `subscribeRepos` (`common/event_bus.rs`, `api/handlers/xrpc/sync.rs`) | broadcast channel, Redis Pub/Sub, cursor of a connection | publish, relay, backfill, live | commits; external relays |
| Deferred Bluesky commit (`common/jobs/bsky_post_commit_deferred.rs`, `bsky_video_poll.rs`) | `pending_bsky_media_file_id`, video status | defer, poll, wait, commit, follow up, recover | queue, lock, commits |
| Follow protocol (`common/follow_exec.rs`, `follow_approval.rs`, `api/handlers/follows.rs`, `blocks.rs`) | `follows`, `blocks`, the AT records, the other server's view | follow, accept, reject, undo, block, move, bulk jobs, withdrawal | AP delivery, commits |
| Inbound posts (`common/jobs/inbound_activity_process`, `atp/firehose.rs`, `seiran_actor_merge.rs`, `repository/post_merge.rs`) | actors, posts, reactions, the stream's cursor | one handler per activity or repository event, merges | federation inbox, Jetstream, queue |
| Notes and reactions (`api/handlers/notes`, `xrpc/repo.rs`, `common/ap/deliver`) | posts, reactions, votes, pins, counts | create, delete, repost, react, vote, pin, by REST and by XRPC | commits, delivery jobs |
| Timelines (`api/handlers/notes/timelines.rs`, `common/repository/feed.rs`, `post.rs`) | none | home, social, list, local, global, tag, actor, thread | relations, posts |
| Lists and relays (`api/handlers/lists.rs`, `common/jobs/proxy_follow_sync.rs`, `relay_follow_sync.rs`) | lists, members, follows of two virtual actors | create, publish, add, remove, join, leave | commits, AP delivery |
| Accounts (`api/handlers/auth.rs`, `account.rs`, `setup.rs`, `oauth`, `common/auth`) | users, grants, tokens, attempts, blocks | registration, login, factors, reset, OAuth, sessions, administration | every authenticated request |
| Migration and DIDs (`common/jobs/at_migration.rs`, `did_provision`, `api/handlers/migration.rs`) | migration requests, pending rows, codes | start, token, import, switch, abandon, retry, join, move out | queue, locks, plc.directory, DNS |
| Media (`api/handlers/media_store.rs`, `common/storage`, `repository/media_file.rs`) | file rows, storage objects, references | upload, attach, replace, delete, collect | notes, profiles, commits, the video service |
| Remote views (`api/handlers/users.rs`, `common/jobs/remote_*.rs`, `also_known_as_*.rs`, `link_resolve.rs`) | remote actors, follow-list snapshots, identity claims, cooldowns | view, list, resolve, refresh, verify | other servers, queue |
| Streaming (`common/streaming.rs`, `api/streaming.rs`, `handlers/mastodon/streaming.rs`) | broadcast channels, connections | publish, forward, read notifications | event bus |
| Direct messages (`api/handlers/dm.rs`, `common/jobs/bsky_dm_*.rs`, `atp/bsky_dm_poll.rs`) | posts, links to conversations, read marks | send, react, hide, read, poll | the chat service, queue |
| Mastodon and Misskey surfaces, administration, frontend | | see section 6 | |

What is hard in this code is seldom inside one function. It is in the order of
two commands (number, then insert; unlock, then enqueue; `COMMIT`, then publish),
in what a second process does in between, and in what is left when one of them
stops. `PROJECT.json` lists these hazards at their lines, with the properties
that would notice each of them going wrong, or the reason why none does.

What makes each part correct, in a sentence: the queue holds a job once and
drops none by itself; a resident task has one leader, and always gets one; an
import follows nobody twice and ends; a repository is one chain of commits that
anyone can read back; a relay misses nothing; a waiting post is never forgotten;
relations agree with their records and with the other side; the two halves of a
person or a post meet and what is deleted stays deleted; nothing private leaves
and every count is exact; a page shows what may be seen and leaves no hole;
attempts, grants and quotas keep their limits; no identity is lost on the way
between servers; what is in use can be served; what others say is known in the
end; and every notification and message arrives.

## 2. Modules

| Module | Models | Built on |
|---|---|---|
| `JobLifecycle` | what the `JobQueue` trait promises of one job (abstract) | |
| `WorkerEngine` | the worker loop, the semaphore, executions, stop and crash | |
| `RedisJobQueue` | Redis queue and workers | extends `WorkerEngine`, implements `JobLifecycle` |
| `MemoryJobQueue` | in-memory queue and its worker | extends `WorkerEngine`, implements `JobLifecycle` |
| `ReadyScore` | the order of the ready set with `f64` rounding | |
| `Leader` | one resident task over several processes | |
| `FollowImport` | one import request, its job chain, lock and recovery | queue as a bag of tokens |
| `EventLog` | the event table and the hand-over of events to the bus (abstract) | |
| `AtpRepo` | concurrent `apply_write` calls | implements `EventLog` |
| `SubscribeRepos` | one subscriber between table and bus | extends `EventLog` |
| `RepoTree` | the tree and the blocks of a repository, and its readers | `apply_write` as one step |
| `DeferredCommit` | one post waiting for its video | queue as retries with waits |
| `Relations` | follow, block and mute tables, and what queries derive from them | |
| `Posts` | the posts table: who may see a post, which posts a surface selects | extends `Relations` |
| `Social` | follow, approve, block, move: handlers, inbound activities, jobs | extends `Relations` |
| `Feeds` | one timeline request against concurrent writes | extends `Posts` |
| `Notes` | what a local user does to posts, and how it is delivered | extends `Posts` |
| `Dm` | direct messages with Bluesky users | extends `Posts` |
| `Ingest` | remote posts and people that arrive over both networks | |
| `Lists` | lists, their records, the list relay and relays | |
| `Accounts` | registration, login, factors, grants, tokens, limits | |
| `Migration` | moving an account in or out, DIDs of new accounts | |
| `Media` | files, what refers to them, their collection | |
| `Remote` | what is kept about people of other servers | |
| `Streams` | live updates over the event bus and WebSockets | |
| `RedisJobQueueProofs`, `WorkersProofs`, `JobsProofs`, `AtpRepoProofs`, `DeferredCommitProofs`, `ReadersProofs`, `SocialProofs`, `ListsProofs` | theorems | extend the modules they are about |

`MC*` modules give the constants their values. Most of them extend the module
their theorems are about and put other components beside it (section 3): a variable `which` chooses one of them in the initial
state, that one takes steps, and the variables of the others keep one value.
The behaviours are those of each component alone, and each property speaks of the
component that moves. Nothing is composed that way; it is how many components
are checked with few runs. Components that do interact are composed by what they
share: `SubscribeRepos` runs on `EventLog`, which `AtpRepo` implements;
`RedisJobQueue` and `MemoryJobQueue` contain the steps of `WorkerEngine`; `Social`,
`Feeds`, `Notes` and `Dm` use the tables and queries of `Relations` and `Posts`;
the modules with jobs of their own take from the queue what `JobLifecycle`
promises: a copy is taken once, retried within its limit, lost with a crash.

### Conventions

A request or a job is a *call* in a slot. `pc` names the next step, and a step is
what happens between two awaits that others can come between: a statement or a
transaction, a repository commit, a request to another server, an enqueue. Two
slots are enough for any two handlers to overlap at any of their steps. What a
user or another server asks for is a *script*: a small set of requests that meet,
taken in any order, with the number of faults, crashes, ticks or repetitions it
may suffer. The database is a record of tables, and a repository function an
operator from a table to a table. An outside service (Redis, plc.directory, DNS,
the chat service, another server) is modelled from how the code uses it and
marked external in the map.

### Worker engine and queues

`pc[p]` is the position of `WorkerEngine::run` in process `p`; `permits[p]` its
semaphore; `tasks[p]` the spawned `execute_with_retry` futures. The handler of a
job is one nondeterministic outcome: Ok, permanent error, transient error, panic.
A loop step is one `await`. `RequestShutdown` is the token of the signal handler;
`Drained` and `DrainTimeout` are the two ends of `acquire_many` under its time
limit; `Crash` and `Restart` are the end of a process and the container's restart.

In `RedisJobQueue` each command is a step: `INCR` and `ZADD` of a push are
separate, the promotion script is one step because Redis runs it as one, and
`BZPOPMIN` returns a member none precedes. A command may fail, and one that
reports failure may still have been carried out (`EnqueueError`, `RetryError`,
`PromoteError`, `PopError`). Members are ordered by priority only: the score
rounds the rest, which is the subject of `ReadyScore`. `Undecodable` says which
process cannot parse which job, as during an update with new job types.

In `MemoryJobQueue` the code between two awaits with the mutex held is a step;
`notify` is the one permit `notify_one` stores; `sleeping` are the futures
`enqueue_retry` spawns. The end of the process empties everything.

`JobLifecycle` is the promise both make: a job is new, queued, running or gone,
never two of them, goes back to the queue only with the next attempt number and
within its limit. Delivery is at most once. For the durable queue the end of a
process takes only running jobs along, for the other also queued ones.

`ReadyScore` computes the gap of doubles near `priority * 1e15` and rounds half to
even. Equal scores are ordered by the text of the member, which begins with the
number, so the order is that of decimal digits.

### Follow import

The queue is reduced to what its own models establish: copies of the job, each
taken once, in any order. Steps follow the handler: lock, read the request, claim
the lowest pending item, ask the rate limiter, follow, record, release, enqueue
the next link. A claim and a result each hold the row for a step of their own
(`"claiming"`, `"marking"`): the claim is `FOR UPDATE SKIP LOCKED`, so a second handler,
which a lost lock lets in, passes over the row and may complete the request although
its item is still in the first one's hands. The lock belongs to a session that may end under its holder
(`LoseLock`). `monolith` tells the two deployments apart. In one process a crash
takes the queue along and the restart runs the recovery (`CrashMonolith`);
otherwise the API's restart runs it while workers and their copies go on
(`Recover`). Recovery runs only in processes of the roles `api` and `all`.

### Repository commits and the event stream

`AtpRepo` models PostgreSQL's SERIALIZABLE as the code relies on it: a snapshot
at the first read; the update of the actor's row waits for a concurrent writer
and fails if one committed after the snapshot (`Stale`); any transaction may
be aborted by the serialization checks (`SsiAbort`); a failed one starts over within
`MaxSerializationRetries`; a `COMMIT` may succeed although its answer is lost
(`FailAfterCommit`). A commit is named by its rev, a tree by its set of
entries. What the calls write is one of `Workloads`. Deleting a note first sets
`deleted_at` outside any of this.

`EventLog` has one writer per event: a commit (number drawn, then row and frame
visible together) or an account broadcast (row first, frame in a second
statement). `SubscribeRepos` adds the bus, which may lose events while a process
resubscribes, the bounded broadcast channel, and the handler: subscribe, read
pages after the cursor, go live when a page is short. The relay is external: it
remembers the highest number it was sent and reconnects with it.

### Deferred commit

`Copies` are the jobs ever enqueued for one post, each with its retries.
`Tick` counts seconds; a copy that is due may still wait. `Decide` reads the
video's status and the elapsed time; `CommitPost`, `ClearPending`, `EnqueueUpdate`
follow in the code's order, each with its own failure. `PollEnds` is any end of a
video poll, also one after another poll has ended differently. The model shows a
mark that outlives its post's commit: a recovery that has read the post before
the commit marks it again, and its copy ends at the lock. The next recovery skips
the post because it has an `at_uri`.

### Leader

`timer[p]` runs to the end of the sleep, the next check, the ping or the stop limit;
`age[p]` counts ticks a task has run while its process held no lock. The ping of a check
is awaited inside the `select!` arm (`leader.rs:110`): until it answers or fails, `lead` hears
neither the shutdown nor the task's end. The code sets it no limit; `PingTime` stands for
what the network takes to give it up, and is part of the bound on an overlap. A task that
was told to stop need not listen; it is aborted at the limit, and the abort takes
effect at its next `await`.

### Repository trees and their readers

In `RepoTree` a CID is the content it is the hash of, so a set of blocks is a set
of contents. `build_mst` with its layers, subtrees and prefix compression is an
operator from record rows to a root and blocks; keys are short byte strings, so
that two share a prefix, and the layer their hash gives is any of `Layers`. A
commit is one step (`AtpRepo` takes it apart). A reader takes a step per query:
`getRepo` reads the head, then the blocks, and another server walks the file,
whole or with blocks missing. A post's row goes at its soft delete (`SoftDelete`),
before the delete commit takes it out of the tree; `getRecord` looks posts and
other records up in tables of their own, then reads the block. A query may fail (`ReadFails`).

### Relations, follows and blocks

`Relations` has an operator per repository function. In `Social` three records of
one relation are kept: the row, the AT record in the follower's repository, and
what the other ActivityPub server believes. Each handler is a call that takes a
statement, a commit or a request at a time; each of the last two may fail, and a
failed request may have been carried out. `alone` says that no other call on
the same pair overlapped a call, `failed` that one of its steps did: the contract
of a call (`Contract`) is asked of those that ran alone and did not fail,
whatever earlier races and failures left them to start from. A target is named by
a user name or an address (`"name"`), or by a DID or an AT handle (`"did"`, `Namings`): the
second goes to `follow_bsky` whoever it is, which neither reads `is_locked` nor refuses
the account itself, accepts the row, commits the record and sends no ActivityPub
Follow. The poll of Bluesky followers (`PollUser`) accepts rows the same way. `admitted` has the pairs
that were approved, or that no approval was asked for. Every local account is taken to have a DID,
and to be named by name or DID, as its own URI is refused.

### Posts from two networks

`Ingest` delivers the activities of an inbox in any order, with repetitions and
lost ones, and the events of a Jetstream in order, again from the saved cursor
after a reconnection or a crash. A handler under READ COMMITTED reads in one step
and writes in a later one, where the unique indexes decide; `with_unique_retry`
starts over. A person of another Seiran server has two identities, each of
their posts two ids; halves that name each other are merged, the other
half's rows are moved by a later job. A copy made by a bridge stays a row.

### Posts, delivery and timelines

`Notes` has one call per request. Commits to the repository and tasks spawned
for likes and reposts are steps of their own, `ap-delivery` is a job that fans
out and may be tried again. Only what decides who gets an activity is kept of
delivery: the inboxes, and whether it is addressed to the public. Visibility is
derived as the code derives it, for REST and for XRPC. `Feeds` takes one request
from its first query to its response; relations, posts and suspensions change
in between. `req.seen` is what the viewer could see at some instant,
`req.always` what belonged to the timeline at every instant.

### Lists and relays

A call in `Lists` is a record: the step it stands at (`pc`), and what it has read that a later
step uses: a key, the members still to publish, the records still to withdraw, the actors still
to unfollow. `follows` counts
nothing: whether the list relay must follow an actor is asked of the member rows,
twice in a call, before and after they change. `hist.calm` says that calls and
jobs came one after the other and none failed; `hist.over` has the record keys
that were overwritten when a member was added again, `hist.stale` those a call was to
clear and did not, when their record was gone: `unpublish_list_from_atp` drops the error of
the two statements that clear them (`lists.rs:246`, `:257`) and goes on (`Misses`), and a request
may end before it comes to them (`Breaks`).

### Accounts

A password, a code or a token is a value; a grant is in its owner's hands once
its row is there. `now` counts seconds, so that two steps may share one, as a JWT
and a revocation may. What is checked is kept in `log`: the secrets compared, the
uses of each grant, the accounts made, the tokens accepted, by whom, and what had been
revoked when they were. Most requests are let in by `extract_auth` (`Authenticate`). The
WebSocket of `/api/streaming` is let in by the signature of its token alone, and so is an
upload that carries a token in its form when its header is refused
(`VerifyTokenIgnoringExp`).

### Migration and DIDs

A key is a number, a DID of a new account the number of its key. plc.directory
keeps the key and the number of the newest operation, and accepts an operation
that names it. A request to it, to DNS or to the source may fail before or after
it took effect; the process may stop between any two statements; the start-up
recovery enqueues the jobs of the requests it finds. Jobs of one request take the
lock of the request, and end when it is taken. Any statement of a job may fail
(`StatementFails`): the lock is released and the worker tries again while attempts
are left (`ExecuteWithRetry`); where an error is only logged, the action says so. A
record whose bytes cannot be read ends the job for good. A lookup, the insertion
it decides and the marks that follow are steps of their own, so that another
request may come between them; the unique constraints then have the last word.

### Media

Rows, storage objects and references are three sets; a file has an age of three
steps (new, about to be a week old, old). Every handler goes one statement or
request at a time: an upload looks its content up, renews the row it found or
chooses a provider, checks the quota, puts the thumbnail and the object, and upserts
the row; a post is inserted, its attachments one by one, its embed chosen, its record
committed or deferred until the video service is done. The service is external: it
calls back through `uploadBlob`, is polled, and may fail. A profile is read, merged,
written and committed; `putRecord` of a profile writes the row the other way round.
The collector deletes the row, in one statement that looks for references once
more, and then the object. Any statement may fail and the process may restart, which
takes the requests and the jobs in memory away and resumes those the rows wait for.

`astray` remembers what was already gone when an upload answered with it or a record
named it (section 3, known gaps); the properties ask nothing of that.

### Remote views

A handler or a job goes through stages. A stage reads the tables and fetches in
one step and leaves a list of statements, which are executed one by one, so that
anything may happen between a fetch and a write and between two writes. A
statement that the database refuses is handled as the code handles it there: the
error ends the job, the statement is skipped, the rest is given up, a link is noted
to lead nowhere, or the profile is shown unsaved. The other server's documents
change meanwhile; requests and queue pushes fail; a restart ends what is under way,
empties the cooldowns and queues the start-up backfill. Copies of a job that wait
together are one element of the queue.

### Streaming

An operation publishes and inserts its notification in separate steps, in the
order of the code; the id is drawn before the row is committed. The bus loses
events while a process is not subscribed, a broadcast channel drops the oldest, a
send may fail with or without having arrived. A Mastodon connection takes an
event for a hint, reads the table 0.8 s later, and reads it every 30 s besides.

### Direct messages

The chat service keeps the sequence of messages of each conversation with their
reactions. The poll reads a page newest first down to the last message it knows
(older pages only of a conversation it never read), and imports what it found, a
message per step; jobs send messages,
reactions and deletions, and record the id that comes back. The user reads,
reacts and hides meanwhile.

## 3. Runs

| Run | Components | Properties |
|---|---|---|
| `redis` | `RedisJobQueue` | `QueueSafe`, `CleanStop`, `ImplementsLifecycle`, `QueueProgresses` |
| `workers` | `Leader`, `MemoryJobQueue`, `ReadyScore`, `Media` | `LeaderSafe`, `LeaderTakenOver`, `StartsInOrder`, `JobsSettle`, `ImplementsLifecycle`, `OvertakingBounded`, `MediaServed`, `MediaCollected` |
| `jobs` | `FollowImport`, `Dm` | `ImportSafe`, `ResultsFinal`, `ChainSettles`, `DmSafe`, `DmConverges` |
| `repo` | `AtpRepo`, `RepoTree` | `RepoSafe`, `CallsEnd`, `ImplementsEventLog`, `RepoReads` |
| `posting` | `Feeds`, `Notes`, `Lists` | `PagesShowVisible`, `PagesHaveNoHole`, `PrivacyKept`, `PostsAccounted`, `ListsSettle` |
| `federation` | `Social`, `Ingest` | `FollowsKept`, `HalvesMeet`, `IngestExact`, `CallsSettle` |
| `access` | `SubscribeRepos`, `Accounts`, `Migration` | `RelaySafe`, `EventsArrive`, `AccessKept`, `IdentityKept`, `ImportComplete` |
| `peers` | `DeferredCommit`, `Remote`, `Streams` | `NeverForgotten`, `WaitsEnd`, `ViewsKept`, `RemoteSettles`, `StreamsNotify` |
| `deferred_twice`, `deferred_limit`, `migration_stuck`, `dm_recipient` | `DeferredCommit`, `Migration`, `Dm` | one statement each, refuted (below) |

What the properties say is in the comments before them. Those that need a word:

* `QueueSafe` is the type invariant, `SingleCopy`, `PermitsAccounted`,
  `NothingLostWithoutFault` and `DrawnSeqsFresh`; `LeaderSafe` the type invariant,
  `OneRunner`, `OverlapBounded` and `HolderLeads`. The proofs are about them.
* `ImportSafe` says of a completed request that no item is pending while no lock session was
  lost; after lost ones, unless an error, a crash or the rate limit stopped a handler, each
  pending item is in some handler's hands, who will write its result.
* `FollowsKept`: a key in a row names a record once no call works on the pair; and an account
  that always asked to approve its followers has none it did not approve, among those who
  followed it by name or sent it a Follow. Those who came by DID or from the
  poll are excepted, as the code asks nobody about them.
* `ListsSettle`: a stored key names a record, or is one of `hist.stale`. When calls and jobs came
  one after the other and none failed there are no such keys, and lists, records, follows
  and relays agree.
* `RepoSafe` is that each repository is one chain with increasing revs, that no
  call starves the others, and that a commit changes its own key and those of
  soft-deleted posts only.
* `CallsSettle` asks of every call that ran alone and did not fail what its
  caller was promised, from every state earlier races may have left, and that an
  account that moves keeps its followers. A follow by DID or AT handle is promised the row and the AT
  record only: the other server is not told.
* `PagesShowVisible`: what a page shows, in a row or embedded in one, its viewer could
  see at some instant of the request, and an author hidden throughout has no row.
  Two surfaces check less, as in the code: a list drops direct posts only, and the
  mentions also show a post, even a direct one, to whom a notification about it went.
* `PagesHaveNoHole`: a post that belonged to the timeline during the whole request
  is on the page unless the page is full of later ones.
* `PrivacyKept`: neither a record, nor a relay, nor an inbox outside the
  recipients gets a private post, by whichever of the two APIs it is made; and no
  reply, quote or repost widens one.
* `ImportComplete`: a migration that reached `deactivating_source` has every
  record, post and blob; and none waits for a job that is not there. Excepted from
  the second half are a job that the queue did not take, that used up its attempts
  or met an unreadable record, and an account that two requests confirmed.
* `AccessKept`: guesses, grants, quotas, and `RevokedRefused`, which is about the tokens
  `extract_auth` accepted; where only the signature is checked a revoked token still opens
  (section "Disagreements"). One use of a grant (`UsedOnce`) is not claimed of mailed short codes, which
  are looked for and then deleted (`common/repository/email_short_code.rs:87`), so that two
  sessions may be opened with one, nor of the digits of an app, which nothing marks as used.
* `RepoReads`: what a reader gets is one commit's content, or an error.
* `ViewsKept`: among others, a local user keeps the name its row is found by, whatever
  other servers say of its DID. Excepted is a user whose DID an account elsewhere
  lists as another account of its own: `resolve_also_known_as_uri` upserts the row
  found by that DID without the guard its sibling in `target_resolve.rs` has.
* `RemoteSettles`, `StreamsNotify`, `DmConverges`: looking again and again shows what
  the source says; a notification reaches every connection that stays; the last
  page of a conversation is the same on both sides.

### Bounds

| Component | Bounds |
|---|---|
| `RedisJobQueue` | 2 processes of 1 permit, 2 jobs of 2 attempts on two priorities, 1 fault, 1 stop, batch of 1, one job one process cannot parse |
| `MemoryJobQueue` | 1 process of 2 permits, 3 jobs on two priorities, 1 fault, 1 stop |
| `ReadyScore` | the code's four priorities, numbers 0–19 and 86–105 (a distance of 16 is reached), 2 jobs waiting |
| `Leader` | 2 processes, intervals 1, 2, 2, a ping of up to 1, 2 lost sessions, 1 error, 1 stop |
| `FollowImport` | both deployments, 2 workers, 2 items, 2 copies of 2 attempts, 1 fault, 1 lost lock, 1 recovery |
| `AtpRepo` | 3 calls of 3 attempts in three workloads on 1 or 2 repositories, 1 fault |
| `SubscribeRepos` | a commit and an account event, 3 numbers, page of 1, channel of 1, 2 disconnections, 1 fault |
| `RepoTree` | 4 keys in 2 collections, layers 0–2, 2 values, 1 commit during a read, pages of 1, 1 missing block; the limits 51 and 128 of the code are 2 |
| `DeferredCommit` | both deployments, 2 copies of 2 attempts (3 in `deferred_twice`, 20 of the code's 3 to 4 s in `deferred_limit`), waits of 1–2, limit 2, 1 poll (2 in `deferred_twice`), 1 fault, 1 restart |
| `Social` | 2 local actors, one remote actor with an AT repository and one without, 3 calls of 17 kinds on 4 pairs, one of an actor with itself, 2 at a time, 1 fault, 1 move; every account but the one without an AT repository approves its followers at first, and may change that |
| `Ingest` | 9 scripts over 2 people and 6 objects, 2 calls at a time, up to 1 repetition, 1 lost connection, 1 fault, 1 crash; 2 tries of a transaction, 3 attempts of a job |
| `Feeds` | 3 actors, 5 posts, 7 ids, windows of 1 and 2 ticks of 2 ids, pages of 2, 1 change during a request, every surface |
| `Notes` | 5 actors, 7 rows, 9 groups of scripts of 2 to 4 requests, 2 at a time, 1 fault, 1 crash |
| `Lists` | 2 lists, a Fediverse and a Bluesky member, 2 relays, 6 scripts, 1 fault |
| `Accounts` | 3 accounts, 17 groups of scripts of 2 to 5 requests, 2 at a time, 1 to 3 ticks, at most 1 crash; every limit of attempts, addresses and grants is 1 |
| `Migration` | 1 account to move in, 1 to move out, newcomers; up to 2 records and 1 blob; one fault of each kind (network, database, lost answer, queue, settings, lease, crash, registration closed), or two of the database, 2 attempts of a job; both queue back ends |
| `Media` | scripts of up to 4 requests, 2 at a time, 2 users, up to 2 faults (failed statements and requests, restarts), up to 2 weeks, a collection batch of 1 |
| `Remote` | 7 people of every kind, 4 links, 20 scripts of 1 to 3 requests and up to 2 edits elsewhere, a live fetch of 1 and a whole one of 2, 0 or 1 fault, 2 attempts, 1 or 2 slots |
| `Streams` | 2 processes, connections of both kinds, channels of 1, 1 fault |
| `Dm` | 1 user, 2 peers, pages of 2, 4 messages, 1 reaction per user, 1 or 2 faults |

Why they are enough to be interesting: every hazard listed needs at most
two actors on one object and one or two faults; a batch, page, window or channel
of one or two is exceeded by the jobs, rows or events at hand; two attempts give
one retry; the waits of three attempts end by time and by count; three calls on
one repository use up three attempts; a limit of 1 is reached by the second
request and passed by the third. A third concurrent call adds no new kind of
meeting to handlers whose steps are single statements on the same rows. One
permit per process is enough for the Redis queue because the in-memory one has
two over the same engine and the proofs cover every number. Every property of a
passing run is also checked against a faulty variant of one definition (the
operators commented "Faulty variant"), which TLC finds to violate it. Deadlock
checking is off where a system may end: an import is over, all writers have
written, a script is through.

### Disagreements between code and documents

Four runs check statements of the repository's own comments and documents, and
fail:

1. `CommittedOnce` (`deferred_twice`): the lock separates two copies of the job in
   time, but the second does not look whether the post has been committed.
2. `FallbackFirst` (`deferred_limit`): the limit of 70 s is said to act before the attempts
   run out (`common/jobs/bsky_post_commit_deferred.rs:36`); nineteen waits of 3 to 4 s may
   end before 70 s have passed.
3. `SignatureAsked` (`migration_stuck`): the job that fetches the repository enqueues
   the next one while it still holds the request's lock; taken by another worker
   at once, that one finds the lock taken and ends, and the request stays in
   `requesting_plc_signature` until a restart.
4. `SentToRecipient` (`dm_recipient`): the conversation of a thread is cached by its
   root, the recipient belongs to the message (`docs/protocols.md:775`); a message
   of the thread addressed to someone else goes into the first conversation.

More were met on the way and have no run of their own. Those with a definition
beside the model name it.

* `FifoWithinPriority` (`common/queue/redis.rs:65`): from priority 10 on the score
  rounds the sequence number; equal scores leave in the order of their text.
  `OvertakingBounded` says by how much.
* `CursorComplete` (`docs/database.md:277`): event ids become visible out of order; a
  relay that has seen the higher one and reconnects never gets the lower one.
* First read of a Mastodon connection (`api/handlers/mastodon/streaming.rs:327`): when
  it fails, or the client asks for notifications only after connecting, the base
  line is 0 and past notifications are sent as new (`docs/protocols.md:716`).
  `OnlyNews` excepts both.
* Followers of a locked account (`common/follow_exec.rs:219`): they are said not to appear on
  the AT side before they are approved. A follow by DID or AT handle (`:361`), the follower poll
  (`bsky_follower_poll.rs:150`) and the follows restored by a migration
  (`common/jobs/at_migration.rs:917`) do not read `is_locked`. `LockedStaysPending` excepts the first
  two, which `Social` has.
* All sessions are cut (`api/handlers/account.rs:298`): revoking them is said to cut every session
  at once. `GET /api/streaming` (`handlers/streaming.rs:55`) and the token in an upload's form
  (`handlers/drive.rs:165`) are accepted by `verify_token_ignoring_exp` alone, which asks neither for the
  date before which tokens are void, nor for the state of an app's token, nor whether the account
  is suspended or withdrawn. `Accounts` has both doors; `RevokedRefused` excepts them.
* `NoOrphanRecord` (`common/follow_exec.rs:134`): an unfollow between the claim of the
  row and the storing of the record key leaves a record no row knows.
* `HalvesKept` (`docs/protocols.md:444`): two halves that name each other, while their
  authors are two rows, are said to stay as rows of their own; the unique index
  on the pair of ids lets only one in, and after five tries the other is dropped.
* `WithdrawnWhereSent` (`api/handlers/notes/deletion.rs:88`): a Delete goes to the
  inboxes of those who follow when it is delivered, not to the mentioned people,
  answered authors and relays that got the post.
* Given up, yet moved (`docs/account_migration.md:40`): when the answer to the operation
  is lost, the operation that is sent again is refused, and the request is marked
  `failed` although the directory has switched the DID.
* Callback of the video service (`api/handlers/xrpc/repo.rs:213`): it is let in by a
  pending video that the account itself uploaded; when the file was reused, its
  first uploader is another account, and the callback is refused.
* Redraft of a post with a video (`common/repository/post.rs:1674`,
  `docs/database.md:267`): the grace period covers the files attached to the post, not
  the one its record refers to.
* Renewal of an upload (`api/handlers/media_store.rs:65`): row lookup and the
  renewal of its date are two statements; a collection in between removes the row
  that is answered. `Media` has both steps, notes such ids in `astray` and
  excepts them.
* Blob of a transcoded video (`api/handlers/notes/delivery.rs:139`): between the callback
  that stores it and the record that names it nothing refers to its row, so that a
  post made more than a week later, or a callback that was refused, names a blob that
  is not there. `Media` has it and excepts such hashes, through `astray`.
* Backfill of `post_record_blobs` (`api/lib.rs:965`): after an error it stops until the
  next start, and the collector, which leaves files alone while there is something to fill
  in, collects nothing until then. `MediaCollected` excepts it.
* A `did:` in an "also known as" list (`common/jobs/also_known_as_sync.rs:123`) is saved
  through the upsert for Bluesky actors, which renames a row that also has an
  ActivityPub identity.

Four more are built into the statement of passing properties. Claiming an import
item writes the status it already has, so that the advisory lock alone keeps two
handlers off one item (`ImportSafe` asks for one execution while no lock session
is lost); a claim passes over locked rows, so that after a lost lock "no item left" may
mean "none that is free". A key of a list or a member may name a deleted record after a failed
statement (`ListsSettle`). A note is soft-deleted before its delete commit, and the next commit of
its author leaves its key out of the tree without naming it (`RepoSafe` excepts
it). A failed page query counts as an empty page and ends the backfill
(`RelaySafe` holds without one).

## 4. Fairness

Weak fairness on steps the code takes by itself: a future that was woken is
polled, a sleep ends, a query or a Redis command returns (drivers and handlers
have time limits), a stopped container is started again, a resident task goes
round, a timer fires. Nothing is assumed of callers, of faults, of the winner of a
`select!`, of a video ever being ready or of a transaction ever committing
without a conflict.

* `QueueProgresses`, `JobsSettle` and `WaitsEnd` say of behaviours without faults that
  every job settles, since a crash may lose a job by design, and that a stop
  completes. `ChainSettles` holds with a crash in the one-process deployment, where
  the restart runs the recovery.
* `LeaderTakenOver`: clock and steps of each process, and pings shorter than the check
  interval. Pings that each outlast it leave a check due at every turn of the loop, and
  that the shutdown or the task's end is ever noticed is then up to the random choice of
  `select!`, of which nothing is assumed.
* `CallsEnd`, `EventsArrive`: steps of a writer, of the subscriber's loop, delivery by
  the bus while it is subscribed.
* `MediaCollected`: the collector's rounds, the handlers that run, the backfill at
  start-up; not the age of a file, nor the answers of the video service.
* `RemoteSettles`: some job or request under way takes its next step, cooldowns and
  ages run out; strong
  fairness for the step that takes a job from the queue, as the slots of the model,
  which requests use too, may be busy again and again, while in the code requests
  take no permit of a worker. It is asked only of behaviours in which somebody
  looks again and again.
* `StreamsNotify`: tasks, the loops of a process and of a connection, its two timers.
* `DmConverges`: the poll's rounds, jobs, calls. What the peer and the user do is
  bounded by the script, so the conversation comes to rest.

`Social`, `Ingest`, `Notes`, `Feeds`, `Lists`, `Accounts`, `Migration` and `RepoTree`
have safety properties only. Those of the form "once nothing is under way" take
the place of liveness: their calls end by themselves, and what they leave behind
is what can be wrong.

## 5. Proofs

`RedisJobQueueProofs`, for every set of processes and jobs, every number of
permits, attempts, faults and stops:

* `SingleCopyAlways`. `SingleCopy` alone is not inductive: a push in flight may
  add a member for a job that has one. `IInv` adds the types and `NotYetAnywhere`:
  while the caller's enqueue is idle or between `INCR` and `ZADD`, the job has no
  copy at all. Lemmas `ReplaceTask`, `FewerCopies` and `AddMember` say how a step
  that moves, drops or adds one copy preserves it; then there is one lemma per
  group of actions.
* `PermitsAccountedAlways` and `TypeCorrect`. `PInv` says for each live process
  that free permits, the loop's own and the executions add up; finiteness of
  the set of executions is part of it, as cardinalities need it. `TypeOK` needs it
  for the range of `permits`.
* `CleanStopAlways`, an action property, from `PInv`: all permits free
  leaves room for no execution.
* `NothingLostAlways`. `LInv`: while there was no fault, an accepted job that
  every process can parse is present or settled.
* `DrawnSeqsFreshAlways`. `SInv` says that every member's number and every number
  drawn is at most the counter and that no two are equal; `ZADD` moves a number from
  the pushes to the members, and only `INCR` makes new ones.
* `QueueSafeAlways` puts them together.
* `QueueImplementsLifecycle`: every step of every process is, for each job, a step
  of `JobLifecycle` or leaves the job where it is. `RInv` adds what the
  refinement mapping needs (a copy's attempt is within the limit, a job that was
  never accepted is nowhere). `OneJobSteps` reduces a step to the one job whose
  place changes; a lemma per kind of step says which: a call is accepted, a member
  starts or is given up, a future ends or goes back, a process ends with its futures.

`WorkersProofs` of `MemoryJobQueue`, with the same generality: `SingleCopyAlways` and
`PermitsAccountedAlways` (the copies are the heap, the sleeping futures and the running
ones), `StartsInOrderAlways` and `MemoryImplementsLifecycle`. The order rests on `Numbered`:
the members of the heap carry different numbers, none above `sequence`, which a
restart sets back only together with an empty heap. In the refinement the end of a
process is one `LeaveTogether` of all that waits, sleeps or runs in it; a sleeper that
is pushed again is a stutter; an attempt is counted at `enqueue_retry`
(`RetryHasAttempts`), before the sleep.

`WorkersProofs` of `Leader`, for every set of processes and all positive intervals:
`LeaderTypeCorrect`, `OneRunnerAlways`, `OverlapBoundedAlways`, `HolderLeadsAlways` and
their conjunction `LeaderSafeAlways`, from `LInv`. Its core is `Budget(p)`: what is
left of the check, ping and stop timers pays for every tick run without the lock, so
`age` plus the remaining time never exceeds the sum of the limits, the ping's included; TLC
reaches the bound.

`JobsProofs` is about the two components of the run `jobs`. Of `FollowImport`, for any
workers, items, attempts, faults and both deployments:
`ImportIsSafe` and `ImportResultsFinal`. `ImportSafe` alone is not inductive: that
an item is followed once needs that only the holder of the lock is between claim
and result (`LockHeld`), that it holds a pending item (`ClaimsHold`), and that an
item that was followed and is still pending is the one a handler is about to
mark (`FollowedOnce`). That completion passes over no item needs to know who may hold a row:
`RowsHeld` says that a locked row is pending and locked by one handler, `ClaimsHold` that a
handler about to complete the request has found each pending item in
somebody's hands (`AllHandled`). That a running request has a copy of its job needs that a
handler ends without a next link only when the request is over (`StopsRightly`).

`JobsProofs` of `Dm`, for any actors, histories, requests, page size, attempts and faults:
`DmSafeAlways`. That the cursor of a conversation skips nothing is not inductive: it moves with
each import, so it needs to know what the poller still holds. `DmInv` says that while pages
are read they go from some newest message downwards without a gap (`PollFetches`, `Down`), that
while they are imported everything older than the next one to import, as far as it lies in the
newest page, is a post (`PollImports`, `Covered`), and that every cursor stored is at a message
up to which the page is covered (`CursorsOk`). An imported
message becomes a post under its snowflake; `SnowflakesOk` (a snowflake is drawn once, for a post or
for a message) says that it takes no other post's place. The message sent from here gets its id after the poller
may have seen it, and `JobsOk` says that until then its post has no id and one job, so the job
takes no message's post away. The unread count follows from the marks being what was asked
for, the larger of the two whenever two marks meet. `Grown` and `Kept` say what no step undoes (messages
stay, ids stay); every invariant is carried over them by one lemma, and there is one lemma per
action.

`AtpRepoProofs`, for any workloads, calls, attempts and faults: `RepoIsSafe` and
`RepoImplementsEventLog`. `IInv` says of each call that it holds the row of its
actor from its `UPDATE` to its `COMMIT` (`RowHeld`), that a snapshot that is not stale
is the head (`Snapshot`), that its event id is above all visible ones of its actor
(`SeqAbove`), that its tree covers what the next call will load (`TreeCovers`); the
history follows: one chain, increasing revs. That calls run out of attempts only
by a fault is a counting argument: each failure is paid by another call that has
committed meanwhile (`FailuresPaid`, over the cardinality of the calls that have).
In the refinement a call that starts over gives its number back to nobody.

`ReadersProofs` is about the two readers that run against concurrent writes. Of
`SubscribeRepos`, for any numbers of events, page size and capacity: `RelayIsSafe`. An event the relay is owed is, at every moment, sent, or after the page
in the table, or in the page, or on the bus, or its writer is about to publish it
(`NoGap`, `OwedComes`); `WriterKeepsNoGap` and `BackfillKeeps` carry this through the
two sides of the race between backfill and live phase.

`DeferredCommitProofs`, for any copies, attempts, waits, limit and faults:
`PostNeverForgotten` and `NoCardBeforeTime`. `AllWaited` bounds from below when an attempt
is due, so that the last one comes after the limit when the waits outlast it.
This is the only place where the numbers matter, and with those of the code the
premise fails (`FallbackFirst`).

`ReadersProofs` of `Feeds`, for any actors, posts, databases, page sizes and windows and any
number of writes by other requests: `PagesShowVisibleAlways`. What a request holds is measured
against two histories, the posts its viewer could see and the authors hidden from them at
every instant so far. `FeedsInv` says that they are up to date (`UpToDate`) and that each id
chosen and each row is `Admitted`; one lemma per surface shows that its query selects what
the viewer sees at that instant (`Fit`), and `Grows` that no write changes a post's author
or visibility, so what was admitted once stays admitted however long the request takes.

`PagesHaveNoHoleAlways` is the other half: nothing that belonged to the timeline throughout is
left out. `Found` is "on the page, or the page is full of later ones"; the lemmas about it are
that it passes to the newest of a set (`NewestFinds`), to a larger set (`FoundInLarger`) and
from what was left of the page to the whole (`FoundBelow`). They count, so they need
induction; it comes from the greatest element of a finite set of numbers
(`GreatestOfFinite`), which follows from the well-foundedness of `Nat`. `HolesInv` says
where a search stands: `upper` has come down past everything wanted that is not found, every id
chosen is above it, and the next window lies below (`Descending`). The first windows reach less
far back than the later ones (`WindowsAssumption`, as `WINDOW_HOURS` does), or two
windows would overlap in what they count. In the social timeline the search need not find
what the local half will (`Mine`), and no write changes which posts these are.

`SocialProofs`, for any actors, scripts, calls and faults: `FollowsKeptAlways`. Neither half
is inductive. That a row's key names a record needs to know where each key drawn is: in
`SInv` a key is in one hand only (`KeyInv`), a row, a call that committed the record and
has yet to store its key (`HeldOK`), or a call that has read it and is about to
delete the record (`DeletingOK`), and the record of a row is there unless a call that clears
the row is under way (`RowsKept`). That a closed account (`Closed`: one that always
asked) has no follower but those it approved and those nobody asked it about (`admitted`) needs that a
call about it by name has not left the branch it chose for pending requests (`Obeys`) and that only the
approving calls, the DID branch and the poll write "accepted", for pairs in `admitted`
(`ApprovalOK`). The operators of `Relations` enter through what they do to one row
(`RowWrite`), one lemma each; then there is one lemma per action. The proof made
visible that two arms of `FollowBranch` overlapped; the model now orders them
as the code's `match` does.

`ListsProofs`, for any lists, members, relays, scripts and faults: `ListsSettleAlways`. Its two
halves need two invariants, and TLC checked both on the run's scripts first. `KeysInv` holds
whatever overlaps and whatever fails, a dropped error of a clearing statement included. It says that every key is in one place, a row or the
hands of the call that is about to store it (`OnePlace`), that a key a call has read in
order to withdraw its record is where it was read or nowhere (`Withdrawn`), and that a stored
key names a record unless some call has just deleted the record and is about to clear that very
row, or was and did not (`Named`, `hist.stale`). Most steps only take keys away, and one lemma (`KeysLess`) covers them; drawing,
storing and deleting a key have one each. `CalmInv` speaks of runs in which calls and jobs
came one after the other and none failed: then there is one call at most, and each table is what it
should be but for what that call, or the jobs it left, have still to do (`CalmLists`,
`CalmRows`, `CalmRecords`, `CalmFollows`, `CalmRelays`). A call that publishes members
may leave a follow job behind, and one that withdraws records has already left its unfollow jobs, so
jobs and calls do meet; `JobOf` says that such a job is about an actor nobody else is about
to follow or unfollow. There is one lemma per action, and `ListsSame`, `RowsSame`, `RecordsSame`, `FollowsSame`
and `RelaysSame` for the tables an action leaves alone.

Assumptions are the named `ASSUME`s and assumption operators of the modules:
positive limits, functions of the right type, numbers in `Nat`; that "free" is no
worker (`WorkersAssumption`); of `Social`, that `None`, SQL's `NULL`, is neither a number nor a
status (`NullAssumption`) and that pairs are pairs of actors (`PairsAssumption`,
`KindAssumption`); of `AtpRepo`, that calls are finitely many
(`WritersAssumption`), that a workload puts a post once (`PutOnceAssumption`: the
handler draws a new key for each) and that the placeholders are no members; of `Feeds`, that
the first database has the tables' columns (`TablesAssumption`), that ids are finitely many,
limits and bounds numbers (`FeedsAssumption`, `PagesAssumption`), and that there is a window and
none is shorter than the one before it (`WindowsAssumption`); of `Dm`, that what it starts from has
the columns, snowflakes and cursors that its own steps keep (`ScriptsAssumption`), that a page holds a
message (`PageSizeAssumption`) and that `NULL` is no message (`NullAssumption`); of `Lists`, that no list,
no key and no row are no values of theirs (`ListsAssumption`) and that a list is created once, as
its id is drawn (`ListScriptsAssumption`). The
tuples of `DeferredCommit`'s and `SubscribeRepos`'s assumptions are hypotheses of the
theorems, and the MC modules of their runs meet them.

Only model-checked. Liveness under fairness is outside the prover: `QueueProgresses`,
`LeaderTakenOver`, `JobsSettle`, `MediaCollected`, `ChainSettles`, `DmConverges`, `CallsEnd`,
`CallsSettle`, `EventsArrive`, `WaitsEnd`, `RemoteSettles` and `StreamsNotify` (of `WaitsEnd`,
the part `NoEarlyCard` is a step property and proved). `RepoReads` is about a
tree built by recursive operators, which the prover cannot follow, and `OvertakingBounded` about
rounding to powers of two. `MediaServed`, `PrivacyKept`, `PostsAccounted`,
`HalvesMeet`, `IngestExact`, `AccessKept`, `IdentityKept`, `ImportComplete` and `ViewsKept` are
conjunctions about components of many actions whose inductive invariants have not been written.

## 6. Not modelled

* Mastodon and Misskey endpoints: they convert requests and answers of handlers
  that are modelled. Rendering, HTTP signatures, parsing of documents and of
  MIME types, search, image conversion, S3 transfers, texts, facets and embeds.
* The block watch of the AT side and the inbound `Flag`, `Add` and `Remove`: each writes
  single rows by an upsert. The pages of the follower poll: `Social` has the row it accepts.
* A session of the leader's lock that the database keeps although the process's connection is
  broken: it ends when the database notices, and until then nobody leads.
* Administration beyond suspension, roles, IP blocks and site settings: single
  statements.
* A `PUBLISH` whose reply is lost and whose event is then also delivered locally
  (`common/event_bus.rs`): in `subscribeRepos` a duplicate, which relays skip by
  number (`Streams` has it).
* A panic while a lock is held: the connection returns to the pool with the lock.
  What happens to it depends on the pool.
* Clock skew between processes, which would let a rev go backwards.
* A subscriber of `subscribeRepos` that overran its channel, or whose event was
  committed and never published: modelled, and excepted from `RelaySafe`, as the
  code has no recovery but a reconnection.
* The frontend.

## 7. Plan

1. Done: queues and workers, leader election, follow import, commits, trees and
   their readers, event stream, deferred commit, follow protocol, inbound posts and
   merges, notes and delivery, timelines, lists, accounts, migration and DIDs,
   media, remote views, streaming, direct messages; proofs for both queues with
   their refinement, the leader, follow imports, commits with their refinement,
   the event stream, the deferred commit, what a page
   shows and leaves out, the follow protocol, lists with their relays, and direct messages.
2. Next proofs: `CountsMatch` of `Notes`.
3. Next models: the block watch beside `Social`; delivery
   of direct messages over ActivityPub and over the chat service in one model;
   `Migration`'s import on top of `RepoTree`'s reader instead of a set of records.

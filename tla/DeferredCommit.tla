--------------------------- MODULE DeferredCommit ---------------------------
(***************************************************************************)
(* The Bsky commit of one post whose video is still in the pipeline: the   *)
(* job BskyPostCommitDeferred (jobs/bsky_post_commit_deferred.rs), the     *)
(* polls of the video (jobs/bsky_video_poll.rs), the API side that records *)
(* the wait and enqueues the job, and the startup recovery that does so    *)
(* again (seiran-api lib.rs).  A copy is one enqueued job with all its     *)
(* retries.  Time counts seconds since media_files.created_at.             *)
(***************************************************************************)
EXTENDS Integers, FiniteSets

CONSTANTS
    Copies,         \* jobs for this post that can ever be enqueued
    MaxAttempts,    \* retry_config_for(BskyPostCommitDeferred).max_attempts
    RetryDelays,    \* seconds a retry waits: base_delay_ms with its jitter
    SettleTimeout,  \* SETTLE_TIMEOUT_SECS
    MaxTime,        \* bound: the clock stops here, past SettleTimeout
    MaxPolls,       \* bound: BskyVideoPoll jobs
    MaxFaults,      \* bound: DB errors, failed enqueues, lost replies, worker deaths
    MaxRestarts     \* bound: starts of the API process

AttemptsAssumption == MaxAttempts \in Nat \ {0}
DelaysAssumption == RetryDelays \subseteq Nat
TimeoutAssumption == SettleTimeout \in Nat /\ MaxTime \in Nat /\ MaxTime >= SettleTimeout

VARIABLES
    monolith,   \* TRUE: --role all, in-memory queue; FALSE: split roles
    now,        \* the clock
    video,      \* media_files.bsky_video_status
    polls,      \* BskyVideoPoll jobs that are alive
    pending,    \* posts.pending_bsky_media_file_id IS NOT NULL
    marked,     \* history: set_pending_bsky_media_file has succeeded once
    commits,    \* records of this post in the repository (at_uri: the last)
    update,     \* SeiranPostUpdate jobs enqueued
    api,        \* enqueue_bsky_post_commit_deferred: "post", "pending", "enqueue", "idle"
    pc,         \* pc[c]: where the copy c is
    attempt,    \* attempt[c]: QueuedJob.attempt
    due,        \* due[c]: when the copy may run again
    embed,      \* embed[c]: "none", "video" or "card"
    result,     \* result[c]: "ok" or "err"
    lock,       \* copies that hold the advisory lock of post_id
    faults, restarts

post == <<video, pending, marked, commits, update>>
copy == <<pc, attempt, due, embed, result>>
vars == <<monolith, now, polls, post, api, copy, lock, faults, restarts>>

Locked == {"read", "commit", "clear", "update", "unlock"}
Alive == {"queued"} \cup Locked
Unused == {c \in Copies : pc[c] = "unused"}

(* The time d seconds from now, which a stopped clock has reached.         *)
After(d) == IF now + d < MaxTime THEN now + d ELSE MaxTime

Goto(c, l) == pc' = [pc EXCEPT ![c] = l]
Fault == faults < MaxFaults /\ faults' = faults + 1

Init ==
    /\ monolith \in BOOLEAN
    /\ now = 0
    /\ video = "pending" /\ polls = 1
    /\ pending = FALSE /\ marked = FALSE /\ commits = 0 /\ update = 0
    /\ api = "post"
    /\ pc = [c \in Copies |-> "unused"]
    /\ attempt = [c \in Copies |-> 0]
    /\ due = [c \in Copies |-> 0]
    /\ embed = [c \in Copies |-> "none"]
    /\ result = [c \in Copies |-> "ok"]
    /\ lock = {}
    /\ faults = 0 /\ restarts = 0

Tick ==
    /\ now < MaxTime
    /\ now' = now + 1
    /\ UNCHANGED <<monolith, polls, post, api, copy, lock, faults, restarts>>

-----------------------------------------------------------------------------
(* enqueue_bsky_post_commit_deferred *)

(* commit_regular_post_to_bsky found the embed Pending: the video has not  *)
(* settled.  Once it has, the post is committed at once, without a job.    *)
Defer ==
    /\ api = "post"
    /\ video = "pending"
    /\ api' = "pending"
    /\ UNCHANGED <<monolith, now, polls, post, copy, lock, faults, restarts>>

(* set_pending_bsky_media_file; its error is logged and the call goes on.  *)
SetPending ==
    /\ api = "pending"
    /\ api' = "enqueue"
    /\ \/ pending' = TRUE /\ marked' = TRUE /\ UNCHANGED faults
       \/ Fault /\ UNCHANGED <<pending, marked>>
    /\ UNCHANGED <<monolith, now, polls, video, commits, update, copy, lock,
                   restarts>>

(* JobQueue::enqueue; its error is logged.                                 *)
EnqueueCopy ==
    /\ api = "enqueue"
    /\ api' = "idle"
    /\ \/ /\ Unused # {}
          /\ LET c == CHOOSE c \in Unused : TRUE IN
                /\ Goto(c, "queued")
                /\ due' = [due EXCEPT ![c] = now]
          /\ UNCHANGED faults
       \/ Fault /\ UNCHANGED <<pc, due>>
    /\ UNCHANGED <<monolith, now, polls, post, attempt, embed, result, lock,
                   restarts>>

(* A start of the API process: resume_bsky_video_poll and                  *)
(* resume_bsky_post_commit_deferred.  The monolith takes its workers, and  *)
(* what they had queued, down with it.                                     *)
ApiRestart ==
    /\ restarts < MaxRestarts
    /\ restarts' = restarts + 1
    /\ api # "post"
    /\ api' = IF pending /\ commits = 0 THEN "pending" ELSE "idle"
    /\ polls' = (IF monolith THEN 0 ELSE polls) + (IF video = "pending" THEN 1 ELSE 0)
    /\ polls' =< MaxPolls
    /\ IF monolith
       THEN /\ pc' = [c \in Copies |-> IF pc[c] \in Alive THEN "lost" ELSE pc[c]]
            /\ lock' = {}
       ELSE UNCHANGED <<pc, lock>>
    /\ UNCHANGED <<monolith, now, post, attempt, due, embed, result, faults>>

-----------------------------------------------------------------------------
(* jobs/bsky_video_poll.rs: getJobStatus, again and again, until it has an *)
(* answer that is written without a look at the status that is there, or   *)
(* until the attempts are used up and the status stays as it is.           *)
PollEnds(s) ==
    /\ polls > 0
    /\ polls' = polls - 1
    /\ video' = s
    /\ UNCHANGED <<monolith, now, pending, marked, commits, update, api, copy,
                   lock, faults, restarts>>

Poll == \E s \in {"ready", "failed", video} : PollEnds(s)

-----------------------------------------------------------------------------
(* jobs/bsky_post_commit_deferred.rs *)

(* try_acquire: a copy that does not get the lock returns Ok and is gone.  *)
TryAcquire(c) ==
    /\ pc[c] = "queued"
    /\ due[c] =< now
    /\ IF lock = {}
       THEN Goto(c, "read") /\ lock' = {c}
       ELSE Goto(c, "ended") /\ UNCHANGED lock
    /\ UNCHANGED <<monolith, now, polls, post, api, attempt, due, embed,
                   result, faults, restarts>>

(* Faulty variant: the time limit acts one second early.                   *)
DecideEarly(c) ==
    /\ pc[c] = "read"
    /\ IF video = "pending" /\ now + 1 < SettleTimeout
       THEN /\ result' = [result EXCEPT ![c] = "err"]
            /\ Goto(c, "unlock")
            /\ UNCHANGED embed
       ELSE /\ embed' = [embed EXCEPT ![c] = IF video = "ready" THEN "video" ELSE "card"]
            /\ Goto(c, "commit")
            /\ UNCHANGED result
    /\ UNCHANGED <<monolith, now, polls, post, api, attempt, due, lock, faults,
                   restarts>>

(* deferred_commit_material, bsky_video_embed_material and the choice of   *)
(* the embed.  posts.at_uri is not read.                                   *)
Decide(c) ==
    /\ pc[c] = "read"
    /\ IF video = "pending" /\ now < SettleTimeout
       THEN /\ result' = [result EXCEPT ![c] = "err"]
            /\ Goto(c, "unlock")
            /\ UNCHANGED embed
       ELSE /\ embed' = [embed EXCEPT ![c] = IF video = "ready" THEN "video" ELSE "card"]
            /\ Goto(c, "commit")
            /\ UNCHANGED result
    /\ UNCHANGED <<monolith, now, polls, post, api, attempt, due, lock, faults,
                   restarts>>

(* commit_post: a new rkey at every call, posts.at_uri set to it.          *)
CommitPost(c) ==
    /\ pc[c] = "commit"
    /\ commits' = commits + 1
    /\ Goto(c, "clear")
    /\ UNCHANGED <<monolith, now, polls, video, pending, marked, update, api, attempt,
                   due, embed, result>>
    /\ UNCHANGED <<lock, faults, restarts>>

(* Faulty variant: the wait is cleared although the commit failed.         *)
StepFailsClears(c) ==
    /\ Fault
    /\ pc[c] \in {"read", "commit"}
    /\ result' = [result EXCEPT ![c] = "err"]
    /\ Goto(c, "clear")
    /\ UNCHANGED <<monolith, now, polls, post, api, attempt, due, embed, lock,
                   restarts>>

(* An error of the database before or in commit_post; the last of them may *)
(* be the reply to a COMMIT that was carried out.                          *)
StepFails(c) ==
    /\ Fault
    /\ pc[c] \in {"read", "commit"}
    /\ commits' \in {commits, IF pc[c] = "commit" THEN commits + 1 ELSE commits}
    /\ result' = [result EXCEPT ![c] = "err"]
    /\ Goto(c, "unlock")
    /\ UNCHANGED <<monolith, now, polls, video, pending, marked, update, api, attempt,
                   due, embed, lock, restarts>>

(* clear_pending_bsky_media_file; its error is logged.                     *)
ClearPending(c) ==
    /\ pc[c] = "clear"
    /\ Goto(c, "update")
    /\ \/ pending' = FALSE /\ UNCHANGED faults
       \/ Fault /\ UNCHANGED pending
    /\ UNCHANGED <<monolith, now, polls, video, marked, commits, update, api,
                   attempt, due, embed, result>>
    /\ UNCHANGED <<lock, restarts>>

(* The post has been sent to Fedi: an Update(Note) with its at_uri; an     *)
(* error is logged.                                                        *)
EnqueueUpdate(c) ==
    /\ pc[c] = "update"
    /\ Goto(c, "unlock")
    /\ \/ update' = update + 1 /\ UNCHANGED faults
       \/ Fault /\ UNCHANGED update
    /\ UNCHANGED <<monolith, now, polls, video, pending, marked, commits, api,
                   attempt, due, embed, result>>
    /\ UNCHANGED <<lock, restarts>>

(* execute_with_retry, with the delay that is the same at every attempt.   *)
RetryOrEnd(c) ==
    IF result[c] = "err" /\ attempt[c] + 1 < MaxAttempts
    THEN /\ attempt' = [attempt EXCEPT ![c] = @ + 1]
         /\ \E d \in RetryDelays : due' = [due EXCEPT ![c] = After(d)]
         /\ result' = [result EXCEPT ![c] = "ok"]
         /\ Goto(c, "queued")
    ELSE /\ Goto(c, IF result[c] = "err" THEN "discarded" ELSE "ended")
         /\ UNCHANGED <<attempt, due, result>>

Release(c) ==
    /\ pc[c] = "unlock"
    /\ lock' = lock \ {c}
    /\ \/ RetryOrEnd(c) /\ UNCHANGED faults
       \/ /\ result[c] = "err" /\ Fault           \* enqueue_retry fails
          /\ Goto(c, "lost")
          /\ UNCHANGED <<attempt, due, result>>
    /\ UNCHANGED <<monolith, now, polls, post, api, embed, restarts>>

(* A worker process dies with the copy it runs; its session, and with it   *)
(* the lock, ends.                                                         *)
WorkerDies(c) ==
    /\ Fault
    /\ pc[c] \in Locked
    /\ ~monolith
    /\ Goto(c, "lost")
    /\ lock' = lock \ {c}
    /\ UNCHANGED <<monolith, now, polls, post, api, attempt, due, embed,
                   result, restarts>>

-----------------------------------------------------------------------------
Step(c) ==
    \/ TryAcquire(c) \/ Decide(c) \/ CommitPost(c) \/ ClearPending(c)
    \/ EnqueueUpdate(c) \/ Release(c)

Next ==
    \/ Tick \/ Defer \/ SetPending \/ EnqueueCopy \/ ApiRestart \/ Poll
    \/ \E c \in Copies : Step(c) \/ StepFails(c) \/ WorkerDies(c)

Spec == Init /\ [][Next]_vars

(* Time passes, the API call and the handlers of the workers go on; nobody *)
(* has to post, to restart anything or to settle the video.                *)
FairSpec ==
    /\ Spec
    /\ WF_vars(Tick)
    /\ WF_vars((SetPending \/ EnqueueCopy))
    /\ \A c \in Copies : WF_vars(Step(c))

-----------------------------------------------------------------------------
Interruptions == faults + (IF monolith THEN restarts ELSE 0)

(* Even the shortest waits of all attempts reach SETTLE_TIMEOUT_SECS, which *)
(* the code's numbers do not: 19 waits of 3 to 4 s, and 70 s.              *)
WaitsOutlast ==
    \E d \in RetryDelays : (\A e \in RetryDelays : d =< e) /\ (MaxAttempts - 1) * d >= SettleTimeout

(* A copy that has used up its attempts before SETTLE_TIMEOUT_SECS.        *)
RanOut == ~WaitsOutlast /\ \E c \in Copies : pc[c] = "discarded"

(* A post that is not committed is never forgotten.  Once                  *)
(* pending_bsky_media_file_id is set, the next startup recovery sees it    *)
(* until the commit, whatever fails, dies or runs twice; it is set before  *)
(* the job is enqueued; and if that one step fails, a copy of the job is   *)
(* alive, unless its attempts ran out before the video had settled.        *)
NeverForgotten ==
    commits = 0 =>
        /\ marked => pending
        /\ Unused # Copies /\ Interruptions = 0 => pending
        /\ Unused # Copies /\ Interruptions = 1 =>
              pending \/ (\E c \in Copies : pc[c] \in Alive) \/ RanOut

(* The post goes out with the link card while the video is still in the    *)
(* pipeline only when SETTLE_TIMEOUT_SECS have passed.                     *)
NoEarlyCard ==
    [][\A c \in Copies :
          pc[c] = "commit" /\ commits' # commits /\ embed[c] = "card"
              => video # "pending" \/ now >= SettleTimeout]_vars

(* A post that waits is committed in the end, with or without its video,   *)
(* also across a restart, unless the attempts run out before.  An error or *)
(* a death may use up the attempts or the copy; it is the next start of    *)
(* the API that takes the post up again then.                              *)
WaitEnds == pending ~> commits > 0 \/ faults > 0 \/ RanOut

(* Once a post is committed the Fedi side is told its at_uri, whatever the *)
(* second copy of a recovery does meanwhile, unless a step failed or the   *)
(* process stopped on the way.  (The mark itself may come back: a recovery *)
(* that has read the post before its commit sets it again, and its copy    *)
(* ends when it finds the lock taken.)                                     *)
CommitFollowedUp ==
    commits > 0 ~> update > 0 \/ faults > 0 \/ \E c \in Copies : pc[c] = "lost"

(* A post that waits is committed in the end, not before its time, and a   *)
(* committed one is followed up on the Fedi side.                          *)
WaitsEnd == NoEarlyCard /\ WaitEnds /\ CommitFollowedUp

(* "The advisory lock resolves copies that were enqueued twice", "a post   *)
(* that was committed is not committed again".                             *)
CommittedOnce == commits =< 1

(* bsky_post_commit_deferred.rs says of SETTLE_TIMEOUT_SECS that the fall-  *)
(* back acts before the limit of the retries is reached: no copy is        *)
(* discarded where no step fails.                                          *)
FallbackFirst == faults = 0 => \A c \in Copies : pc[c] # "discarded"
=============================================================================

------------------------------ MODULE MCWorkers ------------------------------
(* What the processes do on their own: Leader, MemoryJobQueue, ReadyScore and *)
(* Media in one run.  One of them takes steps, the others are left in an      *)
(* initial state.                                                           *)
EXTENDS Leader, MemoryJobQueue, Sequences, TLC

CONSTANTS None, p1, p2, j1, j2, j3, ann, bob

-----------------------------------------------------------------------------
(* The in-memory queue: one process, three jobs, two of one priority and one  *)
(* above them.                                                              *)
MCPriority == j1 :> 1 @@ j2 :> 1 @@ j3 :> 10
MCMaxAttempts == j1 :> 2 @@ j2 :> 2 @@ j3 :> 1

(* The order of the ready set: the four priorities of queue/worker.rs, with   *)
(* the counter across the places where it gets one digit more.               *)
MCPriorities == {100, 50, 10, 1}
MCStarts == {0, 86}

-----------------------------------------------------------------------------
(* Media: two users; contents "a" and "b" are images, "v" a video, "u" audio. *)

MCTranscoded(h) == IF h = "v" THEN "tv" ELSE "tu"
File(h, kind, by, key, old) ==
    [hash |-> h, bh |-> kind \in {"image", "video"}, by |-> by, kind |-> kind, key |-> key,
     thumb |-> None, prov |-> 1, age |-> old, job |-> None, video |-> "none", cid |-> None]
MediaPost(by, att, rec) == [by |-> by, live |-> TRUE, asked |-> att, att |-> att, at |-> TRUE, rec |-> rec, waits |-> None]
MediaDb(media, posts) ==
    [media |-> media, posts |-> posts, blobs |-> {}, backfill |-> {}, profile |-> (ann :> None @@ bob :> None),
     record |-> (ann :> {} @@ bob :> {}), emojis |-> <<>>, settings |-> [k \in {"icon"} |-> None],
     providers |-> (1 :> [active |-> TRUE, cap |-> None])]
NoMedia == MediaDb(<<>>, <<>>)
(* An old file nothing refers to; posts of others have attachments without a file. *)
Stray == MediaDb(1 :> File("a", "image", ann, 1, "old"), 9 :> [MediaPost(bob, {}, {}) EXCEPT !.att = {None}])
(* An old file in a post, its record known or not filled in yet.             *)
Posted == [MediaDb(1 :> File("a", "image", ann, 1, "old"), 8 :> MediaPost(ann, {1}, {"a"})) EXCEPT !.blobs = {<<8, 1>>}]
(* An old thumbnail of a link card: only the record refers to it; the post    *)
(* after it has no record.                                                   *)
Card == [MediaDb(1 :> File("c", "image", ann, 1, "old"), 7 :> [MediaPost(bob, {}, {}) EXCEPT !.at = FALSE] @@ 8 :> MediaPost(ann, {}, {"c"}))
            EXCEPT !.backfill = {7, 8}]
(* An old video in a post, and what the video service made of it.            *)
Filmed == [MediaDb(1 :> [File("v", "video", ann, 1, "old") EXCEPT !.job = <<ann, "v">>, !.video = "ready", !.cid = "tv"] @@
                   2 :> [File("tv", "video", ann, 2, "old") EXCEPT !.bh = FALSE], 8 :> MediaPost(ann, {1}, {"tv"})) EXCEPT !.blobs = {<<8, 2>>}]

Req(op, name, a) ==
    [op |-> op, name |-> name, by |-> a, hash |-> None, tries |-> <<>>, kind |-> "image", bh |-> TRUE, service |-> FALSE,
     deliver |-> TRUE, files |-> <<>>, after |-> {}, on |-> None, to |-> None]
Up(name, a, h, tries, kind) == [Req("upload", name, a) EXCEPT !.hash = h, !.tries = tries, !.kind = kind, !.bh = kind # "audio"]
Blob(name, a, h) == [Req("blob", name, a) EXCEPT !.hash = h, !.tries = <<h>>, !.bh = FALSE]
Use(op, name, a, files, on) == [Req(op, name, a) EXCEPT !.files = files, !.on = on]
Provide(op, name, on, to) == [Req(op, name, ann) EXCEPT !.on = on, !.to = to]
AfterAll(r, names) == [r EXCEPT !.after = names]
Fedi(r) == [r EXCEPT !.deliver = FALSE]
Script(requests, d, known, nfaults, nweeks) ==
    [requests |-> requests, db |-> d, objects |-> {d.media[m].key : m \in DOMAIN d.media}, ids |-> 9, answered |-> known,
     faults |-> nfaults, weeks |-> nweeks]

(* Two uploads of one content, posted, while the collector is at the stray.  *)
MCUploads ==
    {Script({Up("x", ann, "a", <<"a0", "a">>, "image"), Up("y", bob, "a", <<"a">>, "image"),
             AfterAll(Use("post", "p", bob, <<"a">>, None), {"x", "y"})}, NoMedia, {}, 1, 0),
     Script({Up("x", ann, "b", <<"a", "b">>, "image"), Use("delete", "d", ann, <<>>, 8)}, Posted, {}, 1, 1),
     Script({Up("x", ann, "a", <<"a">>, "image"), AfterAll(Use("post", "p", ann, <<"a">>, None), {"x"})}, Stray, {}, 1, 1)}
(* Deleted and written again, a picture or a video.                          *)
MCRedraft ==
    {Script({Use("delete", "d", ann, <<>>, 8), AfterAll(Use("post", "p", ann, <<"a">>, None), {"d"})}, Posted, {<<ann, "a", 1>>}, 1, 0),
     Script({Use("delete", "d", ann, <<>>, 8), AfterAll(Use("post", "p", ann, <<"v">>, None), {"d"})}, Filmed, {<<ann, "v", 1>>}, 0, 0),
     Script({Up("x", ann, "b", <<"b">>, "image"), AfterAll(Use("post", "p", ann, <<"v", "b">>, None), {"x"})}, Filmed, {<<ann, "v", 1>>}, 0, 0),
     Script({Use("post", "p", ann, <<"v">>, None)}, Filmed, {<<ann, "v", 1>>}, 1, 0),
     Script({Use("delete", "d", ann, <<>>, 8), Use("delete", "e", ann, <<>>, 8), Use("delete", "g", bob, <<>>, 8)}, Posted, {}, 0, 0)}
(* References in the making: an emoji, an icon, an avatar.                   *)
MCRefer ==
    {Script({Up("x", ann, "b", <<"b">>, "image"), AfterAll(r, {"x"}), AfterAll([r EXCEPT !.name = "z"], {"r"})}, Stray, {}, 0, 2) :
        r \in {Use("emoji", "r", ann, <<"b">>, ":x:"), Use("setting", "r", ann, <<"b">>, "icon"), Use("avatar", "r", ann, <<"b">>, None)}} \cup
    {Script({Up("x", ann, "b", <<"b">>, "image"), AfterAll(Use("emoji", "r", ann, <<"b">>, ":x:"), {"x"}), AfterAll(Use("unemoji", "u", ann, <<>>, ":x:"), {"r"})},
            NoMedia, {}, 0, 1),
     Script({Use("avatar", "r", ann, <<"a">>, None), Use("avatar", "q", ann, <<>>, "keep"), AfterAll(Use("avatar", "u", ann, <<>>, None), {"r"})},
            Stray, {<<ann, "a", 1>>}, 1, 0),
     Script({Blob("x", ann, "k"), AfterAll([Req("putprofile", "r", ann) EXCEPT !.hash = "k"], {"x"})}, Stray, {}, 0, 1),
     Script({[Req("putprofile", "r", ann) EXCEPT !.hash = "k"], Use("avatar", "q", ann, <<"a">>, None)}, Stray, {<<ann, "a", 1>>}, 0, 0)}
(* A post with a link card, while others use its picture.                    *)
MCCard ==
    {Script({[Use("post", "p", ann, <<>>, None) EXCEPT !.hash = "c", !.tries = <<"c">>], r[1]}, d, {}, 1, r[2]) :
        r \in {<<Up("x", bob, "c", <<"c">>, "image"), 0>>, <<Use("delete", "d", ann, <<>>, 8), 1>>},
        d \in {[Posted EXCEPT !.providers[1].cap = c] : c \in {None, 1}}} \cup
    {Script({[Use("post", "p", ann, <<"a">>, on) EXCEPT !.hash = "c", !.tries = <<"c">>]}, Posted, {<<ann, "a", 1>>}, 0, 1) : on \in {None, "card"}}
(* Records the references of which are filled in at startup.                 *)
MCBackfill ==
    {Script({Up("x", ann, "c", <<"c">>, "image")}, Card, {}, 1, 1),
     Script({}, [Card EXCEPT !.media = @ @@ (2 :> File("b", "image", ann, 2, "old"))], {}, 2, 0)}
(* Audio and video, with and without Bluesky.                                *)
MCVideo ==
    {Script({Up("x", ann, "v", <<"v">>, "video"), AfterAll(Use("post", "p", ann, <<"v">>, None), {"x"})}, NoMedia, {}, 1, 0),
     Script({Up("x", ann, "u", <<"u">>, "audio"), Up("y", ann, "u", <<"u">>, "audio")}, NoMedia, {}, 0, 0),
     Script({Up("x", ann, "u", <<"u">>, "audio"), Fedi(Up("y", bob, "u", <<"u">>, "audio")),
             AfterAll(Fedi(Use("post", "p", bob, <<"u">>, None)), {"x", "y"})}, NoMedia, {}, 0, 0),
     Script({Fedi(Up("x", ann, "v", <<"v">>, "video")), AfterAll(Up("y", ann, "v", <<"v">>, "video"), {"x"})}, NoMedia, {}, 1, 0),
     Script({Up("x", ann, "u", <<"u">>, "audio"), AfterAll(Use("post", "p", ann, <<"u">>, None), {"x"})}, NoMedia, {}, 1, 0),
     Script({Up("x", ann, "u", <<"u">>, "audio")}, NoMedia, {}, 2, 0)}
(* Storage: full, switched off, removed.                                     *)
MCStorage ==
    {Script({Up("x", ann, "a", <<"a">>, "image"), Up("y", bob, "b", <<"b">>, "image")},
            [NoMedia EXCEPT !.providers = (1 :> [active |-> TRUE, cap |-> c])], {}, 0, 0) : c \in {0, 1}} \cup
    {Script({Up("x", ann, "a", <<"a">>, "image"), Provide("provider", "q", 2, [active |-> TRUE, cap |-> None]), AfterAll(r, {"q"})}, d, {}, 0, 0) :
        r \in {Provide("update", "d", 1, [active |-> FALSE, cap |-> 1]), Provide("unprovider", "d", 1, None)}, d \in {NoMedia, Stray}}
MCMediaScripts == MCUploads \cup MCRedraft \cup MCRefer \cup MCCard \cup MCBackfill \cup MCVideo \cup MCStorage

-----------------------------------------------------------------------------
VARIABLES which,
    seq, ready, drawn,
    db, objects, ids, calls, todo, answered, astray, pipeline, polls, deferred, backfilling, mediaFaults, weeks
order == <<seq, ready, drawn>>
media == <<db, objects, ids, calls, todo, answered, astray, pipeline, polls, deferred, backfilling, mediaFaults, weeks>>

R == INSTANCE ReadyScore WITH Priorities <- MCPriorities, Starts <- MCStarts, Window <- 19, MaxReady <- 2
D == INSTANCE Media WITH
        Scripts <- MCMediaScripts, Calls <- {1, 2}, GcBatch <- 1, Transcoded <- MCTranscoded, faults <- mediaFaults

ASSUME OneProcessAssumption == OneProcess
ASSUME InRangeAssumption == R!InRange

NoOrder == R!Init /\ seq = 0
NoUploads == D!InitWith(Script({}, NoMedia, {}, 0, 0))

MCInit ==
    /\ LeaderInit /\ Init
    /\ \/ which \in {"leader", "memory"} /\ NoOrder /\ NoUploads
       \/ which = "order" /\ R!Init /\ NoUploads
       \/ which = "media" /\ D!Init /\ NoOrder
MCNext ==
    \/ which = "leader" /\ LeaderNext /\ UNCHANGED <<which, vars, order, media>>
    \/ which = "memory" /\ Next /\ UNCHANGED <<which, leaderVars, order, media>>
    \/ which = "order" /\ R!Next /\ UNCHANGED <<which, leaderVars, vars, media>>
    \/ which = "media" /\ D!Next /\ UNCHANGED <<which, leaderVars, vars, order>>

(* The fairness of Leader, MemoryJobQueue and Media, for the part that runs.  *)
MCFairness ==
    /\ WF_leaderVars(which = "leader" /\ Tick)
    /\ \A p \in Processes : WF_leaderVars(which = "leader" /\ Step(p))
    /\ WF_vars(which = "memory" /\ (AcquirePermit(p1) \/ StopAcquiring(p1)) /\ UNCHANGED <<up, queueVars>>)
    /\ WF_vars(which = "memory" /\ Dequeue(p1))
    /\ WF_vars(which = "memory" /\ Drained(p1) /\ UNCHANGED <<up, queueVars>>)
    /\ WF_vars(which = "memory" /\ Exit(p1))
    /\ \A j \in {j1, j2, j3} :
          /\ WF_vars(which = "memory" /\ TaskStep(p1, j))
          /\ WF_vars(which = "memory" /\ \E s \in sleeping : s.job = j /\ SleepOver(s))
    /\ \A s \in {1, 2} :
          /\ WF_media(which = "media" /\ D!StartGc(s)) /\ WF_media(which = "media" /\ D!GcRow(s))
          /\ WF_media(which = "media" /\ D!GcObject(s)) /\ WF_media(which = "media" /\ D!Upload(s))
          /\ WF_media(which = "media" /\ D!Refer(s)) /\ WF_media(which = "media" /\ D!Administer(s))
    /\ WF_media(which = "media" /\ D!BackfillPostRecordBlobs)
MCSpec == MCInit /\ [][MCNext]_<<which, leaderVars, vars, order, media>> /\ MCFairness

(* The resident task is always taken over (Leader).                         *)
LeaderTakenOver == which = "leader" => TakenOver
(* Rounding of the score lets jobs overtake each other by a bounded distance. *)
OvertakingBounded == R!PriorityFirst /\ R!OvertakingBounded
(* What is in use can be served, whatever the collector does (Media).         *)
MediaServed == D!ObjectKept /\ D!InUseServed
(* And what is not in use is collected (Media).                              *)
MediaCollected == which = "media" => D!OrphansCollected
====

------------------------------- MODULE Social -------------------------------
(***************************************************************************)
(* Following, approving, blocking and moving between local actors, AT       *)
(* accounts and ActivityPub servers: follow_exec.rs, follow_approval.rs,    *)
(* handlers/follows.rs, follow_requests.rs, blocks.rs, the inbound Follow,  *)
(* Accept, Undo, Block and Move handlers, and the jobs that approve or undo *)
(* many follows at once.  A handler is a call that takes one repository     *)
(* statement, repository commit or HTTP request at a time, between which    *)
(* other calls on the same pair of actors may run.  Three records of one    *)
(* relation are kept: the follows row, the AT record in the follower's      *)
(* repository, and what the other ActivityPub server believes.              *)
(***************************************************************************)
EXTENDS Relations

CONSTANTS
    Kind,           \* Kind[a]: "local", "fedi", "bsky" or "remote_seiran"
    Calls,          \* slots for calls under way at the same time
    Ops,            \* the operations a run starts
    Pairs,          \* the pairs <<a, b>> an actor a acts on b
    StartLocked,    \* the sets of actors that may start with approval required
    MovesTo,        \* pairs <<old, new>> of remote actors an account may move between
    MaxCalls,       \* bound: calls started
    MaxFaults       \* bound: commits and HTTP requests that fail

ASSUME KindAssumption == Local = {a \in Actors : Kind[a] = "local"}
ASSUME NullAssumption == None \notin Nat /\ None \notin {"pending", "accepted"}
ASSUME PairsAssumption == Pairs \cup MovesTo \subseteq Actors \X Actors

VARIABLES
    db,         \* follows, blocks, mutes, repostMutes, gone
    repo,       \* AT records <<collection, owner, subject, rkey>>
    remote,     \* follows <<follower, target>> the other server has on record
    locked,     \* local and remote actors that approve their followers
    calls,      \* the call in each slot
    locks,      \* advisory lock keys held
    keys,       \* record keys drawn so far (generate_tid)
    started, faults,
    admitted,   \* history: pairs approved, or that no approval is asked for
    opened,     \* history: actors that once let anyone follow
    parted      \* history: pairs someone asked to separate

vars == <<db, repo, remote, locked, calls, locks, keys, started, faults, admitted, opened, parted>>

Parting == {"Unfollow", "Block", "Reject", "InUndo", "InBlock"}
NoCall == [op |-> "none"]
Ap(a) == Kind[a] \in {"fedi", "remote_seiran"}
HasDid(a) == Kind[a] # "fedi"

(* A call and the actors it works on; base and alone are history.          *)
NewCall(op, me, who) ==
    [op |-> op, me |-> me, who |-> who, pc |-> "begin", key |-> None, branch |-> "end", todo |-> {}, base |-> {},
     lock |-> FALSE, alone |-> TRUE, failed |-> FALSE]
Touches(c) == IF c.op = "none" THEN {} ELSE {c.me, c.who} \ {None}
Many(c) == c.op \in {"BulkAccept", "WithdrawAll", "InMove"}
(* A call over many follows meets every call of its actors.                 *)
Meets(c, d) ==
    /\ c.op # "none" /\ d.op # "none"
    /\ \/ Touches(c) = Touches(d)
       \/ (Many(c) \/ Many(d)) /\ Touches(c) \cap Touches(d) # {}

Start(s, c) ==
    /\ calls[s].op = "none"
    /\ c.op \in Ops /\ started < MaxCalls
    /\ started' = started + 1
    /\ LET met == {x \in Calls : Meets(calls[x], c)}
       IN  calls' = [x \in Calls |->
                        IF x = s THEN [c EXCEPT !.alone = met = {}]
                        ELSE IF x \in met THEN [calls[x] EXCEPT !.alone = FALSE] ELSE calls[x]]
    /\ parted' = parted \cup CASE c.op \in Parting -> {<<c.me, c.who>>, <<c.who, c.me>>}
                                [] c.op = "WithdrawAll" -> {c.me} \X Actors
                                [] OTHER -> {}
    /\ UNCHANGED <<db, repo, remote, locked, locks, keys, faults, admitted, opened>>

At(s, ops, l) == calls[s].op \in ops /\ calls[s].pc = l
(* A call that reaches its end frees the slot.                              *)
Upd(s, c) == calls' = [calls EXCEPT ![s] = IF c.pc = "end" THEN NoCall ELSE c]
To(s, l) == Upd(s, [calls[s] EXCEPT !.pc = l])
FailedWith(s, l, key) ==
    /\ faults < MaxFaults
    /\ faults' = faults + 1
    /\ Upd(s, [calls[s] EXCEPT !.pc = l, !.failed = TRUE, !.key = key])
Failed(s, l) == FailedWith(s, l, calls[s].key)

quiet == <<locked, locks, started, admitted, opened, parted>>
Fixed == UNCHANGED quiet
Sql(s, new, l) == db' = new /\ To(s, l) /\ Fixed /\ UNCHANGED <<repo, remote, keys, faults>>

-----------------------------------------------------------------------------
(* atp/service.rs: a record appears or disappears in one commit.  Deleting a *)
(* record that is not there commits too.                                   *)

CommitRecord(s, coll, owner, subject, ok, bad) ==
    \/ /\ repo' = repo \cup {<<coll, owner, subject, keys + 1>>}
       /\ keys' = keys + 1
       /\ Upd(s, [calls[s] EXCEPT !.pc = ok, !.key = keys + 1])
       /\ Fixed /\ UNCHANGED <<db, remote, faults>>
    \/ FailedWith(s, bad, None) /\ Fixed /\ UNCHANGED <<db, repo, remote, keys>>

DeleteRecord(s, coll, owner, key, ok, bad) ==
    \/ /\ repo' = {x \in repo : ~(x[1] = coll /\ x[2] = owner /\ x[4] = key)}
       /\ To(s, ok)
       /\ Fixed /\ UNCHANGED <<db, remote, keys, faults>>
    \/ Failed(s, bad) /\ Fixed /\ UNCHANGED <<db, repo, remote, keys>>

CommitFollow(s, f, t, ok, bad) == CommitRecord(s, "follow", f, t, ok, bad)
CommitDeleteFollow(s, f, key, ok, bad) == DeleteRecord(s, "follow", f, key, ok, bad)
CommitBlock(s, a, b, ok, bad) == CommitRecord(s, "block", a, b, ok, bad)
CommitDeleteBlock(s, a, key, ok, bad) == DeleteRecord(s, "block", a, key, ok, bad)

(* sign_and_post: the other server learns new, or the request fails.        *)
Post(s, new, ok, bad) ==
    \/ remote' = new /\ To(s, ok) /\ Fixed /\ UNCHANGED <<db, repo, keys, faults>>
    \/ Failed(s, bad) /\ Fixed /\ UNCHANGED <<db, repo, remote, keys>>

-----------------------------------------------------------------------------
(* follow_exec.rs *)

CreateFollow(s, v, t) == Start(s, NewCall("Follow", v, t))

(* How a target may be named (follow_target.rs): by a name or URI, or by its  *)
(* DID or AT handle.                                                        *)
Namings(t) == {n \in {"name", "did"} : IF n = "name" THEN Kind[t] # "bsky" ELSE HasDid(t)}

(* The target's row is read, and for one that was named also whether it       *)
(* approves followers.  follow_bsky, for a DID or handle, does not ask: it   *)
(* makes an accepted row and an AT record whatever the target is, the        *)
(* follower itself included, and sends no Follow.                           *)
FollowBranch(t, naming) ==
    IF naming = "did" THEN "claim"
    ELSE IF t \in locked THEN "pend"
    ELSE CASE Kind[t] = "local" -> "claim"
           [] Kind[t] = "remote_seiran" -> "married"
           [] OTHER -> "insert"
ExecuteFollow(s) ==
    /\ At(s, {"Follow"}, "begin")
    /\ LET c == calls[s]
       IN  \E naming \in Namings(c.who) :
            IF naming = "name" /\ c.me = c.who THEN To(s, "end") /\ UNCHANGED admitted     \* SelfFollow
            ELSE /\ Upd(s, [c EXCEPT !.pc = "check", !.branch = FollowBranch(c.who, naming)])
                 /\ admitted' = IF naming = "did" THEN admitted \cup {<<c.me, c.who>>} ELSE admitted
    /\ UNCHANGED <<db, repo, remote, keys, faults, locked, locks, started, opened, parted>>

CheckNotBlocked(s) ==
    /\ At(s, {"Follow"}, "check")
    /\ LET c == calls[s]
           blocked == Blocks(db, c.me, c.who) \/ Blocks(db, c.who, c.me)
       IN  Sql(s, db, IF blocked THEN "end" ELSE c.branch)

(* establish_atp_follow: the row is claimed first, and only who claimed it  *)
(* commits; a failed commit gives the row back, a vanished row the record.  *)
EstablishAtpFollow(s) ==
    LET c == calls[s]
    IN  \/ /\ At(s, {"Follow"}, "claim")
           /\ Sql(s, InsertAcceptedWithRkey(db, c.me, c.who, None),
                  IF FollowStatus(db, c.me, c.who) = None THEN "commit" ELSE "end")
        \/ At(s, {"Follow"}, "commit") /\ CommitFollow(s, c.me, c.who, "record", "giveback")
        \/ At(s, {"Follow"}, "giveback") /\ Sql(s, DeleteFollow(db, c.me, c.who), "end")
        \/ /\ At(s, {"Follow"}, "record")
           /\ Sql(s, SetFollowRkey(db, c.me, c.who, c.key),
                  IF FollowStatus(db, c.me, c.who) = None THEN "drop" ELSE "end")
        \/ At(s, {"Follow"}, "drop") /\ CommitDeleteFollow(s, c.me, c.key, "end", "end")

(* The target approves its followers: a request, and for a remote target     *)
(* the Follow that carries it.                                             *)
FollowPending(s) ==
    LET c == calls[s]
    IN  At(s, {"Follow"}, "pend") /\ Sql(s, UpsertPending(db, c.me, c.who), IF Ap(c.who) THEN "post" ELSE "end")

(* follow_fedi of a target that approves nobody: accepted at once, with the  *)
(* AT record first when the target also has one.  A failed commit is logged. *)
FollowFedi(s) ==
    LET c == calls[s]
    IN  \/ At(s, {"Follow"}, "married") /\ CommitFollow(s, c.me, c.who, "insert", "insert")
        \/ At(s, {"Follow"}, "insert") /\ Sql(s, InsertAcceptedWithRkey(db, c.me, c.who, c.key), "post")
        \/ At(s, {"Follow"}, "post") /\ Post(s, remote \cup {<<c.me, c.who>>}, "end", "end")

-----------------------------------------------------------------------------
(* handlers/follows.rs unfollow_target, and blocks.rs, which begins with it.  *)
(* The withdrawal job does the same for every target of an actor.            *)

DeleteFollowCall(s, v, t) == Start(s, NewCall("Unfollow", v, t))
CreateBlock(s, v, t) == v # t /\ Start(s, NewCall("Block", v, t))

Unfollowing == {"Unfollow", "Block", "WithdrawAll"}
AfterUnfollow(c) == CASE c.op = "Unfollow" -> "end" [] c.op = "Block" -> "back" [] c.op = "WithdrawAll" -> "next"
(* A failed commit ends the request, is logged by the block, and does not    *)
(* keep the job from deleting the row.                                     *)
AfterFailedDelete(c) == CASE c.op = "WithdrawAll" -> "undo" [] OTHER -> AfterUnfollow(c)

(* The row goes even when the Undo could not be sent.                      *)
AfterFailedUndo(c) == "delrow"

UnfollowTarget(s) ==
    LET c == calls[s]
    IN  \/ /\ At(s, Unfollowing, IF c.op = "WithdrawAll" THEN "unfollow" ELSE "begin")
           /\ LET key == FollowRkey(db, c.me, c.who)
              IN  Upd(s, [c EXCEPT !.key = key, !.pc = IF key = None THEN "undo" ELSE "delrec"])
           /\ Fixed /\ UNCHANGED <<db, repo, remote, keys, faults>>
        \/ At(s, Unfollowing, "delrec") /\ CommitDeleteFollow(s, c.me, c.key, "undo", AfterFailedDelete(c))
        \/ /\ At(s, Unfollowing, "undo")
           /\ IF Ap(c.who) THEN Post(s, remote \ {<<c.me, c.who>>}, "delrow", AfterFailedUndo(c)) ELSE Sql(s, db, "delrow")
        \/ At(s, Unfollowing, "delrow") /\ Sql(s, DeleteFollow(db, c.me, c.who), AfterUnfollow(c))

(* Their follow of us goes too.                                             *)
DropBackFollow(d, c) == DeleteFollow(d, c.who, c.me)

(* The rest of block_actor: their follow of us, the AT record, the Block      *)
(* activity (their server forgets both follows) and the row.                *)
BlockActor(s) ==
    LET c == calls[s]
    IN  \/ At(s, {"Block"}, "back") /\ Sql(s, DropBackFollow(db, c), "bcommit")
        \/ /\ At(s, {"Block"}, "bcommit")
           /\ IF HasDid(c.who) THEN CommitBlock(s, c.me, c.who, "bpost", "bpost")
              ELSE Upd(s, [c EXCEPT !.pc = "bpost", !.key = None])
                   /\ Fixed /\ UNCHANGED <<db, repo, remote, keys, faults>>
        \/ /\ At(s, {"Block"}, "bpost")
           /\ IF Ap(c.who) THEN Post(s, remote \ {<<c.me, c.who>>, <<c.who, c.me>>}, "binsert", "binsert")
              ELSE Sql(s, db, "binsert")
        \/ /\ At(s, {"Block"}, "binsert")
           /\ Sql(s, InsertBlock(db, c.me, c.who, c.key), "end")

DeleteBlockCall(s, v, t) == v # t /\ Start(s, NewCall("Unblock", v, t))
UnblockActor(s) ==
    LET c == calls[s]
    IN  \/ /\ At(s, {"Unblock"}, "begin")
           /\ LET key == BlockRkey(db, c.me, c.who)
              IN  Upd(s, [c EXCEPT !.key = key, !.pc = IF key = None THEN "delblock" ELSE "unrecord"])
           /\ Fixed /\ UNCHANGED <<db, repo, remote, keys, faults>>
        \/ At(s, {"Unblock"}, "unrecord") /\ CommitDeleteBlock(s, c.me, c.key, "delblock", "delblock")
        \/ At(s, {"Unblock"}, "delblock") /\ Sql(s, DeleteBlock(db, c.me, c.who), "end")

-----------------------------------------------------------------------------
(* follow_approval.rs, from a request (load_pending_pair) or from the job     *)

AcceptFollowRequest(s, t, f) == Start(s, NewCall("Approve", t, f))
RejectFollowRequest(s, t, f) == Start(s, NewCall("Reject", t, f))

LoadPendingPair(s) ==
    /\ At(s, {"Approve", "Reject"}, "begin")
    /\ LET c == calls[s]
       IN  IF FollowStatus(db, c.who, c.me) # "pending" THEN Sql(s, db, "end")
           ELSE /\ To(s, IF c.op = "Reject" THEN "rpost" ELSE "approve")
                /\ admitted' = IF c.op = "Approve" THEN admitted \cup {<<c.who, c.me>>} ELSE admitted
                /\ UNCHANGED <<db, repo, remote, keys, faults, locked, locks, started, opened, parted>>

Approving == {"Approve", "BulkAccept"}
AfterApprove(c) == IF c.op = "BulkAccept" THEN "next" ELSE "end"

ApprovePendingFollow(s) ==
    LET c == calls[s]
    IN  \/ /\ At(s, Approving, "approve")
           /\ IF c.who \in Local THEN CommitFollow(s, c.who, c.me, "aset", AfterApprove(c))
              ELSE Upd(s, [c EXCEPT !.pc = "aset", !.key = None])
                   /\ Fixed /\ UNCHANGED <<db, repo, remote, keys, faults>>
        \/ /\ At(s, Approving, "aset")
           /\ Sql(s, AcceptAndSetRkey(db, c.who, c.me, c.key), IF Ap(c.who) THEN "apost" ELSE AfterApprove(c))
        \/ At(s, Approving, "apost") /\ Post(s, remote \cup {<<c.who, c.me>>}, AfterApprove(c), AfterApprove(c))

RejectPendingFollow(s) ==
    LET c == calls[s]
    IN  \/ /\ At(s, {"Reject"}, "rpost")
           /\ IF Ap(c.who) THEN Post(s, remote \ {<<c.who, c.me>>}, "rdelete", "rdelete") ELSE Sql(s, db, "rdelete")
        \/ At(s, {"Reject"}, "rdelete") /\ Sql(s, DeleteFollow(db, c.who, c.me), "end")

-----------------------------------------------------------------------------
(* The jobs over many follows; both lock the actor's id and end silently     *)
(* when it is taken.                                                       *)

BulkAcceptJob(s, t) == t \notin locked /\ Start(s, NewCall("BulkAccept", t, None))
WithdrawUnfollowAllJob(s, v) == v \in db.gone /\ Start(s, NewCall("WithdrawAll", v, None))

ManyJobs == {"BulkAccept", "WithdrawAll"}
JobTargets(c) == IF c.op = "BulkAccept" THEN PendingFollowers(db, c.me) ELSE AcceptedTargets(db, c.me)

TryAcquire(s) ==
    /\ At(s, ManyJobs, "begin")
    /\ LET c == calls[s]
       IN  IF c.me \in locks
           THEN Upd(s, [c EXCEPT !.pc = "end", !.failed = TRUE]) /\ UNCHANGED locks
           ELSE Upd(s, [c EXCEPT !.pc = "list", !.lock = TRUE]) /\ locks' = locks \cup {c.me}
    /\ UNCHANGED <<db, repo, remote, locked, keys, started, faults, admitted, opened, parted>>

ListTargets(s) ==
    /\ At(s, ManyJobs, "list")
    /\ Upd(s, [calls[s] EXCEPT !.pc = "next", !.todo = JobTargets(calls[s])])
    /\ Fixed /\ UNCHANGED <<db, repo, remote, keys, faults>>

NextTarget(s) ==
    /\ At(s, ManyJobs, "next")
    /\ LET c == calls[s]
       IN  IF c.todo = {}
           THEN /\ Upd(s, [c EXCEPT !.pc = "end", !.lock = FALSE, !.who = None])
                /\ locks' = locks \ {c.me}
                /\ UNCHANGED admitted
           ELSE \E t \in c.todo :
                /\ Upd(s, [c EXCEPT !.pc = IF c.op = "BulkAccept" THEN "approve" ELSE "unfollow",
                                    !.who = t, !.key = None, !.todo = @ \ {t}])
                /\ admitted' = IF c.op = "BulkAccept" THEN admitted \cup {<<t, c.me>>} ELSE admitted
                /\ UNCHANGED locks
    /\ UNCHANGED <<db, repo, remote, locked, keys, started, faults, opened, parted>>

-----------------------------------------------------------------------------
(* Inbound activities.  remote already holds what the sender believes.        *)

ReceiveFollow(s, r, v) == Start(s, NewCall("InFollow", r, v))
(* Faulty variant: a request for approval is taken for a follow.             *)
InFollowBranchOpen(c) == "iaccept"
InFollowBranch(c) == IF c.who \in locked THEN "ipend" ELSE "iaccept"

(* handle_follow.  A failed Accept fails the job, which runs again.          *)
HandleFollow(s) ==
    LET c == calls[s]
    IN  \/ /\ At(s, {"InFollow"}, "begin")
           /\ Upd(s, [c EXCEPT !.pc = "icheck", !.branch = InFollowBranch(c)])
           /\ Fixed /\ UNCHANGED <<db, repo, remote, keys, faults>>
        \/ At(s, {"InFollow"}, "icheck") /\ Sql(s, db, IF Blocks(db, c.who, c.me) THEN "end" ELSE c.branch)
        \/ At(s, {"InFollow"}, "ipend") /\ Sql(s, UpsertPendingWithActivity(db, c.me, c.who), "end")
        \/ At(s, {"InFollow"}, "iaccept") /\ Sql(s, InsertAccepted(db, c.me, c.who), "iapost")
        \/ At(s, {"InFollow"}, "iapost") /\ Post(s, remote \cup {<<c.me, c.who>>}, "end", "begin")

(* handle_undo of a Follow or a Block: one statement each.                   *)
ReceiveUndo(s, r, v) == \E op \in {"InUndo", "InUndoBlock"} : Start(s, NewCall(op, r, v))
HandleUndo(s) ==
    LET c == calls[s]
    IN  \/ /\ At(s, {"InUndo"}, "begin")
           /\ db' = DeleteFollow(db, c.me, c.who)
           /\ remote' = remote \ {<<c.me, c.who>>}
           /\ To(s, "end")
           /\ Fixed /\ UNCHANGED <<repo, keys, faults>>
        \/ At(s, {"InUndoBlock"}, "begin") /\ Sql(s, DeleteBlock(db, c.me, c.who), "end")

(* handle_block: the block, then our follow of the blocker.                  *)
ReceiveBlock(s, r, v) == Start(s, NewCall("InBlock", r, v))
HandleBlock(s) ==
    LET c == calls[s]
    IN  \/ At(s, {"InBlock"}, "begin") /\ Sql(s, InsertBlock(db, c.me, c.who, None), "unfollowed")
        \/ /\ At(s, {"InBlock"}, "unfollowed")
           /\ db' = DeleteFollow(db, c.who, c.me)
           /\ remote' = remote \ {<<c.who, c.me>>}
           /\ To(s, "end")
           /\ Fixed /\ UNCHANGED <<repo, keys, faults>>

(* handle_accept, once or repeatedly, in time or late: the AT record is       *)
(* committed before the row is known to be waiting.                         *)
ReceiveAccept(s, r, v) == Start(s, NewCall("InAccept", r, v))
HandleAccept(s) ==
    LET c == calls[s]
    IN  \/ /\ At(s, {"InAccept"}, "begin")
           /\ IF Kind[c.me] = "remote_seiran" THEN CommitFollow(s, c.who, c.me, "accepted", "accepted")
              ELSE Sql(s, db, "accepted")
        \/ At(s, {"InAccept"}, "accepted") /\ Sql(s, AcceptAndSetRkey(db, c.who, c.me, c.key), "end")

(* handle_move and migrate_one_follow: each local follower of the old actor   *)
(* sends a Follow to the new one, then its rows are exchanged.               *)
ReceiveMove(s, old, new) == Start(s, NewCall("InMove", old, new))
(* A follower whose Follow could not be sent is left; faulty variant: the    *)
(* old row goes all the same.                                               *)
AfterFailedMoveDrop(c) == "oldonly"
AfterFailedMove(c) == "follower"

HandleMove(s) ==
    LET c == calls[s]
        f == c.key
    IN  \/ /\ At(s, {"InMove"}, "begin")
           /\ LET fs == {p[1] : p \in LocalFollowersWithStatus(db, c.me)}
              IN  Upd(s, [c EXCEPT !.pc = "follower", !.todo = fs, !.base = fs])
           /\ Fixed /\ UNCHANGED <<db, repo, remote, keys, faults>>
        \/ /\ At(s, {"InMove"}, "follower")
           /\ \/ c.todo = {} /\ Upd(s, [c EXCEPT !.pc = "end"])
              \/ \E g \in c.todo :
                    Upd(s, [c EXCEPT !.key = g, !.todo = @ \ {g},
                              !.pc = IF FollowStatus(db, g, c.who) # None THEN "oldonly" ELSE "mpost"])
           /\ Fixed /\ UNCHANGED <<db, repo, remote, keys, faults>>
        \/ At(s, {"InMove"}, "oldonly") /\ Sql(s, DeleteFollow(db, f, c.me), "follower")
        \/ At(s, {"InMove"}, "mpost") /\ Post(s, remote \cup {<<f, c.who>>}, "mdelete", AfterFailedMove(c))
        \/ At(s, {"InMove"}, "mdelete") /\ Sql(s, DeleteFollow(db, f, c.me), "mpend")
        \/ At(s, {"InMove"}, "mpend") /\ Sql(s, UpsertPending(db, f, c.who), "follower")

-----------------------------------------------------------------------------

(* A profile update: approval off or on; for a remote account, on its server, *)
(* where follow_fedi reads it anew.                                          *)
SetLocked(a) ==
    /\ "SetLocked" \in Ops /\ a \notin db.gone /\ started < MaxCalls
    /\ started' = started + 1
    /\ locked' = IF a \in locked THEN locked \ {a} ELSE locked \cup {a}
    /\ opened' = opened \cup {a}
    /\ UNCHANGED <<db, repo, remote, calls, locks, keys, faults, admitted, parted>>

(* withdraw_local_actor: the account and, in the same transaction, its blocks *)
(* and mutes of both directions.  A call under way on it is not alone then.   *)
Withdraw(a) ==
    /\ "Withdraw" \in Ops /\ a \notin db.gone /\ started < MaxCalls
    /\ started' = started + 1
    /\ LET with == {p \in Actors \X Actors : a \in {p[1], p[2]}}
       IN  db' = [db EXCEPT !.gone = @ \cup {a}, !.blocks = Without(@, with),
                            !.mutes = @ \ with, !.repostMutes = @ \ with]
    /\ calls' = [s \in Calls |-> IF a \in Touches(calls[s]) THEN [calls[s] EXCEPT !.alone = FALSE] ELSE calls[s]]
    /\ UNCHANGED <<repo, remote, locked, locks, keys, faults, admitted, opened, parted>>

(* bsky_follower_poll.rs: the network lists f among v's followers, perhaps no *)
(* longer truly.  Whether v approves its followers is not read.              *)
PollUser(f, v) ==
    /\ "Poll" \in Ops /\ HasDid(f) /\ v \in Local \ db.gone /\ started < MaxCalls
    /\ started' = started + 1
    /\ db' = InsertAccepted(db, f, v)
    /\ admitted' = admitted \cup {<<f, v>>}
    /\ calls' = [s \in Calls |-> IF Meets(calls[s], NewCall("Poll", f, v)) THEN [calls[s] EXCEPT !.alone = FALSE] ELSE calls[s]]
    /\ UNCHANGED <<repo, remote, locked, locks, keys, faults, opened, parted>>

Init ==
    /\ db = [follows |-> <<>>, blocks |-> <<>>, mutes |-> {}, repostMutes |-> {}, gone |-> {}]
    /\ repo = {} /\ remote = {}
    /\ locked \in StartLocked
    /\ calls = [s \in Calls |-> NoCall]
    /\ locks = {}
    /\ keys = 0 /\ started = 0 /\ faults = 0
    /\ admitted = {} /\ parted = {}
    /\ opened = Actors \ locked

Requests(s) ==
    \/ \E p \in Pairs :
          \/ /\ p[1] \in Local \ db.gone       \* middleware/auth.rs refuses the others
             /\ \/ CreateFollow(s, p[1], p[2]) \/ DeleteFollowCall(s, p[1], p[2])
                \/ CreateBlock(s, p[1], p[2]) \/ DeleteBlockCall(s, p[1], p[2])
          \/ p[2] \in Local \ db.gone /\ (AcceptFollowRequest(s, p[2], p[1]) \/ RejectFollowRequest(s, p[2], p[1]))
          \/ /\ p[2] \in Local /\ Ap(p[1])
             /\ ReceiveFollow(s, p[1], p[2]) \/ ReceiveUndo(s, p[1], p[2]) \/ ReceiveBlock(s, p[1], p[2])
          \/ p[1] \in Local /\ Ap(p[2]) /\ ReceiveAccept(s, p[2], p[1])
    \/ \E v \in Local : BulkAcceptJob(s, v) \/ WithdrawUnfollowAllJob(s, v)
    \/ \E p \in MovesTo : ReceiveMove(s, p[1], p[2])

Steps(s) ==
    \/ ExecuteFollow(s) \/ CheckNotBlocked(s) \/ EstablishAtpFollow(s) \/ FollowPending(s) \/ FollowFedi(s)
    \/ UnfollowTarget(s) \/ BlockActor(s) \/ UnblockActor(s)
    \/ LoadPendingPair(s) \/ ApprovePendingFollow(s) \/ RejectPendingFollow(s)
    \/ TryAcquire(s) \/ ListTargets(s) \/ NextTarget(s)
    \/ HandleFollow(s) \/ HandleUndo(s) \/ HandleBlock(s) \/ HandleAccept(s) \/ HandleMove(s)

Next ==
    \/ \E s \in Calls : Requests(s) \/ Steps(s)
    \/ \E a \in Actors : SetLocked(a)
    \/ \E a \in Local : Withdraw(a)
    \/ \E p \in Pairs : PollUser(p[1], p[2])

Spec == Init /\ [][Next]_vars

-----------------------------------------------------------------------------
(* Properties *)

Touching(a, b) == {s \in Calls : Touches(calls[s]) = {a, b} \/ Many(calls[s])}
Row(d, f, t) == FollowStatus(d, f, t) # None

(* What a call that met no other on its pair and no failure leaves behind.   *)
Contract(c, d, r) ==
    CASE c.op = "Follow" ->
            \/ Blocks(d, c.me, c.who) \/ Blocks(d, c.who, c.me)
            \/ c.me = c.who
            \/ Row(d, c.me, c.who) /\ (Ap(c.who) /\ c.branch # "claim" => <<c.me, c.who>> \in r)
      [] c.op = "Unfollow" ->
            ~Row(d, c.me, c.who) /\ (Ap(c.who) => <<c.me, c.who>> \notin r)
      [] c.op \in {"Block", "InBlock"} ->
            /\ Blocks(d, c.me, c.who)
            /\ ~Row(d, c.who, c.me) /\ <<c.who, c.me>> \notin r
            /\ c.op = "Block" => ~Row(d, c.me, c.who)
      [] c.op = "Unblock" -> ~Blocks(d, c.me, c.who)
      [] c.op \in {"Approve", "Reject"} -> FollowStatus(d, c.who, c.me) # "pending"
      [] c.op = "BulkAccept" -> PendingFollowers(d, c.me) = {}
      [] c.op = "WithdrawAll" -> AcceptedTargets(d, c.me) = {}
      [] c.op = "InFollow" -> Blocks(d, c.who, c.me) \/ Row(d, c.me, c.who)
      [] c.op = "InUndo" -> ~Row(d, c.me, c.who)
      [] OTHER -> TRUE

Ends(s) == calls[s].op # "none" /\ calls'[s].op = "none"

(* A call that no other call on the same actors overlapped, and none of      *)
(* whose commits or requests failed, leaves the row, the block and the other *)
(* server's record as it promised, whatever earlier calls, races and         *)
(* failures left it to start from (follows.rs, blocks.rs, follow_exec.rs,    *)
(* follow_approval.rs, the inbound handlers and both jobs).                  *)
LoneCallSettles ==
    \A s \in Calls :
        Ends(s) /\ calls[s].alone /\ ~calls[s].failed /\ faults' = faults => Contract(calls[s], db', remote')

(* Between calls, the record key a follow or a block row carries names a     *)
(* record of the follower's repository: no race or failure leaves a row       *)
(* whose Bluesky record was deleted (unfollow_target, establish_atp_follow,  *)
(* approve_pending_follow, block_actor).                                    *)
KeyHasRecord ==
    /\ \A p \in DOMAIN db.follows :
          db.follows[p].rkey # None /\ Touching(p[1], p[2]) = {} => <<"follow", p[1], p[2], db.follows[p].rkey>> \in repo
    /\ \A p \in DOMAIN db.blocks :
          db.blocks[p] # None /\ Touching(p[1], p[2]) = {} => <<"block", p[1], p[2], db.blocks[p]>> \in repo

(* A local account that always asked to approve its followers has none of   *)
(* those who named it, or sent it a Follow, that it did not approve: neither *)
(* as a row nor as a record others can see in the follower's repository      *)
(* (follow_exec.rs follow_local, handle_follow).  Whoever followed it by its *)
(* DID or AT handle, or was found by the poll of Bluesky followers, asked for *)
(* no approval and is not meant.                                           *)
LockedStaysPending ==
    \A f \in Actors, t \in Local \ opened :
        <<f, t>> \notin admitted => /\ FollowStatus(db, f, t) # "accepted"
                                  /\ ~\E k \in 1..keys : <<"follow", f, t, k>> \in repo

(* Both: a row's record key names a record, and a locked account has no       *)
(* follower that asked for its approval and did not get it.                 *)
FollowsKept == KeyHasRecord /\ LockedStaysPending

(* An account that moves keeps its local followers: one that nobody asked to *)
(* part with it follows the old or the new account once every delivery of the move is    *)
(* handled, whatever requests failed (handle_move, migrate_one_follow).      *)
MoveKeepsFollower ==
    \A s \in Calls : Ends(s) /\ {x \in Calls : calls[x].op = "InMove"} = {s} =>
        LET old == calls[s].me
            new == calls[s].who
        IN  \A f \in calls[s].base :
                <<f, old>> \in parted \/ <<f, new>> \in parted \/ Row(db', f, old) \/ Row(db', f, new)

(* Both, of every step.                                                     *)
CallsSettle == [][LoneCallSettles /\ MoveKeepsFollower]_vars

(* Once nothing is under way, and no commit or request ever failed, a follow  *)
(* record of the repository belongs to a row that knows its key, so that an   *)
(* unfollow can remove it (establish_atp_follow's comment).                  *)
NoOrphanRecord ==
    faults = 0 /\ (\A s \in Calls : calls[s].op = "none") =>
        \A r \in repo : r[1] = "follow" => FollowRkey(db, r[2], r[3]) = r[4]
=============================================================================

----------------------------- MODULE Relations -----------------------------
(***************************************************************************)
(* The relation tables between actors (repository/follow.rs, block.rs,     *)
(* mute.rs, repost_mute.rs) and what the queries derive from them.  A      *)
(* database is a record of tables; a repository call that writes maps the  *)
(* database before its statement to the one after it, and one that reads   *)
(* maps it to the rows.  Each call is one SQL statement, hence atomic.     *)
(*                                                                         *)
(*   db.follows      rows by pair <<follower, target>>                     *)
(*   db.blocks       the AT record key by pair <<blocker, blocked>>        *)
(*   db.mutes, db.repostMutes   pairs <<muter, muted>>                     *)
(*   db.gone         actors withdrawn or suspended                         *)
(***************************************************************************)
EXTENDS Integers, FiniteSets, Sequences, TLC

CONSTANTS
    Actors,     \* every actor the server knows
    Local,      \* those with actor_type = 'local'
    None        \* SQL NULL, and the anonymous viewer

ASSUME LocalAssumption == Local \subseteq Actors /\ None \notin Actors

(* The row of a pair set to r, and the rows without those of ks.            *)
Put(table, k, r) == [x \in DOMAIN table \cup {k} |-> IF x = k THEN r ELSE table[x]]
Without(table, ks) == [k \in DOMAIN table \ ks |-> table[k]]

-----------------------------------------------------------------------------
(* repository/follow.rs *)

NewFollow(status, rkey, act) == [status |-> status, rkey |-> rkey, act |-> act]

FollowStatus(db, f, t) ==
    IF <<f, t>> \in DOMAIN db.follows THEN db.follows[<<f, t>>].status ELSE None
AcceptedFollow(db, f, t) == FollowStatus(db, f, t) = "accepted"

(* INSERT ... ON CONFLICT DO NOTHING                                        *)
InsertFollow(db, f, t, row) ==
    IF <<f, t>> \in DOMAIN db.follows THEN db
    ELSE [db EXCEPT !.follows = Put(@, <<f, t>>, row)]

UpsertPending(db, f, t) == InsertFollow(db, f, t, NewFollow("pending", None, FALSE))
InsertAccepted(db, f, t) == InsertFollow(db, f, t, NewFollow("accepted", None, FALSE))
InsertAcceptedWithRkey(db, f, t, rkey) == InsertFollow(db, f, t, NewFollow("accepted", rkey, FALSE))

(* COALESCE($3, atp_rkey): a key is set, never cleared.                     *)
AcceptAndSetRkey(db, f, t, rkey) ==
    IF FollowStatus(db, f, t) # "pending" THEN db
    ELSE LET row == db.follows[<<f, t>>]
             key == IF rkey = None THEN row.rkey ELSE rkey
         IN  [db EXCEPT !.follows = Put(@, <<f, t>>, [row EXCEPT !.status = "accepted", !.rkey = key])]

DeleteFollow(db, f, t) == [db EXCEPT !.follows = Without(@, {<<f, t>>})]
FollowRkey(db, f, t) == IF <<f, t>> \in DOMAIN db.follows THEN db.follows[<<f, t>>].rkey ELSE None
SetFollowRkey(db, f, t, rkey) ==
    IF FollowStatus(db, f, t) = None THEN db
    ELSE [db EXCEPT !.follows[<<f, t>>].rkey = rkey]

(* The stored Follow activity of a request; a row that was already there   *)
(* is pending again, whatever its status was.                              *)
UpsertPendingWithActivity(db, f, t) ==
    IF FollowStatus(db, f, t) = None
    THEN InsertFollow(db, f, t, NewFollow("pending", None, TRUE))
    ELSE [db EXCEPT !.follows[<<f, t>>] = [@ EXCEPT !.status = "pending", !.act = TRUE]]

AcceptedTargets(db, f) == {t \in Actors : AcceptedFollow(db, f, t)}
LocalFollowersWithStatus(db, t) == {<<f, FollowStatus(db, f, t)>> : f \in {g \in Local : FollowStatus(db, g, t) # None}}
PendingFollowers(db, t) == {f \in Actors : FollowStatus(db, f, t) = "pending"}

-----------------------------------------------------------------------------
(* repository/block.rs, mute.rs, repost_mute.rs *)

InsertBlock(db, a, b, rkey) == [db EXCEPT !.blocks = Put(@, <<a, b>>, rkey)]
DeleteBlock(db, a, b) == [db EXCEPT !.blocks = Without(@, {<<a, b>>})]
BlockRkey(db, a, b) == IF <<a, b>> \in DOMAIN db.blocks THEN db.blocks[<<a, b>>] ELSE None
Blocks(db, a, b) == <<a, b>> \in DOMAIN db.blocks

InsertMute(db, a, b) == [db EXCEPT !.mutes = @ \cup {<<a, b>>}]
DeleteMute(db, a, b) == [db EXCEPT !.mutes = @ \ {<<a, b>>}]
IsMuted(db, a, b) == <<a, b>> \in db.mutes

InsertRepostMute(db, a, b) == [db EXCEPT !.repostMutes = @ \cup {<<a, b>>}]
DeleteRepostMute(db, a, b) == [db EXCEPT !.repostMutes = @ \ {<<a, b>>}]
RepostMuted(db, a, b) == <<a, b>> \in db.repostMutes

-----------------------------------------------------------------------------
(* actor_is_hidden_for_viewer and actor_not_hidden_sql!: what the viewer    *)
(* does not want to see, or must not be shown any more.                    *)
Hidden(db, v, a) ==
    \/ Blocks(db, v, a)
    \/ Blocks(db, a, v)
    \/ IsMuted(db, v, a)
    \/ a \in db.gone
=============================================================================

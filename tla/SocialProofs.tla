---------------------------- MODULE SocialProofs ----------------------------
(***************************************************************************)
(* Follows, blocks and their AT records, for every set of actors, any      *)
(* number of calls at once and any failures: a row's record key names a    *)
(* record, and who approves followers has none without approval.           *)
(***************************************************************************)
EXTENDS Social, TLAPS

USE LocalAssumption

-----------------------------------------------------------------------------
(* Types *)

FollowRow(r) == DOMAIN r = {"status", "rkey", "act"}
DbOK(d) ==
    /\ DOMAIN d = {"follows", "blocks", "mutes", "repostMutes", "gone"}
    /\ DOMAIN d.follows \subseteq Actors \X Actors
    /\ d.follows = [p \in DOMAIN d.follows |-> d.follows[p]]
    /\ \A p \in DOMAIN d.follows : FollowRow(d.follows[p])
    /\ DOMAIN d.blocks \subseteq Actors \X Actors
    /\ d.blocks = [p \in DOMAIN d.blocks |-> d.blocks[p]]

(* Where a call works on one target, and what an InMove keeps in key.       *)
HasTarget(c) == ~Many(c) \/ c.pc \in {"approve", "aset", "apost", "unfollow", "delrec", "undo", "delrow"}
MovesOne(c) == c.op = "InMove" /\ c.pc \in {"oldonly", "mpost", "mdelete", "mpend"}

IsCall(c) ==
    /\ DOMAIN c = {"op", "me", "who", "pc", "key", "branch", "todo", "base", "lock", "alone", "failed"}
    /\ c.op # "none"
    /\ c.me \in Actors
    /\ c.who \in Actors \cup {None}
    /\ HasTarget(c) \/ c.op = "InMove" => c.who \in Actors
    /\ c.todo \subseteq Actors
    /\ MovesOne(c) => c.key \in Actors
    /\ c.op \in {"Follow", "InAccept"} /\ c.pc \in {"begin", "check"} => c.key = None
    /\ c.op = "Follow" /\ c.pc \in {"record", "drop"} => c.key # None
    /\ c.op = "Follow" => c.branch \in {"pend", "claim", "married", "insert", "end"}
    /\ c.op = "InFollow" /\ c.pc = "icheck" => c.branch \in {"ipend", "iaccept"}

-----------------------------------------------------------------------------
(* Record keys: each is in one hand. *)

(* The call committed the record key names and has yet to store the key.    *)
Holding(c) ==
    /\ c.op # "none"
    /\ c.key # None
    /\ \/ c.op = "Follow" /\ c.pc \in {"insert", "record", "drop"}
       \/ c.op \in Approving /\ c.pc = "aset"
       \/ c.op = "InAccept" /\ c.pc = "accepted"
       \/ c.op = "Block" /\ c.pc \in {"bpost", "binsert"}
HeldRecord(c) ==
    CASE c.op = "Follow" -> <<"follow", c.me, c.who, c.key>>
      [] c.op = "Block" -> <<"block", c.me, c.who, c.key>>
      [] OTHER -> <<"follow", c.who, c.me, c.key>>

(* The call read the key from the row and is about to delete the record.    *)
Deleting(c) == (c.op \in Unfollowing /\ c.pc = "delrec") \/ (c.op = "Unblock" /\ c.pc = "unrecord")
DeletedRecord(c) == <<IF c.op = "Unblock" THEN "block" ELSE "follow", c.me, c.who, c.key>>

(* The record may be gone already; the row goes before the call ends.       *)
Clears(c, f, t) == c.op \in Unfollowing /\ c.pc \in {"undo", "delrow"} /\ c.me = f /\ c.who = t
ClearsBlock(c, a, b) == c.op = "Unblock" /\ c.pc = "delblock" /\ c.me = a /\ c.who = b

RecordsOK(r, n) ==
    /\ r \subseteq {"follow", "block"} \X Actors \X Actors \X (1..n)
    /\ \A x, y \in r : x[4] = y[4] => x = y

(* A key in a row is drawn, and no other record has it.                     *)
Names(r, n, k, x) == k = None \/ (k \in 1..n /\ \A y \in r : y[4] = k => y = x)
RowKeysOK(d, r, n) ==
    \A a, b \in Actors : /\ Names(r, n, FollowRkey(d, a, b), <<"follow", a, b, FollowRkey(d, a, b)>>)
                         /\ Names(r, n, BlockRkey(d, a, b), <<"block", a, b, BlockRkey(d, a, b)>>)

Unstored(d, k) == \A a, b \in Actors : FollowRkey(d, a, b) # k /\ BlockRkey(d, a, b) # k
HeldOK(d, r, cs) ==
    \A s \in Calls : Holding(cs[s]) =>
        /\ HeldRecord(cs[s]) \in r
        /\ Unstored(d, cs[s].key)
        /\ \A u \in Calls \ {s} : Holding(cs[u]) \/ Deleting(cs[u]) => cs[u].key # cs[s].key
DeletingOK(r, n, cs) ==
    \A s \in Calls : Deleting(cs[s]) => cs[s].key # None /\ Names(r, n, cs[s].key, DeletedRecord(cs[s]))

RowsKept(d, r, cs) ==
    \A a, b \in Actors :
        /\ \/ FollowRkey(d, a, b) = None
           \/ <<"follow", a, b, FollowRkey(d, a, b)>> \in r
           \/ \E s \in Calls : Clears(cs[s], a, b)
        /\ \/ BlockRkey(d, a, b) = None
           \/ <<"block", a, b, BlockRkey(d, a, b)>> \in r
           \/ \E s \in Calls : ClearsBlock(cs[s], a, b)

KeysOK(d, r, n, cs) == RecordsOK(r, n) /\ RowKeysOK(d, r, n) /\ HeldOK(d, r, cs) /\ DeletingOK(r, n, cs) /\ RowsKept(d, r, cs)
KeyInv == KeysOK(db, repo, keys, calls)

-----------------------------------------------------------------------------
(* Approval: closed are the accounts that always asked to approve their     *)
(* followers, ok the pairs approved, or that nothing asks approval for.                                       *)

MayFollow(f, t, closed, ok) == t \notin closed \/ <<f, t>> \in ok

(* Where a call may be that is about such an account.                       *)
Obeys(c, closed, ok) ==
    /\ c.op = "Follow" /\ ~MayFollow(c.me, c.who, closed, ok) =>
          c.pc \in {"begin", "check", "pend", "end"} /\ (c.pc = "check" => c.branch = "pend")
    /\ c.op = "InFollow" /\ c.who \in closed =>
          c.pc \in {"begin", "icheck", "ipend", "end"} /\ (c.pc = "icheck" => c.branch = "ipend")
    /\ c.op \in Approving /\ c.pc \in {"approve", "aset", "apost"} => <<c.who, c.me>> \in ok
    /\ c.op = "InAccept" => c.me \notin Local

ApprovalOK(d, r, closed, ok) ==
    /\ \A f, t \in Actors : FollowStatus(d, f, t) = "accepted" => MayFollow(f, t, closed, ok)
    /\ \A x \in r : x[1] = "follow" => MayFollow(x[2], x[3], closed, ok)

Closed == Local \ opened
CallOK(c, closed, ok) == c.op = "none" \/ (IsCall(c) /\ Obeys(c, closed, ok))
CallsOK(cs, closed, ok) ==
    /\ cs = [s \in Calls |-> cs[s]]
    /\ \A s \in Calls : CallOK(cs[s], closed, ok)

SInv ==
    /\ DbOK(db)
    /\ keys \in Nat
    /\ Closed \subseteq locked
    /\ CallsOK(calls, Closed, admitted)
    /\ KeyInv
    /\ ApprovalOK(db, repo, Closed, admitted)

-----------------------------------------------------------------------------
(* What the repository calls do to a row, seen through FollowStatus,        *)
(* FollowRkey and BlockRkey.                                               *)

(* At most one follows row is written.                                      *)
RowWrite(d, e, f, t, rkey, status) ==
    /\ DbOK(e)
    /\ \A a, b \in Actors :
          /\ BlockRkey(e, a, b) = BlockRkey(d, a, b)
          /\ \/ FollowRkey(e, a, b) = FollowRkey(d, a, b) /\ FollowStatus(e, a, b) = FollowStatus(d, a, b)
             \/ a = f /\ b = t /\ FollowRkey(e, a, b) = rkey /\ FollowStatus(e, a, b) = status

LEMMA PutRow ==
    ASSUME NEW d, DbOK(d), NEW f \in Actors, NEW t \in Actors, NEW row, FollowRow(row)
    PROVE  RowWrite(d, [d EXCEPT !.follows = Put(@, <<f, t>>, row)], f, t, row.rkey, row.status)
<1>1. PICK follows : follows = Put(d.follows, <<f, t>>, row)
  OBVIOUS
<1>2. PICK e : e = [d EXCEPT !.follows = follows]
  OBVIOUS
<1>3. DOMAIN e = DOMAIN d /\ e.follows = follows /\ e.blocks = d.blocks
  BY <1>2 DEF DbOK
<1>4. /\ DOMAIN follows = DOMAIN d.follows \cup {<<f, t>>}
      /\ follows[<<f, t>>] = row
      /\ \A p \in DOMAIN d.follows : p # <<f, t>> => follows[p] = d.follows[p]
      /\ follows = [p \in DOMAIN follows |-> follows[p]]
  BY <1>1 DEF Put
<1>5. DbOK(e)
  BY <1>3, <1>4 DEF DbOK
<1>6. RowWrite(d, e, f, t, row.rkey, row.status)
  BY <1>3, <1>4, <1>5 DEF RowWrite, FollowRkey, FollowStatus, BlockRkey
<1> QED
  BY <1>1, <1>2, <1>6

LEMMA InsertedRow ==
    ASSUME NEW d, DbOK(d), NEW f \in Actors, NEW t \in Actors, NEW row, FollowRow(row)
    PROVE  RowWrite(d, InsertFollow(d, f, t, row), f, t, row.rkey, row.status)
<1>1. RowWrite(d, d, f, t, row.rkey, row.status)
  BY DEF RowWrite
<1> QED
  BY <1>1, PutRow DEF InsertFollow

LEMMA NewFollowRow ==
    ASSUME NEW d, DbOK(d), NEW f \in Actors, NEW t \in Actors, NEW status, NEW rkey, NEW act
    PROVE  RowWrite(d, InsertFollow(d, f, t, NewFollow(status, rkey, act)), f, t, rkey, status)
<1>1. PICK row : row = NewFollow(status, rkey, act)
  OBVIOUS
<1>2. FollowRow(row) /\ row.rkey = rkey /\ row.status = status
  BY <1>1 DEF NewFollow, FollowRow
<1>3. RowWrite(d, InsertFollow(d, f, t, row), f, t, row.rkey, row.status)
  BY <1>2, InsertedRow
<1> QED
  BY <1>1, <1>2, <1>3

(* A row that was there is another one.                                     *)
LEMMA ReplacedRow ==
    ASSUME NEW d, DbOK(d), NEW f \in Actors, NEW t \in Actors, NEW row, FollowRow(row),
           <<f, t>> \in DOMAIN d.follows
    PROVE  RowWrite(d, [d EXCEPT !.follows = [@ EXCEPT ![<<f, t>>] = row]], f, t, row.rkey, row.status)
<1>1. [d.follows EXCEPT ![<<f, t>>] = row] = Put(d.follows, <<f, t>>, row)
  BY DEF Put, DbOK
<1> QED
  BY <1>1, PutRow

LEMMA AcceptedRow ==
    ASSUME NEW d, DbOK(d), NEW f \in Actors, NEW t \in Actors, NEW k
    PROVE  RowWrite(d, AcceptAndSetRkey(d, f, t, k), f, t, IF k = None THEN FollowRkey(d, f, t) ELSE k, "accepted")
<1> DEFINE rkey == IF k = None THEN FollowRkey(d, f, t) ELSE k
<1>1. CASE FollowStatus(d, f, t) # "pending"
  <2>1. AcceptAndSetRkey(d, f, t, k) = d
    BY <1>1 DEF AcceptAndSetRkey
  <2> QED
    BY <2>1 DEF RowWrite
<1>2. CASE FollowStatus(d, f, t) = "pending"
  <2>0. <<f, t>> \in DOMAIN d.follows
    BY <1>2, NullAssumption DEF FollowStatus
  <2>1. PICK row : row = [d.follows[<<f, t>>] EXCEPT !.status = "accepted", !.rkey = rkey]
    OBVIOUS
  <2>2. FollowRow(row) /\ row.rkey = rkey /\ row.status = "accepted"
    BY <2>0, <2>1 DEF DbOK, FollowRow
  <2>5. rkey = IF k = None THEN d.follows[<<f, t>>].rkey ELSE k
    BY <2>0 DEF FollowRkey
  <2> HIDE DEF rkey
  <2>3. AcceptAndSetRkey(d, f, t, k) = [d EXCEPT !.follows = Put(@, <<f, t>>, row)]
    BY <1>2, <2>1, <2>5 DEF AcceptAndSetRkey
  <2>4. RowWrite(d, [d EXCEPT !.follows = Put(@, <<f, t>>, row)], f, t, row.rkey, row.status)
    BY <2>2, PutRow
  <2> QED
    BY <2>2, <2>3, <2>4 DEF rkey
<1> QED
  BY <1>1, <1>2

LEMMA KeyedRow ==
    ASSUME NEW d, DbOK(d), NEW f \in Actors, NEW t \in Actors, NEW k
    PROVE  RowWrite(d, SetFollowRkey(d, f, t, k), f, t, k, FollowStatus(d, f, t))
<1>1. CASE FollowStatus(d, f, t) = None
  BY <1>1 DEF SetFollowRkey, RowWrite
<1>2. CASE FollowStatus(d, f, t) # None
  <2>1. <<f, t>> \in DOMAIN d.follows
    BY <1>2 DEF FollowStatus
  <2>2. PICK row : row = [d.follows[<<f, t>>] EXCEPT !.rkey = k]
    OBVIOUS
  <2>3. FollowRow(row) /\ row.rkey = k /\ row.status = d.follows[<<f, t>>].status
    BY <2>1, <2>2 DEF DbOK, FollowRow
  <2>4. SetFollowRkey(d, f, t, k) = [d EXCEPT !.follows = [@ EXCEPT ![<<f, t>>] = row]]
    BY <1>2, <2>2 DEF SetFollowRkey
  <2>5. row.status = FollowStatus(d, f, t)
    BY <2>1, <2>3 DEF FollowStatus
  <2>6. RowWrite(d, [d EXCEPT !.follows = [@ EXCEPT ![<<f, t>>] = row]], f, t, k, FollowStatus(d, f, t))
    BY <2>1, <2>3, <2>5, ReplacedRow
  <2> QED
    BY <2>4, <2>6
<1> QED
  BY <1>1, <1>2

LEMMA RequestedRow ==
    ASSUME NEW d, DbOK(d), NEW f \in Actors, NEW t \in Actors
    PROVE  \E rkey \in {None, FollowRkey(d, f, t)} :
               RowWrite(d, UpsertPendingWithActivity(d, f, t), f, t, rkey, "pending")
<1>1. CASE FollowStatus(d, f, t) = None
  BY <1>1, NewFollowRow DEF UpsertPendingWithActivity
<1>2. CASE FollowStatus(d, f, t) # None
  <2>1. <<f, t>> \in DOMAIN d.follows
    BY <1>2 DEF FollowStatus
  <2>2. PICK row : row = [d.follows[<<f, t>>] EXCEPT !.status = "pending", !.act = TRUE]
    OBVIOUS
  <2>3. FollowRow(row) /\ row.rkey = FollowRkey(d, f, t) /\ row.status = "pending"
    BY <2>1, <2>2 DEF DbOK, FollowRow, FollowRkey
  <2>4. UpsertPendingWithActivity(d, f, t) = [d EXCEPT !.follows = [@ EXCEPT ![<<f, t>>] = row]]
    BY <1>2, <2>1, <2>2 DEF UpsertPendingWithActivity, DbOK, FollowRow
  <2>6. RowWrite(d, [d EXCEPT !.follows = [@ EXCEPT ![<<f, t>>] = row]], f, t, FollowRkey(d, f, t), "pending")
    BY <2>1, <2>3, ReplacedRow
  <2> QED
    BY <2>4, <2>6
<1> QED
  BY <1>1, <1>2

LEMMA DeletedRow ==
    ASSUME NEW d, DbOK(d), NEW f, NEW t
    PROVE  /\ RowWrite(d, DeleteFollow(d, f, t), f, t, None, None)
           /\ FollowRkey(DeleteFollow(d, f, t), f, t) = None
<1>1. PICK follows : follows = Without(d.follows, {<<f, t>>})
  OBVIOUS
<1>2. PICK e : e = [d EXCEPT !.follows = follows]
  OBVIOUS
<1>3. DeleteFollow(d, f, t) = e
  BY <1>1, <1>2 DEF DeleteFollow
<1>4. DOMAIN e = DOMAIN d /\ e.follows = follows /\ e.blocks = d.blocks
  BY <1>2 DEF DbOK
<1>5. /\ DOMAIN follows = DOMAIN d.follows \ {<<f, t>>}
      /\ \A p \in DOMAIN follows : follows[p] = d.follows[p]
      /\ follows = [p \in DOMAIN follows |-> follows[p]]
  BY <1>1 DEF Without
<1>6. DbOK(e)
  BY <1>4, <1>5 DEF DbOK
<1> QED
  BY <1>3, <1>4, <1>5, <1>6 DEF RowWrite, FollowRkey, FollowStatus, BlockRkey

LEMMA BlockedRow ==
    ASSUME NEW d, DbOK(d), NEW f \in Actors, NEW t \in Actors, NEW k
    PROVE  LET e == InsertBlock(d, f, t, k)
           IN  /\ DbOK(e)
               /\ \A a, b \in Actors :
                     /\ FollowRkey(e, a, b) = FollowRkey(d, a, b)
                     /\ FollowStatus(e, a, b) = FollowStatus(d, a, b)
                     /\ BlockRkey(e, a, b) = IF a = f /\ b = t THEN k ELSE BlockRkey(d, a, b)
<1>1. PICK blocks : blocks = Put(d.blocks, <<f, t>>, k)
  OBVIOUS
<1>2. PICK e : e = [d EXCEPT !.blocks = blocks]
  OBVIOUS
<1>3. InsertBlock(d, f, t, k) = e
  BY <1>1, <1>2 DEF InsertBlock
<1>4. DOMAIN e = DOMAIN d /\ e.follows = d.follows /\ e.blocks = blocks
  BY <1>2 DEF DbOK
<1>5. /\ DOMAIN blocks = DOMAIN d.blocks \cup {<<f, t>>}
      /\ blocks[<<f, t>>] = k
      /\ \A p \in DOMAIN d.blocks : p # <<f, t>> => blocks[p] = d.blocks[p]
      /\ blocks = [p \in DOMAIN blocks |-> blocks[p]]
  BY <1>1 DEF Put
<1>6. DbOK(e)
  BY <1>4, <1>5 DEF DbOK
<1> QED
  BY <1>3, <1>4, <1>5, <1>6 DEF FollowRkey, FollowStatus, BlockRkey

(* Some blocks go: one by request, or all of an account that is withdrawn.  *)
LEMMA UnblockedRows ==
    ASSUME NEW d, DbOK(d), NEW ps
    PROVE  LET e == [d EXCEPT !.blocks = Without(@, ps)]
           IN  /\ DbOK(e)
               /\ \A a, b \in Actors :
                     /\ FollowRkey(e, a, b) = FollowRkey(d, a, b)
                     /\ FollowStatus(e, a, b) = FollowStatus(d, a, b)
                     /\ BlockRkey(e, a, b) = BlockRkey(d, a, b) \/ BlockRkey(e, a, b) = None
                     /\ <<a, b>> \in ps => BlockRkey(e, a, b) = None
<1>1. PICK blocks : blocks = Without(d.blocks, ps)
  OBVIOUS
<1>2. PICK e : e = [d EXCEPT !.blocks = blocks]
  OBVIOUS
<1>4. DOMAIN e = DOMAIN d /\ e.follows = d.follows /\ e.blocks = blocks
  BY <1>2 DEF DbOK
<1>5. /\ DOMAIN blocks = DOMAIN d.blocks \ ps
      /\ \A p \in DOMAIN blocks : blocks[p] = d.blocks[p]
      /\ blocks = [p \in DOMAIN blocks |-> blocks[p]]
  BY <1>1 DEF Without
<1>6. DbOK(e)
  BY <1>4, <1>5 DEF DbOK
<1>7. \A a, b \in Actors :
          /\ FollowRkey(e, a, b) = FollowRkey(d, a, b)
          /\ FollowStatus(e, a, b) = FollowStatus(d, a, b)
          /\ BlockRkey(e, a, b) = BlockRkey(d, a, b) \/ BlockRkey(e, a, b) = None
          /\ <<a, b>> \in ps => BlockRkey(e, a, b) = None
  BY <1>4, <1>5 DEF FollowRkey, FollowStatus, BlockRkey
<1> QED
  BY <1>1, <1>2, <1>6, <1>7
-----------------------------------------------------------------------------
(* What a step does to the calls: cs before it, es after it. *)

(* The same call, but perhaps for the history.                              *)
Alike(c, d) ==
    /\ DOMAIN c = DOMAIN d
    /\ c.op = d.op /\ c.me = d.me /\ c.who = d.who /\ c.pc = d.pc
    /\ c.key = d.key /\ c.branch = d.branch /\ c.todo = d.todo

LEMMA AlikeCalls ==
    ASSUME NEW c, NEW d, Alike(c, d)
    PROVE  /\ IsCall(c) => IsCall(d)
           /\ Holding(d) <=> Holding(c)
           /\ HeldRecord(d) = HeldRecord(c)
           /\ Deleting(d) <=> Deleting(c)
           /\ DeletedRecord(d) = DeletedRecord(c)
           /\ \A a, b : Clears(d, a, b) <=> Clears(c, a, b)
           /\ \A a, b : ClearsBlock(d, a, b) <=> ClearsBlock(c, a, b)
           /\ \A closed, ok : CallOK(c, closed, ok) => CallOK(d, closed, ok)
<1>1. IsCall(c) => IsCall(d)
  BY DEF Alike, IsCall, HasTarget, Many, MovesOne
<1>2. (Holding(d) <=> Holding(c)) /\ HeldRecord(d) = HeldRecord(c)
  BY DEF Alike, Holding, HeldRecord
<1>3. (Deleting(d) <=> Deleting(c)) /\ DeletedRecord(d) = DeletedRecord(c)
  BY DEF Alike, Deleting, DeletedRecord
<1>4. /\ \A a, b : Clears(d, a, b) <=> Clears(c, a, b)
      /\ \A a, b : ClearsBlock(d, a, b) <=> ClearsBlock(c, a, b)
  BY DEF Alike, Clears, ClearsBlock
<1>5. \A closed, ok : CallOK(c, closed, ok) => CallOK(d, closed, ok)
  BY <1>1 DEF Alike, CallOK, Obeys
<1> QED
  BY <1>1, <1>2, <1>3, <1>4, <1>5

(* Only the calls of moved go on.                                           *)
Others(cs, es, moved) == \A s \in Calls \ moved : Alike(cs[s], es[s])

-----------------------------------------------------------------------------
(* Record keys: a step keeps the records, stores a key, draws one or deletes *)
(* its record.                                                             *)

(* A row keeps its key or loses it.                                         *)
KeyKept(d, e, a, b) ==
    /\ FollowRkey(e, a, b) \in {FollowRkey(d, a, b), None}
    /\ BlockRkey(e, a, b) \in {BlockRkey(d, a, b), None}

(* What a call holds it held before, and what it is about to delete it read  *)
(* from the row.                                                           *)
HoldsNew(x, record) == Holding(x) => HeldRecord(x) = record
HoldsOn(c, x) == Holding(x) => Holding(c) /\ x.key = c.key /\ HeldRecord(x) = HeldRecord(c)
ReadKey(d, x) ==
    Deleting(x) => /\ x.key # None
                   /\ x.me \in Actors /\ x.who \in Actors
                   /\ x.key = IF x.op = "Unblock" THEN BlockRkey(d, x.me, x.who) ELSE FollowRkey(d, x.me, x.who)
ClearsOn(e, c, x) ==
    \A a, b \in Actors :
        /\ Clears(c, a, b) => Clears(x, a, b) \/ FollowRkey(e, a, b) = None
        /\ ClearsBlock(c, a, b) => ClearsBlock(x, a, b) \/ BlockRkey(e, a, b) = None

LEMMA KeysStay ==
    ASSUME NEW d, NEW e, NEW r, NEW n, NEW cs, NEW es, KeysOK(d, r, n, cs),
           NEW moved \in SUBSET Calls, Others(cs, es, moved),
           \A a, b \in Actors : KeyKept(d, e, a, b),
           \A s \in moved : HoldsOn(cs[s], es[s]) /\ ReadKey(d, es[s]) /\ ClearsOn(e, cs[s], es[s])
    PROVE  KeysOK(e, r, n, es)
<1>1. \A s \in Calls : HoldsOn(cs[s], es[s])
  BY AlikeCalls DEF Others, HoldsOn, Alike
<1>2. \A s \in Calls : Deleting(es[s]) =>
          \/ Deleting(cs[s]) /\ es[s].key = cs[s].key /\ DeletedRecord(es[s]) = DeletedRecord(cs[s])
          \/ ReadKey(d, es[s])
  BY AlikeCalls DEF Others, Alike
<1>3. \A s \in Calls : ClearsOn(e, cs[s], es[s])
  BY AlikeCalls DEF Others, ClearsOn
<1>5. RecordsOK(r, n)
  BY DEF KeysOK
<1>6. RowKeysOK(e, r, n)
  BY DEF KeysOK, RowKeysOK, Names, KeyKept
<1>7. \A k : Unstored(d, k) /\ k # None => Unstored(e, k)
  BY DEF Unstored, KeyKept
<1>8. ASSUME NEW s \in Calls, Deleting(es[s])
      PROVE  es[s].key # None /\ Names(r, n, es[s].key, DeletedRecord(es[s]))
  <2>1. CASE Deleting(cs[s]) /\ es[s].key = cs[s].key /\ DeletedRecord(es[s]) = DeletedRecord(cs[s])
    BY <2>1 DEF KeysOK, DeletingOK
  <2>2. CASE ReadKey(d, es[s])
    BY <2>2, <1>8 DEF KeysOK, RowKeysOK, ReadKey, DeletedRecord
  <2> QED
    BY <1>2, <1>8, <2>1, <2>2
<1>9. DeletingOK(r, n, es)
  BY <1>8 DEF DeletingOK
<1>10. ASSUME NEW s \in Calls, Holding(es[s])
       PROVE  /\ HeldRecord(es[s]) \in r
              /\ Unstored(e, es[s].key)
              /\ \A u \in Calls \ {s} : Holding(es[u]) \/ Deleting(es[u]) => es[u].key # es[s].key
  <2>1. Holding(cs[s]) /\ es[s].key = cs[s].key /\ HeldRecord(es[s]) = HeldRecord(cs[s])
    BY <1>1, <1>10 DEF HoldsOn
  <2>2. cs[s].key # None
    BY <2>1 DEF Holding
  <2>3. HeldRecord(cs[s]) \in r /\ Unstored(d, cs[s].key)
    BY <2>1 DEF KeysOK, HeldOK
  <2>4. ASSUME NEW u \in Calls \ {s}, Holding(es[u])
        PROVE  es[u].key # es[s].key
    BY <1>1, <2>1, <2>4 DEF HoldsOn, KeysOK, HeldOK
  <2>5. ASSUME NEW u \in Calls \ {s}, Deleting(es[u])
        PROVE  es[u].key # es[s].key
    <3>1. CASE Deleting(cs[u]) /\ es[u].key = cs[u].key
      BY <3>1, <2>1 DEF KeysOK, HeldOK
    <3>2. CASE ReadKey(d, es[u])
      BY <3>2, <2>1, <2>3, <2>5 DEF ReadKey, Unstored
    <3> QED
      BY <1>2, <2>5, <3>1, <3>2
  <2> QED
    BY <1>7, <2>1, <2>2, <2>3, <2>4, <2>5
<1>11. HeldOK(e, r, es)
  BY <1>10 DEF HeldOK
<1>12. ASSUME NEW a \in Actors, NEW b \in Actors
       PROVE  /\ \/ FollowRkey(e, a, b) = None
                 \/ <<"follow", a, b, FollowRkey(e, a, b)>> \in r
                 \/ \E s \in Calls : Clears(es[s], a, b)
              /\ \/ BlockRkey(e, a, b) = None
                 \/ <<"block", a, b, BlockRkey(e, a, b)>> \in r
                 \/ \E s \in Calls : ClearsBlock(es[s], a, b)
  <2>1. KeyKept(d, e, a, b)
    OBVIOUS
  <2>2. (\E s \in Calls : Clears(cs[s], a, b)) => FollowRkey(e, a, b) = None \/ \E s \in Calls : Clears(es[s], a, b)
    BY <1>3 DEF ClearsOn
  <2>3. (\E s \in Calls : ClearsBlock(cs[s], a, b)) => BlockRkey(e, a, b) = None \/ \E s \in Calls : ClearsBlock(es[s], a, b)
    BY <1>3 DEF ClearsOn
  <2> QED
    BY <2>1, <2>2, <2>3 DEF KeysOK, RowsKept, KeyKept
<1>13. RowsKept(e, r, es)
  BY <1>12 DEF RowsKept
<1> QED
  BY <1>5, <1>6, <1>9, <1>11, <1>13 DEF KeysOK

(* What the calls other than s hold and delete is what they did.           *)
Same(c, x) ==
    /\ Holding(x) <=> Holding(c)
    /\ Deleting(x) <=> Deleting(c)
    /\ x.key = c.key
    /\ HeldRecord(x) = HeldRecord(c)
    /\ DeletedRecord(x) = DeletedRecord(c)
    /\ \A a, b : Clears(x, a, b) <=> Clears(c, a, b)
    /\ \A a, b : ClearsBlock(x, a, b) <=> ClearsBlock(c, a, b)

LEMMA OthersSame ==
    ASSUME NEW cs, NEW es, NEW s, Others(cs, es, {s})
    PROVE  \A u \in Calls \ {s} : Same(cs[u], es[u])
<1> SUFFICES ASSUME NEW u \in Calls \ {s} PROVE Same(cs[u], es[u])
  OBVIOUS
<1>1. Alike(cs[u], es[u])
  BY DEF Others
<1> QED
  BY <1>1, AlikeCalls DEF Alike, Same

LEMMA KeyStored ==
    ASSUME NEW d, NEW e, NEW r, NEW n, NEW cs, NEW es, KeysOK(d, r, n, cs),
           NEW s \in Calls, Others(cs, es, {s}),
           Holding(cs[s]), ~Holding(es[s]), ~Deleting(es[s]),
           \A a, b \in Actors :
               /\ \/ FollowRkey(e, a, b) \in {FollowRkey(d, a, b), None}
                  \/ FollowRkey(e, a, b) = cs[s].key /\ HeldRecord(cs[s]) = <<"follow", a, b, cs[s].key>>
               /\ \/ BlockRkey(e, a, b) \in {BlockRkey(d, a, b), None}
                  \/ BlockRkey(e, a, b) = cs[s].key /\ HeldRecord(cs[s]) = <<"block", a, b, cs[s].key>>
    PROVE  KeysOK(e, r, n, es)
<1> DEFINE k == cs[s].key
<1>0. /\ HeldRecord(cs[s]) \in r /\ k # None /\ Unstored(d, k)
      /\ \A u \in Calls \ {s} : Holding(cs[u]) \/ Deleting(cs[u]) => cs[u].key # k
  BY DEF KeysOK, HeldOK, Holding
<1>1. HeldRecord(cs[s])[4] = k
  BY DEF HeldRecord
<1>2. \A u \in Calls \ {s} : Same(cs[u], es[u])
  BY OthersSame
<1> USE DEF Same
<1>3. \A a, b : ~Clears(cs[s], a, b) /\ ~ClearsBlock(cs[s], a, b)
  BY DEF Holding, Clears, ClearsBlock, Unfollowing, Approving
<1>4. RecordsOK(r, n)
  BY DEF KeysOK
<1>5. Names(r, n, k, HeldRecord(cs[s]))
  BY <1>0, <1>1, <1>4 DEF RecordsOK, Names
<1>6. RowKeysOK(e, r, n)
  BY <1>5 DEF KeysOK, RowKeysOK, Names
<1>7. DeletingOK(r, n, es)
  BY <1>2 DEF KeysOK, DeletingOK
<1>8. \A j : Unstored(d, j) /\ j # None /\ j # k => Unstored(e, j)
  BY DEF Unstored
<1>9. ASSUME NEW u \in Calls, Holding(es[u])
      PROVE  /\ HeldRecord(es[u]) \in r
             /\ Unstored(e, es[u].key)
             /\ \A v \in Calls \ {u} : Holding(es[v]) \/ Deleting(es[v]) => es[v].key # es[u].key
  <2>1. u # s
    BY <1>9
  <2>2. Holding(cs[u]) /\ es[u].key = cs[u].key /\ HeldRecord(es[u]) = HeldRecord(cs[u])
    BY <1>2, <1>9, <2>1
  <2>3. es[u].key # k /\ es[u].key # None
    BY <1>0, <2>1, <2>2 DEF Holding
  <2>4. /\ HeldRecord(cs[u]) \in r /\ Unstored(d, cs[u].key)
        /\ \A v \in Calls \ {u} : Holding(cs[v]) \/ Deleting(cs[v]) => cs[v].key # cs[u].key
    BY <2>2 DEF KeysOK, HeldOK
  <2> QED
    BY <1>2, <1>8, <2>2, <2>3, <2>4
<1>10. HeldOK(e, r, es)
  BY <1>9 DEF HeldOK
<1>11. ASSUME NEW a \in Actors, NEW b \in Actors
       PROVE  /\ \/ FollowRkey(e, a, b) = None
                 \/ <<"follow", a, b, FollowRkey(e, a, b)>> \in r
                 \/ \E u \in Calls : Clears(es[u], a, b)
              /\ \/ BlockRkey(e, a, b) = None
                 \/ <<"block", a, b, BlockRkey(e, a, b)>> \in r
                 \/ \E u \in Calls : ClearsBlock(es[u], a, b)
  <2>1. (\E u \in Calls : Clears(cs[u], a, b)) => \E u \in Calls : Clears(es[u], a, b)
    BY <1>2, <1>3
  <2>2. (\E u \in Calls : ClearsBlock(cs[u], a, b)) => \E u \in Calls : ClearsBlock(es[u], a, b)
    BY <1>2, <1>3
  <2> QED
    BY <1>0, <2>1, <2>2 DEF KeysOK, RowsKept
<1>12. RowsKept(e, r, es)
  BY <1>11 DEF RowsKept
<1> QED
  BY <1>4, <1>6, <1>7, <1>10, <1>12 DEF KeysOK

LEMMA KeyDrawn ==
    ASSUME NEW d, NEW r, NEW n \in Nat, NEW cs, NEW es, KeysOK(d, r, n, cs),
           NEW s \in Calls, Others(cs, es, {s}),
           NEW coll \in {"follow", "block"}, NEW f \in Actors, NEW t \in Actors,
           HoldsNew(es[s], <<coll, f, t, n + 1>>), ~Deleting(es[s]),
           \A x, y : ~Clears(cs[s], x, y) /\ ~ClearsBlock(cs[s], x, y)
    PROVE  KeysOK(d, r \cup {<<coll, f, t, n + 1>>}, n + 1, es)
<1> DEFINE new == <<coll, f, t, n + 1>>
           q == r \cup {new}
<1>1. \A x \in r : x[4] \in 1..n
  BY DEF KeysOK, RecordsOK
<1>2. new[4] = n + 1 /\ n + 1 \notin 1..n
  OBVIOUS
<1>3. RecordsOK(q, n + 1)
  <2>1. 1..n \subseteq 1..(n + 1) /\ n + 1 \in 1..(n + 1)
    OBVIOUS
  <2>2. q \subseteq {"follow", "block"} \X Actors \X Actors \X (1..(n + 1))
    BY <2>1 DEF KeysOK, RecordsOK
  <2>3. \A x, y \in q : x[4] = y[4] => x = y
    BY <1>1, <1>2 DEF KeysOK, RecordsOK
  <2> QED
    BY <2>2, <2>3 DEF RecordsOK
<1>4. \A k, x : Names(r, n, k, x) => Names(q, n + 1, k, x)
  BY <1>2 DEF Names
<1>5. RowKeysOK(d, q, n + 1)
  BY <1>4 DEF KeysOK, RowKeysOK
<1>6. \A u \in Calls \ {s} : Same(cs[u], es[u])
  BY OthersSame
<1> USE DEF Same
<1>7. DeletingOK(q, n + 1, es)
  BY <1>4, <1>6 DEF KeysOK, DeletingOK
<1>8. Holding(es[s]) => es[s].key = n + 1 /\ n + 1 # None /\ HeldRecord(es[s]) = new
  <2>1. HeldRecord(es[s])[4] = es[s].key
    BY DEF HeldRecord
  <2> QED
    BY <2>1, <1>2 DEF HoldsNew, Holding
<1>9. n + 1 # None => Unstored(d, n + 1)
  BY <1>2 DEF KeysOK, RowKeysOK, Names, Unstored
<1>10. \A u \in Calls \ {s} : Holding(es[u]) \/ Deleting(es[u]) => es[u].key \in 1..n
  <2>1. ASSUME NEW u \in Calls \ {s}, Holding(es[u])
        PROVE  es[u].key \in 1..n
    <3>1. HeldRecord(cs[u]) \in r
      BY <1>6, <2>1 DEF KeysOK, HeldOK
    <3>2. HeldRecord(cs[u])[4] = cs[u].key
      BY DEF HeldRecord
    <3> QED
      BY <1>1, <1>6, <3>1, <3>2
  <2>2. ASSUME NEW u \in Calls \ {s}, Deleting(es[u])
        PROVE  es[u].key \in 1..n
    BY <1>6, <2>2 DEF KeysOK, DeletingOK, Names
  <2> QED
    BY <2>1, <2>2
<1>11. ASSUME NEW u \in Calls, Holding(es[u])
       PROVE  /\ HeldRecord(es[u]) \in q
              /\ Unstored(d, es[u].key)
              /\ \A v \in Calls \ {u} : Holding(es[v]) \/ Deleting(es[v]) => es[v].key # es[u].key
  <2>1. CASE u = s
    BY <1>2, <1>8, <1>9, <1>10, <1>11, <2>1
  <2>2. CASE u # s
    <3>1. /\ HeldRecord(cs[u]) \in r /\ Unstored(d, cs[u].key)
          /\ \A v \in Calls \ {u} : Holding(cs[v]) \/ Deleting(cs[v]) => cs[v].key # cs[u].key
      BY <1>6, <1>11, <2>2 DEF KeysOK, HeldOK
    <3>2. es[u].key \in 1..n
      BY <1>10, <1>11, <2>2
    <3>3. Holding(es[s]) => es[s].key # es[u].key
      BY <1>2, <1>8, <3>2
    <3> QED
      BY <1>6, <2>2, <3>1, <3>3
  <2> QED
    BY <2>1, <2>2
<1>12. HeldOK(d, q, es)
  BY <1>11 DEF HeldOK
<1>13. RowsKept(d, q, es)
  <2>1. ASSUME NEW a, NEW b
        PROVE  /\ (\E u \in Calls : Clears(cs[u], a, b)) => \E u \in Calls : Clears(es[u], a, b)
               /\ (\E u \in Calls : ClearsBlock(cs[u], a, b)) => \E u \in Calls : ClearsBlock(es[u], a, b)
    BY <1>6
  <2> QED
    BY <2>1 DEF KeysOK, RowsKept
<1> QED
  BY <1>3, <1>5, <1>7, <1>12, <1>13 DEF KeysOK

(* The record of key k of owner goes, by the call that holds it or is about  *)
(* to clear the row.                                                       *)
WithoutRecord(r, coll, owner, k) == {x \in r : ~(x[1] = coll /\ x[2] = owner /\ x[4] = k)}

LEMMA RecordGone ==
    ASSUME NEW d, NEW r, NEW n, NEW cs, NEW es, KeysOK(d, r, n, cs),
           NEW s \in Calls, Others(cs, es, {s}),
           NEW coll \in {"follow", "block"}, NEW f \in Actors, NEW t \in Actors, NEW k,
           cs[s].key = k, ~Holding(es[s]), ~Deleting(es[s]),
           \/ Holding(cs[s]) /\ HeldRecord(cs[s]) = <<coll, f, t, k>>
           \/ /\ Deleting(cs[s]) /\ DeletedRecord(cs[s]) = <<coll, f, t, k>>
              /\ IF coll = "follow" THEN Clears(es[s], f, t) ELSE ClearsBlock(es[s], f, t),
           \A x, y : ~Clears(cs[s], x, y) /\ ~ClearsBlock(cs[s], x, y)
    PROVE  KeysOK(d, WithoutRecord(r, coll, f, k), n, es)
<1> DEFINE q == WithoutRecord(r, coll, f, k)
<1>1. q \subseteq r
  BY DEF WithoutRecord
<1>2. Names(r, n, k, <<coll, f, t, k>>) /\ k # None
  <2>1. CASE Holding(cs[s]) /\ HeldRecord(cs[s]) = <<coll, f, t, k>>
    <3>1. <<coll, f, t, k>> \in r /\ k # None
      BY <2>1 DEF KeysOK, HeldOK, Holding
    <3>2. <<coll, f, t, k>>[4] = k
      OBVIOUS
    <3> QED
      BY <3>1, <3>2 DEF KeysOK, RecordsOK, Names
  <2>2. CASE Deleting(cs[s]) /\ DeletedRecord(cs[s]) = <<coll, f, t, k>>
    BY <2>2 DEF KeysOK, DeletingOK
  <2> QED
    BY <2>1, <2>2
<1>3. \A x \in r \ q : x = <<coll, f, t, k>>
  BY <1>2 DEF WithoutRecord, Names
<1>4. RecordsOK(q, n)
  BY <1>1 DEF KeysOK, RecordsOK
<1>5. \A j, x : Names(r, n, j, x) => Names(q, n, j, x)
  BY <1>1 DEF Names
<1>6. RowKeysOK(d, q, n)
  BY <1>5 DEF KeysOK, RowKeysOK
<1>7. \A u \in Calls \ {s} : Same(cs[u], es[u])
  BY OthersSame
<1> USE DEF Same
<1>8. DeletingOK(q, n, es)
  BY <1>5, <1>7 DEF KeysOK, DeletingOK
<1>9. ASSUME NEW u \in Calls, Holding(es[u])
      PROVE  /\ HeldRecord(es[u]) \in q
             /\ Unstored(d, es[u].key)
             /\ \A v \in Calls \ {u} : Holding(es[v]) \/ Deleting(es[v]) => es[v].key # es[u].key
  <2>1. u # s
    BY <1>9
  <2>2. Holding(cs[u]) /\ es[u].key = cs[u].key /\ HeldRecord(es[u]) = HeldRecord(cs[u])
    BY <1>7, <1>9, <2>1
  <2>3. /\ HeldRecord(cs[u]) \in r /\ Unstored(d, cs[u].key)
        /\ \A v \in Calls \ {u} : Holding(cs[v]) \/ Deleting(cs[v]) => cs[v].key # cs[u].key
    BY <2>2 DEF KeysOK, HeldOK
  <2>4. cs[u].key # k
    BY <2>1, <2>3
  <2>5. HeldRecord(cs[u])[4] = cs[u].key /\ <<coll, f, t, k>>[4] = k
    BY DEF HeldRecord
  <2>6. HeldRecord(cs[u]) \in q
    BY <1>3, <2>3, <2>4, <2>5
  <2> QED
    BY <1>7, <2>1, <2>2, <2>3, <2>6
<1>10. HeldOK(d, q, es)
  BY <1>9 DEF HeldOK
<1>11. \A a, b \in Actors : /\ <<"follow", a, b, k>> = <<coll, f, t, k>> => FollowRkey(d, a, b) # k \/ Clears(es[s], a, b)
                            /\ <<"block", a, b, k>> = <<coll, f, t, k>> => BlockRkey(d, a, b) # k \/ ClearsBlock(es[s], a, b)
  <2>1. CASE Holding(cs[s])
    BY <2>1 DEF KeysOK, HeldOK, Unstored
  <2>2. CASE IF coll = "follow" THEN Clears(es[s], f, t) ELSE ClearsBlock(es[s], f, t)
    BY <2>2
  <2> QED
    BY <2>1, <2>2
<1>12. ASSUME NEW a \in Actors, NEW b \in Actors
       PROVE  /\ \/ FollowRkey(d, a, b) = None
                 \/ <<"follow", a, b, FollowRkey(d, a, b)>> \in q
                 \/ \E u \in Calls : Clears(es[u], a, b)
              /\ \/ BlockRkey(d, a, b) = None
                 \/ <<"block", a, b, BlockRkey(d, a, b)>> \in q
                 \/ \E u \in Calls : ClearsBlock(es[u], a, b)
  <2>1. /\ (\E u \in Calls : Clears(cs[u], a, b)) => \E u \in Calls : Clears(es[u], a, b)
        /\ (\E u \in Calls : ClearsBlock(cs[u], a, b)) => \E u \in Calls : ClearsBlock(es[u], a, b)
    BY <1>7
  <2>2. \/ FollowRkey(d, a, b) = None
        \/ <<"follow", a, b, FollowRkey(d, a, b)>> \in r
        \/ \E u \in Calls : Clears(es[u], a, b)
    BY <2>1 DEF KeysOK, RowsKept
  <2>3. \/ BlockRkey(d, a, b) = None
        \/ <<"block", a, b, BlockRkey(d, a, b)>> \in r
        \/ \E u \in Calls : ClearsBlock(es[u], a, b)
    BY <2>1 DEF KeysOK, RowsKept
  <2>4. ASSUME <<"follow", a, b, FollowRkey(d, a, b)>> \in r \ q
        PROVE  Clears(es[s], a, b)
    <3>1. <<"follow", a, b, FollowRkey(d, a, b)>> = <<coll, f, t, k>>
      BY <1>3, <2>4
    <3>2. FollowRkey(d, a, b) = k /\ <<"follow", a, b, k>> = <<coll, f, t, k>>
      BY <3>1
    <3> QED
      BY <1>11, <3>2
  <2>5. ASSUME <<"block", a, b, BlockRkey(d, a, b)>> \in r \ q
        PROVE  ClearsBlock(es[s], a, b)
    BY <1>3, <1>11, <2>5
  <2> QED
    BY <2>2, <2>3, <2>4, <2>5
<1>13. RowsKept(d, q, es)
  BY <1>12 DEF RowsKept
<1> QED
  BY <1>4, <1>6, <1>8, <1>10, <1>13 DEF KeysOK
-----------------------------------------------------------------------------
(* A step of slot s, whose call becomes x, or ends.  Each lemma is one way   *)
(* the records may change.                                                 *)

After(x) == IF x.pc = "end" THEN NoCall ELSE x

LEMMA UpdOthers ==
    ASSUME calls = [u \in Calls |-> calls[u]], NEW s \in Calls, NEW x, Upd(s, x)
    PROVE  /\ Others(calls, calls', {s})
           /\ calls'[s] = After(x)
           /\ calls' = [u \in Calls |-> calls'[u]]
           /\ \A u \in Calls \ {s} : calls'[u] = calls[u]
BY DEF Upd, Others, Alike, After

LEMMA MoreAllowed ==
    ASSUME NEW closed, NEW ok, NEW closed2 \in SUBSET closed, NEW ok2, ok \subseteq ok2
    PROVE  /\ \A c : CallOK(c, closed, ok) => CallOK(c, closed2, ok2)
           /\ \A f, t : MayFollow(f, t, closed, ok) => MayFollow(f, t, closed2, ok2)
           /\ \A d, r : ApprovalOK(d, r, closed, ok) => ApprovalOK(d, r, closed2, ok2)
<1>1. \A c : Obeys(c, closed, ok) => Obeys(c, closed2, ok2)
  BY DEF Obeys, MayFollow
<1>2. \A f, t : MayFollow(f, t, closed, ok) => MayFollow(f, t, closed2, ok2)
  BY DEF MayFollow
<1> QED
  BY <1>1, <1>2 DEF CallOK, ApprovalOK

LEMMA UpdCallsOK ==
    ASSUME NEW closed, NEW ok, NEW ok2, ok \subseteq ok2, CallsOK(calls, closed, ok),
           NEW s \in Calls, NEW x, Upd(s, x), CallOK(After(x), closed, ok2)
    PROVE  CallsOK(calls', closed, ok2)
<1>1. \A u \in Calls : CallOK(calls[u], closed, ok2)
  BY MoreAllowed DEF CallsOK
<1> QED
  BY <1>1, UpdOthers DEF CallsOK

(* No row is accepted that was not, but where the target may be followed.   *)
StatusesOK(d, e, ok) ==
    \A a, b \in Actors : \/ FollowStatus(e, a, b) = FollowStatus(d, a, b)
                        \/ FollowStatus(e, a, b) # "accepted"
                        \/ MayFollow(a, b, Closed, ok)

LEMMA ApprovalKept ==
    ASSUME NEW d, NEW e, NEW r, NEW q, NEW ok, NEW ok2, ok \subseteq ok2, ApprovalOK(d, r, Closed, ok),
           StatusesOK(d, e, ok2), \A y \in q \ r : y[1] = "follow" => MayFollow(y[2], y[3], Closed, ok2)
    PROVE  ApprovalOK(e, q, Closed, ok2)
<1>1. ApprovalOK(d, r, Closed, ok2)
  BY MoreAllowed
<1> QED
  BY <1>1 DEF ApprovalOK, StatusesOK

LEMMA QuietStep ==
    ASSUME SInv, NEW s \in Calls, NEW x, Upd(s, x),
           UNCHANGED <<repo, keys, locked, opened>>, admitted \subseteq admitted',
           DbOK(db'), StatusesOK(db, db', admitted'), \A a, b \in Actors : KeyKept(db, db', a, b),
           CallOK(After(x), Closed, admitted'),
           HoldsOn(calls[s], After(x)), ReadKey(db, After(x)), ClearsOn(db', calls[s], After(x))
    PROVE  SInv'
<1>1. Others(calls, calls', {s}) /\ calls'[s] = After(x)
  BY UpdOthers DEF SInv, CallsOK
<1>2. KeysOK(db', repo, keys, calls')
  BY <1>1, KeysStay DEF SInv, KeyInv
<1>3. CallsOK(calls', Closed, admitted')
  BY UpdCallsOK DEF SInv
<1>4. ApprovalOK(db', repo, Closed, admitted')
  BY ApprovalKept DEF SInv
<1>5. Closed' = Closed
  BY DEF Closed
<1> QED
  BY <1>2, <1>3, <1>4, <1>5 DEF SInv, KeyInv

LEMMA StoreStep ==
    ASSUME SInv, NEW s \in Calls, NEW x, Upd(s, x),
           UNCHANGED <<repo, keys, locked, opened, admitted>>,
           DbOK(db'), StatusesOK(db, db', admitted),
           Holding(calls[s]), CallOK(After(x), Closed, admitted), ~Holding(After(x)), ~Deleting(After(x)),
           \A a, b \in Actors :
               /\ \/ FollowRkey(db', a, b) \in {FollowRkey(db, a, b), None}
                  \/ FollowRkey(db', a, b) = calls[s].key /\ HeldRecord(calls[s]) = <<"follow", a, b, calls[s].key>>
               /\ \/ BlockRkey(db', a, b) \in {BlockRkey(db, a, b), None}
                  \/ BlockRkey(db', a, b) = calls[s].key /\ HeldRecord(calls[s]) = <<"block", a, b, calls[s].key>>
    PROVE  SInv'
<1>1. Others(calls, calls', {s}) /\ calls'[s] = After(x)
  BY UpdOthers DEF SInv, CallsOK
<1>2. KeysOK(db', repo, keys, calls')
  BY <1>1, KeyStored DEF SInv, KeyInv
<1>3. CallsOK(calls', Closed, admitted)
  BY UpdCallsOK DEF SInv
<1>4. ApprovalOK(db', repo, Closed, admitted)
  BY ApprovalKept DEF SInv
<1>5. Closed' = Closed
  BY DEF Closed
<1> QED
  BY <1>2, <1>3, <1>4, <1>5 DEF SInv, KeyInv

LEMMA DrawStep ==
    ASSUME SInv, NEW s \in Calls, NEW x, Upd(s, x),
           NEW coll \in {"follow", "block"}, NEW f \in Actors, NEW t \in Actors,
           repo' = repo \cup {<<coll, f, t, keys + 1>>}, keys' = keys + 1,
           UNCHANGED <<db, locked, opened, admitted>>,
           coll = "follow" => MayFollow(f, t, Closed, admitted),
           CallOK(After(x), Closed, admitted), HoldsNew(After(x), <<coll, f, t, keys + 1>>), ~Deleting(After(x)),
           \A a, b : ~Clears(calls[s], a, b) /\ ~ClearsBlock(calls[s], a, b)
    PROVE  SInv'
<1>1. Others(calls, calls', {s}) /\ calls'[s] = After(x)
  BY UpdOthers DEF SInv, CallsOK
<1>2. KeysOK(db, repo \cup {<<coll, f, t, keys + 1>>}, keys + 1, calls')
  BY <1>1, KeyDrawn DEF SInv, KeyInv
<1>3. CallsOK(calls', Closed, admitted)
  BY UpdCallsOK DEF SInv
<1>4. ApprovalOK(db, repo', Closed, admitted)
  <2>1. StatusesOK(db, db, admitted)
    BY DEF StatusesOK
  <2>2. \A y \in repo' \ repo : y[1] = "follow" => MayFollow(y[2], y[3], Closed, admitted)
    OBVIOUS
  <2> QED
    BY <2>1, <2>2, ApprovalKept DEF SInv
<1>5. Closed' = Closed
  BY DEF Closed
<1> QED
  BY <1>2, <1>3, <1>4, <1>5 DEF SInv, KeyInv

LEMMA GoneStep ==
    ASSUME SInv, NEW s \in Calls, NEW x, Upd(s, x),
           NEW coll \in {"follow", "block"}, NEW f \in Actors, NEW t \in Actors,
           repo' = WithoutRecord(repo, coll, f, calls[s].key),
           UNCHANGED <<db, keys, locked, opened, admitted>>,
           CallOK(After(x), Closed, admitted), ~Holding(After(x)), ~Deleting(After(x)),
           \/ Holding(calls[s]) /\ HeldRecord(calls[s]) = <<coll, f, t, calls[s].key>>
           \/ /\ Deleting(calls[s]) /\ DeletedRecord(calls[s]) = <<coll, f, t, calls[s].key>>
              /\ IF coll = "follow" THEN Clears(After(x), f, t) ELSE ClearsBlock(After(x), f, t),
           \A a, b : ~Clears(calls[s], a, b) /\ ~ClearsBlock(calls[s], a, b)
    PROVE  SInv'
<1>1. Others(calls, calls', {s}) /\ calls'[s] = After(x)
  BY UpdOthers DEF SInv, CallsOK
<1>2. KeysOK(db, repo', keys, calls')
  BY <1>1, RecordGone DEF SInv, KeyInv
<1>3. CallsOK(calls', Closed, admitted)
  BY UpdCallsOK DEF SInv
<1>4. ApprovalOK(db, repo', Closed, admitted)
  <2>1. StatusesOK(db, db, admitted)
    BY DEF StatusesOK
  <2>2. repo' \subseteq repo
    BY DEF WithoutRecord
  <2> QED
    BY <2>1, <2>2, ApprovalKept DEF SInv
<1>5. Closed' = Closed
  BY DEF Closed
<1> QED
  BY <1>2, <1>3, <1>4, <1>5 DEF SInv, KeyInv
(* The call of slot s may become x when the database becomes e.             *)
Calm(e, c, x, ok) ==
    /\ CallOK(After(x), Closed, ok)
    /\ HoldsOn(c, After(x))
    /\ ReadKey(db, After(x))
    /\ ClearsOn(e, c, After(x))

LEMMA PassStep ==
    ASSUME SInv, NEW s \in Calls, NEW x, Upd(s, x),
           UNCHANGED <<db, repo, keys, locked, opened>>, admitted \subseteq admitted',
           Calm(db, calls[s], x, admitted')
    PROVE  SInv'
<1>1. DbOK(db') /\ StatusesOK(db, db', admitted') /\ \A a, b \in Actors : KeyKept(db, db', a, b)
  BY DEF SInv, StatusesOK, KeyKept
<1>2. Calm(db', calls[s], x, admitted')
  OBVIOUS
<1> QED
  BY <1>1, <1>2, QuietStep DEF Calm

LEMMA RowStep ==
    ASSUME SInv, NEW s \in Calls, NEW x, Upd(s, x),
           UNCHANGED <<repo, keys, locked, opened, admitted>>,
           NEW f, NEW t, NEW rkey \in {None, FollowRkey(db, f, t)}, NEW status,
           RowWrite(db, db', f, t, rkey, status),
           status # "accepted" \/ MayFollow(f, t, Closed, admitted),
           Calm(db', calls[s], x, admitted)
    PROVE  SInv'
<1>1. DbOK(db') /\ StatusesOK(db, db', admitted') /\ \A a, b \in Actors : KeyKept(db, db', a, b)
  BY DEF RowWrite, StatusesOK, KeyKept
<1> QED
  BY <1>1, QuietStep DEF Calm

(* x is c at label l with key k.                                            *)
Goes(c, x, l, k) ==
    /\ DOMAIN x = DOMAIN c
    /\ x.op = c.op /\ x.me = c.me /\ x.who = c.who /\ x.branch = c.branch /\ x.todo = c.todo
    /\ x.pc = l /\ x.key = k

LEMMA Turns ==
    ASSUME NEW c, IsCall(c), NEW l, NEW k, NEW b
    PROVE  /\ Goes(c, [c EXCEPT !.pc = l], l, c.key)
           /\ Goes(c, [c EXCEPT !.pc = l, !.key = k], l, k)
           /\ Goes(c, [c EXCEPT !.key = k, !.pc = l], l, k)
           /\ Goes(c, [c EXCEPT !.pc = l, !.failed = TRUE, !.key = k], l, k)
BY DEF IsCall, Goes

LEMMA CallFacts ==
    ASSUME SInv, NEW s \in Calls, calls[s].op # "none"
    PROVE  IsCall(calls[s]) /\ Obeys(calls[s], Closed, admitted)
BY DEF SInv, CallsOK, CallOK

(* A read or a write of the row, a request to the other server, a record.   *)
LEMMA SqlStep ==
    ASSUME SInv, NEW s \in Calls, calls[s].op # "none", NEW new, NEW l, Sql(s, new, l)
    PROVE  \E x : /\ Upd(s, x) /\ Goes(calls[s], x, l, calls[s].key)
                  /\ db' = new /\ UNCHANGED <<repo, keys, locked, opened, admitted>>
BY CallFacts, Turns DEF Sql, To, Fixed, quiet

LEMMA PostStep ==
    ASSUME SInv, NEW s \in Calls, calls[s].op # "none", NEW new, NEW ok, NEW bad, Post(s, new, ok, bad)
    PROVE  \E x, l : /\ Upd(s, x) /\ l \in {ok, bad} /\ Goes(calls[s], x, l, calls[s].key)
                     /\ UNCHANGED <<db, repo, keys, locked, opened, admitted>>
BY CallFacts, Turns DEF Post, Failed, FailedWith, To, Fixed, quiet

LEMMA CommitStep ==
    ASSUME SInv, NEW s \in Calls, calls[s].op # "none", NEW coll, NEW owner, NEW subject, NEW ok, NEW bad,
           CommitRecord(s, coll, owner, subject, ok, bad)
    PROVE  \E x : /\ Upd(s, x)
                  /\ UNCHANGED <<db, locked, opened, admitted>>
                  /\ \/ /\ Goes(calls[s], x, ok, keys + 1)
                        /\ repo' = repo \cup {<<coll, owner, subject, keys + 1>>} /\ keys' = keys + 1
                     \/ Goes(calls[s], x, bad, None) /\ UNCHANGED <<repo, keys>>
BY CallFacts, Turns DEF CommitRecord, FailedWith, Fixed, quiet

LEMMA DeleteStep ==
    ASSUME SInv, NEW s \in Calls, calls[s].op # "none", NEW coll, NEW owner, NEW key, NEW ok, NEW bad,
           DeleteRecord(s, coll, owner, key, ok, bad)
    PROVE  \E x : /\ Upd(s, x)
                  /\ UNCHANGED <<db, keys, locked, opened, admitted>>
                  /\ \/ Goes(calls[s], x, ok, calls[s].key) /\ repo' = WithoutRecord(repo, coll, owner, key)
                     \/ Goes(calls[s], x, bad, calls[s].key) /\ UNCHANGED repo
BY CallFacts, Turns DEF DeleteRecord, Failed, FailedWith, To, Fixed, quiet, WithoutRecord

-----------------------------------------------------------------------------
(* follow_exec.rs *)

(* Where nothing is held, cleared or deleted a call only has to stay a call. *)
LEMMA Idle ==
    ASSUME NEW e, NEW c, NEW x, NEW ok, CallOK(After(x), Closed, ok), ~Holding(After(x)), ~Deleting(After(x)),
           \A a, b : ~Clears(c, a, b) /\ ~ClearsBlock(c, a, b)
    PROVE  Calm(e, c, x, ok)
BY DEF Calm, HoldsOn, ReadKey, ClearsOn

(* A Follow, before and after a step.                                      *)
LEMMA FollowTurn ==
    ASSUME NEW c, IsCall(c), Obeys(c, Closed, admitted), c.op = "Follow", NEW x, NEW l, NEW k, Goes(c, x, l, k),
           MayFollow(c.me, c.who, Closed, admitted) \/ l \in {"pend", "end"}, l \notin {"begin", "check"},
           l \in {"record", "drop"} => k # None
    PROVE  /\ CallOK(After(x), Closed, admitted)
           /\ Holding(After(x)) <=> k # None /\ l \in {"insert", "record", "drop"}
           /\ HeldRecord(After(x)) = <<"follow", c.me, c.who, k>> \/ l = "end"
           /\ ~Deleting(After(x))
           /\ \A a, b : ~Clears(c, a, b) /\ ~ClearsBlock(c, a, b)
<1>1. CallOK(After(x), Closed, admitted)
  BY DEF After, NoCall, CallOK, IsCall, Obeys, Goes, HasTarget, Many, MovesOne, Approving
<1>2. /\ Holding(After(x)) <=> k # None /\ l \in {"insert", "record", "drop"}
      /\ HeldRecord(After(x)) = <<"follow", c.me, c.who, k>> \/ l = "end"
      /\ ~Deleting(After(x))
  BY DEF After, NoCall, Goes, Holding, HeldRecord, Deleting, Approving, Unfollowing
<1>3. \A a, b : ~Clears(c, a, b) /\ ~ClearsBlock(c, a, b)
  BY DEF Clears, ClearsBlock, Unfollowing
<1> QED
  BY <1>1, <1>2, <1>3

LEMMA ExecuteFollowStep ==
    ASSUME SInv, NEW s \in Calls, ExecuteFollow(s)
    PROVE  SInv'
<1> DEFINE c == calls[s]
<1>1. c.op = "Follow" /\ c.pc = "begin" /\ IsCall(c) /\ Obeys(c, Closed, admitted)
  BY CallFacts DEF ExecuteFollow, At
<1>2. PICK naming \in Namings(c.who) :
          IF naming = "name" /\ c.me = c.who THEN To(s, "end") /\ UNCHANGED admitted
          ELSE /\ Upd(s, [c EXCEPT !.pc = "check", !.branch = FollowBranch(c.who, naming)])
               /\ admitted' = IF naming = "did" THEN admitted \cup {<<c.me, c.who>>} ELSE admitted
  BY DEF ExecuteFollow
<1>3. UNCHANGED <<db, repo, keys, locked, opened>> /\ admitted \subseteq admitted'
  BY <1>2 DEF ExecuteFollow
<1>4. CASE naming = "name" /\ c.me = c.who
  <2>1. PICK x : Upd(s, x) /\ Goes(c, x, "end", c.key)
    BY <1>1, <1>2, <1>4, Turns DEF To
  <2>2. admitted' = admitted
    BY <1>2, <1>4
  <2>3. Calm(db, c, x, admitted')
    BY <1>1, <2>1, <2>2, FollowTurn, Idle
  <2> QED
    BY <1>3, <2>1, <2>3, PassStep
<1>5. CASE ~(naming = "name" /\ c.me = c.who)
  <2> DEFINE x == [c EXCEPT !.pc = "check", !.branch = FollowBranch(c.who, naming)]
  <2>1. /\ DOMAIN x = DOMAIN c /\ x.op = "Follow" /\ x.me = c.me /\ x.who = c.who /\ x.todo = c.todo
        /\ x.pc = "check" /\ x.key = c.key /\ x.branch = FollowBranch(c.who, naming)
    BY <1>1 DEF IsCall
  <2>2. FollowBranch(c.who, naming) \in {"pend", "claim", "married", "insert"}
    BY DEF FollowBranch
  <2>3. FollowBranch(c.who, naming) = "pend" \/ MayFollow(c.me, c.who, Closed, admitted')
    BY <1>2, <1>5 DEF Closed, SInv, FollowBranch, MayFollow
  <2>4. Upd(s, x)
    BY <1>2, <1>5
  <2> HIDE DEF x
  <2>5. CallOK(After(x), Closed, admitted')
    BY <1>1, <2>1, <2>2, <2>3 DEF After, CallOK, IsCall, Obeys, HasTarget, Many, MovesOne, Approving
  <2>6. /\ ~Holding(After(x)) /\ ~Deleting(After(x))
        /\ \A a, b : ~Clears(c, a, b) /\ ~ClearsBlock(c, a, b)
    BY <1>1, <2>1 DEF After, Holding, Deleting, Clears, ClearsBlock, Approving, Unfollowing
  <2> QED
    BY <1>3, <2>4, <2>5, <2>6, Idle, PassStep
<1> QED
  BY <1>4, <1>5

LEMMA CheckNotBlockedStep ==
    ASSUME SInv, NEW s \in Calls, CheckNotBlocked(s)
    PROVE  SInv'
<1> DEFINE c == calls[s]
<1>1. c.op = "Follow" /\ c.pc = "check" /\ IsCall(c) /\ Obeys(c, Closed, admitted)
  BY CallFacts DEF CheckNotBlocked, At
<1>2. PICK l : l \in {"end", c.branch} /\ Sql(s, db, l)
  BY DEF CheckNotBlocked
<1>3. PICK x : /\ Upd(s, x) /\ Goes(c, x, l, c.key)
               /\ db' = db /\ UNCHANGED <<repo, keys, locked, opened, admitted>>
  BY <1>1, <1>2, SqlStep
<1>4. /\ c.key = None /\ l \notin {"begin", "check", "record", "drop"}
      /\ MayFollow(c.me, c.who, Closed, admitted) \/ l \in {"pend", "end"}
  BY <1>1, <1>2 DEF IsCall, Obeys
<1>5. Calm(db, c, x, admitted)
  BY <1>1, <1>3, <1>4, FollowTurn, Idle
<1> QED
  BY <1>3, <1>5, PassStep
LEMMA EstablishAtpFollowStep ==
    ASSUME SInv, NEW s \in Calls, EstablishAtpFollow(s)
    PROVE  SInv'
<1> DEFINE c == calls[s]
<1>1. c.op = "Follow" /\ IsCall(c) /\ Obeys(c, Closed, admitted) /\ c.me \in Actors /\ c.who \in Actors
  <2>1. c.op = "Follow"
    BY DEF EstablishAtpFollow, At
  <2>2. IsCall(c) /\ Obeys(c, Closed, admitted)
    BY <2>1, CallFacts
  <2> QED
    BY <2>1, <2>2 DEF IsCall, HasTarget, Many
<1>2. c.pc \in {"claim", "commit", "giveback", "record", "drop"} => MayFollow(c.me, c.who, Closed, admitted)
  BY <1>1 DEF Obeys
<1>3. ASSUME c.pc = "claim", NEW l \in {"commit", "end"}, Sql(s, InsertAcceptedWithRkey(db, c.me, c.who, None), l)
      PROVE  SInv'
  <2>1. PICK x : /\ Upd(s, x) /\ Goes(c, x, l, c.key)
                 /\ db' = InsertAcceptedWithRkey(db, c.me, c.who, None) /\ UNCHANGED <<repo, keys, locked, opened, admitted>>
    BY <1>1, <1>3, SqlStep
  <2>2. RowWrite(db, db', c.me, c.who, None, "accepted")
    BY <1>1, <2>1, NewFollowRow DEF SInv, InsertAcceptedWithRkey
  <2>3. Calm(db', c, x, admitted)
    BY <1>1, <1>2, <1>3, <2>1, FollowTurn, Idle
  <2>4. MayFollow(c.me, c.who, Closed, admitted)
    BY <1>2, <1>3
  <2> QED
    BY <2>1, <2>2, <2>3, <2>4, RowStep
<1>4. ASSUME c.pc = "commit", CommitFollow(s, c.me, c.who, "record", "giveback")
      PROVE  SInv'
  <2>1. PICK x : /\ Upd(s, x)
                 /\ UNCHANGED <<db, locked, opened, admitted>>
                 /\ \/ /\ Goes(c, x, "record", keys + 1)
                       /\ repo' = repo \cup {<<"follow", c.me, c.who, keys + 1>>} /\ keys' = keys + 1
                    \/ Goes(c, x, "giveback", None) /\ UNCHANGED <<repo, keys>>
    BY <1>1, <1>4, CommitStep DEF CommitFollow
  <2>2. CASE /\ Goes(c, x, "record", keys + 1)
             /\ repo' = repo \cup {<<"follow", c.me, c.who, keys + 1>>} /\ keys' = keys + 1
    <3>0. keys + 1 # None
      BY NullAssumption DEF SInv
    <3>1. /\ CallOK(After(x), Closed, admitted) /\ HoldsNew(After(x), <<"follow", c.me, c.who, keys + 1>>)
          /\ ~Deleting(After(x)) /\ \A a, b : ~Clears(c, a, b) /\ ~ClearsBlock(c, a, b)
      BY <1>1, <1>2, <1>4, <2>2, <3>0, FollowTurn DEF HoldsNew
    <3>2. MayFollow(c.me, c.who, Closed, admitted)
      BY <1>2, <1>4
    <3> QED
      BY <1>1, <2>1, <2>2, <3>1, <3>2, DrawStep
  <2>3. CASE Goes(c, x, "giveback", None) /\ UNCHANGED <<repo, keys>>
    <3>1. Calm(db, c, x, admitted)
      BY <1>1, <1>2, <1>4, <2>3, FollowTurn, Idle
    <3> QED
      BY <2>1, <2>3, <3>1, PassStep
  <2> QED
    BY <2>1, <2>2, <2>3
<1>5. ASSUME c.pc = "giveback", Sql(s, DeleteFollow(db, c.me, c.who), "end")
      PROVE  SInv'
  <2>1. PICK x : /\ Upd(s, x) /\ Goes(c, x, "end", c.key)
                 /\ db' = DeleteFollow(db, c.me, c.who) /\ UNCHANGED <<repo, keys, locked, opened, admitted>>
    BY <1>1, <1>5, SqlStep
  <2>2. RowWrite(db, db', c.me, c.who, None, None)
    BY <2>1, DeletedRow DEF SInv
  <2>3. Calm(db', c, x, admitted)
    BY <1>1, <2>1, FollowTurn, Idle
  <2> QED
    BY <2>1, <2>2, <2>3, NullAssumption, RowStep
<1>6. ASSUME c.pc = "record", NEW l \in {"drop", "end"}, Sql(s, SetFollowRkey(db, c.me, c.who, c.key), l),
             FollowStatus(db, c.me, c.who) = None => l = "drop", FollowStatus(db, c.me, c.who) # None => l = "end"
      PROVE  SInv'
  <2>1. PICK x : /\ Upd(s, x) /\ Goes(c, x, l, c.key)
                 /\ db' = SetFollowRkey(db, c.me, c.who, c.key) /\ UNCHANGED <<repo, keys, locked, opened, admitted>>
    BY <1>1, <1>6, SqlStep
  <2>2. RowWrite(db, db', c.me, c.who, c.key, FollowStatus(db, c.me, c.who))
    BY <1>1, <2>1, KeyedRow DEF SInv
  <2>3. DbOK(db') /\ StatusesOK(db, db', admitted)
    BY <2>2 DEF RowWrite, StatusesOK
  <2>5. c.key # None /\ Holding(c)
    BY <1>1, <1>6 DEF IsCall, Holding
  <2>4. /\ CallOK(After(x), Closed, admitted) /\ ~Deleting(After(x))
        /\ Holding(After(x)) <=> c.key # None /\ l = "drop"
        /\ HeldRecord(After(x)) = <<"follow", c.me, c.who, c.key>> \/ l = "end"
        /\ \A a, b : ~Clears(c, a, b) /\ ~ClearsBlock(c, a, b)
    BY <1>1, <1>2, <1>6, <2>1, <2>5, FollowTurn
  <2>6. HeldRecord(c) = <<"follow", c.me, c.who, c.key>>
    BY <1>1 DEF HeldRecord
  <2>7. CASE l = "drop"
    <3>1. db' = db
      BY <1>6, <2>1, <2>7 DEF SetFollowRkey
    <3>2. x.key = c.key /\ After(x) = x
      BY <2>1, <2>7 DEF Goes, After
    <3>3. Calm(db, c, x, admitted)
      BY <2>4, <2>5, <2>6, <2>7, <3>2 DEF Calm, HoldsOn, ReadKey, ClearsOn
    <3> QED
      BY <2>1, <3>1, <3>3, PassStep
  <2>8. CASE l = "end"
    BY <2>1, <2>2, <2>3, <2>4, <2>5, <2>6, <2>8, StoreStep DEF RowWrite
  <2> QED
    BY <1>6, <2>7, <2>8
<1>7. ASSUME c.pc = "drop", CommitDeleteFollow(s, c.me, c.key, "end", "end")
      PROVE  SInv'
  <2>1. PICK x : /\ Upd(s, x) /\ Goes(c, x, "end", c.key)
                 /\ UNCHANGED <<db, keys, locked, opened, admitted>>
                 /\ repo' = WithoutRecord(repo, "follow", c.me, c.key) \/ UNCHANGED repo
    BY <1>1, <1>7, DeleteStep DEF CommitDeleteFollow
  <2>0. Goes(c, x, "end", c.key)
    BY <2>1
  <2>2. /\ CallOK(After(x), Closed, admitted) /\ ~Deleting(After(x)) /\ ~Holding(After(x))
        /\ \A a, b : ~Clears(c, a, b) /\ ~ClearsBlock(c, a, b)
    BY <1>1, <2>0, FollowTurn
  <2>3. CASE UNCHANGED repo
    BY <2>1, <2>2, <2>3, Idle, PassStep
  <2>4. CASE repo' = WithoutRecord(repo, "follow", c.me, c.key)
    <3>1. Holding(c) /\ HeldRecord(c) = <<"follow", c.me, c.who, c.key>>
      BY <1>1, <1>7 DEF IsCall, Holding, HeldRecord
    <3> QED
      BY <1>1, <2>1, <2>2, <2>4, <3>1, GoneStep
  <2> QED
    BY <2>1, <2>3, <2>4
<1> QED
  BY <1>3, <1>4, <1>5, <1>6, <1>7 DEF EstablishAtpFollow, At

LEMMA FollowPendingStep ==
    ASSUME SInv, NEW s \in Calls, FollowPending(s)
    PROVE  SInv'
<1> DEFINE c == calls[s]
<1>1. c.op = "Follow" /\ c.pc = "pend" /\ IsCall(c) /\ Obeys(c, Closed, admitted)
  BY CallFacts DEF FollowPending, At
<1>2. PICK l : /\ l \in {"post", "end"} /\ (c.who \in Local => l = "end")
               /\ Sql(s, UpsertPending(db, c.me, c.who), l)
  BY KindAssumption DEF FollowPending, Ap
<1>3. PICK x : /\ Upd(s, x) /\ Goes(c, x, l, c.key)
               /\ db' = UpsertPending(db, c.me, c.who) /\ UNCHANGED <<repo, keys, locked, opened, admitted>>
  BY <1>1, <1>2, SqlStep
<1>4. c.me \in Actors /\ c.who \in Actors
  BY <1>1 DEF IsCall, HasTarget, Many
<1>5. RowWrite(db, db', c.me, c.who, None, "pending")
  BY <1>3, <1>4, NewFollowRow DEF SInv, UpsertPending
<1>6. MayFollow(c.me, c.who, Closed, admitted) \/ l \in {"pend", "end"}
  BY <1>2 DEF MayFollow, Closed
<1>7. Calm(db', c, x, admitted)
  BY <1>1, <1>2, <1>3, <1>6, FollowTurn, Idle
<1> QED
  BY <1>3, <1>5, <1>7, RowStep

LEMMA FollowFediStep ==
    ASSUME SInv, NEW s \in Calls, FollowFedi(s)
    PROVE  SInv'
<1> DEFINE c == calls[s]
<1>1. c.op = "Follow" /\ IsCall(c) /\ Obeys(c, Closed, admitted) /\ c.me \in Actors /\ c.who \in Actors
  <2>1. c.op = "Follow"
    BY DEF FollowFedi, At
  <2>2. IsCall(c) /\ Obeys(c, Closed, admitted)
    BY <2>1, CallFacts
  <2> QED
    BY <2>1, <2>2 DEF IsCall, HasTarget, Many
<1>2. c.pc \in {"married", "insert", "post"} => MayFollow(c.me, c.who, Closed, admitted)
  BY <1>1 DEF Obeys
<1>3. ASSUME c.pc = "married", CommitFollow(s, c.me, c.who, "insert", "insert")
      PROVE  SInv'
  <2>1. PICK x : /\ Upd(s, x)
                 /\ UNCHANGED <<db, locked, opened, admitted>>
                 /\ \/ /\ Goes(c, x, "insert", keys + 1)
                       /\ repo' = repo \cup {<<"follow", c.me, c.who, keys + 1>>} /\ keys' = keys + 1
                    \/ Goes(c, x, "insert", None) /\ UNCHANGED <<repo, keys>>
    BY <1>1, <1>3, CommitStep DEF CommitFollow
  <2>2. CASE /\ Goes(c, x, "insert", keys + 1)
             /\ repo' = repo \cup {<<"follow", c.me, c.who, keys + 1>>} /\ keys' = keys + 1
    <3>1. /\ CallOK(After(x), Closed, admitted) /\ HoldsNew(After(x), <<"follow", c.me, c.who, keys + 1>>)
          /\ ~Deleting(After(x)) /\ \A a, b : ~Clears(c, a, b) /\ ~ClearsBlock(c, a, b)
      BY <1>1, <1>2, <1>3, <2>2, FollowTurn DEF HoldsNew
    <3>2. MayFollow(c.me, c.who, Closed, admitted)
      BY <1>2, <1>3
    <3> QED
      BY <1>1, <2>1, <2>2, <3>1, <3>2, DrawStep
  <2>3. CASE Goes(c, x, "insert", None) /\ UNCHANGED <<repo, keys>>
    <3>1. Calm(db, c, x, admitted)
      BY <1>1, <1>2, <1>3, <2>3, FollowTurn, Idle
    <3> QED
      BY <2>1, <2>3, <3>1, PassStep
  <2> QED
    BY <2>1, <2>2, <2>3
<1>4. ASSUME c.pc = "insert", Sql(s, InsertAcceptedWithRkey(db, c.me, c.who, c.key), "post")
      PROVE  SInv'
  <2>1. PICK x : /\ Upd(s, x) /\ Goes(c, x, "post", c.key)
                 /\ db' = InsertAcceptedWithRkey(db, c.me, c.who, c.key) /\ UNCHANGED <<repo, keys, locked, opened, admitted>>
    BY <1>1, <1>4, SqlStep
  <2>2. RowWrite(db, db', c.me, c.who, c.key, "accepted")
    BY <1>1, <2>1, NewFollowRow DEF SInv, InsertAcceptedWithRkey
  <2>3. MayFollow(c.me, c.who, Closed, admitted)
    BY <1>2, <1>4
  <2>4. /\ CallOK(After(x), Closed, admitted) /\ ~Deleting(After(x)) /\ ~Holding(After(x))
        /\ \A a, b : ~Clears(c, a, b) /\ ~ClearsBlock(c, a, b)
    BY <1>1, <1>2, <1>4, <2>1, FollowTurn
  <2>5. CASE c.key = None
    BY <2>1, <2>2, <2>3, <2>4, <2>5, Idle, RowStep
  <2>6. CASE c.key # None
    <3>1. Holding(c) /\ HeldRecord(c) = <<"follow", c.me, c.who, c.key>>
      BY <1>1, <1>4, <2>6 DEF Holding, HeldRecord
    <3>2. DbOK(db') /\ StatusesOK(db, db', admitted)
      BY <2>2, <2>3 DEF RowWrite, StatusesOK
    <3> QED
      BY <2>1, <2>2, <2>4, <3>1, <3>2, StoreStep DEF RowWrite
  <2> QED
    BY <2>5, <2>6
<1>5. ASSUME c.pc = "post", Post(s, remote \cup {<<c.me, c.who>>}, "end", "end")
      PROVE  SInv'
  <2>1. PICK x, l : /\ Upd(s, x) /\ l \in {"end", "end"} /\ Goes(c, x, l, c.key)
                    /\ UNCHANGED <<db, repo, keys, locked, opened, admitted>>
    BY <1>1, <1>5, PostStep
  <2>2. Calm(db, c, x, admitted)
    BY <1>1, <2>1, FollowTurn, Idle
  <2> QED
    BY <2>1, <2>2, PassStep
<1> QED
  BY <1>3, <1>4, <1>5 DEF FollowFedi, At

-----------------------------------------------------------------------------
(* handlers/follows.rs and blocks.rs *)

LEMMA UnfollowTurn ==
    ASSUME NEW c, IsCall(c), c.op \in {"Unfollow", "Block", "WithdrawAll", "Unblock"},
           NEW x, NEW l, NEW k, Goes(c, x, l, k), HasTarget(c)
    PROVE  /\ CallOK(After(x), Closed, admitted)
           /\ Holding(After(x)) <=> c.op = "Block" /\ k # None /\ l \in {"bpost", "binsert"}
           /\ HeldRecord(After(x)) = <<"block", c.me, c.who, k>> \/ l = "end" \/ c.op # "Block"
           /\ ~Deleting(After(x)) \/ (l = "delrec" /\ c.op # "Unblock") \/ (l = "unrecord" /\ c.op = "Unblock")
           /\ l \in {"undo", "delrow"} /\ c.op # "Unblock" => Clears(After(x), c.me, c.who)
           /\ l = "delblock" /\ c.op = "Unblock" => ClearsBlock(After(x), c.me, c.who)
<1>1. CallOK(After(x), Closed, admitted)
  BY DEF After, NoCall, CallOK, IsCall, Obeys, Goes, HasTarget, Many, MovesOne, Approving
<1>2. /\ Holding(After(x)) <=> c.op = "Block" /\ k # None /\ l \in {"bpost", "binsert"}
      /\ HeldRecord(After(x)) = <<"block", c.me, c.who, k>> \/ l = "end" \/ c.op # "Block"
      /\ ~Deleting(After(x)) \/ (l = "delrec" /\ c.op # "Unblock") \/ (l = "unrecord" /\ c.op = "Unblock")
  BY DEF After, NoCall, Goes, Holding, HeldRecord, Deleting, Approving, Unfollowing
<1>3. /\ l \in {"undo", "delrow"} /\ c.op # "Unblock" => Clears(After(x), c.me, c.who)
      /\ l = "delblock" /\ c.op = "Unblock" => ClearsBlock(After(x), c.me, c.who)
  BY DEF After, Goes, Clears, ClearsBlock, Unfollowing
<1> QED
  BY <1>1, <1>2, <1>3

LEMMA UnfollowTargetStep ==
    ASSUME SInv, NEW s \in Calls, UnfollowTarget(s)
    PROVE  SInv'
<1> DEFINE c == calls[s]
<1>1. c.op \in Unfollowing /\ IsCall(c) /\ Obeys(c, Closed, admitted) /\ HasTarget(c) /\ c.me \in Actors /\ c.who \in Actors
  <2>1. c.op \in Unfollowing
    BY DEF UnfollowTarget, At
  <2>2. IsCall(c) /\ Obeys(c, Closed, admitted)
    BY <2>1, CallFacts DEF Unfollowing
  <2>3. HasTarget(c)
    BY DEF UnfollowTarget, At, HasTarget, Many, Unfollowing
  <2> QED
    BY <2>1, <2>2, <2>3 DEF IsCall
<1>2. /\ c.op \in {"Unfollow", "Block", "WithdrawAll"}
      /\ \A a, b : ~ClearsBlock(c, a, b)
  BY <1>1 DEF Unfollowing, ClearsBlock
<1>3. c.pc \notin {"undo", "delrow"} => \A a, b : ~Clears(c, a, b)
  BY DEF Clears
<1>4. ASSUME c.pc \notin {"undo", "delrow"}, NEW key, key = FollowRkey(db, c.me, c.who),
             NEW l, l = IF key = None THEN "undo" ELSE "delrec",
             Upd(s, [c EXCEPT !.key = key, !.pc = l]), UNCHANGED <<db, repo, keys, locked, opened, admitted>>
      PROVE  SInv'
  <2>1. PICK x : Upd(s, x) /\ Goes(c, x, l, key)
    BY <1>1, <1>4, Turns
  <2>2. /\ CallOK(After(x), Closed, admitted) /\ ~Holding(After(x))
        /\ Deleting(After(x)) => key # None
    BY <1>1, <1>2, <1>4, <2>1, UnfollowTurn
  <2>3. After(x).key = key /\ After(x).me = c.me /\ After(x).who = c.who /\ After(x).op # "Unblock"
    BY <1>2, <1>4, <2>1 DEF After, Goes
  <2>4. Calm(db, c, x, admitted)
    BY <1>1, <1>2, <1>3, <1>4, <2>2, <2>3 DEF Calm, HoldsOn, ReadKey, ClearsOn
  <2> QED
    BY <1>4, <2>1, <2>4, PassStep
<1>5. ASSUME c.pc = "delrec", CommitDeleteFollow(s, c.me, c.key, "undo", AfterFailedDelete(c))
      PROVE  SInv'
  <2>1. PICK x : /\ Upd(s, x)
                 /\ UNCHANGED <<db, keys, locked, opened, admitted>>
                 /\ \/ Goes(c, x, "undo", c.key) /\ repo' = WithoutRecord(repo, "follow", c.me, c.key)
                    \/ Goes(c, x, AfterFailedDelete(c), c.key) /\ UNCHANGED repo
    BY <1>2, <1>5, DeleteStep DEF CommitDeleteFollow
  <2>2. CASE Goes(c, x, "undo", c.key) /\ repo' = WithoutRecord(repo, "follow", c.me, c.key)
    <3>1. Deleting(c) /\ DeletedRecord(c) = <<"follow", c.me, c.who, c.key>>
      BY <1>1, <1>2, <1>5 DEF Deleting, DeletedRecord
    <3>2. CallOK(After(x), Closed, admitted) /\ ~Holding(After(x)) /\ ~Deleting(After(x)) /\ Clears(After(x), c.me, c.who)
      BY <1>1, <1>2, <2>2, UnfollowTurn
    <3> QED
      BY <1>1, <1>2, <1>3, <1>5, <2>1, <2>2, <3>1, <3>2, GoneStep
  <2>3. CASE Goes(c, x, AfterFailedDelete(c), c.key) /\ UNCHANGED repo
    <3>1. AfterFailedDelete(c) \in {"undo", "end", "back"}
      BY <1>2 DEF AfterFailedDelete, AfterUnfollow
    <3>2. CallOK(After(x), Closed, admitted) /\ ~Holding(After(x)) /\ ~Deleting(After(x))
      BY <1>1, <1>2, <2>3, <3>1, UnfollowTurn
    <3> QED
      BY <1>2, <1>3, <1>5, <2>1, <2>3, <3>2, Idle, PassStep
  <2> QED
    BY <2>1, <2>2, <2>3
<1>6. ASSUME c.pc = "undo", NEW x, Upd(s, x), Goes(c, x, "delrow", c.key),
             UNCHANGED <<db, repo, keys, locked, opened, admitted>>
      PROVE  SInv'
  <2>1. CallOK(After(x), Closed, admitted) /\ ~Holding(After(x)) /\ ~Deleting(After(x)) /\ Clears(After(x), c.me, c.who)
    BY <1>1, <1>2, <1>6, UnfollowTurn
  <2>2. \A a, b : Clears(c, a, b) => a = c.me /\ b = c.who
    BY DEF Clears
  <2>3. Calm(db, c, x, admitted)
    BY <1>2, <2>1, <2>2 DEF Calm, HoldsOn, ReadKey, ClearsOn
  <2> QED
    BY <1>6, <2>3, PassStep
<1>7. ASSUME c.pc = "delrow", Sql(s, DeleteFollow(db, c.me, c.who), AfterUnfollow(c))
      PROVE  SInv'
  <2>1. PICK x : /\ Upd(s, x) /\ Goes(c, x, AfterUnfollow(c), c.key)
                 /\ db' = DeleteFollow(db, c.me, c.who) /\ UNCHANGED <<repo, keys, locked, opened, admitted>>
    BY <1>2, <1>7, SqlStep
  <2>2. RowWrite(db, db', c.me, c.who, None, None) /\ FollowRkey(db', c.me, c.who) = None
    BY <2>1, DeletedRow DEF SInv
  <2>3. AfterUnfollow(c) \in {"end", "back", "next"}
    BY <1>2 DEF AfterUnfollow
  <2>4. CallOK(After(x), Closed, admitted) /\ ~Holding(After(x)) /\ ~Deleting(After(x))
    BY <1>1, <1>2, <2>1, <2>3, UnfollowTurn
  <2>5. \A a, b : Clears(c, a, b) => a = c.me /\ b = c.who
    BY DEF Clears
  <2>6. Calm(db', c, x, admitted)
    BY <1>2, <2>2, <2>4, <2>5 DEF Calm, HoldsOn, ReadKey, ClearsOn
  <2> QED
    BY <2>1, <2>2, <2>6, NullAssumption, RowStep
<1>8. CASE c.pc = "undo"
  <2>1. \/ Post(s, remote \ {<<c.me, c.who>>}, "delrow", "delrow")
        \/ Sql(s, db, "delrow")
    BY <1>8, <1>2 DEF UnfollowTarget, At, AfterFailedUndo
  <2>2. PICK x : /\ Upd(s, x) /\ Goes(c, x, "delrow", c.key)
                 /\ UNCHANGED <<db, repo, keys, locked, opened, admitted>>
    <3>1. CASE Post(s, remote \ {<<c.me, c.who>>}, "delrow", "delrow")
      BY <1>2, <3>1, PostStep
    <3>2. CASE Sql(s, db, "delrow")
      BY <1>2, <3>2, SqlStep
    <3> QED
      BY <2>1, <3>1, <3>2
  <2> QED
    BY <1>6, <1>8, <2>2
<1>9. CASE c.pc \notin {"delrec", "undo", "delrow"}
  <2>1. PICK key, l : /\ key = FollowRkey(db, c.me, c.who) /\ l = IF key = None THEN "undo" ELSE "delrec"
                      /\ Upd(s, [c EXCEPT !.key = key, !.pc = l]) /\ UNCHANGED <<db, repo, keys, locked, opened, admitted>>
    BY <1>9 DEF UnfollowTarget, At, Fixed, quiet
  <2> QED
    BY <1>4, <1>9, <2>1
<1> QED
  BY <1>2, <1>5, <1>7, <1>8, <1>9 DEF UnfollowTarget, At

LEMMA BlockActorStep ==
    ASSUME SInv, NEW s \in Calls, BlockActor(s)
    PROVE  SInv'
<1> DEFINE c == calls[s]
<1>1. c.op = "Block" /\ IsCall(c) /\ HasTarget(c) /\ c.me \in Actors /\ c.who \in Actors
  <2>1. c.op = "Block"
    BY DEF BlockActor, At
  <2>2. IsCall(c)
    BY <2>1, CallFacts
  <2> QED
    BY <2>1, <2>2 DEF IsCall, HasTarget, Many
<1>2. c.pc \notin {"undo", "delrow"} => \A a, b : ~Clears(c, a, b) /\ ~ClearsBlock(c, a, b)
  BY <1>1 DEF Clears, ClearsBlock
<1>3. ASSUME c.pc = "back", Sql(s, DropBackFollow(db, c), "bcommit")
      PROVE  SInv'
  <2>1. PICK x : /\ Upd(s, x) /\ Goes(c, x, "bcommit", c.key)
                 /\ db' = DropBackFollow(db, c) /\ UNCHANGED <<repo, keys, locked, opened, admitted>>
    BY <1>1, <1>3, SqlStep
  <2>2. RowWrite(db, db', c.who, c.me, None, None)
    BY <2>1, DeletedRow DEF SInv, DropBackFollow
  <2>3. Calm(db', c, x, admitted)
    BY <1>1, <1>2, <1>3, <2>1, UnfollowTurn, Idle
  <2> QED
    BY <2>1, <2>2, <2>3, NullAssumption, RowStep
<1>4. ASSUME c.pc = "bcommit", NEW x, Upd(s, x), UNCHANGED <<db, locked, opened, admitted>>,
             \/ /\ Goes(c, x, "bpost", keys + 1)
                /\ repo' = repo \cup {<<"block", c.me, c.who, keys + 1>>} /\ keys' = keys + 1
             \/ Goes(c, x, "bpost", None) /\ UNCHANGED <<repo, keys>>
      PROVE  SInv'
  <2>2. CASE /\ Goes(c, x, "bpost", keys + 1)
             /\ repo' = repo \cup {<<"block", c.me, c.who, keys + 1>>} /\ keys' = keys + 1
    <3>1. /\ CallOK(After(x), Closed, admitted) /\ HoldsNew(After(x), <<"block", c.me, c.who, keys + 1>>)
          /\ ~Deleting(After(x))
      BY <1>1, <2>2, UnfollowTurn DEF HoldsNew
    <3> QED
      BY <1>1, <1>2, <1>4, <2>2, <3>1, DrawStep
  <2>3. CASE Goes(c, x, "bpost", None) /\ UNCHANGED <<repo, keys>>
    <3>1. Calm(db, c, x, admitted)
      BY <1>1, <1>2, <1>4, <2>3, UnfollowTurn, Idle
    <3> QED
      BY <1>4, <2>3, <3>1, PassStep
  <2> QED
    BY <1>4, <2>2, <2>3
<1>5. ASSUME c.pc = "bpost", NEW x, Upd(s, x), Goes(c, x, "binsert", c.key),
             UNCHANGED <<db, repo, keys, locked, opened, admitted>>
      PROVE  SInv'
  <2>1. /\ CallOK(After(x), Closed, admitted) /\ ~Deleting(After(x))
        /\ Holding(After(x)) => c.key # None
        /\ HeldRecord(After(x)) = <<"block", c.me, c.who, c.key>>
    BY <1>1, <1>5, UnfollowTurn
  <2>2. After(x).key = c.key
    BY <1>5 DEF After, Goes
  <2>3. HeldRecord(c) = <<"block", c.me, c.who, c.key>> /\ (c.key # None => Holding(c))
    BY <1>1, <1>5 DEF HeldRecord, Holding
  <2>4. Calm(db, c, x, admitted)
    BY <1>2, <1>5, <2>1, <2>2, <2>3 DEF Calm, HoldsOn, ReadKey, ClearsOn
  <2> QED
    BY <1>5, <2>4, PassStep
<1>6. ASSUME c.pc = "binsert", Sql(s, InsertBlock(db, c.me, c.who, c.key), "end")
      PROVE  SInv'
  <2>1. PICK x : /\ Upd(s, x) /\ Goes(c, x, "end", c.key)
                 /\ db' = InsertBlock(db, c.me, c.who, c.key) /\ UNCHANGED <<repo, keys, locked, opened, admitted>>
    BY <1>1, <1>6, SqlStep
  <2>2. /\ DbOK(db')
        /\ \A a, b \in Actors :
              /\ FollowRkey(db', a, b) = FollowRkey(db, a, b)
              /\ FollowStatus(db', a, b) = FollowStatus(db, a, b)
              /\ BlockRkey(db', a, b) = IF a = c.me /\ b = c.who THEN c.key ELSE BlockRkey(db, a, b)
    BY <1>1, <2>1, BlockedRow DEF SInv
  <2>3. CallOK(After(x), Closed, admitted) /\ ~Holding(After(x)) /\ ~Deleting(After(x))
    BY <1>1, <2>1, UnfollowTurn
  <2>4. StatusesOK(db, db', admitted)
    BY <2>2 DEF StatusesOK
  <2>5. CASE c.key = None
    <3>1. \A a, b \in Actors : KeyKept(db, db', a, b)
      BY <2>2, <2>5 DEF KeyKept
    <3>2. Calm(db', c, x, admitted)
      BY <1>2, <1>6, <2>3, Idle
    <3> QED
      BY <2>1, <2>2, <2>4, <3>1, <3>2, QuietStep DEF Calm
  <2>6. CASE c.key # None
    <3>1. Holding(c) /\ HeldRecord(c) = <<"block", c.me, c.who, c.key>>
      BY <1>1, <1>6, <2>6 DEF Holding, HeldRecord
    <3> QED
      BY <2>1, <2>2, <2>3, <2>4, <3>1, StoreStep
  <2> QED
    BY <2>5, <2>6
<1>7. CASE At(s, {"Block"}, "bcommit")
  <2>1. CASE CommitBlock(s, c.me, c.who, "bpost", "bpost")
    <3>1. PICK x : /\ Upd(s, x)
                   /\ UNCHANGED <<db, locked, opened, admitted>>
                   /\ \/ /\ Goes(c, x, "bpost", keys + 1)
                         /\ repo' = repo \cup {<<"block", c.me, c.who, keys + 1>>} /\ keys' = keys + 1
                      \/ Goes(c, x, "bpost", None) /\ UNCHANGED <<repo, keys>>
      BY <1>1, <2>1, CommitStep DEF CommitBlock
    <3> QED
      BY <1>4, <1>7, <3>1 DEF At
  <2>2. CASE Upd(s, [c EXCEPT !.pc = "bpost", !.key = None]) /\ Fixed /\ UNCHANGED <<db, repo, remote, keys, faults>>
    <3>1. PICK x : Upd(s, x) /\ Goes(c, x, "bpost", None)
      BY <1>1, <2>2, Turns
    <3> QED
      BY <1>4, <1>7, <2>2, <3>1 DEF At, Fixed, quiet
  <2> QED
    BY <1>7, <2>1, <2>2 DEF BlockActor, At
<1>8. CASE At(s, {"Block"}, "bpost")
  <2>1. \/ Post(s, remote \ {<<c.me, c.who>>, <<c.who, c.me>>}, "binsert", "binsert")
        \/ Sql(s, db, "binsert")
    BY <1>8 DEF BlockActor, At
  <2>2. PICK x : /\ Upd(s, x) /\ Goes(c, x, "binsert", c.key)
                 /\ UNCHANGED <<db, repo, keys, locked, opened, admitted>>
    <3>1. CASE Post(s, remote \ {<<c.me, c.who>>, <<c.who, c.me>>}, "binsert", "binsert")
      BY <1>1, <3>1, PostStep
    <3>2. CASE Sql(s, db, "binsert")
      BY <1>1, <3>2, SqlStep
    <3> QED
      BY <2>1, <3>1, <3>2
  <2> QED
    BY <1>5, <1>8, <2>2 DEF At
<1> QED
  BY <1>3, <1>6, <1>7, <1>8 DEF BlockActor, At

LEMMA UnblockActorStep ==
    ASSUME SInv, NEW s \in Calls, UnblockActor(s)
    PROVE  SInv'
<1> DEFINE c == calls[s]
<1>1. c.op = "Unblock" /\ IsCall(c) /\ HasTarget(c) /\ c.me \in Actors /\ c.who \in Actors
  <2>1. c.op = "Unblock"
    BY DEF UnblockActor, At
  <2>2. IsCall(c)
    BY <2>1, CallFacts
  <2> QED
    BY <2>1, <2>2 DEF IsCall, HasTarget, Many
<1>2. /\ \A a, b : ~Clears(c, a, b)
      /\ c.pc # "delblock" => \A a, b : ~ClearsBlock(c, a, b)
  BY <1>1 DEF Clears, ClearsBlock, Unfollowing
<1>3. ASSUME c.pc = "begin", NEW key, key = BlockRkey(db, c.me, c.who),
             NEW l, l = IF key = None THEN "delblock" ELSE "unrecord",
             Upd(s, [c EXCEPT !.key = key, !.pc = l]), UNCHANGED <<db, repo, keys, locked, opened, admitted>>
      PROVE  SInv'
  <2>1. PICK x : Upd(s, x) /\ Goes(c, x, l, key)
    BY <1>1, <1>3, Turns
  <2>2. /\ CallOK(After(x), Closed, admitted) /\ ~Holding(After(x))
        /\ Deleting(After(x)) => key # None
    BY <1>1, <1>3, <2>1, UnfollowTurn
  <2>3. After(x).key = key /\ After(x).me = c.me /\ After(x).who = c.who /\ After(x).op = "Unblock"
    BY <1>1, <1>3, <2>1 DEF After, Goes
  <2>4. Calm(db, c, x, admitted)
    BY <1>1, <1>2, <1>3, <2>2, <2>3 DEF Calm, HoldsOn, ReadKey, ClearsOn
  <2> QED
    BY <1>3, <2>1, <2>4, PassStep
<1>4. ASSUME c.pc = "unrecord", CommitDeleteBlock(s, c.me, c.key, "delblock", "delblock")
      PROVE  SInv'
  <2>1. PICK x : /\ Upd(s, x)
                 /\ UNCHANGED <<db, keys, locked, opened, admitted>>
                 /\ Goes(c, x, "delblock", c.key)
                 /\ repo' = WithoutRecord(repo, "block", c.me, c.key) \/ UNCHANGED repo
    BY <1>1, <1>4, DeleteStep DEF CommitDeleteBlock
  <2>2. CallOK(After(x), Closed, admitted) /\ ~Holding(After(x)) /\ ~Deleting(After(x)) /\ ClearsBlock(After(x), c.me, c.who)
    BY <1>1, <2>1, UnfollowTurn
  <2>3. CASE repo' = WithoutRecord(repo, "block", c.me, c.key)
    <3>1. Deleting(c) /\ DeletedRecord(c) = <<"block", c.me, c.who, c.key>>
      BY <1>1, <1>4 DEF Deleting, DeletedRecord
    <3> QED
      BY <1>1, <1>2, <1>4, <2>1, <2>2, <2>3, <3>1, GoneStep
  <2>4. CASE UNCHANGED repo
    BY <1>2, <1>4, <2>1, <2>2, <2>4, Idle, PassStep
  <2> QED
    BY <2>1, <2>3, <2>4
<1>5. ASSUME c.pc = "delblock", Sql(s, DeleteBlock(db, c.me, c.who), "end")
      PROVE  SInv'
  <2>1. PICK x : /\ Upd(s, x) /\ Goes(c, x, "end", c.key)
                 /\ db' = DeleteBlock(db, c.me, c.who) /\ UNCHANGED <<repo, keys, locked, opened, admitted>>
    BY <1>1, <1>5, SqlStep
  <2>2. DbOK(db') /\ StatusesOK(db, db', admitted) /\ (\A a, b \in Actors : KeyKept(db, db', a, b))
        /\ BlockRkey(db', c.me, c.who) = None
    <3>1. PICK ps : ps = {<<c.me, c.who>>}
      OBVIOUS
    <3>2. db' = [db EXCEPT !.blocks = Without(@, ps)]
      BY <2>1, <3>1 DEF DeleteBlock
    <3>3. /\ DbOK(db')
          /\ \A a, b \in Actors :
                /\ FollowRkey(db', a, b) = FollowRkey(db, a, b)
                /\ FollowStatus(db', a, b) = FollowStatus(db, a, b)
                /\ BlockRkey(db', a, b) = BlockRkey(db, a, b) \/ BlockRkey(db', a, b) = None
                /\ <<a, b>> \in ps => BlockRkey(db', a, b) = None
      BY <3>2, UnblockedRows DEF SInv
    <3> QED
      BY <1>1, <3>1, <3>3 DEF StatusesOK, KeyKept
  <2>3. CallOK(After(x), Closed, admitted) /\ ~Holding(After(x)) /\ ~Deleting(After(x))
    BY <1>1, <2>1, UnfollowTurn
  <2>4. \A a, b : ClearsBlock(c, a, b) => a = c.me /\ b = c.who
    BY DEF ClearsBlock
  <2>5. Calm(db', c, x, admitted)
    BY <1>2, <2>2, <2>3, <2>4 DEF Calm, HoldsOn, ReadKey, ClearsOn
  <2> QED
    BY <2>1, <2>2, <2>5, QuietStep DEF Calm
<1>6. CASE At(s, {"Unblock"}, "begin")
  <2>1. PICK key, l : /\ key = BlockRkey(db, c.me, c.who) /\ l = IF key = None THEN "delblock" ELSE "unrecord"
                      /\ Upd(s, [c EXCEPT !.key = key, !.pc = l]) /\ UNCHANGED <<db, repo, keys, locked, opened, admitted>>
    BY <1>6 DEF UnblockActor, At, Fixed, quiet
  <2> QED
    BY <1>3, <1>6, <2>1 DEF At
<1> QED
  BY <1>4, <1>5, <1>6 DEF UnblockActor, At

-----------------------------------------------------------------------------
(* follow_approval.rs and the jobs *)

LEMMA ApproveTurn ==
    ASSUME NEW c, IsCall(c), c.op \in {"Approve", "Reject", "BulkAccept"}, NEW ok,
           NEW x, NEW l, NEW k, Goes(c, x, l, k), HasTarget(c),
           c.op # "Reject" /\ l \in {"approve", "aset", "apost"} => <<c.who, c.me>> \in ok
    PROVE  /\ CallOK(After(x), Closed, ok)
           /\ Holding(After(x)) <=> c.op # "Reject" /\ k # None /\ l = "aset"
           /\ HeldRecord(After(x)) = <<"follow", c.who, c.me, k>> \/ l = "end"
           /\ ~Deleting(After(x))
           /\ \A a, b : ~Clears(c, a, b) /\ ~ClearsBlock(c, a, b)
<1>1. CallOK(After(x), Closed, ok)
  BY DEF After, NoCall, CallOK, IsCall, Obeys, Goes, HasTarget, Many, MovesOne, Approving
<1>2. /\ Holding(After(x)) <=> c.op # "Reject" /\ k # None /\ l = "aset"
      /\ HeldRecord(After(x)) = <<"follow", c.who, c.me, k>> \/ l = "end"
      /\ ~Deleting(After(x))
  BY DEF After, NoCall, Goes, Holding, HeldRecord, Deleting, Approving, Unfollowing
<1>3. \A a, b : ~Clears(c, a, b) /\ ~ClearsBlock(c, a, b)
  BY DEF Clears, ClearsBlock, Unfollowing
<1> QED
  BY <1>1, <1>2, <1>3

LEMMA LoadPendingPairStep ==
    ASSUME SInv, NEW s \in Calls, LoadPendingPair(s)
    PROVE  SInv'
<1> DEFINE c == calls[s]
<1>1. c.op \in {"Approve", "Reject"} /\ c.pc = "begin" /\ IsCall(c) /\ HasTarget(c)
  BY CallFacts DEF LoadPendingPair, At, HasTarget, Many
<1>2. CASE Sql(s, db, "end")
  <2>1. PICK x : /\ Upd(s, x) /\ Goes(c, x, "end", c.key)
                 /\ db' = db /\ UNCHANGED <<repo, keys, locked, opened, admitted>>
    BY <1>1, <1>2, SqlStep
  <2>2. /\ CallOK(After(x), Closed, admitted) /\ ~Holding(After(x)) /\ ~Deleting(After(x))
        /\ \A a, b : ~Clears(c, a, b) /\ ~ClearsBlock(c, a, b)
    <3>1. PICK l : l = "end"
      OBVIOUS
    <3>2. Goes(c, x, l, c.key) /\ l \notin {"approve", "aset", "apost"}
      BY <2>1, <3>1
    <3> QED
      BY <1>1, <3>2, ApproveTurn
  <2>3. Calm(db, c, x, admitted)
    BY <2>2, Idle
  <2> QED
    BY <2>1, <2>3, PassStep
<1>3. CASE /\ To(s, IF c.op = "Reject" THEN "rpost" ELSE "approve")
           /\ admitted' = IF c.op = "Approve" THEN admitted \cup {<<c.who, c.me>>} ELSE admitted
           /\ UNCHANGED <<db, repo, remote, keys, faults, locked, locks, started, opened, parted>>
  <2>1. PICK l : l = IF c.op = "Reject" THEN "rpost" ELSE "approve"
    OBVIOUS
  <2>2. PICK x : Upd(s, x) /\ Goes(c, x, l, c.key)
    BY <1>1, <1>3, <2>1, Turns DEF To
  <2>3. l \in {"approve", "aset", "apost"} => c.op = "Approve" /\ <<c.who, c.me>> \in admitted'
    BY <1>1, <1>3, <2>1
  <2>6. l # "aset"
    BY <2>1
  <2>7. /\ CallOK(After(x), Closed, admitted') /\ ~Holding(After(x)) /\ ~Deleting(After(x))
        /\ \A a, b : ~Clears(c, a, b) /\ ~ClearsBlock(c, a, b)
    BY <1>1, <2>2, <2>3, <2>6, ApproveTurn
  <2>4. Calm(db, c, x, admitted')
    BY <2>7, Idle
  <2>5. admitted \subseteq admitted'
    BY <1>3
  <2> QED
    BY <1>3, <2>2, <2>4, <2>5, PassStep
<1> QED
  BY <1>2, <1>3 DEF LoadPendingPair

LEMMA ApprovePendingFollowStep ==
    ASSUME SInv, NEW s \in Calls, ApprovePendingFollow(s)
    PROVE  SInv'
<1> DEFINE c == calls[s]
<1>1. /\ c.op \in {"Approve", "BulkAccept"} /\ c.pc \in {"approve", "aset", "apost"}
      /\ IsCall(c) /\ HasTarget(c) /\ <<c.who, c.me>> \in admitted /\ c.me \in Actors /\ c.who \in Actors
  <2>1. c.op \in {"Approve", "BulkAccept"} /\ c.pc \in {"approve", "aset", "apost"}
    BY DEF ApprovePendingFollow, At, Approving
  <2>2. IsCall(c) /\ Obeys(c, Closed, admitted)
    BY <2>1, CallFacts
  <2> QED
    BY <2>1, <2>2 DEF IsCall, HasTarget, Obeys, Approving
<1>2. MayFollow(c.who, c.me, Closed, admitted)
  BY <1>1 DEF MayFollow
<1>3. AfterApprove(c) \in {"next", "end"}
  BY DEF AfterApprove
<1>4. \A a, b : ~Clears(c, a, b) /\ ~ClearsBlock(c, a, b)
  BY <1>1 DEF Clears, ClearsBlock, Unfollowing
<1>5. ASSUME c.pc = "approve", NEW x, Upd(s, x), UNCHANGED <<db, locked, opened, admitted>>,
             \/ /\ Goes(c, x, "aset", keys + 1)
                /\ repo' = repo \cup {<<"follow", c.who, c.me, keys + 1>>} /\ keys' = keys + 1
             \/ \E l \in {"aset", "next", "end"} : Goes(c, x, l, None) /\ UNCHANGED <<repo, keys>>
      PROVE  SInv'
  <2>1. CASE /\ Goes(c, x, "aset", keys + 1)
             /\ repo' = repo \cup {<<"follow", c.who, c.me, keys + 1>>} /\ keys' = keys + 1
    <3>1. /\ CallOK(After(x), Closed, admitted) /\ HoldsNew(After(x), <<"follow", c.who, c.me, keys + 1>>)
          /\ ~Deleting(After(x))
      BY <1>1, <2>1, ApproveTurn DEF HoldsNew
    <3> QED
      BY <1>1, <1>2, <1>4, <1>5, <2>1, <3>1, DrawStep
  <2>2. CASE \E l \in {"aset", "next", "end"} : Goes(c, x, l, None) /\ UNCHANGED <<repo, keys>>
    <3>1. CallOK(After(x), Closed, admitted) /\ ~Holding(After(x)) /\ ~Deleting(After(x))
      BY <1>1, <2>2, ApproveTurn
    <3>2. Calm(db, c, x, admitted)
      BY <1>4, <3>1, Idle
    <3> QED
      BY <1>5, <2>2, <3>2, PassStep
  <2> QED
    BY <1>5, <2>1, <2>2
<1>6. ASSUME c.pc = "aset", NEW l \in {"apost", "next", "end"}, Sql(s, AcceptAndSetRkey(db, c.who, c.me, c.key), l)
      PROVE  SInv'
  <2>1. PICK x : /\ Upd(s, x) /\ Goes(c, x, l, c.key)
                 /\ db' = AcceptAndSetRkey(db, c.who, c.me, c.key) /\ UNCHANGED <<repo, keys, locked, opened, admitted>>
    BY <1>1, <1>6, SqlStep
  <2>2. RowWrite(db, db', c.who, c.me, IF c.key = None THEN FollowRkey(db, c.who, c.me) ELSE c.key, "accepted")
    BY <1>1, <2>1, AcceptedRow DEF SInv
  <2>3. CallOK(After(x), Closed, admitted) /\ ~Deleting(After(x)) /\ ~Holding(After(x))
    <3>1. l # "aset"
      BY <1>6
    <3> QED
      BY <1>1, <2>1, <3>1, ApproveTurn
  <2>4. CASE c.key = None
    <3>1. Calm(db', c, x, admitted)
      BY <1>4, <2>3, Idle
    <3>2. RowWrite(db, db', c.who, c.me, FollowRkey(db, c.who, c.me), "accepted")
      BY <2>2, <2>4
    <3> QED
      BY <1>2, <2>1, <3>1, <3>2, RowStep
  <2>5. CASE c.key # None
    <3>1. Holding(c) /\ HeldRecord(c) = <<"follow", c.who, c.me, c.key>>
      BY <1>1, <1>6, <2>5 DEF Holding, HeldRecord, Approving
    <3>2. RowWrite(db, db', c.who, c.me, c.key, "accepted")
      BY <2>2, <2>5
    <3>3. DbOK(db') /\ StatusesOK(db, db', admitted)
      BY <1>2, <3>2 DEF RowWrite, StatusesOK
    <3> QED
      BY <2>1, <2>3, <3>1, <3>2, <3>3, StoreStep DEF RowWrite
  <2> QED
    BY <2>4, <2>5
<1>7. ASSUME c.pc = "apost", Post(s, remote \cup {<<c.who, c.me>>}, AfterApprove(c), AfterApprove(c))
      PROVE  SInv'
  <2>1. PICK x, l : /\ Upd(s, x) /\ l \in {AfterApprove(c), AfterApprove(c)} /\ Goes(c, x, l, c.key)
                    /\ UNCHANGED <<db, repo, keys, locked, opened, admitted>>
    BY <1>1, <1>7, PostStep
  <2>2. CallOK(After(x), Closed, admitted) /\ ~Deleting(After(x)) /\ ~Holding(After(x))
    <3>1. l # "aset"
      BY <1>3, <2>1
    <3> QED
      BY <1>1, <2>1, <3>1, ApproveTurn
  <2>3. Calm(db, c, x, admitted)
    BY <1>4, <2>2, Idle
  <2> QED
    BY <2>1, <2>3, PassStep
<1>8. CASE At(s, Approving, "approve")
  <2>1. CASE CommitFollow(s, c.who, c.me, "aset", AfterApprove(c))
    <3>1. PICK x : /\ Upd(s, x)
                   /\ UNCHANGED <<db, locked, opened, admitted>>
                   /\ \/ /\ Goes(c, x, "aset", keys + 1)
                         /\ repo' = repo \cup {<<"follow", c.who, c.me, keys + 1>>} /\ keys' = keys + 1
                      \/ Goes(c, x, AfterApprove(c), None) /\ UNCHANGED <<repo, keys>>
      BY <1>1, <2>1, CommitStep DEF CommitFollow
    <3> QED
      BY <1>3, <1>5, <1>8, <3>1 DEF At
  <2>2. CASE Upd(s, [c EXCEPT !.pc = "aset", !.key = None]) /\ Fixed /\ UNCHANGED <<db, repo, remote, keys, faults>>
    <3>1. PICK x : Upd(s, x) /\ Goes(c, x, "aset", None)
      BY <1>1, <2>2, Turns
    <3> QED
      BY <1>5, <1>8, <2>2, <3>1 DEF At, Fixed, quiet
  <2> QED
    BY <1>8, <2>1, <2>2 DEF ApprovePendingFollow, At
<1>9. CASE At(s, Approving, "aset")
  <2>1. PICK l : l \in {"apost", "next", "end"} /\ Sql(s, AcceptAndSetRkey(db, c.who, c.me, c.key), l)
    BY <1>3, <1>9 DEF ApprovePendingFollow, At
  <2> QED
    BY <1>6, <1>9, <2>1 DEF At
<1> QED
  BY <1>1, <1>7, <1>8, <1>9 DEF ApprovePendingFollow, At

LEMMA RejectPendingFollowStep ==
    ASSUME SInv, NEW s \in Calls, RejectPendingFollow(s)
    PROVE  SInv'
<1> DEFINE c == calls[s]
<1>1. c.op = "Reject" /\ IsCall(c) /\ HasTarget(c) /\ c.me \in Actors /\ c.who \in Actors
  <2>1. c.op = "Reject"
    BY DEF RejectPendingFollow, At
  <2>2. IsCall(c)
    BY <2>1, CallFacts
  <2> QED
    BY <2>1, <2>2 DEF IsCall, HasTarget, Many
<1>2. ASSUME NEW x, NEW l, Goes(c, x, l, c.key), NEW e
      PROVE  Calm(e, c, x, admitted)
  <2>1. /\ CallOK(After(x), Closed, admitted) /\ ~Deleting(After(x)) /\ ~Holding(After(x))
        /\ \A a, b : ~Clears(c, a, b) /\ ~ClearsBlock(c, a, b)
    BY <1>1, <1>2, ApproveTurn
  <2> QED
    BY <2>1, Idle
<1>3. CASE At(s, {"Reject"}, "rpost")
  <2>1. \/ Post(s, remote \ {<<c.who, c.me>>}, "rdelete", "rdelete")
        \/ Sql(s, db, "rdelete")
    BY <1>3 DEF RejectPendingFollow, At
  <2>2. PICK x : /\ Upd(s, x) /\ Goes(c, x, "rdelete", c.key)
                 /\ UNCHANGED <<db, repo, keys, locked, opened, admitted>>
    <3>1. CASE Post(s, remote \ {<<c.who, c.me>>}, "rdelete", "rdelete")
      BY <1>1, <3>1, PostStep
    <3>2. CASE Sql(s, db, "rdelete")
      BY <1>1, <3>2, SqlStep
    <3> QED
      BY <2>1, <3>1, <3>2
  <2> QED
    BY <1>2, <2>2, PassStep
<1>4. CASE At(s, {"Reject"}, "rdelete")
  <2>1. Sql(s, DeleteFollow(db, c.who, c.me), "end")
    BY <1>4 DEF RejectPendingFollow, At
  <2>2. PICK x : /\ Upd(s, x) /\ Goes(c, x, "end", c.key)
                 /\ db' = DeleteFollow(db, c.who, c.me) /\ UNCHANGED <<repo, keys, locked, opened, admitted>>
    BY <1>1, <2>1, SqlStep
  <2>3. RowWrite(db, db', c.who, c.me, None, None)
    BY <2>2, DeletedRow DEF SInv
  <2> QED
    BY <1>2, <2>2, <2>3, NullAssumption, RowStep
<1> QED
  BY <1>3, <1>4 DEF RejectPendingFollow

(* The steps of the jobs between two targets.                               *)
LEMMA JobTurn ==
    ASSUME NEW c, IsCall(c), c.op \in ManyJobs, NEW ok, NEW x, NEW l, NEW k,
           DOMAIN x = DOMAIN c, x.op = c.op, x.me = c.me, x.pc = l, x.todo \subseteq Actors,
           \/ l \in {"end", "list", "next"} /\ x.who \in Actors \cup {None}
           \/ l = "unfollow" /\ c.op = "WithdrawAll" /\ x.who \in Actors
           \/ l = "approve" /\ c.op = "BulkAccept" /\ x.who \in Actors /\ <<x.who, c.me>> \in ok,
           c.pc \in {"begin", "list", "next"}, NEW e
    PROVE  Calm(e, c, x, ok)
<1>1. CallOK(After(x), Closed, ok)
  BY DEF After, NoCall, CallOK, IsCall, Obeys, HasTarget, Many, MovesOne, Approving, ManyJobs
<1>2. ~Holding(After(x)) /\ ~Deleting(After(x))
  BY DEF After, NoCall, Holding, Deleting, Approving, Unfollowing
<1>3. \A a, b : ~Clears(c, a, b) /\ ~ClearsBlock(c, a, b)
  BY DEF Clears, ClearsBlock, Unfollowing
<1> QED
  BY <1>1, <1>2, <1>3, Idle

Looks(c, x, l, who, todo) ==
    DOMAIN x = DOMAIN c /\ x.op = c.op /\ x.me = c.me /\ x.pc = l /\ x.who = who /\ x.todo = todo

LEMMA JobTurns ==
    ASSUME NEW c, IsCall(c), NEW l, NEW t, NEW T
    PROVE  /\ Looks(c, [c EXCEPT !.pc = l, !.failed = TRUE], l, c.who, c.todo)
           /\ Looks(c, [c EXCEPT !.pc = l, !.lock = TRUE], l, c.who, c.todo)
           /\ Looks(c, [c EXCEPT !.pc = l, !.todo = T], l, c.who, T)
           /\ Looks(c, [c EXCEPT !.pc = l, !.lock = FALSE, !.who = None], l, None, c.todo)
           /\ Looks(c, [c EXCEPT !.pc = l, !.who = t, !.key = None, !.todo = @ \ {t}], l, t, c.todo \ {t})
BY DEF IsCall, Looks

LEMMA TryAcquireStep ==
    ASSUME SInv, NEW s \in Calls, TryAcquire(s)
    PROVE  SInv'
<1> DEFINE c == calls[s]
<1>1. c.op \in ManyJobs /\ c.pc = "begin" /\ IsCall(c)
  BY CallFacts DEF TryAcquire, At, ManyJobs
<1>2. PICK x, l : Upd(s, x) /\ l \in {"end", "list"} /\ Looks(c, x, l, c.who, c.todo)
  BY <1>1, JobTurns DEF TryAcquire
<1>3. UNCHANGED <<db, repo, keys, locked, opened, admitted>>
  BY DEF TryAcquire
<1>4. Calm(db, c, x, admitted)
  BY <1>1, <1>2, JobTurn DEF IsCall, Looks
<1> QED
  BY <1>2, <1>3, <1>4, PassStep

LEMMA ListTargetsStep ==
    ASSUME SInv, NEW s \in Calls, ListTargets(s)
    PROVE  SInv'
<1> DEFINE c == calls[s]
           x == [c EXCEPT !.pc = "next", !.todo = JobTargets(c)]
<1>1. c.op \in ManyJobs /\ c.pc = "list" /\ IsCall(c)
  BY CallFacts DEF ListTargets, At, ManyJobs
<1>2. Upd(s, x) /\ UNCHANGED <<db, repo, keys, locked, opened, admitted>>
  BY DEF ListTargets, Fixed, quiet
<1>3. /\ DOMAIN x = DOMAIN c /\ x.op = c.op /\ x.me = c.me /\ x.who = c.who /\ x.pc = "next"
      /\ x.todo \subseteq Actors
  <2>1. JobTargets(c) \subseteq Actors
    BY DEF JobTargets, PendingFollowers, AcceptedTargets
  <2> QED
    BY <1>1, <2>1 DEF IsCall
<1> HIDE DEF x
<1>4. Calm(db, c, x, admitted)
  BY <1>1, <1>3, JobTurn DEF IsCall
<1> QED
  BY <1>2, <1>4, PassStep

LEMMA NextTargetStep ==
    ASSUME SInv, NEW s \in Calls, NextTarget(s)
    PROVE  SInv'
<1> DEFINE c == calls[s]
<1>1. c.op \in ManyJobs /\ c.pc = "next" /\ IsCall(c)
  BY CallFacts DEF NextTarget, At, ManyJobs
<1>2. UNCHANGED <<db, repo, keys, locked, opened>>
  BY DEF NextTarget
<1>3. CASE c.todo = {}
  <2>1. Upd(s, [c EXCEPT !.pc = "end", !.lock = FALSE, !.who = None]) /\ UNCHANGED admitted
    BY <1>3 DEF NextTarget
  <2>2. PICK x : Upd(s, x) /\ Looks(c, x, "end", None, c.todo)
    BY <1>1, <2>1, JobTurns
  <2>3. Calm(db, c, x, admitted)
    BY <1>1, <2>2, JobTurn DEF IsCall, Looks
  <2> QED
    BY <1>2, <2>1, <2>2, <2>3, PassStep
<1>4. CASE c.todo # {}
  <2>1. PICK t \in c.todo :
            /\ Upd(s, [c EXCEPT !.pc = IF c.op = "BulkAccept" THEN "approve" ELSE "unfollow",
                                !.who = t, !.key = None, !.todo = @ \ {t}])
            /\ admitted' = IF c.op = "BulkAccept" THEN admitted \cup {<<t, c.me>>} ELSE admitted
    BY <1>4 DEF NextTarget
  <2>2. PICK l : l = IF c.op = "BulkAccept" THEN "approve" ELSE "unfollow"
    OBVIOUS
  <2>3. PICK x : Upd(s, x) /\ Looks(c, x, l, t, c.todo \ {t})
    BY <1>1, <2>1, <2>2, JobTurns
  <2>4. admitted \subseteq admitted' /\ t \in Actors /\ x.todo \subseteq Actors
    BY <1>1, <2>1, <2>3 DEF IsCall, Looks
  <2>5. Calm(db, c, x, admitted')
    BY <1>1, <2>1, <2>2, <2>3, <2>4, JobTurn DEF ManyJobs, Looks
  <2> QED
    BY <1>2, <2>3, <2>4, <2>5, PassStep
<1> QED
  BY <1>3, <1>4

-----------------------------------------------------------------------------
(* Inbound activities *)

LEMMA InboundTurn ==
    ASSUME NEW c, IsCall(c), c.op \in {"InFollow", "InUndo", "InUndoBlock", "InBlock"},
           NEW x, NEW l, NEW k, Goes(c, x, l, k), l # "icheck",
           c.op = "InFollow" /\ c.who \in Closed => l \in {"begin", "ipend", "end"}, NEW e
    PROVE  Calm(e, c, x, admitted)
<1>1. CallOK(After(x), Closed, admitted)
  BY DEF After, NoCall, CallOK, IsCall, Obeys, Goes, HasTarget, Many, MovesOne, Approving
<1>2. ~Holding(After(x)) /\ ~Deleting(After(x))
  BY DEF After, NoCall, Goes, Holding, Deleting, Approving, Unfollowing
<1>3. \A a, b : ~Clears(c, a, b) /\ ~ClearsBlock(c, a, b)
  BY DEF Clears, ClearsBlock, Unfollowing
<1> QED
  BY <1>1, <1>2, <1>3, Idle

LEMMA HandleFollowStep ==
    ASSUME SInv, NEW s \in Calls, HandleFollow(s)
    PROVE  SInv'
<1> DEFINE c == calls[s]
<1>1. c.op = "InFollow" /\ IsCall(c) /\ Obeys(c, Closed, admitted) /\ c.me \in Actors /\ c.who \in Actors
  <2>1. c.op = "InFollow"
    BY DEF HandleFollow, At
  <2>2. IsCall(c) /\ Obeys(c, Closed, admitted)
    BY <2>1, CallFacts
  <2> QED
    BY <2>1, <2>2 DEF IsCall, HasTarget, Many
<1>2. c.pc \in {"iaccept", "iapost"} => c.who \notin Closed
  BY <1>1 DEF Obeys
<1>3. CASE At(s, {"InFollow"}, "begin")
  <2> DEFINE x == [c EXCEPT !.pc = "icheck", !.branch = InFollowBranch(c)]
  <2>1. Upd(s, x) /\ UNCHANGED <<db, repo, keys, locked, opened, admitted>>
    BY <1>3 DEF HandleFollow, At, Fixed, quiet
  <2>2. /\ DOMAIN x = DOMAIN c /\ x.op = "InFollow" /\ x.me = c.me /\ x.who = c.who /\ x.todo = c.todo
        /\ x.pc = "icheck" /\ x.key = c.key /\ x.branch = InFollowBranch(c)
    BY <1>1 DEF IsCall
  <2>3. InFollowBranch(c) \in {"ipend", "iaccept"} /\ (c.who \in Closed => InFollowBranch(c) = "ipend")
    BY DEF SInv, InFollowBranch
  <2> HIDE DEF x
  <2>4. CallOK(After(x), Closed, admitted)
    BY <1>1, <2>2, <2>3 DEF After, CallOK, IsCall, Obeys, HasTarget, Many, MovesOne, Approving
  <2>5. /\ ~Holding(After(x)) /\ ~Deleting(After(x))
        /\ \A a, b : ~Clears(c, a, b) /\ ~ClearsBlock(c, a, b)
    BY <1>1, <2>2 DEF After, Holding, Deleting, Clears, ClearsBlock, Approving, Unfollowing
  <2> QED
    BY <2>1, <2>4, <2>5, Idle, PassStep
<1>4. CASE At(s, {"InFollow"}, "icheck")
  <2>1. PICK l : l \in {"end", c.branch} /\ Sql(s, db, l)
    BY <1>4 DEF HandleFollow, At
  <2>2. PICK x : /\ Upd(s, x) /\ Goes(c, x, l, c.key)
                 /\ db' = db /\ UNCHANGED <<repo, keys, locked, opened, admitted>>
    BY <1>1, <2>1, SqlStep
  <2>3. c.branch \in {"ipend", "iaccept"} /\ (c.who \in Closed => c.branch = "ipend")
    BY <1>1, <1>4 DEF At, Obeys, IsCall
  <2>4. Calm(db, c, x, admitted)
    BY <1>1, <2>1, <2>2, <2>3, InboundTurn
  <2> QED
    BY <2>2, <2>4, PassStep
<1>5. CASE At(s, {"InFollow"}, "ipend")
  <2>1. Sql(s, UpsertPendingWithActivity(db, c.me, c.who), "end")
    BY <1>5 DEF HandleFollow, At
  <2>2. PICK x : /\ Upd(s, x) /\ Goes(c, x, "end", c.key)
                 /\ db' = UpsertPendingWithActivity(db, c.me, c.who) /\ UNCHANGED <<repo, keys, locked, opened, admitted>>
    BY <1>1, <2>1, SqlStep
  <2>3. PICK rkey : rkey \in {None, FollowRkey(db, c.me, c.who)} /\ RowWrite(db, db', c.me, c.who, rkey, "pending")
    BY <1>1, <2>2, RequestedRow DEF SInv
  <2>4. Calm(db', c, x, admitted)
    BY <1>1, <2>2, InboundTurn
  <2>5. /\ DbOK(db') /\ StatusesOK(db, db', admitted')
        /\ \A a, b \in Actors : KeyKept(db, db', a, b)
    BY <2>2, <2>3 DEF RowWrite, StatusesOK, KeyKept
  <2>6. Calm(db', c, x, admitted')
    BY <2>2, <2>4
  <2> QED
    BY <2>2, <2>5, <2>6, QuietStep DEF Calm
<1>6. CASE At(s, {"InFollow"}, "iaccept")
  <2>1. Sql(s, InsertAccepted(db, c.me, c.who), "iapost")
    BY <1>6 DEF HandleFollow, At
  <2>2. PICK x : /\ Upd(s, x) /\ Goes(c, x, "iapost", c.key)
                 /\ db' = InsertAccepted(db, c.me, c.who) /\ UNCHANGED <<repo, keys, locked, opened, admitted>>
    BY <1>1, <2>1, SqlStep
  <2>3. RowWrite(db, db', c.me, c.who, None, "accepted")
    BY <1>1, <2>2, NewFollowRow DEF SInv, InsertAccepted
  <2>4. c.who \notin Closed
    BY <1>2, <1>6 DEF At
  <2>5. Calm(db', c, x, admitted)
    BY <1>1, <2>2, <2>4, InboundTurn
  <2> QED
    BY <2>2, <2>3, <2>4, <2>5, RowStep DEF MayFollow
<1>7. CASE At(s, {"InFollow"}, "iapost")
  <2>1. Post(s, remote \cup {<<c.me, c.who>>}, "end", "begin")
    BY <1>7 DEF HandleFollow, At
  <2>2. PICK x, l : /\ Upd(s, x) /\ l \in {"end", "begin"} /\ Goes(c, x, l, c.key)
                    /\ UNCHANGED <<db, repo, keys, locked, opened, admitted>>
    BY <1>1, <2>1, PostStep
  <2>3. Calm(db, c, x, admitted)
    BY <1>1, <2>2, InboundTurn
  <2> QED
    BY <2>2, <2>3, PassStep
<1> QED
  BY <1>3, <1>4, <1>5, <1>6, <1>7 DEF HandleFollow

(* One statement that deletes a follow of the pair, and the other server    *)
(* knows of it.                                                            *)
LEMMA InboundDelete ==
    ASSUME SInv, NEW s \in Calls, calls[s].op \in {"InUndo", "InBlock"}, NEW f, NEW t,
           db' = DeleteFollow(db, f, t), To(s, "end"), Fixed, UNCHANGED <<repo, keys>>
    PROVE  SInv'
<1>1. IsCall(calls[s])
  BY CallFacts
<1>2. PICK x : Upd(s, x) /\ Goes(calls[s], x, "end", calls[s].key)
  BY <1>1, Turns DEF To
<1>3. RowWrite(db, db', f, t, None, None)
  BY DeletedRow DEF SInv
<1>4. Calm(db', calls[s], x, admitted)
  BY <1>1, <1>2, InboundTurn
<1> QED
  BY <1>2, <1>3, <1>4, NullAssumption, RowStep DEF Fixed, quiet

LEMMA HandleUndoStep ==
    ASSUME SInv, NEW s \in Calls, HandleUndo(s)
    PROVE  SInv'
<1> DEFINE c == calls[s]
<1>1. CASE At(s, {"InUndo"}, "begin")
  BY <1>1, InboundDelete DEF HandleUndo, At
<1>2. CASE At(s, {"InUndoBlock"}, "begin")
  <2>1. IsCall(c) /\ c.op = "InUndoBlock" /\ Sql(s, DeleteBlock(db, c.me, c.who), "end")
    BY <1>2, CallFacts DEF HandleUndo, At
  <2>2. PICK x : /\ Upd(s, x) /\ Goes(c, x, "end", c.key)
                 /\ db' = DeleteBlock(db, c.me, c.who) /\ UNCHANGED <<repo, keys, locked, opened, admitted>>
    BY <2>1, SqlStep
  <2>3. PICK ps : ps = {<<c.me, c.who>>}
    OBVIOUS
  <2>4. db' = [db EXCEPT !.blocks = Without(@, ps)]
    BY <2>2, <2>3 DEF DeleteBlock
  <2>5. /\ DbOK(db')
        /\ \A a, b \in Actors :
              /\ FollowRkey(db', a, b) = FollowRkey(db, a, b)
              /\ FollowStatus(db', a, b) = FollowStatus(db, a, b)
              /\ BlockRkey(db', a, b) = BlockRkey(db, a, b) \/ BlockRkey(db', a, b) = None
              /\ <<a, b>> \in ps => BlockRkey(db', a, b) = None
    BY <2>4, UnblockedRows DEF SInv
  <2>6. StatusesOK(db, db', admitted) /\ \A a, b \in Actors : KeyKept(db, db', a, b)
    BY <2>5 DEF StatusesOK, KeyKept
  <2>7. Calm(db', c, x, admitted)
    BY <2>1, <2>2, InboundTurn
  <2> QED
    BY <2>2, <2>5, <2>6, <2>7, QuietStep DEF Calm
<1> QED
  BY <1>1, <1>2 DEF HandleUndo

LEMMA HandleBlockStep ==
    ASSUME SInv, NEW s \in Calls, HandleBlock(s)
    PROVE  SInv'
<1> DEFINE c == calls[s]
<1>1. CASE At(s, {"InBlock"}, "begin")
  <2>1. c.op = "InBlock" /\ Sql(s, InsertBlock(db, c.me, c.who, None), "unfollowed")
    BY <1>1 DEF HandleBlock, At
  <2>2. IsCall(c) /\ c.me \in Actors /\ c.who \in Actors
    BY <2>1, CallFacts DEF IsCall, HasTarget, Many
  <2>3. PICK x : /\ Upd(s, x) /\ Goes(c, x, "unfollowed", c.key)
                 /\ db' = InsertBlock(db, c.me, c.who, None) /\ UNCHANGED <<repo, keys, locked, opened, admitted>>
    BY <2>1, SqlStep
  <2>4. /\ DbOK(db')
        /\ \A a, b \in Actors :
              /\ FollowRkey(db', a, b) = FollowRkey(db, a, b)
              /\ FollowStatus(db', a, b) = FollowStatus(db, a, b)
              /\ BlockRkey(db', a, b) = IF a = c.me /\ b = c.who THEN None ELSE BlockRkey(db, a, b)
    BY <2>2, <2>3, BlockedRow DEF SInv
  <2>5. StatusesOK(db, db', admitted) /\ \A a, b \in Actors : KeyKept(db, db', a, b)
    BY <2>4 DEF StatusesOK, KeyKept
  <2>6. Calm(db', c, x, admitted)
    BY <2>1, <2>2, <2>3, InboundTurn
  <2> QED
    BY <2>3, <2>4, <2>5, <2>6, QuietStep DEF Calm
<1>2. CASE At(s, {"InBlock"}, "unfollowed")
  BY <1>2, InboundDelete DEF HandleBlock, At
<1> QED
  BY <1>1, <1>2 DEF HandleBlock

LEMMA AcceptTurn ==
    ASSUME NEW c, IsCall(c), Obeys(c, Closed, admitted), c.op = "InAccept",
           NEW x, NEW l, NEW k, Goes(c, x, l, k), l \in {"accepted", "end"}
    PROVE  /\ CallOK(After(x), Closed, admitted)
           /\ Holding(After(x)) <=> k # None /\ l = "accepted"
           /\ HeldRecord(After(x)) = <<"follow", c.who, c.me, k>> \/ l = "end"
           /\ ~Deleting(After(x))
           /\ \A a, b : ~Clears(c, a, b) /\ ~ClearsBlock(c, a, b)
<1>1. CallOK(After(x), Closed, admitted)
  BY DEF After, NoCall, CallOK, IsCall, Obeys, Goes, HasTarget, Many, MovesOne, Approving
<1>2. /\ Holding(After(x)) <=> k # None /\ l = "accepted"
      /\ HeldRecord(After(x)) = <<"follow", c.who, c.me, k>> \/ l = "end"
      /\ ~Deleting(After(x))
  BY DEF After, NoCall, Goes, Holding, HeldRecord, Deleting, Approving, Unfollowing
<1>3. \A a, b : ~Clears(c, a, b) /\ ~ClearsBlock(c, a, b)
  BY DEF Clears, ClearsBlock, Unfollowing
<1> QED
  BY <1>1, <1>2, <1>3

LEMMA HandleAcceptStep ==
    ASSUME SInv, NEW s \in Calls, HandleAccept(s)
    PROVE  SInv'
<1> DEFINE c == calls[s]
<1>1. /\ c.op = "InAccept" /\ IsCall(c) /\ Obeys(c, Closed, admitted) /\ c.me \in Actors /\ c.who \in Actors
      /\ MayFollow(c.who, c.me, Closed, admitted)
  <2>1. c.op = "InAccept"
    BY DEF HandleAccept, At
  <2>2. IsCall(c) /\ Obeys(c, Closed, admitted)
    BY <2>1, CallFacts
  <2> QED
    BY <2>1, <2>2 DEF IsCall, HasTarget, Many, Obeys, MayFollow, Closed
<1>2. CASE c.pc = "begin" /\ CommitFollow(s, c.who, c.me, "accepted", "accepted")
  <2>1. PICK x : /\ Upd(s, x)
                 /\ UNCHANGED <<db, locked, opened, admitted>>
                 /\ \/ /\ Goes(c, x, "accepted", keys + 1)
                       /\ repo' = repo \cup {<<"follow", c.who, c.me, keys + 1>>} /\ keys' = keys + 1
                    \/ Goes(c, x, "accepted", None) /\ UNCHANGED <<repo, keys>>
    BY <1>1, <1>2, CommitStep DEF CommitFollow
  <2>2. CASE /\ Goes(c, x, "accepted", keys + 1)
             /\ repo' = repo \cup {<<"follow", c.who, c.me, keys + 1>>} /\ keys' = keys + 1
    <3>1. /\ CallOK(After(x), Closed, admitted) /\ HoldsNew(After(x), <<"follow", c.who, c.me, keys + 1>>)
          /\ ~Deleting(After(x)) /\ \A a, b : ~Clears(c, a, b) /\ ~ClearsBlock(c, a, b)
      BY <1>1, <2>2, AcceptTurn DEF HoldsNew
    <3> QED
      BY <1>1, <2>1, <2>2, <3>1, DrawStep
  <2>3. CASE Goes(c, x, "accepted", None) /\ UNCHANGED <<repo, keys>>
    <3>1. /\ CallOK(After(x), Closed, admitted) /\ ~Deleting(After(x)) /\ ~Holding(After(x))
          /\ \A a, b : ~Clears(c, a, b) /\ ~ClearsBlock(c, a, b)
      BY <1>1, <2>3, AcceptTurn
    <3> QED
      BY <2>1, <2>3, <3>1, Idle, PassStep
  <2> QED
    BY <2>1, <2>2, <2>3
<1>3. CASE c.pc = "begin" /\ Sql(s, db, "accepted")
  <2>1. PICK x : /\ Upd(s, x) /\ Goes(c, x, "accepted", c.key)
                 /\ db' = db /\ UNCHANGED <<repo, keys, locked, opened, admitted>>
    BY <1>1, <1>3, SqlStep
  <2>2. c.key = None
    BY <1>1, <1>3 DEF IsCall
  <2>3. /\ CallOK(After(x), Closed, admitted) /\ ~Deleting(After(x)) /\ ~Holding(After(x))
        /\ \A a, b : ~Clears(c, a, b) /\ ~ClearsBlock(c, a, b)
    BY <1>1, <2>1, <2>2, AcceptTurn
  <2> QED
    BY <2>1, <2>3, Idle, PassStep
<1>4. CASE c.pc = "accepted" /\ Sql(s, AcceptAndSetRkey(db, c.who, c.me, c.key), "end")
  <2>1. PICK x : /\ Upd(s, x) /\ Goes(c, x, "end", c.key)
                 /\ db' = AcceptAndSetRkey(db, c.who, c.me, c.key) /\ UNCHANGED <<repo, keys, locked, opened, admitted>>
    BY <1>1, <1>4, SqlStep
  <2>2. RowWrite(db, db', c.who, c.me, IF c.key = None THEN FollowRkey(db, c.who, c.me) ELSE c.key, "accepted")
    BY <1>1, <2>1, AcceptedRow DEF SInv
  <2>3. /\ CallOK(After(x), Closed, admitted) /\ ~Deleting(After(x)) /\ ~Holding(After(x))
        /\ \A a, b : ~Clears(c, a, b) /\ ~ClearsBlock(c, a, b)
    BY <1>1, <2>1, AcceptTurn
  <2>4. CASE c.key = None
    <3>1. Calm(db', c, x, admitted)
      BY <2>3, Idle
    <3>2. RowWrite(db, db', c.who, c.me, FollowRkey(db, c.who, c.me), "accepted")
      BY <2>2, <2>4
    <3> QED
      BY <1>1, <2>1, <3>1, <3>2, RowStep
  <2>5. CASE c.key # None
    <3>1. Holding(c) /\ HeldRecord(c) = <<"follow", c.who, c.me, c.key>>
      BY <1>1, <1>4, <2>5 DEF Holding, HeldRecord
    <3>2. RowWrite(db, db', c.who, c.me, c.key, "accepted")
      BY <2>2, <2>5
    <3>3. DbOK(db') /\ StatusesOK(db, db', admitted)
      BY <1>1, <3>2 DEF RowWrite, StatusesOK
    <3> QED
      BY <2>1, <2>3, <3>1, <3>2, <3>3, StoreStep DEF RowWrite
  <2> QED
    BY <2>4, <2>5
<1> QED
  BY <1>2, <1>3, <1>4 DEF HandleAccept, At

LEMMA MoveTurn ==
    ASSUME NEW c, IsCall(c), c.op = "InMove", NEW x, DOMAIN x = DOMAIN c,
           x.op = "InMove", x.me = c.me, x.who = c.who, x.todo \subseteq Actors,
           x.pc \in {"oldonly", "mpost", "mdelete", "mpend"} => x.key \in Actors,
           NEW e
    PROVE  Calm(e, c, x, admitted)
<1>1. CallOK(After(x), Closed, admitted)
  BY DEF After, NoCall, CallOK, IsCall, Obeys, HasTarget, Many, MovesOne, Approving
<1>2. ~Holding(After(x)) /\ ~Deleting(After(x))
  BY DEF After, NoCall, Holding, Deleting, Approving, Unfollowing
<1>3. \A a, b : ~Clears(c, a, b) /\ ~ClearsBlock(c, a, b)
  BY DEF Clears, ClearsBlock, Unfollowing
<1> QED
  BY <1>1, <1>2, <1>3, Idle

LEMMA MoveTurns ==
    ASSUME NEW c, IsCall(c), NEW l, NEW g, NEW T
    PROVE  /\ Looks(c, [c EXCEPT !.pc = l, !.todo = T, !.base = T], l, c.who, T)
           /\ Looks(c, [c EXCEPT !.pc = l], l, c.who, c.todo)
           /\ Looks(c, [c EXCEPT !.key = g, !.todo = @ \ {g}, !.pc = l], l, c.who, c.todo \ {g})
           /\ [c EXCEPT !.key = g, !.todo = @ \ {g}, !.pc = l].key = g
BY DEF IsCall, Looks

LEMMA HandleMoveStep ==
    ASSUME SInv, NEW s \in Calls, HandleMove(s)
    PROVE  SInv'
<1> DEFINE c == calls[s]
           f == c.key
<1>1. c.op = "InMove" /\ IsCall(c) /\ c.me \in Actors /\ c.who \in Actors /\ c.todo \subseteq Actors
  <2>1. c.op = "InMove"
    BY DEF HandleMove, At
  <2>2. IsCall(c)
    BY <2>1, CallFacts
  <2> QED
    BY <2>1, <2>2 DEF IsCall
<1>2. c.pc \in {"oldonly", "mpost", "mdelete", "mpend"} => f \in Actors
  BY <1>1 DEF IsCall, MovesOne
<1>3. ASSUME NEW x, NEW l, Goes(c, x, l, f), f \in Actors, NEW e
      PROVE  Calm(e, c, x, admitted)
  BY <1>1, <1>3, MoveTurn DEF Goes
<1>4. CASE At(s, {"InMove"}, "begin")
  <2>1. PICK fs : /\ fs = {p[1] : p \in LocalFollowersWithStatus(db, c.me)}
                  /\ Upd(s, [c EXCEPT !.pc = "follower", !.todo = fs, !.base = fs])
                  /\ UNCHANGED <<db, repo, keys, locked, opened, admitted>>
    BY <1>4 DEF HandleMove, At, Fixed, quiet
  <2>2. fs \subseteq Actors
    BY <2>1 DEF LocalFollowersWithStatus
  <2>3. PICK x : Upd(s, x) /\ Looks(c, x, "follower", c.who, fs)
    BY <1>1, <2>1, MoveTurns
  <2>4. Calm(db, c, x, admitted)
    BY <1>1, <2>2, <2>3, MoveTurn DEF Looks
  <2> QED
    BY <2>1, <2>3, <2>4, PassStep
<1>5. CASE At(s, {"InMove"}, "follower")
  <2>1. UNCHANGED <<db, repo, keys, locked, opened, admitted>>
    BY <1>5 DEF HandleMove, At, Fixed, quiet
  <2>2. CASE Upd(s, [c EXCEPT !.pc = "end"])
    <3>1. PICK x : Upd(s, x) /\ Looks(c, x, "end", c.who, c.todo)
      BY <1>1, <2>2, MoveTurns
    <3>2. Calm(db, c, x, admitted)
      BY <1>1, <3>1, MoveTurn DEF Looks
    <3> QED
      BY <2>1, <3>1, <3>2, PassStep
  <2>3. ASSUME NEW g \in c.todo,
               Upd(s, [c EXCEPT !.key = g, !.todo = @ \ {g},
                                !.pc = IF FollowStatus(db, g, c.who) # None THEN "oldonly" ELSE "mpost"])
        PROVE  SInv'
    <3>1. PICK l : l = IF FollowStatus(db, g, c.who) # None THEN "oldonly" ELSE "mpost"
      OBVIOUS
    <3>2. PICK x : x = [c EXCEPT !.key = g, !.todo = @ \ {g}, !.pc = l]
      OBVIOUS
    <3>5. Looks(c, x, l, c.who, c.todo \ {g}) /\ x.key = g
      BY <1>1, <3>2 DEF Looks, IsCall
    <3>6. Upd(s, x)
      BY <2>3, <3>1, <3>2
    <3>3. g \in Actors
      BY <1>1
    <3>4. Calm(db, c, x, admitted)
      BY <1>1, <3>5, <3>3, MoveTurn DEF Looks
    <3> QED
      BY <2>1, <3>6, <3>4, PassStep
  <2> QED
    BY <1>5, <2>2, <2>3 DEF HandleMove, At
<1>6. ASSUME f \in Actors, NEW l, Sql(s, DeleteFollow(db, f, c.me), l)
      PROVE  SInv'
  <2>1. PICK x : /\ Upd(s, x) /\ Goes(c, x, l, f)
                 /\ db' = DeleteFollow(db, f, c.me) /\ UNCHANGED <<repo, keys, locked, opened, admitted>>
    BY <1>1, <1>6, SqlStep
  <2>2. RowWrite(db, db', f, c.me, None, None)
    BY <2>1, DeletedRow DEF SInv
  <2>3. Calm(db', c, x, admitted)
    BY <1>3, <1>6, <2>1
  <2> QED
    BY <2>1, <2>2, <2>3, NullAssumption, RowStep
<1>7. CASE At(s, {"InMove"}, "oldonly")
  BY <1>2, <1>6, <1>7 DEF HandleMove, At
<1>8. CASE At(s, {"InMove"}, "mdelete")
  BY <1>2, <1>6, <1>8 DEF HandleMove, At
<1>9. CASE At(s, {"InMove"}, "mpost")
  <2>1. Post(s, remote \cup {<<f, c.who>>}, "mdelete", AfterFailedMove(c)) /\ f \in Actors
    BY <1>2, <1>9 DEF HandleMove, At
  <2>2. PICK x, l : /\ Upd(s, x) /\ l \in {"mdelete", AfterFailedMove(c)} /\ Goes(c, x, l, f)
                    /\ UNCHANGED <<db, repo, keys, locked, opened, admitted>>
    BY <1>1, <2>1, PostStep
  <2>3. Calm(db, c, x, admitted)
    BY <1>3, <2>1, <2>2
  <2> QED
    BY <2>2, <2>3, PassStep
<1>10. CASE At(s, {"InMove"}, "mpend")
  <2>1. Sql(s, UpsertPending(db, f, c.who), "follower") /\ f \in Actors
    BY <1>2, <1>10 DEF HandleMove, At
  <2>2. PICK x : /\ Upd(s, x) /\ Goes(c, x, "follower", f)
                 /\ db' = UpsertPending(db, f, c.who) /\ UNCHANGED <<repo, keys, locked, opened, admitted>>
    BY <1>1, <2>1, SqlStep
  <2>3. RowWrite(db, db', f, c.who, None, "pending")
    BY <1>1, <2>1, <2>2, NewFollowRow DEF SInv, UpsertPending
  <2>4. Calm(db', c, x, admitted)
    BY <1>3, <2>1, <2>2
  <2> QED
    BY <2>2, <2>3, <2>4, RowStep
<1> QED
  BY <1>4, <1>5, <1>7, <1>8, <1>9, <1>10 DEF HandleMove

-----------------------------------------------------------------------------
(* A call starts, a profile is updated, an account is withdrawn *)

(* Records, rows and calls under way stay as they are.                      *)
LEMMA StartStep ==
    ASSUME SInv, NEW s \in Calls, NEW c, Start(s, c), IsCall(c), Obeys(c, Closed, admitted),
           c.pc = "begin"
    PROVE  SInv'
<1> DEFINE met == {x \in Calls : Meets(calls[x], c)}
           new == [c EXCEPT !.alone = met = {}]
<1>1. /\ calls[s].op = "none"
      /\ calls' = [x \in Calls |-> IF x = s THEN new
                                   ELSE IF x \in met THEN [calls[x] EXCEPT !.alone = FALSE] ELSE calls[x]]
      /\ UNCHANGED <<db, repo, keys, locked, opened, admitted>>
  BY DEF Start
<1>2. Alike(c, new)
  BY DEF Alike, IsCall
<1>3. ASSUME NEW x \in Calls \ {s}
      PROVE  Alike(calls[x], calls'[x])
  <2>1. CASE x \in met
    <3>1. calls[x].op # "none"
      BY <2>1 DEF Meets
    <3>2. IsCall(calls[x])
      BY <3>1, CallFacts
    <3>3. calls'[x] = [calls[x] EXCEPT !.alone = FALSE]
      BY <1>1, <1>3, <2>1
    <3> QED
      BY <3>2, <3>3 DEF Alike, IsCall
  <2>2. CASE x \notin met
    BY <1>1, <1>3, <2>2 DEF Alike
  <2> QED
    BY <2>1, <2>2
<1>4. calls'[s] = new
  BY <1>1
<1> HIDE DEF new
<1>5. /\ ~Holding(c) /\ ~Deleting(c)
      /\ \A a, b : ~Clears(calls[s], a, b) /\ ~ClearsBlock(calls[s], a, b)
  BY <1>1 DEF Holding, Deleting, Clears, ClearsBlock, Unfollowing, Approving
<1>6. ~Holding(new) /\ ~Deleting(new) /\ CallOK(new, Closed, admitted)
  BY <1>2, <1>5, AlikeCalls DEF CallOK
<1>7. KeysOK(db, repo, keys, calls')
  <2>1. HoldsOn(calls[s], calls'[s]) /\ ReadKey(db, calls'[s]) /\ ClearsOn(db, calls[s], calls'[s])
    BY <1>4, <1>5, <1>6 DEF HoldsOn, ReadKey, ClearsOn
  <2>2. Others(calls, calls', {s})
    BY <1>3 DEF Others
  <2>3. \A a, b \in Actors : KeyKept(db, db, a, b)
    BY DEF KeyKept
  <2> QED
    BY <2>1, <2>2, <2>3, KeysStay DEF SInv, KeyInv
<1>8. CallsOK(calls', Closed, admitted)
  <2>1. calls' = [x \in Calls |-> calls'[x]]
    BY <1>1
  <2>2. \A x \in Calls \ {s} : CallOK(calls'[x], Closed, admitted)
    BY <1>3, AlikeCalls DEF SInv, CallsOK
  <2> QED
    BY <1>4, <1>6, <2>1, <2>2 DEF CallsOK
<1>9. Closed' = Closed
  BY <1>1 DEF Closed
<1> QED
  BY <1>1, <1>7, <1>8, <1>9 DEF SInv, KeyInv

LEMMA NewCallFacts ==
    ASSUME NEW op, op # "none", NEW me \in Actors, NEW who \in Actors \cup {None},
           op \in {"BulkAccept", "WithdrawAll"} \/ who \in Actors,
           op = "InAccept" => me \notin Local
    PROVE  LET c == NewCall(op, me, who) IN IsCall(c) /\ Obeys(c, Closed, admitted) /\ c.pc = "begin"
BY DEF NewCall, IsCall, Obeys, HasTarget, Many, MovesOne, Approving

LEMMA RequestsStep ==
    ASSUME SInv, NEW s \in Calls, Requests(s)
    PROVE  SInv'
<1>1. ASSUME NEW op, op # "none", NEW me \in Actors, NEW who \in Actors \cup {None},
             op \in {"BulkAccept", "WithdrawAll"} \/ who \in Actors,
             op = "InAccept" => me \notin Local, Start(s, NewCall(op, me, who))
      PROVE  SInv'
  <2>1. PICK c : c = NewCall(op, me, who)
    OBVIOUS
  <2>2. IsCall(c) /\ Obeys(c, Closed, admitted) /\ c.pc = "begin"
    BY <1>1, <2>1, NewCallFacts
  <2> QED
    BY <1>1, <2>1, <2>2, StartStep
<1>2. ASSUME NEW p \in Pairs,
             \/ CreateFollow(s, p[1], p[2]) \/ DeleteFollowCall(s, p[1], p[2])
             \/ CreateBlock(s, p[1], p[2]) \/ DeleteBlockCall(s, p[1], p[2])
             \/ AcceptFollowRequest(s, p[2], p[1]) \/ RejectFollowRequest(s, p[2], p[1])
             \/ ReceiveFollow(s, p[1], p[2]) \/ ReceiveUndo(s, p[1], p[2]) \/ ReceiveBlock(s, p[1], p[2])
      PROVE  SInv'
  <2>1. p[1] \in Actors /\ p[2] \in Actors
    BY PairsAssumption
  <2>2. \E op \in {"Follow", "Unfollow", "Block", "Unblock", "Approve", "Reject", "InFollow", "InUndo", "InUndoBlock", "InBlock"} :
            Start(s, NewCall(op, p[1], p[2])) \/ Start(s, NewCall(op, p[2], p[1]))
    BY <1>2 DEF CreateFollow, DeleteFollowCall, CreateBlock, DeleteBlockCall, AcceptFollowRequest,
                RejectFollowRequest, ReceiveFollow, ReceiveUndo, ReceiveBlock
  <2> QED
    BY <1>1, <2>1, <2>2
<1>3. ASSUME NEW p \in Pairs, Ap(p[2]), ReceiveAccept(s, p[2], p[1])
      PROVE  SInv'
  <2>1. p[1] \in Actors /\ p[2] \in Actors
    BY PairsAssumption
  <2>2. p[2] \notin Local
    BY <1>3, KindAssumption DEF Ap
  <2> QED
    BY <1>1, <1>3, <2>1, <2>2 DEF ReceiveAccept
<1>4. ASSUME NEW v \in Local, BulkAcceptJob(s, v) \/ WithdrawUnfollowAllJob(s, v)
      PROVE  SInv'
  BY <1>1, <1>4 DEF BulkAcceptJob, WithdrawUnfollowAllJob
<1>5. ASSUME NEW p \in MovesTo, ReceiveMove(s, p[1], p[2])
      PROVE  SInv'
  <2>1. p[1] \in Actors /\ p[2] \in Actors
    BY PairsAssumption
  <2> QED
    BY <1>1, <1>5, <2>1 DEF ReceiveMove
<1> QED
  BY <1>2, <1>3, <1>4, <1>5 DEF Requests

LEMMA SetLockedStep ==
    ASSUME SInv, NEW a \in Actors, SetLocked(a)
    PROVE  SInv'
<1>1. /\ locked' = IF a \in locked THEN locked \ {a} ELSE locked \cup {a}
      /\ opened' = opened \cup {a}
      /\ UNCHANGED <<db, repo, calls, keys, admitted>>
  BY DEF SetLocked
<1>2. Closed' \subseteq Closed /\ Closed' \subseteq locked'
  BY <1>1 DEF SInv, Closed
<1>3. CallsOK(calls, Closed', admitted) /\ ApprovalOK(db, repo, Closed', admitted)
  BY <1>2, MoreAllowed DEF SInv, CallsOK
<1> QED
  BY <1>1, <1>2, <1>3 DEF SInv, KeyInv

LEMMA WithdrawStep ==
    ASSUME SInv, NEW a \in Local, Withdraw(a)
    PROVE  SInv'
<1>1. PICK with :
          /\ db' = [db EXCEPT !.gone = @ \cup {a}, !.blocks = Without(@, with),
                              !.mutes = @ \ with, !.repostMutes = @ \ with]
          /\ calls' = [s \in Calls |-> IF a \in Touches(calls[s]) THEN [calls[s] EXCEPT !.alone = FALSE] ELSE calls[s]]
          /\ UNCHANGED <<repo, locked, keys, admitted, opened>>
  BY DEF Withdraw
<1>2. PICK e : e = [db EXCEPT !.blocks = Without(@, with)]
  OBVIOUS
<1>3. /\ DbOK(e)
      /\ \A f, t \in Actors :
            /\ FollowRkey(e, f, t) = FollowRkey(db, f, t)
            /\ FollowStatus(e, f, t) = FollowStatus(db, f, t)
            /\ BlockRkey(e, f, t) = BlockRkey(db, f, t) \/ BlockRkey(e, f, t) = None
            /\ <<f, t>> \in with => BlockRkey(e, f, t) = None
  BY <1>2, UnblockedRows DEF SInv
<1>4. DOMAIN db' = DOMAIN e /\ db'.follows = e.follows /\ db'.blocks = e.blocks
  BY <1>1, <1>2 DEF SInv, DbOK
<1>5. DbOK(db') /\ StatusesOK(db, db', admitted) /\ \A f, t \in Actors : KeyKept(db, db', f, t)
  BY <1>3, <1>4 DEF DbOK, StatusesOK, KeyKept, FollowRkey, FollowStatus, BlockRkey
<1>6. ASSUME NEW s \in Calls
      PROVE  Alike(calls[s], calls'[s])
  <2>1. CASE a \in Touches(calls[s])
    <3>1. IsCall(calls[s])
      BY <2>1, CallFacts DEF Touches
    <3>2. calls'[s] = [calls[s] EXCEPT !.alone = FALSE]
      BY <1>1, <2>1
    <3> QED
      BY <3>1, <3>2 DEF Alike, IsCall
  <2>2. CASE a \notin Touches(calls[s])
    BY <1>1, <2>2 DEF Alike
  <2> QED
    BY <2>1, <2>2
<1>7. KeysOK(db', repo, keys, calls')
  <2>1. Others(calls, calls', {})
    BY <1>6 DEF Others
  <2> QED
    BY <1>5, <2>1, KeysStay DEF SInv, KeyInv
<1>8. CallsOK(calls', Closed, admitted)
  <2>1. calls' = [s \in Calls |-> calls'[s]]
    BY <1>1
  <2> QED
    BY <1>6, <2>1, AlikeCalls DEF SInv, CallsOK
<1>9. ApprovalOK(db', repo, Closed, admitted)
  BY <1>5, ApprovalKept DEF SInv
<1>10. Closed' = Closed
  BY <1>1 DEF Closed
<1> QED
  BY <1>1, <1>5, <1>7, <1>8, <1>9, <1>10 DEF SInv, KeyInv

(* A row the poll found: it carries no key, and asks for no approval.       *)
LEMMA PollUserStep ==
    ASSUME SInv, NEW f \in Actors, NEW v \in Actors, PollUser(f, v)
    PROVE  SInv'
<1>1. /\ db' = InsertAccepted(db, f, v) /\ admitted' = admitted \cup {<<f, v>>}
      /\ UNCHANGED <<repo, locked, keys, opened>>
      /\ calls' = [s \in Calls |-> IF Meets(calls[s], NewCall("Poll", f, v)) THEN [calls[s] EXCEPT !.alone = FALSE]
                                   ELSE calls[s]]
  BY DEF PollUser
<1>2. RowWrite(db, db', f, v, None, "accepted")
  BY <1>1, NewFollowRow DEF SInv, InsertAccepted
<1>3. DbOK(db') /\ StatusesOK(db, db', admitted') /\ \A a, b \in Actors : KeyKept(db, db', a, b)
  BY <1>1, <1>2 DEF RowWrite, StatusesOK, KeyKept, MayFollow
<1>4. ASSUME NEW s \in Calls
      PROVE  Alike(calls[s], calls'[s])
  <2>1. CASE Meets(calls[s], NewCall("Poll", f, v))
    <3>1. IsCall(calls[s])
      BY <2>1, CallFacts DEF Meets
    <3>2. calls'[s] = [calls[s] EXCEPT !.alone = FALSE]
      BY <1>1, <2>1
    <3> QED
      BY <3>1, <3>2 DEF Alike, IsCall
  <2>2. CASE ~Meets(calls[s], NewCall("Poll", f, v))
    BY <1>1, <2>2 DEF Alike
  <2> QED
    BY <2>1, <2>2
<1>5. KeysOK(db', repo, keys, calls')
  <2>1. Others(calls, calls', {})
    BY <1>4 DEF Others
  <2> QED
    BY <1>3, <2>1, KeysStay DEF SInv, KeyInv
<1>6. CallsOK(calls', Closed, admitted')
  <2>1. calls' = [s \in Calls |-> calls'[s]]
    BY <1>1
  <2>2. CallsOK(calls', Closed, admitted)
    BY <1>4, <2>1, AlikeCalls DEF SInv, CallsOK
  <2>3. admitted \subseteq admitted'
    BY <1>1
  <2>4. \A c : CallOK(c, Closed, admitted) => CallOK(c, Closed, admitted')
    BY <2>3, MoreAllowed
  <2> QED
    BY <2>2, <2>4 DEF CallsOK
<1>7. ApprovalOK(db', repo, Closed, admitted')
  BY <1>1, <1>3, ApprovalKept, MoreAllowed DEF SInv
<1>8. Closed' = Closed
  BY <1>1 DEF Closed
<1> QED
  BY <1>1, <1>3, <1>5, <1>6, <1>7, <1>8 DEF SInv, KeyInv

-----------------------------------------------------------------------------
(* Theorems *)

LEMMA InitSInv == Init => SInv
<1> SUFFICES ASSUME Init PROVE SInv
  OBVIOUS
<1>1. /\ DOMAIN db.follows = {} /\ DOMAIN db.blocks = {}
      /\ DOMAIN db = {"follows", "blocks", "mutes", "repostMutes", "gone"}
      /\ db.follows = [p \in {} |-> db.follows[p]] /\ db.blocks = [p \in {} |-> db.blocks[p]]
  BY DEF Init
<1>2. DbOK(db)
  BY <1>1 DEF DbOK
<1>3. \A a, b : FollowRkey(db, a, b) = None /\ FollowStatus(db, a, b) = None /\ BlockRkey(db, a, b) = None
  BY <1>1 DEF FollowRkey, FollowStatus, BlockRkey
<1>4. \A s \in Calls : calls[s].op = "none"
  BY DEF Init, NoCall
<1>5. \A s \in Calls : ~Holding(calls[s]) /\ ~Deleting(calls[s])
  BY <1>4 DEF Holding, Deleting, Unfollowing
<1>6. KeyInv
  BY <1>3, <1>5 DEF Init, KeyInv, KeysOK, RecordsOK, RowKeysOK, Names, HeldOK, DeletingOK, RowsKept
<1>7. CallsOK(calls, Closed, admitted)
  BY <1>4 DEF Init, CallsOK, CallOK
<1>8. ApprovalOK(db, repo, Closed, admitted)
  BY <1>3, NullAssumption DEF Init, ApprovalOK
<1>9. Closed \subseteq locked /\ keys \in Nat
  BY DEF Init, Closed
<1> QED
  BY <1>2, <1>6, <1>7, <1>8, <1>9 DEF SInv

LEMMA SameSInv == ASSUME SInv, UNCHANGED vars PROVE SInv'
<1>1. UNCHANGED <<db, repo, locked, calls, keys, admitted, opened>>
  BY DEF vars
<1>2. Closed' = Closed
  BY <1>1 DEF Closed
<1> QED
  BY <1>1, <1>2 DEF SInv, KeyInv

LEMMA NextSInv == SInv /\ [Next]_vars => SInv'
<1> SUFFICES ASSUME SInv, [Next]_vars PROVE SInv'
  OBVIOUS
<1>1. ASSUME NEW s \in Calls, Steps(s) PROVE SInv'
  BY <1>1, ExecuteFollowStep, CheckNotBlockedStep, EstablishAtpFollowStep, FollowPendingStep, FollowFediStep,
     UnfollowTargetStep, BlockActorStep, UnblockActorStep, LoadPendingPairStep, ApprovePendingFollowStep,
     RejectPendingFollowStep, TryAcquireStep, ListTargetsStep, NextTargetStep, HandleFollowStep, HandleUndoStep,
     HandleBlockStep, HandleAcceptStep, HandleMoveStep DEF Steps
<1>2. ASSUME NEW p \in Pairs, PollUser(p[1], p[2]) PROVE SInv'
  <2>1. p[1] \in Actors /\ p[2] \in Actors
    BY PairsAssumption
  <2> QED
    BY <1>2, <2>1, PollUserStep
<1> QED
  BY <1>1, <1>2, RequestsStep, SetLockedStep, WithdrawStep, SameSInv DEF Next

LEMMA SInvKeepsFollows == SInv => FollowsKept
<1> SUFFICES ASSUME SInv PROVE FollowsKept
  OBVIOUS
<1>1. ASSUME NEW f \in Actors, NEW t \in Actors, Touching(f, t) = {}, NEW s \in Calls
      PROVE  ~Clears(calls[s], f, t) /\ ~ClearsBlock(calls[s], f, t)
  <2>1. Touches(calls[s]) # {f, t} /\ ~Many(calls[s])
    BY <1>1 DEF Touching
  <2> QED
    BY <2>1 DEF Touches, Many, Clears, ClearsBlock, Unfollowing
<1>2. KeyHasRecord
  <2>1. ASSUME NEW p \in DOMAIN db.follows, db.follows[p].rkey # None, Touching(p[1], p[2]) = {}
        PROVE  <<"follow", p[1], p[2], db.follows[p].rkey>> \in repo
    <3>1. p[1] \in Actors /\ p[2] \in Actors /\ p = <<p[1], p[2]>>
      BY DEF SInv, DbOK
    <3>2. FollowRkey(db, p[1], p[2]) = db.follows[p].rkey
      BY <3>1 DEF FollowRkey
    <3> QED
      BY <1>1, <2>1, <3>1, <3>2 DEF SInv, KeyInv, KeysOK, RowsKept
  <2>2. ASSUME NEW p \in DOMAIN db.blocks, db.blocks[p] # None, Touching(p[1], p[2]) = {}
        PROVE  <<"block", p[1], p[2], db.blocks[p]>> \in repo
    <3>1. p[1] \in Actors /\ p[2] \in Actors /\ p = <<p[1], p[2]>>
      BY DEF SInv, DbOK
    <3>2. BlockRkey(db, p[1], p[2]) = db.blocks[p]
      BY <3>1 DEF BlockRkey
    <3> QED
      BY <1>1, <2>2, <3>1, <3>2 DEF SInv, KeyInv, KeysOK, RowsKept
  <2> QED
    BY <2>1, <2>2 DEF KeyHasRecord
<1>3. LockedStaysPending
  <2>1. ASSUME NEW f \in Actors, NEW t \in Local \ opened, <<f, t>> \notin admitted
        PROVE  FollowStatus(db, f, t) # "accepted" /\ ~\E k \in 1..keys : <<"follow", f, t, k>> \in repo
    <3>1. ~MayFollow(f, t, Closed, admitted) /\ t \in Actors
      BY <2>1 DEF MayFollow, Closed
    <3>2. \A k : <<"follow", f, t, k>>[1] = "follow" /\ <<"follow", f, t, k>>[2] = f /\ <<"follow", f, t, k>>[3] = t
      OBVIOUS
    <3> QED
      BY <3>1, <3>2 DEF SInv, ApprovalOK
  <2> QED
    BY <2>1 DEF LockedStaysPending
<1> QED
  BY <1>2, <1>3 DEF FollowsKept

THEOREM FollowsKeptAlways == Spec => []FollowsKept
<1>1. Init => SInv
  BY InitSInv
<1>2. SInv /\ [Next]_vars => SInv'
  BY NextSInv
<1>3. SInv => FollowsKept
  BY SInvKeepsFollows
<1> QED
  BY <1>1, <1>2, <1>3, PTL DEF Spec
=============================================================================

----------------------------- MODULE ListsProofs -----------------------------
(***************************************************************************)
(* Lists settle, for every set of lists, members and relays and for every   *)
(* script.  Two invariants carry it.  KeysInv holds whatever overlaps or    *)
(* fails: each key is in one place, what a call read of it is where it was   *)
(* read or nowhere, and a key without its record is still to be cleared, or  *)
(* was not cleared by a call that failed.  CalmInv is about runs in which nothing overlapped   *)
(* or failed: each table is settled, but for what the only call, or the jobs *)
(* it left, are still to do.                                                *)
(***************************************************************************)
EXTENDS Lists, TLAPS

ListKey(l) == IF lists[l] = Nil THEN Nil ELSE lists[l].key

Placed(c) ==
    \/ c.op.op = "create" /\ c.pc \in {"count", "insert", "commitList", "setList"}
    \/ c.op.op = "update" /\ c.pc \in {"findForUpdate", "update", "commitList", "setList", "items", "commitItem", "setItem",
                                      "unpublish", "deleteItem", "clearItem", "deleteList", "clearList"}
    \/ c.op.op = "delete" /\ c.pc \in {"findForDelete", "delete", "unfollow", "dropItem", "dropList"}
    \/ c.op.op = "add" /\ c.pc \in {"findForAdd", "referenced", "addRow", "follow", "commitItem", "setItem"}
    \/ /\ c.op.op = "remove" /\ c.pc \in {"findForRemove", "removeRow", "unfollow", "dropItem"}
       /\ ~c.public /\ c.key = Nil /\ \A i \in c.items : i[1] = c.op.actor
    \/ c.op.op = "join" /\ c.pc \in {"insertRelay", "enqueueRelay"}
    \/ c.op.op = "leave" /\ c.pc \in {"findRelay", "enqueueRelay"}
Setting(c) == c.pc \in {"setList", "setItem"}
(* The rows a call was about are gone, their records not yet.                *)
Gathering(c) == c.pc \in {"unfollow", "dropItem", "dropList"}
Holding(c) == c.pc \in {"update", "unpublish", "deleteItem", "clearItem", "deleteList", "clearList", "delete"} \/ Gathering(c)

Call(c) ==
    /\ DOMAIN c = {"op", "pc", "public", "key", "actor", "new", "items", "fedi"}
    /\ c.op \in Operations /\ Placed(c)
    /\ c.public \in BOOLEAN /\ c.key \in Nat \cup {Nil} /\ c.actor \in Candidates \cup {Nil}
    /\ c.new \subseteq Candidates /\ c.items \subseteq Candidates \X Nat /\ c.fedi \subseteq Candidates
    /\ Setting(c) => c.key \in Nat
    /\ c.pc \in {"setItem", "clearItem"} => c.actor \in Candidates
    /\ c.pc = "follow" \/ (c.pc = "addRow" /\ c.fedi # {}) => c.op.actor \in Fedi
ProxyJobs == [kind: {"proxy"}, target: Fedi, want: BOOLEAN, tries: Nat, pc: {"queued", "post", "write"}]
RelayJobs == [kind: {"relay"}, target: Relays, want: BOOLEAN, tries: Nat, pc: {"queued", "post", "write"}]

TablesOK ==
    /\ lists \in [Names -> ListRows \cup {Nil}]
    /\ rows \in [Names \X Candidates -> Nat \cup {Nil, Out}]
    /\ nextKey \in Nat /\ records \subseteq 1 .. nextKey
RemoteOK ==
    /\ follows \in [Fedi -> BOOLEAN] /\ far \in [Fedi -> BOOLEAN]
    /\ relays \in [Relays -> Answers \cup {"pending", Nil}]
    /\ joined \in BOOLEAN /\ mail \subseteq [re: Relays, say: Answers]
    /\ jobs \subseteq ProxyJobs \cup RelayJobs
BoundsOK ==
    /\ script.ops \subseteq Operations
    /\ DOMAIN script = {"ops", "atOnce", "leaves"}
    /\ faults \in Nat
    /\ DOMAIN hist = {"calm", "over", "stale"} /\ hist.calm \in BOOLEAN
CallsOK == \A c \in calls : Call(c)
ListsTypeOK == TablesOK /\ RemoteOK /\ BoundsOK /\ CallsOK

(* Each operation is called once; a list is created once.                    *)
CalledOnce ==
    /\ \A c \in calls : c.op \notin script.ops
    /\ \A c, d \in calls : c.op = d.op => c = d
Creating == script.ops \cup {c.op : c \in calls}
CreatedOnce ==
    /\ \A o, p \in Creating : o.op = "create" /\ p.op = "create" /\ o.list = p.list => o = p
    /\ \A o \in script.ops : o.op = "create" => lists[o.list] = Nil
    /\ \A c \in calls : c.pc \in {"count", "insert"} => lists[c.op.list] = Nil
MembersOfLists == \A l \in Names, a \in Candidates : lists[l] = Nil => rows[<<l, a>>] = Out

(* No key is above the last one drawn, and each is in one place.              *)
InList(k) == \E l \in Names : ListKey(l) = k
InRow(k) == \E m \in Names \X Candidates : rows[m] = k
Coming(k) == \E c \in calls : Setting(c) /\ c.key = k
OnePlace ==
    /\ \A l \in Names : ListKey(l) \in Nat => ListKey(l) =< nextKey /\ ~InRow(ListKey(l))
    /\ \A l, n \in Names : ListKey(l) \in Nat /\ ListKey(l) = ListKey(n) => l = n
    /\ \A m \in Names \X Candidates : rows[m] \in Nat => rows[m] =< nextKey
    /\ \A m, n \in Names \X Candidates : rows[m] \in Nat /\ rows[m] = rows[n] => m = n
    /\ \A c \in calls : Setting(c) => /\ c.key \in records /\ ~InList(c.key) /\ ~InRow(c.key)
    /\ \A c, d \in calls : Setting(c) /\ Setting(d) /\ c.key = d.key => c = d
(* A key that a call has read is where it was read, or nowhere.               *)
Withdrawn(c) ==
    /\ \A i \in c.items :
        /\ i[2] =< nextKey /\ ~InList(i[2]) /\ ~Coming(i[2])
        /\ \A m \in Names \X Candidates : rows[m] = i[2] => m = <<c.op.list, i[1]>> /\ ~Gathering(c)
    /\ Holding(c) /\ c.key \in Nat =>
        /\ c.key =< nextKey /\ ~InRow(c.key) /\ ~Coming(c.key)
        /\ \A l \in Names : ListKey(l) = c.key => l = c.op.list /\ ~Gathering(c)
(* A key in a row names a record, is about to be cleared, or was left there.  *)
Named ==
    /\ \A m \in Names \X Candidates :
        rows[m] \in Nat => \/ rows[m] \in records \cup hist.stale
                           \/ \E c \in calls : c.pc = "clearItem" /\ m = <<c.op.list, c.actor>>
    /\ \A l \in Names :
        ListKey(l) \in Nat => \/ ListKey(l) \in records \cup hist.stale
                             \/ \E c \in calls : c.pc = "clearList" /\ l = c.op.list
Cleared == hist.calm => hist.stale = {}
KeysInv ==
    CalledOnce /\ CreatedOnce /\ MembersOfLists /\ OnePlace /\ (\A c \in calls : Withdrawn(c)) /\ Named /\ Cleared

-----------------------------------------------------------------------------
(* Where the only call stands, when nothing overlapped or failed.           *)
Unpublishing(c) == c.pc \in {"unpublish", "deleteItem", "clearItem", "deleteList", "clearList"}
Opening(c) == c.pc \in {"commitList", "setList"}
On(l, c) == c.op.op \notin {"join", "leave"} /\ c.op.list = l
Shown(l, a) == Public(l) /\ a \in Members(l) \cap (Visible \ Fedi)
Pending(c) == IF c.pc \in {"commitItem", "setItem"} THEN c.new \cup (IF c.pc = "setItem" THEN {c.actor} ELSE {}) ELSE {}

(* The key of a list is there when it is public, or a call is at it.          *)
ListDone(l) == Public(l) <=> ListKey(l) # Nil
ListsOf(c) ==
    /\ Opening(c) => Public(c.op.list) /\ ListKey(c.op.list) = Nil
    /\ Unpublishing(c) => lists[c.op.list] # Nil /\ ~Public(c.op.list) /\ ListKey(c.op.list) = c.key
    /\ c.pc = "update" => lists[c.op.list] # Nil /\ c.public = Public(c.op.list) /\ c.key = ListKey(c.op.list)
    /\ c.pc = "delete" => c.public = Public(c.op.list) /\ c.key = ListKey(c.op.list)
    /\ c.pc = "clearList" => c.key \notin records
CalmLists ==
    /\ \A l \in Names : ListDone(l) \/ \E c \in calls : On(l, c) /\ (Opening(c) \/ Unpublishing(c))
    /\ \A c \in calls : ListsOf(c)

(* So is the key of a member that is seen there.                              *)
RowDone(l, a) == Shown(l, a) <=> rows[<<l, a>>] \in Nat
ItemsOf(c) ==
    \A a \in Candidates, k \in Nat :
        <<a, k>> \in c.items <=> rows[<<c.op.list, a>>] = k /\ ~(c.pc = "clearItem" /\ a = c.actor)
RowsOf(c) ==
    /\ Opening(c) \/ c.pc = "items" => \A a \in Candidates : rows[<<c.op.list, a>>] \notin Nat
    /\ Opening(c) /\ c.op.op = "create" => \A a \in Candidates : rows[<<c.op.list, a>>] = Out
    /\ c.pc = "items" => Public(c.op.list)
    /\ \A a \in Pending(c) : Shown(c.op.list, a)
    /\ c.pc \in {"referenced", "addRow"} =>
            /\ lists[c.op.list] # Nil
            /\ c.new = IF Public(c.op.list) THEN {c.op.actor} \cap (Visible \ Fedi) ELSE {}
    /\ c.pc = "follow" => c.new = {}
    /\ c.pc \in {"deleteItem", "clearItem", "deleteList", "clearList", "delete"} => ItemsOf(c)
    /\ c.pc \in {"deleteList", "clearList"} => c.items = {}
    /\ c.pc = "clearItem" => rows[<<c.op.list, c.actor>>] \notin records
    /\ c.pc = "removeRow" => \A k \in Nat : rows[<<c.op.list, c.op.actor>>] = k => <<c.op.actor, k>> \in c.items
CalmRows ==
    /\ \A l \in Names, a \in Candidates :
        RowDone(l, a) \/ \E c \in calls : On(l, c) /\ (Opening(c) \/ c.pc = "items" \/ Unpublishing(c) \/ a \in Pending(c))
    /\ \A c \in calls : RowsOf(c)

(* A record has a key that is stored, was overwritten, or is still to be      *)
(* stored or withdrawn.                                                      *)
Left(c, k) == Gathering(c) /\ ((\E i \in c.items : i[2] = k) \/ (c.public /\ c.key = k))
CalmRecords ==
    /\ \A k \in records : k \in hist.over \/ InList(k) \/ InRow(k) \/ Coming(k) \/ \E c \in calls : Left(c, k)
    /\ \A c \in calls : c.pc = "dropList" => c.items = {}

(* list-relay follows the actors some list names, or will once the call or    *)
(* the job is through.                                                       *)
JobFor(a) == \E j \in jobs : j.kind = "proxy" /\ j.target = a
Owes(c, a) == (c.pc = "follow" /\ c.op.actor = a) \/ (c.pc = "unfollow" /\ a \in c.fedi)
Owed(a) == \E c \in calls : Owes(c, a)
FollowsOf(c) ==
    /\ c.pc \notin {"commitItem", "setItem"} /\ ~Gathering(c) => jobs = {}
    /\ c.pc = "follow" => ~follows[c.op.actor] /\ ActorReferencedByAnyList(c.op.actor)
    /\ c.pc = "unfollow" => \A a \in c.fedi \cap Fedi : follows[a]
    /\ c.pc \in {"dropItem", "dropList"} => c.fedi = {}
    /\ c.pc = "addRow" => c.fedi = IF c.op.actor \in Fedi /\ ~ActorReferencedByAnyList(c.op.actor) THEN {c.op.actor} ELSE {}
    /\ c.pc = "delete" => c.fedi = Members(c.op.list) \cap Fedi
    /\ c.pc = "removeRow" => c.fedi = {c.op.actor}
Followed(a) == far[a] = follows[a] /\ (Owed(a) \/ follows[a] = ActorReferencedByAnyList(a))
JobOf(j) ==
    /\ ~Owed(j.target) /\ ActorReferencedByAnyList(j.target) = j.want /\ follows[j.target] # j.want
    /\ far[j.target] = IF j.pc = "write" THEN j.want ELSE ~j.want
CalmFollows ==
    /\ \A j, k \in jobs : j.kind = "proxy" /\ k.kind = "proxy" /\ j.target = k.target => j = k
    /\ \A a \in Fedi : JobFor(a) \/ Followed(a)
    /\ \A j \in jobs : j.kind = "proxy" => JobOf(j)
    /\ \A c \in calls : FollowsOf(c)

(* One relay at a time is joined or left, and its answer is on its way.       *)
Accepted == \E r \in Relays : relays[r] = "accepted"
CalmRelays ==
    /\ \A q, r \in Relays : relays[q] # Nil /\ relays[r] # Nil => q = r
    /\ \A j \in jobs : j.kind = "relay" => calls = {} /\ jobs = {j}
    /\ mail # {} => calls = {} /\ \A j \in jobs : j.kind = "relay" /\ j.want /\ j.pc = "write"
    /\ \A x, y \in mail : x = y
    /\ \A x \in mail : relays[x.re] # Nil /\ (joined <=> x.say = "accepted")
    /\ mail = {} => (joined <=> Accepted) \/ \E j \in jobs : j.kind = "relay" /\ ~j.want /\ j.pc = "write"
    /\ \A j \in jobs : j.kind = "relay" =>
        /\ j.want /\ j.pc \in {"queued", "post"} => relays[j.target] = "pending"
        /\ j.pc \in {"post", "write"} => relays[j.target] # Nil
        /\ ~j.want /\ j.pc = "write" => ~joined
    /\ \A c \in calls : c.pc = "enqueueRelay" =>
        /\ relays[c.op.relay] # Nil
        /\ c.op.op = "join" => relays[c.op.relay] = "pending"

OneCall == \A c, d \in calls : c = d
Calm == OneCall /\ CalmLists /\ CalmRows /\ CalmRecords /\ CalmFollows /\ CalmRelays
CalmInv == hist.calm => Calm

-----------------------------------------------------------------------------
(* Types *)

USE ListsAssumption DEF ListRows, Answers

LEMMA OperationFields ==
    ASSUME NEW o \in Operations
    PROVE  /\ o.op \in {"create", "update", "delete", "add", "remove", "join", "leave"}
           /\ o.op \in {"create", "update"} => o.public \in BOOLEAN
           /\ o.op \in {"create", "update", "delete", "add", "remove"} => o.list \in Names
           /\ o.op \in {"add", "remove"} => o.actor \in Candidates
           /\ o.op \in {"join", "leave"} => o.relay \in Relays
    BY DEF Operations

(* A step of a call ends it or takes it on.                                 *)
Turned(c) ==
    \/ calls' = calls \ {c}
    \/ \E d : /\ Call(d) /\ d.op = c.op /\ d.pc # "count" /\ (d.pc = "insert" => c.pc = "count")
            /\ calls' = (calls \ {c}) \cup {d}
LEMMA CallTurns ==
    ASSUME ListsTypeOK, NEW c \in calls, CallStep(c)
    PROVE  Turned(c)
<1>1. /\ Call(c) /\ c.op \in Operations
      /\ c.op.op \in {"create", "update"} => c.op.public \in BOOLEAN
      /\ c.op.op \in {"create", "update", "delete", "add", "remove"} => c.op.list \in Names
      /\ c.op.op \in {"add", "remove"} => c.op.actor \in Candidates
    BY OperationFields DEF ListsTypeOK, CallsOK, Call
<1>2. \A l \in Names : lists[l] # Nil => lists[l].public \in BOOLEAN /\ lists[l].key \in Nat \cup {Nil}
    BY DEF ListsTypeOK, TablesOK
<1>3. \A l \in Names : Members(l) \subseteq Candidates /\ Items(l) \subseteq Candidates \X Nat
  <2>1. \A l \in Names, a \in Candidates : rows[<<l, a>>] \in Nat \cup {Nil, Out}
      BY DEF ListsTypeOK, TablesOK
  <2>2. \A l \in Names : \A a \in MembersWithAtpRecord(l) : a \in Candidates /\ rows[<<l, a>>] \in Nat
      BY <2>1 DEF Members, MembersWithAtpRecord
  <2>3. ASSUME NEW l \in Names, NEW i \in Items(l)
        PROVE  i \in Candidates \X Nat
    <3>1. PICK a \in MembersWithAtpRecord(l) : i = <<a, rows[<<l, a>>]>>
        BY DEF Items
    <3>2. a \in Candidates /\ rows[<<l, a>>] \in Nat
        BY <2>2
    <3>3. QED
        BY <3>1, <3>2
  <2>4. QED
      BY <2>3 DEF Members
<1>4. nextKey + 1 \in Nat
    BY DEF ListsTypeOK, TablesOK
<1> USE <1>1, <1>2, <1>3, <1>4 DEF Turned, Goes, GoesTo, Ends, Stands, Call, Placed, Setting, Publishable, Publishing,
    AfterList, Withdraws, Withdrawing
<1> HIDE ListsAssumption
<1>5. CASE CountByOwner(c)
    BY <1>5 DEF CountByOwner
<1>6. CASE CreateList(c)
    BY <1>6 DEF CreateList
<1>7. CASE UpdateListFind(c)
    BY <1>7 DEF UpdateListFind
<1>8. CASE UpdateList(c)
    BY <1>8 DEF UpdateList
<1>9. CASE PublishMembers(c)
    BY <1>9 DEF PublishMembers
<1>10. CASE PublishListToAtp(c)
    BY <1>10 DEF PublishListToAtp
<1>11. CASE SetAtpListRecord(c)
    BY <1>11 DEF SetAtpListRecord
<1>12. CASE MaybePublishListitem(c)
    BY <1>12 DEF MaybePublishListitem
<1>13. CASE SetMemberAtpRecord(c)
    BY <1>13 DEF SetMemberAtpRecord
<1>14. CASE Unpublish(c)
    BY <1>14 DEF Unpublish
<1>15. CASE UnpublishListFromAtp(c)
    BY <1>15 DEF UnpublishListFromAtp
<1>16. CASE ClearMemberAtpRecord(c)
    BY <1>16 DEF ClearMemberAtpRecord
<1>17. CASE ClearAtpListRecord(c)
    BY <1>17 DEF ClearAtpListRecord
<1>18. CASE DeleteListFind(c)
    BY <1>18 DEF DeleteListFind
<1>19. CASE DeleteList(c)
    BY <1>19 DEF DeleteList
<1>20. CASE DropRecord(c)
  <2>1. CASE c.pc = "dropItem"
    <3>1. PICK i \in c.items : Withdraws(c, [c EXCEPT !.items = @ \ {i}])
        BY <1>20, <2>1 DEF DropRecord
    <3> DEFINE d == [c EXCEPT !.items = @ \ {i}]  e == [d EXCEPT !.pc = Withdrawing(d)]
    <3>2. e.pc # "end" => Call(e) /\ e.op = c.op /\ e.pc \notin {"count", "insert"}
        BY <2>1
    <3>3. calls' = (calls \ {c}) \cup (IF e.pc = "end" THEN {} ELSE {e})
        BY <3>1
    <3> HIDE DEF e
    <3>4. QED
        BY <3>2, <3>3 DEF Turned
  <2>2. QED
      BY <1>20, <2>1 DEF DropRecord
<1>21. CASE AddMemberFind(c)
  <2>1. CASE Ends(c)
      BY <2>1
  <2>2. CASE ~Ends(c)
    <3> DEFINE l == c.op.list
               new == IF lists[l].public THEN Publishable(lists[l].key, {c.op.actor}) ELSE {}
    <3>1. Goes(c, [c EXCEPT !.pc = "referenced", !.new = new]) /\ new \subseteq Candidates
        BY <1>21, <2>2 DEF AddMemberFind
    <3> HIDE DEF new
    <3>2. Call([c EXCEPT !.pc = "referenced", !.new = new])
        BY <1>21, <3>1 DEF AddMemberFind
    <3>3. QED
        BY <3>1, <3>2
  <2>3. QED
      BY <2>1, <2>2
<1>22. CASE WasReferenced(c)
    BY <1>22 DEF WasReferenced
<1>23. CASE AddMember(c)
  <2>1. c.fedi # {} /\ c.pc = "addRow" => c.op.actor \in Fedi
      BY DEF Call
  <2>2. c.pc = "addRow" => Call([c EXCEPT !.pc = "follow"]) \/ c.fedi = {}
      BY <2>1
  <2>3. c.pc = "addRow" => Call([c EXCEPT !.pc = "commitItem"])
      OBVIOUS
  <2>4. QED
      BY <1>23, <2>2, <2>3 DEF AddMember
<1>24. CASE EnqueueFollow(c)
    BY <1>24 DEF EnqueueFollow
<1>25. CASE RemoveMemberFind(c)
  <2>1. CASE Ends(c)
      BY <2>1
  <2>2. CASE ~Ends(c)
    <3>1. rows[<<c.op.list, c.op.actor>>] \in Nat \cup {Nil, Out}
        BY <1>25 DEF RemoveMemberFind, ListsTypeOK, TablesOK
    <3> DEFINE k == rows[<<c.op.list, c.op.actor>>]
               items == IF k \in {Out, Nil} THEN {} ELSE {<<c.op.actor, k>>}
    <3>2. /\ Goes(c, [c EXCEPT !.pc = "removeRow", !.fedi = {c.op.actor}, !.items = items])
          /\ items \subseteq Candidates \X Nat /\ \A i \in items : i[1] = c.op.actor
        BY <1>25, <2>2, <3>1 DEF RemoveMemberFind
    <3> HIDE DEF items
    <3>3. Call([c EXCEPT !.pc = "removeRow", !.fedi = {c.op.actor}, !.items = items])
        BY <1>25, <3>2 DEF RemoveMemberFind
    <3>4. QED
        BY <3>2, <3>3
  <2>3. QED
      BY <2>1, <2>2
<1>26. CASE RemoveMember(c)
    BY <1>26 DEF RemoveMember
<1>27. CASE MaybeUnfollowIfUnreferenced(c)
  <2>1. PICK a \in c.fedi : Withdraws(c, [c EXCEPT !.fedi = @ \ {a}])
      BY <1>27 DEF MaybeUnfollowIfUnreferenced
  <2> DEFINE d == [c EXCEPT !.fedi = @ \ {a}]  e == [d EXCEPT !.pc = Withdrawing(d)]
  <2>2. e.pc # "end" => Call(e) /\ e.op = c.op /\ e.pc \notin {"count", "insert"}
      BY <1>27 DEF MaybeUnfollowIfUnreferenced
  <2>3. calls' = (calls \ {c}) \cup (IF e.pc = "end" THEN {} ELSE {e})
      BY <2>1
  <2> HIDE DEF e
  <2>4. QED
      BY <2>2, <2>3 DEF Turned
<1>28. CASE CreateRelay(c)
    BY <1>28 DEF CreateRelay
<1>29. CASE DeleteRelay(c)
    BY <1>29 DEF DeleteRelay
<1>30. CASE EnqueueRelay(c)
    BY <1>30 DEF EnqueueRelay
<1>31. CASE Breaks(c)
    BY <1>31 DEF Breaks
<1>99. QED
    BY <1>31, <1>5, <1>6, <1>7, <1>8, <1>9, <1>10, <1>11, <1>12, <1>13, <1>14, <1>15, <1>16, <1>17, <1>18, <1>19, <1>20, <1>21,
        <1>22, <1>23, <1>24, <1>25, <1>26, <1>27, <1>28, <1>29, <1>30 DEF CallStep

(* Steps that change only the calls.                                        *)
Reads(c) ==
    \/ CountByOwner(c) \/ UpdateListFind(c) \/ PublishMembers(c) \/ Unpublish(c) \/ DeleteListFind(c) \/ AddMemberFind(c)
    \/ WasReferenced(c) \/ RemoveMemberFind(c) \/ DeleteRelay(c)
LEMMA ReadsKeep ==
    ASSUME NEW c, Reads(c)
    PROVE  OnlyCalls
    BY DEF Reads, CountByOwner, UpdateListFind, PublishMembers, Unpublish, DeleteListFind, AddMemberFind, WasReferenced,
           RemoveMemberFind, DeleteRelay

LEMMA DrawnTypes ==
    ASSUME TablesOK, Drawn, UNCHANGED <<lists, rows>>
    PROVE  TablesOK'
    BY DEF TablesOK, Drawn
LEMMA FewerTypes ==
    ASSUME TablesOK, records' \subseteq records, UNCHANGED <<lists, rows, nextKey>>
    PROVE  TablesOK'
    BY DEF TablesOK
LEMMA BoundsSame ==
    ASSUME BoundsOK, NoFault \/ Fault \/ \E c : Misses(c), UNCHANGED script
    PROVE  BoundsOK'
<1>1. CASE NoFault
    BY <1>1 DEF BoundsOK, NoFault
<1>2. CASE Fault
  <2>1. faults' \in Nat
      BY <1>2 DEF BoundsOK, Fault
  <2>2. DOMAIN hist' = {"calm", "over", "stale"} /\ hist'.calm \in BOOLEAN
      BY <1>2 DEF BoundsOK, Fault
  <2>3. QED
      BY <2>1, <2>2 DEF BoundsOK
<1>3. ASSUME NEW c, Misses(c)
      PROVE  BoundsOK'
  <2>0. faults > 0 /\ faults' = faults - 1
      BY <1>3 DEF Misses
  <2>1. faults' \in Nat
      BY <2>0 DEF BoundsOK
  <2>2. hist' = [hist EXCEPT !.calm = FALSE, !.stale = @ \cup (Clearing(c) \ records)]
      BY <1>3 DEF Misses
  <2>3. QED
      BY <2>1, <2>2 DEF BoundsOK
<1>4. QED
    BY <1>1, <1>2, <1>3
LEMMA EnqueueTypes ==
    ASSUME RemoteOK, NEW k, NEW t, NEW w \in BOOLEAN, Enqueue(k, t, w), UNCHANGED remote,
           (k = "proxy" /\ t \in Fedi) \/ (k = "relay" /\ t \in Relays)
    PROVE  RemoteOK'
<1>1. [kind |-> k, target |-> t, want |-> w, tries |-> 0, pc |-> "queued"] \in ProxyJobs \cup RelayJobs
    BY DEF ProxyJobs, RelayJobs
<1>2. QED
    BY <1>1 DEF RemoteOK, Enqueue, remote

LEMMA CallTables ==
    ASSUME ListsTypeOK, NEW c \in calls, CallStep(c)
    PROVE  TablesOK' /\ RemoteOK' /\ BoundsOK'
<1>1. /\ Call(c)
      /\ c.op.op \in {"create", "update"} => c.op.public \in BOOLEAN
      /\ c.op.op \in {"create", "update", "delete", "add", "remove"} => c.op.list \in Names
      /\ c.op.op \in {"add", "remove"} => c.op.actor \in Candidates
      /\ c.op.op \in {"join", "leave"} => c.op.relay \in Relays
    BY OperationFields DEF ListsTypeOK, CallsOK, Call
<1>2. TablesOK /\ RemoteOK /\ BoundsOK
    BY DEF ListsTypeOK
<1>3. CASE Reads(c)
    BY <1>2, <1>3, ReadsKeep DEF OnlyCalls, TablesOK, RemoteOK, BoundsOK, NoFault, repo, remote
<1> USE <1>1, <1>2 DEF TablesOK, RemoteOK, BoundsOK, NoFault, Fault, Stands, repo, remote, Call, Placed, Setting
<1>4. CASE CreateList(c)
    BY <1>4 DEF CreateList
<1>5. CASE UpdateList(c)
    BY <1>5 DEF UpdateList
<1>6. CASE PublishListToAtp(c)
  <2>1. UNCHANGED <<lists, rows, remote, jobs, script>> /\ (NoFault \/ Fault) /\ (Drawn \/ UNCHANGED repo)
      BY <1>6 DEF PublishListToAtp
  <2>2. QED
      BY <2>1, DrawnTypes, BoundsSame
<1>7. CASE SetAtpListRecord(c)
  <2>1. CASE Fault /\ UNCHANGED lists
      BY <1>7, <2>1, BoundsSame DEF SetAtpListRecord
  <2>2. CASE ~(Fault /\ UNCHANGED lists)
    <3>1. TablesOK'
        BY <1>7, <2>2 DEF SetAtpListRecord
    <3>2. RemoteOK' /\ BoundsOK'
        BY <1>7, <2>2 DEF SetAtpListRecord
    <3>3. QED
        BY <3>1, <3>2
  <2>3. QED
      BY <2>1, <2>2
<1>8. CASE MaybePublishListitem(c)
  <2>1. UNCHANGED <<lists, rows, remote, jobs, script>> /\ (NoFault \/ Fault) /\ (Drawn \/ UNCHANGED repo)
      BY <1>8 DEF MaybePublishListitem
  <2>2. QED
      BY <2>1, DrawnTypes, BoundsSame
<1>9. CASE SetMemberAtpRecord(c)
  <2>1. CASE Fault /\ UNCHANGED rows
      BY <1>9, <2>1, BoundsSame DEF SetMemberAtpRecord
  <2>2. CASE ~(Fault /\ UNCHANGED rows)
    <3>1. TablesOK'
        BY <1>9, <2>2 DEF SetMemberAtpRecord
    <3>2. RemoteOK' /\ BoundsOK'
        BY <1>9, <2>2 DEF SetMemberAtpRecord
    <3>3. QED
        BY <3>1, <3>2
  <2>3. QED
      BY <2>1, <2>2
<1>10. CASE UnpublishListFromAtp(c)
  <2>1. UNCHANGED <<lists, rows, nextKey, remote, jobs, script>> /\ (NoFault \/ Fault) /\ records' \subseteq records
      BY <1>10 DEF UnpublishListFromAtp, Deletes
  <2>2. QED
      BY <2>1, FewerTypes, BoundsSame
<1>11. CASE ClearMemberAtpRecord(c)
  <2>1. /\ UNCHANGED <<lists, repo, remote, jobs, script>> /\ (NoFault \/ Misses(c))
        /\ rows' \in [Names \X Candidates -> Nat \cup {Nil, Out}]
      BY <1>11 DEF ClearMemberAtpRecord
  <2>2. QED
      BY <2>1, BoundsSame
<1>12. CASE ClearAtpListRecord(c)
  <2>1. /\ UNCHANGED <<rows, repo, remote, jobs, script>> /\ (NoFault \/ Misses(c))
        /\ lists' \in [Names -> ListRows \cup {Nil}]
      BY <1>12 DEF ClearAtpListRecord
  <2>2. QED
      BY <2>1, BoundsSame
<1>22. CASE Breaks(c)
  <2>1. UNCHANGED <<lists, rows, repo, remote, jobs, script>> /\ Misses(c)
      BY <1>22 DEF Breaks
  <2>2. QED
      BY <2>1, BoundsSame
<1>13. CASE DeleteList(c)
    BY <1>13 DEF DeleteList
<1>14. CASE DropRecord(c)
  <2>1. UNCHANGED <<lists, rows, nextKey, remote, jobs, script>> /\ (NoFault \/ Fault) /\ records' \subseteq records
      BY <1>14 DEF DropRecord, Deletes
  <2>2. QED
      BY <2>1, FewerTypes, BoundsSame
<1>15. CASE AddMember(c)
    BY <1>15 DEF AddMember
<1>16. CASE EnqueueFollow(c)
  <2>1. UNCHANGED <<lists, rows, repo, remote, script>> /\ NoFault /\ Enqueue("proxy", c.op.actor, TRUE) /\ c.op.actor \in Fedi
      BY <1>16 DEF EnqueueFollow
  <2>2. RemoteOK'
      BY <2>1, EnqueueTypes
  <2>3. QED
      BY <2>1, <2>2
<1>17. CASE RemoveMember(c)
    BY <1>17 DEF RemoveMember
<1>18. CASE MaybeUnfollowIfUnreferenced(c)
  <2>1. /\ UNCHANGED <<lists, rows, repo, remote, script>> /\ NoFault
        /\ UNCHANGED jobs \/ \E a \in Fedi : Enqueue("proxy", a, FALSE)
      BY <1>18 DEF MaybeUnfollowIfUnreferenced, Unreferenced
  <2>2. RemoteOK'
      BY <2>1, EnqueueTypes
  <2>3. QED
      BY <2>1, <2>2
<1>19. CASE CreateRelay(c)
    BY <1>19 DEF CreateRelay
<1>20. CASE EnqueueRelay(c)
  <2>1. /\ UNCHANGED <<lists, rows, repo, remote, script>> /\ NoFault
        /\ Enqueue("relay", c.op.relay, c.op.op = "join") /\ c.op.relay \in Relays
      BY <1>20 DEF EnqueueRelay
  <2>2. RemoteOK'
      BY <2>1, EnqueueTypes
  <2>3. QED
      BY <2>1, <2>2
<1>21. QED
    BY <1>3, <1>4, <1>5, <1>6, <1>7, <1>8, <1>9, <1>10, <1>11, <1>12, <1>13, <1>14, <1>15, <1>16, <1>17, <1>18, <1>19,
        <1>20, <1>22 DEF CallStep, Reads

LEMMA OtherTypes ==
    ASSUME ListsTypeOK,
           \/ \E o \in script.ops : StartCall(o)
           \/ \E j \in jobs : JobStep(j)
           \/ \E a \in mail : HandleRelayAnswer(a)
           \/ RelayLeaves
    PROVE  ListsTypeOK'
<1>1. TablesOK /\ RemoteOK /\ BoundsOK /\ CallsOK
    BY DEF ListsTypeOK
<1>2. ASSUME NEW o \in script.ops, StartCall(o)
      PROVE  ListsTypeOK'
  <2>1. o \in Operations
      BY <1>1 DEF BoundsOK
  <2>2. Call(NewCall(o))
      BY <2>1, OperationFields DEF Call, NewCall, Placed, FirstStep, Setting
  <2>3. CallsOK'
      BY <1>1, <1>2, <2>2 DEF CallsOK, StartCall, Call, Placed, Setting
  <2>4. TablesOK' /\ RemoteOK'
      BY <1>1, <1>2 DEF StartCall, TablesOK, RemoteOK, repo, remote
  <2>5. BoundsOK'
      BY <1>1, <1>2 DEF StartCall, BoundsOK
  <2>6. QED
      BY <2>3, <2>4, <2>5 DEF ListsTypeOK
<1>3. ASSUME NEW j \in jobs, JobStep(j)
      PROVE  ListsTypeOK'
  <2>1. /\ UNCHANGED <<lists, rows, repo, calls, script>> /\ (NoFault \/ Fault)
      BY <1>3 DEF JobStep, ProxyFollowSync, RelayFollowSync, SignAndPost, WriteBack, remote
  <2>2. j \in ProxyJobs \/ j \in RelayJobs
      BY <1>1 DEF RemoteOK
  <2>3. /\ [j EXCEPT !.pc = "post"] \in ProxyJobs \cup RelayJobs /\ [j EXCEPT !.pc = "write"] \in ProxyJobs \cup RelayJobs
        /\ [j EXCEPT !.pc = "queued", !.tries = @ + 1] \in ProxyJobs \cup RelayJobs
    <3>1. j.tries + 1 \in Nat
        BY <2>2 DEF ProxyJobs, RelayJobs
    <3>2. CASE j \in ProxyJobs
        BY <3>1, <3>2 DEF ProxyJobs
    <3>3. CASE j \in RelayJobs
        BY <3>1, <3>3 DEF RelayJobs
    <3>4. QED
        BY <2>2, <3>2, <3>3
  <2>4. (j.kind = "proxy" /\ j.target \in Fedi /\ j.want \in BOOLEAN) \/ (j.kind = "relay" /\ j.target \in Relays /\ j.want \in BOOLEAN)
      BY <2>2 DEF ProxyJobs, RelayJobs
  <2>5. jobs' \subseteq ProxyJobs \cup RelayJobs
      BY <1>1, <1>3, <2>3 DEF JobStep, ProxyFollowSync, RelayFollowSync, SignAndPost, WriteBack, Moved, Gone, Failed, RemoteOK
  <2>6. RemoteOK'
    <3>1. CASE ProxyFollowSync(j) \/ RelayFollowSync(j)
        BY <1>1, <2>5, <3>1 DEF ProxyFollowSync, RelayFollowSync, RemoteOK, remote
    <3>2. CASE SignAndPost(j)
      <4>1. \A r \in Relays : \A s \in Answers : [re |-> r, say |-> s] \in [re: Relays, say: Answers]
          OBVIOUS
      <4>2. far' \in [Fedi -> BOOLEAN] /\ joined' \in BOOLEAN
          BY <1>1, <2>4, <3>2 DEF SignAndPost, Arrives, RemoteOK
      <4>3. mail' \subseteq [re: Relays, say: Answers]
          BY <1>1, <2>4, <3>2, <4>1 DEF SignAndPost, Arrives, RemoteOK
      <4>4. QED
          BY <1>1, <2>5, <3>2, <4>2, <4>3 DEF SignAndPost, RemoteOK
    <3>3. CASE WriteBack(j)
        BY <1>1, <2>4, <2>5, <3>3 DEF WriteBack, RemoteOK
    <3>4. QED
        BY <1>3, <3>1, <3>2, <3>3 DEF JobStep
  <2>7. QED
      BY <1>1, <2>1, <2>6, BoundsSame DEF ListsTypeOK, TablesOK, CallsOK, Call, Placed, Setting, repo
<1>4. ASSUME NEW a \in mail, HandleRelayAnswer(a)
      PROVE  ListsTypeOK'
  <2>1. a.re \in Relays /\ a.say \in Answers
      BY <1>1 DEF RemoteOK
  <2>2. RemoteOK'
      BY <1>1, <1>4, <2>1 DEF HandleRelayAnswer, RemoteOK
  <2>3. QED
      BY <1>1, <1>4, <2>2, BoundsSame DEF HandleRelayAnswer, ListsTypeOK, TablesOK, CallsOK, Call, Placed, Setting, repo
<1>5. CASE RelayLeaves
  <2>1. RemoteOK'
    <3>1. \A r \in Relays : [re |-> r, say |-> "rejected"] \in [re: Relays, say: Answers]
        OBVIOUS
    <3>2. mail' \subseteq [re: Relays, say: Answers]
        BY <1>1, <1>5, <3>1 DEF RelayLeaves, RemoteOK
    <3>3. QED
        BY <1>1, <1>5, <3>2 DEF RelayLeaves, RemoteOK
  <2>2. BoundsOK'
      BY <1>1, <1>5 DEF RelayLeaves, BoundsOK
  <2>3. QED
      BY <1>1, <1>5, <2>1, <2>2 DEF RelayLeaves, ListsTypeOK, TablesOK, CallsOK, Call, Placed, Setting, repo
<1>6. QED
    BY <1>2, <1>3, <1>4, <1>5

LEMMA TypesInit ==
    ASSUME ListsInit
    PROVE  ListsTypeOK
<1>1. TablesOK
    BY DEF ListsInit, TablesOK
<1>2. RemoteOK
    BY DEF ListsInit, RemoteOK
<1>3. BoundsOK
    BY ListScriptsAssumption DEF ListsInit, BoundsOK
<1>4. QED
    BY <1>1, <1>2, <1>3 DEF ListsInit, CallsOK, ListsTypeOK

LEMMA CallStepTypes ==
    ASSUME ListsTypeOK, NEW c \in calls, CallStep(c)
    PROVE  ListsTypeOK'
<1>1. CallsOK'
    BY CallTurns DEF Turned, ListsTypeOK, CallsOK, Call, Placed, Setting
<1>2. QED
    BY <1>1, CallTables DEF ListsTypeOK

LEMMA TypesNext ==
    ASSUME ListsTypeOK, ListsNext
    PROVE  ListsTypeOK'
    BY CallStepTypes, OtherTypes DEF ListsNext

-----------------------------------------------------------------------------
(* Keys *)

LEMMA ListsStay ==
    ASSUME ListsTypeOK, NEW c \in calls, CallStep(c), NEW l \in Names, lists[l] = Nil
    PROVE  lists'[l] = Nil \/ (CreateList(c) /\ l = c.op.list)
<1>1. lists \in [Names -> ListRows \cup {Nil}]
    BY DEF ListsTypeOK, TablesOK
<1>2. CASE Reads(c)
    BY <1>2, ReadsKeep DEF OnlyCalls
<1>3. CASE ~Reads(c)
    BY <1>1, <1>3 DEF CallStep, Reads, CreateList, UpdateList, PublishListToAtp, SetAtpListRecord, MaybePublishListitem,
        SetMemberAtpRecord, UnpublishListFromAtp, ClearMemberAtpRecord, ClearAtpListRecord, DeleteList, DropRecord,
        AddMember, EnqueueFollow, RemoveMember, MaybeUnfollowIfUnreferenced, CreateRelay, EnqueueRelay, Breaks
<1>4. QED
    BY <1>2, <1>3

LEMMA OnceKept ==
    ASSUME ListsTypeOK, CalledOnce, CreatedOnce, NEW c \in calls, CallStep(c)
    PROVE  CalledOnce' /\ CreatedOnce'
<1>1. Turned(c)
    BY CallTurns
<1>2. script' = script
    BY ReadsKeep DEF CallStep, Reads, OnlyCalls, CreateList, UpdateList, PublishListToAtp, SetAtpListRecord, MaybePublishListitem,
        SetMemberAtpRecord, UnpublishListFromAtp, ClearMemberAtpRecord, ClearAtpListRecord, DeleteList, DropRecord,
        AddMember, EnqueueFollow, RemoveMember, MaybeUnfollowIfUnreferenced, CreateRelay, EnqueueRelay, Breaks
<1>3. CalledOnce'
    BY <1>1, <1>2 DEF CalledOnce, Turned
<1>4. Creating' \subseteq Creating
    BY <1>1, <1>2 DEF Turned, Creating
<1>5. CreateList(c) => c.op.op = "create" /\ c.pc = "insert"
    BY DEF CreateList, Stands, ListsTypeOK, CallsOK, Call, Placed
<1>6. ASSUME NEW o \in script.ops', o.op = "create"
      PROVE  lists'[o.list] = Nil
  <2>1. o \in Operations /\ o \in Creating /\ c.op \in Creating /\ o # c.op
      BY <1>2 DEF ListsTypeOK, BoundsOK, Creating, CalledOnce
  <2>2. o.list \in Names /\ lists[o.list] = Nil
      BY <1>2, <1>6, <2>1, OperationFields DEF CreatedOnce
  <2>3. QED
      BY <1>5, <1>6, <2>1, <2>2, ListsStay DEF CreatedOnce
<1>7. ASSUME NEW x \in calls', x.pc \in {"count", "insert"}
      PROVE  lists'[x.op.list] = Nil
  <2>1. Call(x) /\ x.op \in Creating /\ c.op \in Creating /\ x.op.op = "create"
      BY <1>1, <1>7 DEF Turned, Creating, ListsTypeOK, CallsOK, Call, Placed
  <2>2. x.op.list \in Names
      BY <2>1, OperationFields DEF Call
  <2>3. lists[x.op.list] = Nil /\ (x.op = c.op => c.pc # "insert")
      BY <1>1, <1>7 DEF Turned, CreatedOnce, CalledOnce
  <2>4. QED
      BY <1>5, <2>1, <2>2, <2>3, ListsStay DEF CreatedOnce
<1>8. QED
    BY <1>3, <1>4, <1>6, <1>7 DEF CreatedOnce

LEMMA MembersKept ==
    ASSUME ListsTypeOK, MembersOfLists, NEW c \in calls, CallStep(c)
    PROVE  MembersOfLists'
<1>1. TablesOK
    BY DEF ListsTypeOK
<1>2. CASE SetMemberAtpRecord(c) \/ ClearMemberAtpRecord(c) \/ RemoveMember(c)
    BY <1>1, <1>2 DEF MembersOfLists, TablesOK, SetMemberAtpRecord, ClearMemberAtpRecord, RemoveMember
<1>3. CASE AddMember(c)
    BY <1>1, <1>3 DEF MembersOfLists, TablesOK, AddMember
<1>4. CASE DeleteList(c)
    BY <1>1, <1>4 DEF MembersOfLists, TablesOK, DeleteList
<1>5. CASE CreateList(c) \/ UpdateList(c) \/ SetAtpListRecord(c) \/ ClearAtpListRecord(c)
  <2>1. /\ Call(c)
        /\ c.op.op \in {"create", "update"} => c.op.public \in BOOLEAN
        /\ c.op.op \in {"create", "update", "delete", "add", "remove"} => c.op.list \in Names
      BY OperationFields DEF ListsTypeOK, CallsOK, Call
  <2>2. \A l \in Names : lists'[l] = Nil => lists[l] = Nil
    <3>1. CASE CreateList(c)
        BY <1>1, <2>1, <3>1 DEF TablesOK, CreateList, Stands, Call, Placed
    <3>2. CASE UpdateList(c)
        BY <1>1, <2>1, <3>2 DEF TablesOK, UpdateList, Stands, Call, Placed
    <3>3. CASE SetAtpListRecord(c)
        BY <1>1, <2>1, <3>3 DEF TablesOK, SetAtpListRecord, Stands, Call, Placed, Setting
    <3>4. CASE ClearAtpListRecord(c)
        BY <1>1, <2>1, <3>4 DEF TablesOK, ClearAtpListRecord, Stands, Call, Placed
    <3>5. QED
        BY <1>5, <3>1, <3>2, <3>3, <3>4
  <2>3. UNCHANGED rows
      BY <1>5 DEF CreateList, UpdateList, SetAtpListRecord, ClearAtpListRecord
  <2>4. QED
      BY <2>2, <2>3 DEF MembersOfLists
<1>6. CASE UNCHANGED <<lists, rows>>
    BY <1>6 DEF MembersOfLists
<1>7. QED
    BY <1>2, <1>3, <1>4, <1>5, <1>6, ReadsKeep DEF CallStep, Reads, OnlyCalls, PublishListToAtp, MaybePublishListitem,
        UnpublishListFromAtp, DropRecord, EnqueueFollow, MaybeUnfollowIfUnreferenced, CreateRelay, EnqueueRelay, Breaks

HIDE ListsAssumption DEF ListRows, Answers
LEMMA NilFacts == Nil \notin Nat /\ Out \notin Nat /\ Out # Nil /\ Nil \notin {"pending", "accepted", "rejected"}
    BY ListsAssumption DEF Answers
USE NilFacts

(* What was left in the rows stays known, and nothing is while all is calm.  *)
LEMMA StaleOf ==
    ASSUME ListsTypeOK, NEW c \in calls, CallStep(c)
    PROVE  /\ hist.stale \subseteq hist'.stale
           /\ hist'.calm => hist.calm /\ hist'.stale = hist.stale /\ ~Fault /\ ~Misses(c)
<1>1. DOMAIN hist = {"calm", "over", "stale"}
    BY DEF ListsTypeOK, BoundsOK
<1>2. Fault => ~hist'.calm /\ hist'.stale = hist.stale
    BY <1>1 DEF Fault
<1>3. Misses(c) => ~hist'.calm /\ hist.stale \subseteq hist'.stale
    BY <1>1 DEF Misses
<1>4. NoFault => hist' = hist
    BY DEF NoFault
<1>5. CASE SetAtpListRecord(c) \/ SetMemberAtpRecord(c)
  <2>1. Fault \/ (hist'.calm = hist.calm /\ hist'.stale = hist.stale)
      BY <1>1, <1>5 DEF SetAtpListRecord, SetMemberAtpRecord
  <2>2. QED
      BY <1>2, <1>3, <2>1
<1>6. CASE Fault \/ Misses(c) \/ NoFault
    BY <1>2, <1>3, <1>4, <1>6
<1>7. QED
    BY <1>5, <1>6, ReadsKeep DEF CallStep, Reads, OnlyCalls, CreateList, UpdateList, PublishListToAtp, MaybePublishListitem,
        UnpublishListFromAtp, Deletes, ClearMemberAtpRecord, ClearAtpListRecord, DeleteList, DropRecord, AddMember,
        EnqueueFollow, RemoveMember, MaybeUnfollowIfUnreferenced, CreateRelay, EnqueueRelay, Breaks

KeysStep == OnePlace /\ (\A c \in calls : Withdrawn(c)) /\ Named

(* No key comes into a row, and a call goes on: the keys are as before.       *)
LEMMA KeysFewer ==
    ASSUME ListsTypeOK, KeysStep, NEW c \in calls, Turned(c),
           \A l \in Names : ListKey(l)' \in Nat => ListKey(l)' = ListKey(l),
           \A m \in Names \X Candidates : rows'[m] \in Nat => rows'[m] = rows[m],
           UNCHANGED repo, hist.stale \subseteq hist'.stale,
           c.pc = "clearItem" => LET k == rows'[<<c.op.list, c.actor>>] IN k \notin Nat \/ k \in records \cup hist'.stale,
           c.pc = "clearList" => LET k == ListKey(c.op.list)' IN k \notin Nat \/ k \in records \cup hist'.stale,
           \A d \in calls' : d \in calls \/ (~Setting(d) /\ Withdrawn(d)')
    PROVE  KeysStep'
<1>1. \A x \in calls' : x \in calls \/ (~Setting(x) /\ Withdrawn(x)')
    OBVIOUS
<1>a. \A k \in Nat : (InList(k)' => InList(k)) /\ (InRow(k)' => InRow(k)) /\ (Coming(k)' => Coming(k))
    BY <1>1 DEF InList, InRow, Coming, Setting
<1>b. nextKey' = nextKey /\ records' = records
    BY DEF repo
<1>2. OnePlace'
  <2>1. \A l \in Names : ListKey(l)' \in Nat => ListKey(l)' =< nextKey' /\ ~\E m \in Names \X Candidates : rows'[m] = ListKey(l)'
      BY <1>b DEF KeysStep, OnePlace, InRow
  <2>2. \A l, n \in Names : ListKey(l)' \in Nat /\ ListKey(l)' = ListKey(n)' => l = n
      BY DEF KeysStep, OnePlace
  <2>3. /\ \A m \in Names \X Candidates : rows'[m] \in Nat => rows'[m] =< nextKey'
        /\ \A m, n \in Names \X Candidates : rows'[m] \in Nat /\ rows'[m] = rows'[n] => m = n
      BY <1>b DEF KeysStep, OnePlace
  <2>4. \A x \in calls' : Setting(x)' => x \in calls /\ Setting(x) /\ x.key \in Nat
      BY <1>1 DEF Setting, ListsTypeOK, CallsOK, Call
  <2>5. \A x \in calls' : Setting(x)' => x.key \in records' /\ ~InList(x.key)' /\ ~InRow(x.key)'
      BY <1>a, <1>b, <2>4 DEF KeysStep, OnePlace
  <2>6. \A x, y \in calls' : Setting(x)' /\ Setting(y)' /\ x.key = y.key => x = y
      BY <2>4 DEF KeysStep, OnePlace
  <2>7. QED
      BY <2>1, <2>2, <2>3, <2>5, <2>6 DEF OnePlace, InRow
<1>3. ASSUME NEW x \in calls', x \in calls
      PROVE  Withdrawn(x)'
  <2>1. Withdrawn(x) /\ Call(x)
      BY <1>3 DEF KeysStep, ListsTypeOK, CallsOK
  <2>2. \A i \in x.items : i[2] \in Nat
      BY <2>1 DEF Call
  <2>3. QED
      BY <1>a, <1>b, <2>1, <2>2 DEF Withdrawn, Holding, Gathering
<1>4. Named'
    BY DEF KeysStep, Named, repo, Turned
<1>5. QED
    BY <1>1, <1>2, <1>3, <1>4 DEF KeysStep

(* What every step of a call takes from the types.                          *)
LEMMA CallFacts ==
    ASSUME ListsTypeOK, NEW c \in calls
    PROVE  /\ TablesOK /\ Call(c) /\ c.op \in Operations
           /\ c.op.op \in {"create", "update"} => c.op.public \in BOOLEAN
           /\ c.op.op \in {"create", "update", "delete", "add", "remove"} => c.op.list \in Names
           /\ c.op.op \in {"add", "remove"} => c.op.actor \in Candidates
           /\ c.op.op \in {"join", "leave"} => c.op.relay \in Relays
    BY OperationFields DEF ListsTypeOK, CallsOK, Call

(* The keys a call reads are those of its list.                             *)
LEMMA ItemsRead ==
    ASSUME ListsTypeOK, KeysInv, NEW l \in Names, NEW i \in Items(l)
    PROVE  /\ i[1] \in Candidates /\ i[2] \in Nat /\ rows[<<l, i[1]>>] = i[2]
           /\ i[2] =< nextKey /\ ~InList(i[2]) /\ ~Coming(i[2])
           /\ \A m \in Names \X Candidates : rows[m] = i[2] => m = <<l, i[1]>>
<1>1. PICK a \in MembersWithAtpRecord(l) : i = <<a, rows[<<l, a>>]>>
    BY DEF Items
<1>2. a \in Candidates /\ rows[<<l, a>>] \in Nat
    BY DEF ListsTypeOK, TablesOK, MembersWithAtpRecord, Members
<1>3. i[2] =< nextKey /\ \A m \in Names \X Candidates : rows[m] = i[2] => m = <<l, i[1]>>
    BY <1>1, <1>2 DEF KeysInv, OnePlace
<1>4. ~InList(i[2])
    BY <1>1, <1>2 DEF KeysInv, OnePlace, InList, InRow
<1>5. ~Coming(i[2])
    BY <1>1, <1>2 DEF KeysInv, OnePlace, Coming, InRow
<1>6. QED
    BY <1>1, <1>2, <1>3, <1>4, <1>5
LEMMA ListKeyRead ==
    ASSUME ListsTypeOK, KeysInv, NEW l \in Names, NEW k \in Nat, ListKey(l) = k
    PROVE  k =< nextKey /\ ~InRow(k) /\ ~Coming(k) /\ \A n \in Names : ListKey(n) = k => n = l
    BY DEF KeysInv, OnePlace, Coming, InList

LEMMA WithdrawnSame ==
    ASSUME NEW c, NEW d, Withdrawn(c), d.op = c.op, d.items \subseteq c.items,
           Holding(d) => Holding(c) /\ d.key = c.key,
           Gathering(d) => Gathering(c)
    PROVE  Withdrawn(d)
    BY DEF Withdrawn

(* Steps that only read keys.                                               *)
LEMMA KeysOfReads ==
    ASSUME ListsTypeOK, KeysInv, NEW c \in calls, Reads(c)
    PROVE  KeysStep'
<1> USE DEF Goes, GoesTo, Ends, Stands, Holding, Gathering, Setting
<1>1. UNCHANGED <<lists, rows, repo>> /\ Turned(c)
    BY ReadsKeep, CallTurns DEF OnlyCalls, CallStep, Reads
<1>2. c.pc \notin {"clearItem", "clearList"}
    BY DEF Reads, CountByOwner, UpdateListFind, PublishMembers, Unpublish, DeleteListFind, AddMemberFind, WasReferenced,
           RemoveMemberFind, DeleteRelay
<1>3. Call(c) /\ Withdrawn(c)
    BY DEF KeysInv, ListsTypeOK, CallsOK
<1>4. ASSUME NEW d \in calls', d \notin calls
      PROVE  ~Setting(d) /\ Withdrawn(d)
  <2>1. CASE CountByOwner(c)
    <3>1. ~Setting(d) /\ ~Gathering(d) /\ ~Holding(d) /\ d.op = c.op /\ d.items = c.items
        BY <1>3, <1>4, <2>1 DEF CountByOwner, Call
    <3>2. QED
        BY <1>3, <3>1, WithdrawnSame DEF Holding, Gathering
  <2>3. CASE PublishMembers(c)
    <3>1. ~Setting(d) /\ ~Gathering(d) /\ ~Holding(d) /\ d.op = c.op /\ d.items = c.items
      <4>1. d.pc # "end" /\ \E new : d = [c EXCEPT !.new = new, !.pc = IF new = {} THEN "end" ELSE "commitItem"]
          BY <1>4, <2>3 DEF PublishMembers
      <4>2. QED
          BY <1>3, <4>1 DEF Call
    <3>2. QED
        BY <1>3, <3>1, WithdrawnSame DEF Holding, Gathering
  <2>6. CASE AddMemberFind(c)
    <3>1. ~Setting(d) /\ ~Gathering(d) /\ ~Holding(d) /\ d.op = c.op /\ d.items = c.items
      <4>1. \E new : d = [c EXCEPT !.pc = "referenced", !.new = new]
          BY <1>4, <2>6 DEF AddMemberFind
      <4>2. QED
          BY <1>3, <4>1 DEF Call
    <3>2. QED
        BY <1>3, <3>1, WithdrawnSame DEF Holding, Gathering
  <2>7. CASE WasReferenced(c)
    <3>1. ~Setting(d) /\ ~Gathering(d) /\ ~Holding(d) /\ d.op = c.op /\ d.items = c.items
        BY <1>3, <1>4, <2>7 DEF WasReferenced, Call
    <3>2. QED
        BY <1>3, <3>1, WithdrawnSame DEF Holding, Gathering
  <2>2. CASE UpdateListFind(c)
    <3>1. /\ ~Setting(d) /\ ~Gathering(d) /\ d.op = c.op /\ d.items = c.items /\ c.op.list \in Names
          /\ d.key = ListKey(c.op.list)
      <4> DEFINE row == lists[c.op.list]
      <4>1. d = [c EXCEPT !.pc = "update", !.public = row.public, !.key = row.key] /\ row # Nil /\ c.pc = "findForUpdate"
          BY <1>4, <2>2 DEF UpdateListFind
      <4>2. c.op.list \in Names
          BY <1>3, <4>1, CallFacts DEF Call, Placed
      <4>3. QED
          BY <1>3, <4>1, <4>2 DEF Call, ListKey
    <3>2. d.key \in Nat => d.key =< nextKey /\ ~InRow(d.key) /\ ~Coming(d.key) /\ \A n \in Names : ListKey(n) = d.key => n = c.op.list
        BY <3>1, ListKeyRead
    <3>3. QED
        BY <1>3, <3>1, <3>2 DEF Withdrawn
  <2>4. CASE Unpublish(c)
    <3>1. /\ ~Setting(d) /\ ~Gathering(d) /\ d.op = c.op /\ d.items = Items(c.op.list) /\ c.op.list \in Names
          /\ d.key = c.key /\ Holding(c)
      <4>1. /\ d = [c EXCEPT !.items = Items(c.op.list), !.pc = IF Items(c.op.list) = {} THEN "deleteList" ELSE "deleteItem"]
            /\ c.pc = "unpublish"
          BY <1>4, <2>4 DEF Unpublish
      <4>2. c.op.list \in Names
          BY <1>3, <4>1, CallFacts DEF Call, Placed
      <4>3. QED
          BY <1>3, <4>1, <4>2 DEF Call
    <3>2. \A i \in d.items : /\ i[2] =< nextKey /\ ~InList(i[2]) /\ ~Coming(i[2])
                              /\ \A m \in Names \X Candidates : rows[m] = i[2] => m = <<c.op.list, i[1]>>
      <4>1. \A i \in d.items : i \in Items(c.op.list)
          BY <3>1
      <4>2. QED
          BY <3>1, <4>1, ItemsRead
    <3>3. QED
        BY <1>3, <3>1, <3>2 DEF Withdrawn
  <2>5. CASE DeleteListFind(c)
    <3>1. /\ ~Setting(d) /\ ~Gathering(d) /\ d.op = c.op /\ d.items \subseteq Items(c.op.list) /\ c.op.list \in Names
          /\ d.key \in {Nil, ListKey(c.op.list)}
      <4>1. /\ c.pc = "findForDelete"
            /\ \E public, fedi, items, k :
                  /\ d = [c EXCEPT !.pc = "delete", !.public = public, !.fedi = fedi, !.items = items, !.key = k]
                  /\ items \subseteq Items(c.op.list) /\ k \in {Nil, ListKey(c.op.list)}
          BY <1>4, <2>5 DEF DeleteListFind, ListKey
      <4>2. c.op.list \in Names
          BY <1>3, <4>1, CallFacts DEF Call, Placed
      <4>3. QED
          BY <1>3, <4>1, <4>2 DEF Call
    <3>2. \A i \in d.items : /\ i[2] =< nextKey /\ ~InList(i[2]) /\ ~Coming(i[2])
                              /\ \A m \in Names \X Candidates : rows[m] = i[2] => m = <<c.op.list, i[1]>>
      <4>1. \A i \in d.items : i \in Items(c.op.list)
          BY <3>1
      <4>2. QED
          BY <3>1, <4>1, ItemsRead
    <3>3. d.key \in Nat => d.key =< nextKey /\ ~InRow(d.key) /\ ~Coming(d.key) /\ \A n \in Names : ListKey(n) = d.key => n = c.op.list
        BY <3>1, ListKeyRead
    <3>4. QED
        BY <3>1, <3>2, <3>3 DEF Withdrawn
  <2>8. CASE RemoveMemberFind(c)
    <3> DEFINE l == c.op.list  a == c.op.actor
    <3>1. /\ ~Setting(d) /\ ~Gathering(d) /\ ~Holding(d) /\ d.op = c.op /\ l \in Names /\ a \in Candidates
          /\ d.items = IF rows[<<l, a>>] \in {Out, Nil} THEN {} ELSE {<<a, rows[<<l, a>>]>>}
      <4>1. /\ c.pc = "findForRemove"
            /\ \E fedi : d = [c EXCEPT !.pc = "removeRow", !.fedi = fedi,
                                       !.items = IF rows[<<l, a>>] \in {Out, Nil} THEN {} ELSE {<<a, rows[<<l, a>>]>>}]
          BY <1>4, <2>8 DEF RemoveMemberFind
      <4>2. l \in Names /\ a \in Candidates
          BY <1>3, <4>1, CallFacts DEF Call, Placed
      <4>3. QED
          BY <1>3, <4>1, <4>2 DEF Call
    <3>2. d.items \subseteq Items(l)
        BY <3>1 DEF Items, MembersWithAtpRecord, Members
    <3>3. \A i \in d.items : /\ i[2] =< nextKey /\ ~InList(i[2]) /\ ~Coming(i[2])
                              /\ \A m \in Names \X Candidates : rows[m] = i[2] => m = <<c.op.list, i[1]>>
        BY <3>1, <3>2, ItemsRead
    <3>4. QED
        BY <3>1, <3>3 DEF Withdrawn, Holding, Gathering
  <2>9. CASE DeleteRelay(c)
      BY <1>3, <1>4, <2>9 DEF DeleteRelay, Withdrawn, Call
  <2>10. QED
      BY <2>1, <2>2, <2>3, <2>4, <2>5, <2>6, <2>7, <2>8, <2>9 DEF Reads
<1>5. \A d \in calls' : d \in calls \/ (~Setting(d) /\ Withdrawn(d)')
  <2>1. \A k \in Nat : (InList(k)' <=> InList(k)) /\ (InRow(k)' <=> InRow(k)) /\ (Coming(k)' => Coming(k))
      BY <1>1, <1>4 DEF InList, InRow, Coming, ListKey
  <2>2. ASSUME NEW d \in calls', d \notin calls
        PROVE  Withdrawn(d)'
    <3>1. Withdrawn(d) /\ Call(d)
        BY <1>4, <2>2, CallStepTypes DEF CallStep, Reads, ListsTypeOK, CallsOK
    <3>2. \A i \in d.items : i[2] \in Nat
        BY <3>1 DEF Call
    <3>3. QED
        BY <1>1, <2>1, <3>1, <3>2 DEF Withdrawn, repo, ListKey
  <2>3. QED
      BY <1>4, <2>2
<1>6. hist.stale \subseteq hist'.stale
    BY StaleOf DEF CallStep, Reads
<1>7. QED
    BY <1>1, <1>2, <1>5, <1>6, KeysFewer DEF KeysInv, KeysStep, ListKey

(* A step that takes keys out of rows, and goes on with what the call had.   *)
Behind(c, d) ==
    /\ d.op = c.op /\ d.items \subseteq c.items /\ ~Setting(d)
    /\ Holding(d) /\ d.key \in Nat => Holding(c) /\ d.key = c.key
    /\ Gathering(d) => Gathering(c) \/ ((\A i \in d.items : ~InRow(i[2])') /\ (d.key \in Nat => ~InList(d.key)'))
LEMMA KeysBehind ==
    ASSUME ListsTypeOK, KeysInv, NEW c \in calls, CallStep(c),
           \A l \in Names : ListKey(l)' \in Nat => ListKey(l)' = ListKey(l),
           \A m \in Names \X Candidates : rows'[m] \in Nat => rows'[m] = rows[m],
           UNCHANGED nextKey,
           \A d \in calls' : d \in calls \/ Behind(c, d)
    PROVE  \A d \in calls' : Withdrawn(d)'
<1>1. Turned(c) /\ ListsTypeOK'
    BY CallTurns, CallStepTypes
<1>2. \A k \in Nat : (InList(k)' => InList(k)) /\ (InRow(k)' => InRow(k)) /\ (Coming(k)' => Coming(k))
    BY DEF InList, InRow, Coming, Behind, Setting
<1>3. ASSUME NEW d \in calls', d \notin calls
      PROVE  Withdrawn(d)'
  <2>1. Withdrawn(c) /\ Behind(c, d) /\ nextKey' = nextKey
      BY <1>3 DEF KeysInv
  <2>2. (\A i \in d.items : i[2] \in Nat) /\ \A i \in c.items : i[2] \in Nat
      BY <1>1, <1>3 DEF ListsTypeOK, CallsOK, Call
  <2>3. ASSUME NEW i \in d.items
        PROVE  /\ i[2] =< nextKey' /\ ~InList(i[2])' /\ ~Coming(i[2])'
               /\ \A m \in Names \X Candidates : rows'[m] = i[2] => m = <<d.op.list, i[1]>> /\ ~Gathering(d)
    <3>1. i \in c.items /\ i[2] \in Nat
        BY <2>1, <2>2 DEF Behind
    <3>2. i[2] =< nextKey' /\ ~InList(i[2])' /\ ~Coming(i[2])'
        BY <1>2, <2>1, <3>1 DEF Withdrawn
    <3>3. ASSUME NEW m \in Names \X Candidates, rows'[m] = i[2]
          PROVE  m = <<d.op.list, i[1]>> /\ ~Gathering(d)
      <4>1. rows[m] = i[2] /\ InRow(i[2])'
          BY <3>1, <3>3 DEF InRow
      <4>2. m = <<c.op.list, i[1]>> /\ ~Gathering(c)
          BY <2>1, <3>1, <4>1 DEF Withdrawn
      <4>3. QED
          BY <2>1, <4>1, <4>2 DEF Behind
    <3>4. QED
        BY <3>2, <3>3
  <2>4. ASSUME Holding(d), d.key \in Nat
        PROVE  /\ d.key =< nextKey' /\ ~InRow(d.key)' /\ ~Coming(d.key)'
               /\ \A l \in Names : ListKey(l)' = d.key => l = d.op.list /\ ~Gathering(d)
    <3>1. Holding(c) /\ d.key = c.key /\ d.op = c.op
        BY <2>1, <2>4 DEF Behind
    <3>2. d.key =< nextKey' /\ ~InRow(d.key)' /\ ~Coming(d.key)'
        BY <1>2, <2>1, <2>4, <3>1 DEF Withdrawn
    <3>3. ASSUME NEW l \in Names, ListKey(l)' = d.key
          PROVE  l = d.op.list /\ ~Gathering(d)
      <4>1. ListKey(l) = c.key /\ InList(d.key)'
          BY <2>4, <3>1, <3>3 DEF InList
      <4>2. l = c.op.list /\ ~Gathering(c)
          BY <2>1, <2>4, <3>1, <4>1 DEF Withdrawn
      <4>3. QED
          BY <2>1, <2>4, <3>1, <4>1, <4>2 DEF Behind
    <3>4. QED
        BY <3>2, <3>3
  <2>5. QED
      BY <2>1, <2>3, <2>4 DEF Withdrawn, Behind, Holding, Gathering
<1>4. ASSUME NEW x \in calls', x \in calls
      PROVE  Withdrawn(x)'
  <2>1. Withdrawn(x) /\ Call(x) /\ nextKey' = nextKey
      BY <1>4 DEF KeysInv, ListsTypeOK, CallsOK
  <2>2. \A i \in x.items : i[2] \in Nat
      BY <2>1 DEF Call
  <2>3. QED
      BY <1>2, <2>1, <2>2 DEF Withdrawn, Holding, Gathering
<1>5. QED
    BY <1>3, <1>4
LEMMA KeysLess ==
    ASSUME ListsTypeOK, KeysInv, NEW c \in calls, CallStep(c),
           \A l \in Names : ListKey(l)' \in Nat => ListKey(l)' = ListKey(l),
           \A m \in Names \X Candidates : rows'[m] \in Nat => rows'[m] = rows[m],
           UNCHANGED repo,
           c.pc = "clearItem" => LET k == rows'[<<c.op.list, c.actor>>] IN k \notin Nat \/ k \in records \cup hist'.stale,
           c.pc = "clearList" => LET k == ListKey(c.op.list)' IN k \notin Nat \/ k \in records \cup hist'.stale,
           \A d \in calls' : d \in calls \/ Behind(c, d)
    PROVE  KeysStep'
<1>1. Turned(c) /\ UNCHANGED nextKey /\ hist.stale \subseteq hist'.stale
    BY CallTurns, StaleOf DEF repo
<1>2. \A d \in calls' : d \in calls \/ (~Setting(d) /\ Withdrawn(d)')
    BY <1>1, KeysBehind DEF Behind
<1>3. QED
    BY <1>1, <1>2, KeysFewer DEF KeysInv, KeysStep

LEMMA ListKeysSame ==
    ASSUME UNCHANGED lists
    PROVE  \A l \in Names : ListKey(l)' \in Nat => ListKey(l)' = ListKey(l)
    BY DEF ListKey

(* A step that only takes a call further.                                   *)
Further(c, d) ==
    /\ d.op = c.op /\ d.public = c.public /\ d.key = c.key /\ d.actor = c.actor
    /\ d.new = c.new /\ d.items = c.items /\ d.fedi = c.fedi
LEMMA GoesFurther ==
    ASSUME NEW c \in calls, Call(c), NEW p, GoesTo(c, p)
    PROVE  /\ \A d \in calls' : d \in calls \/ (Further(c, d) /\ d.pc = p /\ p # "end")
           /\ p = "end" \/ \E d \in calls' : Further(c, d) /\ d.pc = p
<1> DEFINE e == [c EXCEPT !.pc = p]
<1>1. Further(c, e) /\ e.pc = p
    BY DEF Call, Further
<1>2. calls' = (calls \ {c}) \cup (IF p = "end" THEN {} ELSE {e})
    BY <1>1 DEF GoesTo, Goes
<1>3. QED
    BY <1>1, <1>2
LEMMA Passes ==
    ASSUME NEW c
    PROVE  /\ Publishing(c) => \E p \in {"end", "commitItem"} : GoesTo(c, p)
           /\ Withdraws(c, c) => \E p \in {"unfollow", "dropItem", "dropList", "end"} : GoesTo(c, p)
           /\ Ends(c) => \A d \in calls' : d \in calls
    BY DEF Publishing, Withdraws, Withdrawing, GoesTo, Ends

LEMMA FurtherBehind ==
    ASSUME NEW c, NEW d, Further(c, d), ~Setting(d), Holding(d) => Holding(c), Gathering(d) => Gathering(c)
    PROVE  Behind(c, d)
    BY DEF Further, Behind

LEMMA KeysOfLess ==
    ASSUME ListsTypeOK, KeysInv, NEW c \in calls,
           \/ CreateList(c) \/ UpdateList(c) \/ ClearMemberAtpRecord(c) \/ ClearAtpListRecord(c) \/ DeleteList(c)
           \/ AddMember(c) \/ EnqueueFollow(c) \/ RemoveMember(c) \/ MaybeUnfollowIfUnreferenced(c)
           \/ CreateRelay(c) \/ EnqueueRelay(c) \/ Breaks(c)
    PROVE  KeysStep'
<1>1. CallStep(c) /\ UNCHANGED repo
    BY DEF CallStep, CreateList, UpdateList, ClearMemberAtpRecord, ClearAtpListRecord, DeleteList, AddMember, EnqueueFollow,
           RemoveMember, MaybeUnfollowIfUnreferenced, CreateRelay, EnqueueRelay, Breaks
<1>m. Misses(c) => Clearing(c) \ records \subseteq hist'.stale
    BY DEF Misses, ListsTypeOK, BoundsOK
<1>2. /\ TablesOK /\ Call(c) /\ Withdrawn(c)
      /\ c.op.op \in {"create", "update", "delete", "add", "remove"} => c.op.list \in Names
      /\ c.op.op \in {"add", "remove"} => c.op.actor \in Candidates
    BY CallFacts DEF KeysInv
<1> USE <1>2 DEF Stands, TablesOK
<1>3. CASE CreateList(c)
  <2>1. c.op.op = "create" /\ c.pc = "insert"
      BY <1>3 DEF CreateList, Call, Placed
  <2>2. \A l \in Names : ListKey(l)' \in Nat => ListKey(l)' = ListKey(l)
      BY <1>3, <2>1 DEF CreateList, ListKey
  <2>3. \A d \in calls' : d \in calls \/ (Further(c, d) /\ d.pc = "commitList")
      BY <1>3, GoesFurther, Passes DEF CreateList
  <2>4. \A d \in calls' : d \in calls \/ Behind(c, d)
      BY <2>3, FurtherBehind DEF Setting, Holding, Gathering
  <2>5. QED
      BY <1>1, <1>3, <2>1, <2>2, <2>4, KeysLess DEF CreateList
<1>4. CASE UpdateList(c)
  <2>1. c.op.op = "update" /\ c.pc = "update"
      BY <1>4 DEF UpdateList, Call, Placed
  <2>2. \A l \in Names : ListKey(l)' \in Nat => ListKey(l)' = ListKey(l)
      BY <1>4, <2>1 DEF UpdateList, ListKey, ListRows
  <2>3. \A d \in calls' : d \in calls \/ (Further(c, d) /\ d.pc \in {"commitList", "unpublish"})
      BY <1>4, GoesFurther, Passes DEF UpdateList
  <2>4. \A d \in calls' : d \in calls \/ Behind(c, d)
      BY <2>1, <2>3, FurtherBehind DEF Setting, Holding, Gathering
  <2>5. QED
      BY <1>1, <1>4, <2>1, <2>2, <2>4, KeysLess DEF UpdateList
<1>5. CASE ClearMemberAtpRecord(c)
  <2>1. c.op.op = "update" /\ c.pc = "clearItem" /\ c.actor \in Candidates /\ <<c.op.list, c.actor>> \in Names \X Candidates
      BY <1>5 DEF ClearMemberAtpRecord, Call, Placed
  <2>2. /\ \A m \in Names \X Candidates : rows'[m] \in Nat => rows'[m] = rows[m]
        /\ LET k == rows'[<<c.op.list, c.actor>>] IN k \notin Nat \/ k \in records \cup hist'.stale
      BY <1>5, <2>1, <1>m DEF ClearMemberAtpRecord, Clearing
  <2>3. \A d \in calls' : d \in calls \/ (Further(c, d) /\ d.pc \in {"deleteList", "deleteItem"})
      BY <1>5, GoesFurther, Passes DEF ClearMemberAtpRecord
  <2>4. \A d \in calls' : d \in calls \/ Behind(c, d)
      BY <2>1, <2>3, FurtherBehind DEF Setting, Holding, Gathering
  <2>5. QED
      BY <1>1, <1>5, <2>1, <2>2, <2>4, ListKeysSame, KeysLess DEF ClearMemberAtpRecord
<1>6. CASE ClearAtpListRecord(c)
  <2>1. c.op.op = "update" /\ c.pc = "clearList"
      BY <1>6 DEF ClearAtpListRecord, Call, Placed
  <2>2. \A l \in Names : ListKey(l)' \in Nat => ListKey(l)' = ListKey(l)
      BY <1>6, <2>1 DEF ClearAtpListRecord, ListKey, ListRows
  <2>5. LET k == ListKey(c.op.list)' IN k \notin Nat \/ k \in records \cup hist'.stale
    <3>1. CASE Misses(c) /\ UNCHANGED lists
        BY <2>1, <3>1, <1>m DEF Clearing, ListKey
    <3>2. CASE ~(Misses(c) /\ UNCHANGED lists)
        BY <1>6, <2>1, <3>2 DEF ClearAtpListRecord, ListKey, ListRows
    <3>3. QED
        BY <3>1, <3>2
  <2>3. \A d \in calls' : d \in calls
      BY <1>6 DEF ClearAtpListRecord, Ends
  <2>4. QED
      BY <1>1, <1>6, <2>1, <2>2, <2>3, <2>5, KeysLess DEF ClearAtpListRecord
<1>7. CASE DeleteList(c)
  <2>1. c.op.op = "delete" /\ c.pc = "delete" /\ c.op.list \in Names
      BY <1>7 DEF DeleteList, Call, Placed
  <2>2. CASE UNCHANGED <<lists, rows>> /\ Ends(c)
      BY <1>1, <2>1, <2>2, ListKeysSame, KeysLess DEF Ends
  <2>3. CASE ~(UNCHANGED <<lists, rows>> /\ Ends(c))
    <3>1. /\ lists' = [lists EXCEPT ![c.op.list] = Nil] /\ Withdraws(c, c)
          /\ rows' = [m \in DOMAIN rows |-> IF m[1] = c.op.list THEN Out ELSE rows[m]]
        BY <1>7, <2>3 DEF DeleteList
    <3>2. \A l \in Names : ListKey(l)' = IF l = c.op.list THEN Nil ELSE ListKey(l)
        BY <3>1, <2>1 DEF ListKey
    <3>3. \A m \in Names \X Candidates : rows'[m] = IF m[1] = c.op.list THEN Out ELSE rows[m]
        BY <3>1
    <3>4. \A d \in calls' : d \in calls \/ (Further(c, d) /\ d.pc \in {"unfollow", "dropItem", "dropList"})
        BY <3>1, GoesFurther, Passes
    <3>5. \A i \in c.items : ~InRow(i[2])'
      <4>1. ASSUME NEW i \in c.items, NEW m \in Names \X Candidates, rows'[m] = i[2]
            PROVE  FALSE
        <5>1. i[2] \in Nat
            BY DEF Call
        <5>2. rows[m] = i[2] /\ m[1] # c.op.list
            BY <3>3, <4>1, <5>1
        <5>3. QED
            BY <4>1, <5>2 DEF Withdrawn
      <4>2. QED
          BY <4>1 DEF InRow
    <3>6. c.key \in Nat => ~InList(c.key)'
        BY <2>1, <3>2 DEF InList, Withdrawn, Holding
    <3>7. \A d \in calls' : d \in calls \/ Behind(c, d)
        BY <2>1, <3>4, <3>5, <3>6 DEF Behind, Further, Setting, Holding, Gathering
    <3>8. QED
        BY <1>1, <2>1, <3>2, <3>3, <3>7, KeysLess
  <2>4. QED
      BY <2>2, <2>3
<1>8. CASE AddMember(c)
  <2>1. c.op.op = "add" /\ c.pc = "addRow"
      BY <1>8 DEF AddMember, Call, Placed
  <2>2. \A m \in Names \X Candidates : rows'[m] \in Nat => rows'[m] = rows[m]
      BY <1>8, <2>1 DEF AddMember
  <2>3. \A d \in calls' : d \in calls \/ (Further(c, d) /\ d.pc \in {"follow", "commitItem"})
      BY <1>8, GoesFurther, Passes DEF AddMember
  <2>4. \A d \in calls' : d \in calls \/ Behind(c, d)
      BY <2>1, <2>3, FurtherBehind DEF Setting, Holding, Gathering
  <2>5. QED
      BY <1>1, <1>8, <2>1, <2>2, <2>4, ListKeysSame, KeysLess DEF AddMember
<1>9. CASE EnqueueFollow(c)
  <2>1. c.pc = "follow" /\ UNCHANGED <<lists, rows>>
      BY <1>9 DEF EnqueueFollow, Call, Placed
  <2>2. \A d \in calls' : d \in calls \/ (Further(c, d) /\ d.pc = "commitItem")
      BY <1>9, GoesFurther, Passes DEF EnqueueFollow
  <2>3. \A d \in calls' : d \in calls \/ Behind(c, d)
      BY <2>1, <2>2, FurtherBehind DEF Setting, Holding, Gathering
  <2>4. QED
      BY <1>1, <2>1, <2>3, ListKeysSame, KeysLess
<1>10. CASE RemoveMember(c)
  <2>1. /\ c.op.op = "remove" /\ c.pc = "removeRow" /\ c.key = Nil /\ UNCHANGED lists
        /\ \A i \in c.items : i[1] = c.op.actor
      BY <1>10 DEF RemoveMember, Call, Placed
  <2>2. <<c.op.list, c.op.actor>> \in Names \X Candidates
      BY <2>1
  <2>3. \A m \in Names \X Candidates : rows'[m] \in Nat => rows'[m] = rows[m] /\ m # <<c.op.list, c.op.actor>>
      BY <1>10, <2>2 DEF RemoveMember
  <2>4. \A i \in c.items : ~InRow(i[2])'
    <3>1. ASSUME NEW i \in c.items, NEW m \in Names \X Candidates, rows'[m] = i[2]
          PROVE  FALSE
      <4>1. i[2] \in Nat
          BY DEF Call
      <4>2. rows[m] = i[2] /\ m # <<c.op.list, i[1]>>
          BY <2>1, <2>3, <3>1, <4>1
      <4>3. QED
          BY <3>1, <4>2 DEF Withdrawn
    <3>2. QED
        BY <3>1 DEF InRow
  <2>5. \A d \in calls' : d \in calls \/ (Further(c, d) /\ d.pc \in {"unfollow", "dropItem", "dropList"})
      BY <1>10, GoesFurther, Passes DEF RemoveMember
  <2>6. \A d \in calls' : d \in calls \/ Behind(c, d)
      BY <2>1, <2>4, <2>5 DEF Behind, Further, Setting
  <2>7. QED
      BY <1>1, <2>1, <2>3, <2>6, ListKeysSame, KeysLess
<1>11. CASE MaybeUnfollowIfUnreferenced(c)
  <2>1. c.pc = "unfollow" /\ UNCHANGED <<lists, rows>>
      BY <1>11 DEF MaybeUnfollowIfUnreferenced
  <2>2. \A d \in calls' : d \in calls \/ \E f, p : d = [[c EXCEPT !.fedi = f] EXCEPT !.pc = p] /\ p \in {"unfollow", "dropItem", "dropList"}
      BY <1>11 DEF MaybeUnfollowIfUnreferenced, Withdraws, Withdrawing, Goes, Call
  <2>3. \A d \in calls' : d \in calls \/ (d.op = c.op /\ d.key = c.key /\ d.items = c.items /\ d.pc \in {"unfollow", "dropItem", "dropList"})
      BY <2>2 DEF Call
  <2>4. \A d \in calls' : d \in calls \/ Behind(c, d)
      BY <2>1, <2>3 DEF Behind, Setting, Holding, Gathering
  <2>5. QED
      BY <1>1, <2>1, <2>4, ListKeysSame, KeysLess
<1>12. CASE CreateRelay(c) \/ EnqueueRelay(c)
  <2>1. UNCHANGED <<lists, rows>> /\ c.pc \in {"insertRelay", "enqueueRelay"}
      BY <1>12 DEF CreateRelay, EnqueueRelay
  <2>2. \A d \in calls' : d \in calls \/ (Further(c, d) /\ d.pc = "enqueueRelay")
      BY <1>12, GoesFurther, Passes DEF CreateRelay, EnqueueRelay
  <2>3. \A d \in calls' : d \in calls \/ Behind(c, d)
      BY <2>1, <2>2, FurtherBehind DEF Setting, Holding, Gathering
  <2>4. QED
      BY <1>1, <2>1, <2>3, ListKeysSame, KeysLess
<1>14. CASE Breaks(c)
  <2>1. UNCHANGED <<lists, rows>> /\ (\A d \in calls' : d \in calls) /\ Misses(c)
      BY <1>14 DEF Breaks, Ends
  <2>2. c.pc = "clearItem" => LET k == rows'[<<c.op.list, c.actor>>] IN k \notin Nat \/ k \in records \cup hist'.stale
      BY <2>1, <1>m DEF Clearing
  <2>3. c.pc = "clearList" => LET k == ListKey(c.op.list)' IN k \notin Nat \/ k \in records \cup hist'.stale
      BY <2>1, <1>m DEF Clearing, ListKey
  <2>4. QED
      BY <1>1, <2>1, <2>2, <2>3, ListKeysSame, KeysLess
<1>13. QED
    BY <1>3, <1>4, <1>5, <1>6, <1>7, <1>8, <1>9, <1>10, <1>11, <1>12, <1>14

(* A record is committed under a new key, the row does not have it yet.      *)
LEMMA KeysDrawn ==
    ASSUME ListsTypeOK, KeysInv, NEW c \in calls, Drawn, UNCHANGED <<lists, rows>>, c.pc \notin {"clearItem", "clearList"},
           NEW d, calls' = (calls \ {c}) \cup {d}, Setting(d), d.key = nextKey + 1, d.op = c.op, d.items = c.items,
           hist.stale \subseteq hist'.stale
    PROVE  KeysStep'
<1>1. nextKey \in Nat /\ nextKey' = nextKey + 1 /\ records' = records \cup {nextKey + 1} /\ records \subseteq 1 .. nextKey
    BY DEF Drawn, ListsTypeOK, TablesOK
<1>2. \A l \in Names : ListKey(l)' = ListKey(l) /\ ListKey(l) \in Nat \cup {Nil}
    BY DEF ListKey, ListsTypeOK, TablesOK, ListRows
<1>3. \A m \in Names \X Candidates : rows'[m] = rows[m] /\ rows[m] \in Nat \cup {Nil, Out}
    BY DEF ListsTypeOK, TablesOK
<1>4. \A k \in Nat : (InList(k)' <=> InList(k)) /\ (InRow(k)' <=> InRow(k)) /\ (Coming(k)' => Coming(k) \/ k = nextKey + 1)
    BY <1>2, <1>3 DEF InList, InRow, Coming
<1>5. ~InList(nextKey + 1) /\ ~InRow(nextKey + 1)
    BY <1>1, <1>2, <1>3 DEF KeysInv, OnePlace, InList, InRow
<1>6. \A x \in calls : Setting(x) => x.key \in records /\ x.key \in Nat /\ x.key =< nextKey
  <2>1. \A x \in calls : Setting(x) => x.key \in records
      BY DEF KeysInv, OnePlace
  <2>2. \A k \in records : k \in Nat /\ k =< nextKey
      BY <1>1
  <2>3. QED
      BY <2>1, <2>2
<1>7. OnePlace'
  <2>1. \A l \in Names : ListKey(l)' \in Nat => ListKey(l)' =< nextKey' /\ ~InRow(ListKey(l))'
    <3>1. ASSUME NEW l \in Names, ListKey(l)' \in Nat
          PROVE  ListKey(l) \in Nat /\ ListKey(l)' = ListKey(l) /\ ListKey(l) =< nextKey /\ ~InRow(ListKey(l))
        BY <1>2, <3>1 DEF KeysInv, OnePlace
    <3>2. ASSUME NEW l \in Names, ListKey(l)' \in Nat
          PROVE  ListKey(l)' =< nextKey' /\ ~\E m \in Names \X Candidates : rows'[m] = ListKey(l)'
        BY <1>1, <1>3, <3>1, <3>2 DEF InRow
    <3>3. QED
        BY <3>2 DEF InRow
  <2>2. \A l, n \in Names : ListKey(l)' \in Nat /\ ListKey(l)' = ListKey(n)' => l = n
      BY <1>2 DEF KeysInv, OnePlace
  <2>3. /\ \A m \in Names \X Candidates : rows'[m] \in Nat => rows'[m] =< nextKey'
        /\ \A m, n \in Names \X Candidates : rows'[m] \in Nat /\ rows'[m] = rows'[n] => m = n
      BY <1>1, <1>3 DEF KeysInv, OnePlace
  <2>4. \A x \in calls' : Setting(x) => x.key \in records' /\ ~InList(x.key)' /\ ~InRow(x.key)'
      BY <1>1, <1>4, <1>5, <1>6 DEF KeysInv, OnePlace
  <2>5. \A x, y \in calls' : Setting(x) /\ Setting(y) /\ x.key = y.key => x = y
      BY <1>1, <1>6 DEF KeysInv, OnePlace
  <2>6. QED
      BY <2>1, <2>2, <2>3, <2>4, <2>5 DEF OnePlace, Setting
<1>8. ASSUME NEW x \in calls'
      PROVE  Withdrawn(x)'
  <2>1. PICK y \in calls : x.op = y.op /\ x.items = y.items /\ (Holding(x) => Holding(y) /\ x.key = y.key) /\ (Gathering(x) => Gathering(y))
      BY <1>8 DEF Setting, Holding, Gathering
  <2>2. Withdrawn(y) /\ \A i \in y.items : i[2] \in Nat
      BY <2>1 DEF KeysInv, ListsTypeOK, CallsOK, Call
  <2>3. \A i \in x.items :
            /\ i[2] =< nextKey' /\ ~InList(i[2])' /\ ~Coming(i[2])'
            /\ \A m \in Names \X Candidates : rows'[m] = i[2] => m = <<x.op.list, i[1]>> /\ ~Gathering(x)
      BY <1>1, <1>3, <1>4, <2>1, <2>2 DEF Withdrawn
  <2>4. Holding(x) /\ x.key \in Nat =>
            /\ x.key =< nextKey' /\ ~InRow(x.key)' /\ ~Coming(x.key)'
            /\ \A l \in Names : ListKey(l)' = x.key => l = x.op.list /\ ~Gathering(x)
      BY <1>1, <1>2, <1>4, <2>1, <2>2 DEF Withdrawn
  <2>5. QED
      BY <2>3, <2>4 DEF Withdrawn, Holding, Gathering
<1>9. Named'
    BY <1>1, <1>2, <1>3 DEF KeysInv, Named
<1>10. QED
    BY <1>7, <1>8, <1>9 DEF KeysStep
LEMMA KeysOfCommits ==
    ASSUME ListsTypeOK, KeysInv, NEW c \in calls, PublishListToAtp(c) \/ MaybePublishListitem(c)
    PROVE  KeysStep'
<1>1. CallStep(c) /\ Call(c) /\ UNCHANGED <<lists, rows>> /\ c.pc \in {"commitList", "commitItem"}
    BY CallFacts DEF CallStep, PublishListToAtp, MaybePublishListitem, Stands
<1>2. CASE Drawn
  <2>1. \/ Goes(c, [c EXCEPT !.pc = "setList", !.key = nextKey + 1])
        \/ \E a, rest : Goes(c, [c EXCEPT !.pc = "setItem", !.key = nextKey + 1, !.actor = a, !.new = rest])
        \/ UNCHANGED repo
      BY <1>1, <1>2 DEF PublishListToAtp, MaybePublishListitem
  <2>2. ~UNCHANGED repo
      BY <1>2 DEF Drawn, repo, ListsTypeOK, TablesOK
  <2>3. PICK d : Goes(c, d) /\ (d = [c EXCEPT !.pc = "setList", !.key = nextKey + 1]
                   \/ \E a, rest : d = [c EXCEPT !.pc = "setItem", !.key = nextKey + 1, !.actor = a, !.new = rest])
      BY <2>1, <2>2
  <2>4. Setting(d) /\ d.key = nextKey + 1 /\ d.op = c.op /\ d.items = c.items
      BY <1>1, <2>3 DEF Call, Setting
  <2>5. calls' = (calls \ {c}) \cup {d}
      BY <2>3, <2>4 DEF Goes, Setting
  <2>6. QED
      BY <1>1, <1>2, <2>4, <2>5, StaleOf, KeysDrawn
<1>3. CASE ~Drawn
  <2>1. /\ UNCHANGED repo
        /\ \/ \E p \in {"items", "end"} : GoesTo(c, p)
           \/ \E p \in {"end", "commitItem"} : \E rest : Goes(c, [c EXCEPT !.pc = p, !.new = rest])
      BY <1>1, <1>3 DEF PublishListToAtp, MaybePublishListitem, AfterList
  <2>2. CASE \E p \in {"items", "end"} : GoesTo(c, p)
    <3>1. \A d \in calls' : d \in calls \/ Behind(c, d)
        BY <1>1, <2>2, GoesFurther, FurtherBehind DEF Setting, Holding, Gathering
    <3>2. QED
        BY <1>1, <2>1, <3>1, ListKeysSame, KeysLess
  <2>3. CASE \E p \in {"end", "commitItem"} : \E rest : Goes(c, [c EXCEPT !.pc = p, !.new = rest])
    <3>1. PICK p \in {"end", "commitItem"} : \E rest : Goes(c, [c EXCEPT !.pc = p, !.new = rest])
        BY <2>3
    <3>2. PICK rest : Goes(c, [c EXCEPT !.pc = p, !.new = rest])
        BY <3>1
    <3>3. PICK e : e = [c EXCEPT !.pc = p, !.new = rest]
        OBVIOUS
    <3>4. e.op = c.op /\ e.items = c.items /\ e.pc = p
        BY <1>1, <3>3 DEF Call
    <3>5. \A d \in calls' : d \in calls \/ (d = e /\ p = "commitItem")
        BY <3>1, <3>2, <3>3, <3>4 DEF Goes
    <3>6. \A d \in calls' : d \in calls \/ Behind(c, d)
        BY <3>4, <3>5 DEF Behind, Setting, Holding, Gathering
    <3>7. QED
        BY <1>1, <2>1, <3>6, ListKeysSame, KeysLess
  <2>4. QED
      BY <2>1, <2>2, <2>3
<1>4. QED
    BY <1>2, <1>3

(* The key drawn comes into its row.                                        *)
LEMMA KeysSet ==
    ASSUME ListsTypeOK, KeysInv, NEW c \in calls, Setting(c), UNCHANGED repo, NEW L, NEW M, hist.stale \subseteq hist'.stale,
           \A l \in Names : ListKey(l)' \in Nat => ListKey(l)' = ListKey(l) \/ (l = L /\ ListKey(l)' = c.key),
           \A m \in Names \X Candidates : rows'[m] \in Nat => rows'[m] = rows[m] \/ (m = M /\ rows'[m] = c.key),
           UNCHANGED lists \/ UNCHANGED rows,
           \A d \in calls' : d \in calls \/ (~Setting(d) /\ ~Holding(d) /\ d.op = c.op /\ d.items = c.items),
           \A d \in calls : d = c \/ d \in calls', c \notin calls'
    PROVE  KeysStep'
<1>1. nextKey' = nextKey /\ records' = records /\ c.key \in records /\ c.key \in Nat /\ c.key =< nextKey
  <2>1. c.key \in records
      BY DEF KeysInv, OnePlace
  <2>2. \A k \in records : k \in Nat /\ k =< nextKey
      BY DEF ListsTypeOK, TablesOK
  <2>3. QED
      BY <2>1, <2>2 DEF repo
<1>2. \A k \in Nat : k # c.key => (InList(k)' => InList(k)) /\ (InRow(k)' => InRow(k))
    BY DEF InList, InRow
<1>3. \A k \in Nat : Coming(k)' => Coming(k) /\ k # c.key
    BY DEF KeysInv, OnePlace, Coming
<1>4. ~InList(c.key) /\ ~InRow(c.key)
    BY DEF KeysInv, OnePlace
<1>5. ~(InList(c.key)' /\ InRow(c.key)')
  <2>1. CASE UNCHANGED lists
      BY <1>4, <2>1 DEF InList, ListKey
  <2>2. CASE UNCHANGED rows
      BY <1>4, <2>2 DEF InRow
  <2>3. QED
      BY <2>1, <2>2
<1>6. OnePlace'
  <2>1. ASSUME NEW l \in Names, ListKey(l)' \in Nat
        PROVE  ListKey(l)' =< nextKey' /\ ~InRow(ListKey(l))'
    <3>1. CASE ListKey(l)' = c.key
        BY <1>1, <1>5, <2>1, <3>1 DEF InList
    <3>2. CASE ListKey(l)' # c.key
        BY <1>1, <1>2, <2>1, <3>2 DEF KeysInv, OnePlace
    <3>3. QED
        BY <3>1, <3>2
  <2>2. \A l, n \in Names : ListKey(l)' \in Nat /\ ListKey(l)' = ListKey(n)' => l = n
      BY <1>4 DEF KeysInv, OnePlace, InList
  <2>3. /\ \A m \in Names \X Candidates : rows'[m] \in Nat => rows'[m] =< nextKey'
        /\ \A m, n \in Names \X Candidates : rows'[m] \in Nat /\ rows'[m] = rows'[n] => m = n
      BY <1>1, <1>4 DEF KeysInv, OnePlace, InRow
  <2>4. \A x \in calls' : Setting(x) => x \in calls /\ x.key \in Nat /\ x.key # c.key
      BY DEF KeysInv, OnePlace, ListsTypeOK, CallsOK, Call
  <2>5. \A x \in calls' : Setting(x) => x.key \in records' /\ ~InList(x.key)' /\ ~InRow(x.key)'
      BY <1>1, <1>2, <2>4 DEF KeysInv, OnePlace
  <2>6. \A x, y \in calls' : Setting(x) /\ Setting(y) /\ x.key = y.key => x = y
      BY <2>4 DEF KeysInv, OnePlace
  <2>7. QED
      BY <2>1, <2>2, <2>3, <2>5, <2>6 DEF OnePlace, Setting
<1>7. ASSUME NEW x \in calls'
      PROVE  Withdrawn(x)'
  <2>1. PICK y \in calls : x.op = y.op /\ x.items = y.items /\ (Holding(x) => Holding(y) /\ x.key = y.key) /\ (Gathering(x) => Gathering(y))
      BY <1>7 DEF Holding, Gathering
  <2>2. Withdrawn(y) /\ (\A i \in y.items : i[2] \in Nat) /\ \A k \in Nat : ~Coming(k) => k # c.key
      BY <2>1 DEF KeysInv, ListsTypeOK, CallsOK, Call, Coming
  <2>3. ASSUME NEW i \in x.items
        PROVE  /\ i[2] =< nextKey' /\ ~InList(i[2])' /\ ~Coming(i[2])'
               /\ \A m \in Names \X Candidates : rows'[m] = i[2] => m = <<x.op.list, i[1]>> /\ ~Gathering(x)
    <3>1. i[2] \in Nat /\ i[2] # c.key /\ i[2] =< nextKey /\ ~InList(i[2]) /\ ~Coming(i[2])
        BY <2>1, <2>2 DEF Withdrawn
    <3>2. \A m \in Names \X Candidates : rows'[m] = i[2] => rows[m] = i[2]
        BY <3>1
    <3>3. QED
        BY <1>1, <1>2, <1>3, <2>1, <2>2, <3>1, <3>2 DEF Withdrawn
  <2>4. ASSUME Holding(x), x.key \in Nat
        PROVE  /\ x.key =< nextKey' /\ ~InRow(x.key)' /\ ~Coming(x.key)'
               /\ \A l \in Names : ListKey(l)' = x.key => l = x.op.list /\ ~Gathering(x)
    <3>1. x.key # c.key /\ x.key =< nextKey /\ ~InRow(x.key) /\ ~Coming(x.key)
        BY <2>1, <2>2, <2>4 DEF Withdrawn
    <3>2. \A l \in Names : ListKey(l)' = x.key => ListKey(l) = x.key
        BY <2>4, <3>1
    <3>3. QED
        BY <1>1, <1>2, <1>3, <2>1, <2>2, <2>4, <3>1, <3>2 DEF Withdrawn
  <2>5. QED
      BY <2>3, <2>4 DEF Withdrawn, Holding, Gathering
<1>8. Named'
    BY <1>1 DEF KeysInv, Named, Setting
<1>9. QED
    BY <1>6, <1>7, <1>8 DEF KeysStep
LEMMA KeysOfSets ==
    ASSUME ListsTypeOK, KeysInv, NEW c \in calls, SetAtpListRecord(c) \/ SetMemberAtpRecord(c)
    PROVE  KeysStep'
<1>1. /\ Call(c) /\ UNCHANGED repo /\ Setting(c) /\ c.op.list \in Names /\ c.key \in Nat
      /\ UNCHANGED lists \/ UNCHANGED rows
    BY CallFacts DEF SetAtpListRecord, SetMemberAtpRecord, Stands, Setting, Call, Placed
<1>s. hist.stale \subseteq hist'.stale
    BY StaleOf DEF CallStep
<1>2. \E p \in {"items", "commitItem", "end"} : GoesTo(c, p)
    BY Passes DEF SetAtpListRecord, SetMemberAtpRecord, AfterList
<1>3. PICK p \in {"items", "commitItem", "end"} : GoesTo(c, p)
    BY <1>2
<1>4. \A d \in calls' : d \in calls \/ (~Setting(d) /\ ~Holding(d) /\ d.op = c.op /\ d.items = c.items)
    BY <1>1, <1>3, GoesFurther DEF Further, Setting, Holding, Gathering
<1>5. (\A d \in calls : d = c \/ d \in calls') /\ c \notin calls'
    BY <1>1, <1>3 DEF GoesTo, Goes, Call, Setting
<1>6. CASE SetAtpListRecord(c)
  <2>1. \A l \in Names : ListKey(l)' \in Nat => ListKey(l)' = ListKey(l) \/ (l = c.op.list /\ ListKey(l)' = c.key)
      BY <1>1, <1>6, CallFacts DEF SetAtpListRecord, ListKey, TablesOK, ListRows
  <2>2. UNCHANGED rows
      BY <1>6 DEF SetAtpListRecord
  <2>3. QED
      BY <1>1, <1>4, <1>5, <1>s, <2>1, <2>2, KeysSet
<1>7. CASE SetMemberAtpRecord(c)
  <2>1. \A m \in Names \X Candidates : rows'[m] \in Nat => rows'[m] = rows[m] \/ (m = <<c.op.list, c.actor>> /\ rows'[m] = c.key)
      BY <1>1, <1>7, CallFacts DEF SetMemberAtpRecord, TablesOK
  <2>2. UNCHANGED lists
      BY <1>7 DEF SetMemberAtpRecord
  <2>3. QED
      BY <1>1, <1>4, <1>5, <1>s, <2>1, <2>2, ListKeysSame, KeysSet
<1>8. QED
    BY <1>6, <1>7

(* A record is deleted that no row names any more, or whose row is next.     *)
LEMMA KeysDeleted ==
    ASSUME ListsTypeOK, KeysInv, NEW c \in calls, CallStep(c), UNCHANGED <<lists, rows, nextKey>>, NEW k,
           records' = records \ {k}, c.pc \notin {"clearItem", "clearList"}, k \in Nat => ~Coming(k),
           \A m \in Names \X Candidates : rows[m] = k /\ k \in Nat => \E d \in calls' : d.pc = "clearItem" /\ m = <<d.op.list, d.actor>>,
           \A l \in Names : ListKey(l) = k /\ k \in Nat => \E d \in calls' : d.pc = "clearList" /\ l = d.op.list,
           \A d \in calls' : d \in calls \/ Behind(c, d)
    PROVE  KeysStep'
<1>1. Turned(c) /\ (\A l \in Names : ListKey(l)' = ListKey(l)) /\ \A d \in calls : d = c \/ d \in calls'
    BY CallTurns DEF Turned, ListKey
<1>2. \A d \in calls' : Withdrawn(d)'
    BY <1>1, KeysBehind
<1>3. OnePlace'
  <2>1. \A l \in Names : ListKey(l)' \in Nat => ListKey(l)' =< nextKey' /\ ~InRow(ListKey(l))'
    <3>1. ASSUME NEW l \in Names, ListKey(l)' \in Nat
          PROVE  ListKey(l)' =< nextKey' /\ ~\E m \in Names \X Candidates : rows'[m] = ListKey(l)'
        BY <1>1, <3>1 DEF KeysInv, OnePlace, InRow
    <3>2. QED
        BY <3>1 DEF InRow
  <2>2. \A l, n \in Names : ListKey(l)' \in Nat /\ ListKey(l)' = ListKey(n)' => l = n
      BY <1>1 DEF KeysInv, OnePlace
  <2>3. /\ \A m \in Names \X Candidates : rows'[m] \in Nat => rows'[m] =< nextKey'
        /\ \A m, n \in Names \X Candidates : rows'[m] \in Nat /\ rows'[m] = rows'[n] => m = n
      BY DEF KeysInv, OnePlace
  <2>4. \A x \in calls' : Setting(x) => x \in calls /\ x.key \in Nat /\ x.key # k
    <3>1. \A x \in calls' : Setting(x) => x \in calls
        BY DEF Behind
    <3>2. \A x \in calls : Setting(x) => x.key \in Nat /\ Coming(x.key)
        BY DEF Coming, ListsTypeOK, CallsOK, Call
    <3>3. QED
        BY <3>1, <3>2
  <2>5. \A x \in calls' : Setting(x) => x.key \in records' /\ ~InList(x.key)' /\ ~InRow(x.key)'
      BY <1>1, <2>4 DEF KeysInv, OnePlace, InList, InRow
  <2>6. \A x, y \in calls' : Setting(x) /\ Setting(y) /\ x.key = y.key => x = y
      BY <2>4 DEF KeysInv, OnePlace
  <2>7. QED
      BY <2>1, <2>2, <2>3, <2>5, <2>6 DEF OnePlace, Setting
<1>4. Named'
    BY <1>1, StaleOf DEF KeysInv, Named
<1>5. QED
    BY <1>2, <1>3, <1>4 DEF KeysStep

LEMMA KeysOfDeletes ==
    ASSUME ListsTypeOK, KeysInv, NEW c \in calls, UnpublishListFromAtp(c) \/ DropRecord(c)
    PROVE  KeysStep'
<1>1. /\ CallStep(c) /\ Call(c) /\ Withdrawn(c) /\ UNCHANGED <<lists, rows, nextKey>>
      /\ c.pc \in {"deleteItem", "deleteList", "dropItem", "dropList"}
    BY CallFacts DEF KeysInv, CallStep, UnpublishListFromAtp, DropRecord, Stands
<1> USE <1>1
<1>2. CASE c.pc = "deleteItem"
  <2>1. PICK i \in c.items : Deletes(i[2]) /\ Goes(c, [c EXCEPT !.pc = "clearItem", !.actor = i[1], !.items = @ \ {i}])
      BY <1>2 DEF UnpublishListFromAtp, DropRecord, Stands
  <2>2. PICK d : d = [c EXCEPT !.pc = "clearItem", !.actor = i[1], !.items = @ \ {i}]
      OBVIOUS
  <2>3. d.pc = "clearItem" /\ d.op = c.op /\ d.actor = i[1] /\ d.items \subseteq c.items /\ d.key = c.key
      BY <2>2 DEF Call
  <2>4. calls' = (calls \ {c}) \cup {d}
      BY <2>1, <2>2, <2>3 DEF Goes
  <2>5. Behind(c, d)
      BY <1>2, <2>3 DEF Behind, Setting, Holding, Gathering
  <2>6. /\ ~InList(i[2]) /\ ~Coming(i[2])
        /\ \A m \in Names \X Candidates : rows[m] = i[2] => m = <<c.op.list, i[1]>>
      BY <2>1 DEF Withdrawn
  <2>7. CASE records' = records \ {i[2]}
      BY <1>2, <2>3, <2>4, <2>5, <2>6, <2>7, KeysDeleted DEF InList
  <2>8. CASE UNCHANGED records
      BY <1>2, <2>4, <2>5, <2>8, ListKeysSame, KeysLess DEF repo
  <2>9. QED
      BY <2>1, <2>7, <2>8 DEF Deletes
<1>3. CASE c.pc = "dropItem"
  <2>1. PICK i \in c.items : Deletes(i[2]) /\ Withdraws(c, [c EXCEPT !.items = @ \ {i}])
      BY <1>3 DEF UnpublishListFromAtp, DropRecord, Stands
  <2>2. \A d \in calls' : d \in calls \/ \E s, p : /\ d = [[c EXCEPT !.items = s] EXCEPT !.pc = p]
                                              /\ s \subseteq c.items /\ p \in {"unfollow", "dropItem", "dropList"}
      BY <2>1 DEF Withdraws, Withdrawing, Goes, Call
  <2>3. \A d \in calls' : d \in calls \/ (d.op = c.op /\ d.items \subseteq c.items /\ d.key = c.key /\ d.pc \in {"unfollow", "dropItem", "dropList"})
    <3>1. ASSUME NEW d \in calls', d \notin calls
          PROVE  d.op = c.op /\ d.items \subseteq c.items /\ d.key = c.key /\ d.pc \in {"unfollow", "dropItem", "dropList"}
      <4>1. PICK s, p : /\ d = [[c EXCEPT !.items = s] EXCEPT !.pc = p]
                        /\ s \subseteq c.items /\ p \in {"unfollow", "dropItem", "dropList"}
          BY <2>2, <3>1
      <4>2. DOMAIN c = {"op", "pc", "public", "key", "actor", "new", "items", "fedi"}
          BY DEF Call
      <4>3. QED
          BY <4>1, <4>2
    <3>2. QED
        BY <3>1
  <2>4. \A d \in calls' : d \in calls \/ Behind(c, d)
      BY <1>3, <2>3 DEF Behind, Setting, Holding, Gathering
  <2>5. ~InList(i[2]) /\ ~Coming(i[2]) /\ \A m \in Names \X Candidates : rows[m] # i[2]
      BY <1>3, <2>1 DEF Withdrawn, Gathering
  <2>6. CASE records' = records \ {i[2]}
      BY <1>3, <2>4, <2>5, <2>6, KeysDeleted DEF InList
  <2>7. CASE UNCHANGED records
      BY <1>3, <2>4, <2>7, ListKeysSame, KeysLess DEF repo
  <2>8. QED
      BY <2>1, <2>6, <2>7 DEF Deletes
<1>4. CASE c.pc = "deleteList"
  <2>1. Deletes(c.key) /\ GoesTo(c, "clearList")
      BY <1>4 DEF UnpublishListFromAtp, DropRecord, Stands
  <2>2. \A d \in calls' : d \in calls \/ (Further(c, d) /\ d.pc = "clearList")
      BY <2>1, GoesFurther
  <2>3. \A d \in calls' : d \in calls \/ Behind(c, d)
      BY <1>4, <2>2, FurtherBehind DEF Setting, Holding, Gathering
  <2>4. \E d \in calls' : d.pc = "clearList" /\ d.op = c.op
      BY <2>1, GoesFurther DEF Further
  <2>5. c.key \in Nat => ~InRow(c.key) /\ ~Coming(c.key) /\ \A l \in Names : ListKey(l) = c.key => l = c.op.list
      BY <1>4 DEF Withdrawn, Holding
  <2>6. CASE records' = records \ {c.key}
      BY <1>4, <2>3, <2>4, <2>5, <2>6, KeysDeleted DEF InRow
  <2>7. CASE UNCHANGED records
      BY <1>4, <2>3, <2>7, ListKeysSame, KeysLess DEF repo
  <2>8. QED
      BY <2>1, <2>6, <2>7 DEF Deletes
<1>5. CASE c.pc = "dropList"
  <2>1. Deletes(c.key) /\ Ends(c)
      BY <1>5 DEF UnpublishListFromAtp, DropRecord, Stands
  <2>2. \A d \in calls' : d \in calls
      BY <2>1, Passes
  <2>3. c.key \in Nat => ~InRow(c.key) /\ ~Coming(c.key) /\ \A l \in Names : ListKey(l) # c.key
      BY <1>5 DEF Withdrawn, Holding, Gathering
  <2>4. CASE records' = records \ {c.key}
      BY <1>5, <2>2, <2>3, <2>4, KeysDeleted DEF InRow
  <2>5. CASE UNCHANGED records
      BY <1>5, <2>2, <2>5, ListKeysSame, KeysLess DEF repo
  <2>6. QED
      BY <2>1, <2>4, <2>5 DEF Deletes
<1>6. QED
    BY <1>2, <1>3, <1>4, <1>5

-----------------------------------------------------------------------------
LEMMA KeysInitial ==
    ASSUME ListsInit
    PROVE  KeysInv
<1>1. /\ calls = {} /\ (\A l \in Names : lists[l] = Nil /\ ListKey(l) = Nil) /\ (\A m \in Names \X Candidates : rows[m] = Out)
      /\ \E s \in ListScripts : script.ops = s.ops
    BY DEF ListsInit, ListKey
<1>2. CreatedOnce
  <2>1. \A o, p \in script.ops : o.op = "create" /\ p.op = "create" /\ o.list = p.list => o = p
      BY <1>1, ListScriptsAssumption
  <2>2. \A o \in script.ops : o.op = "create" => lists[o.list] = Nil
      BY <1>1, TypesInit, OperationFields DEF ListsTypeOK, BoundsOK
  <2>3. QED
      BY <1>1, <2>1, <2>2 DEF CreatedOnce, Creating
<1>3. QED
    BY <1>1, <1>2 DEF KeysInv, CalledOnce, MembersOfLists, OnePlace, Named, Cleared, ListsInit

LEMMA KeysOfCalls ==
    ASSUME ListsTypeOK, KeysInv, NEW c \in calls, CallStep(c)
    PROVE  KeysInv'
<1>1. CalledOnce' /\ CreatedOnce' /\ MembersOfLists'
    BY OnceKept, MembersKept DEF KeysInv
<1>2. KeysStep'
    BY KeysOfReads, KeysOfLess, KeysOfCommits, KeysOfSets, KeysOfDeletes DEF CallStep, Reads
<1>3. Cleared'
    BY StaleOf DEF KeysInv, Cleared
<1>4. QED
    BY <1>1, <1>2, <1>3 DEF KeysInv, KeysStep

LEMMA KeysOfOthers ==
    ASSUME ListsTypeOK, KeysInv, UNCHANGED <<lists, rows, repo, calls, script>>,
           hist'.stale = hist.stale, hist'.calm => hist.calm
    PROVE  KeysInv'
<1>1. \A l : ListKey(l)' = ListKey(l)
    BY DEF ListKey
<1>2. CalledOnce' /\ CreatedOnce' /\ MembersOfLists' /\ Named' /\ Cleared' /\ \A c \in calls' : Withdrawn(c)'
    BY <1>1 DEF KeysInv, CalledOnce, CreatedOnce, Creating, MembersOfLists, Named, Cleared, Withdrawn, InList, InRow, Coming,
        Setting, Holding,
                Gathering, repo
<1>3. OnePlace'
    BY <1>1 DEF KeysInv, OnePlace, InList, InRow, Setting, repo
<1>4. QED
    BY <1>2, <1>3 DEF KeysInv

LEMMA KeysOfStarts ==
    ASSUME ListsTypeOK, KeysInv, NEW o \in script.ops, StartCall(o)
    PROVE  KeysInv'
<1>1. /\ UNCHANGED <<lists, rows, repo>> /\ calls' = calls \cup {NewCall(o)} /\ script'.ops = script.ops \ {o}
      /\ o \in Operations
    BY DEF StartCall, ListsTypeOK, BoundsOK
<1>2. \A l : ListKey(l)' = ListKey(l)
    BY <1>1 DEF ListKey
<1> DEFINE c == NewCall(o)
<1>3. /\ calls' = calls \cup {c} /\ c.op = o /\ c.items = {} /\ c.key = Nil /\ ~Setting(c) /\ c.pc \notin {"clearItem", "clearList", "insert"}
      /\ c.pc = "count" => o.op = "create"
    BY <1>1, OperationFields DEF NewCall, FirstStep, Setting
<1> HIDE DEF c
<1>4. CalledOnce' /\ CreatedOnce' /\ MembersOfLists'
    BY <1>1, <1>3 DEF KeysInv, CalledOnce, CreatedOnce, Creating, MembersOfLists
<1>5. OnePlace'
    BY <1>1, <1>2, <1>3 DEF KeysInv, OnePlace, InList, InRow, Setting, repo
<1>6. ASSUME NEW x \in calls'
      PROVE  Withdrawn(x)'
  <2>1. CASE x \in calls
      BY <1>1, <1>2, <1>3, <2>1 DEF KeysInv, Withdrawn, InList, InRow, Coming, Setting, Holding, Gathering, repo
  <2>2. CASE x = c
      BY <1>3, <2>2 DEF Withdrawn
  <2>3. QED
      BY <1>3, <1>6, <2>1, <2>2
<1>7. Named' /\ Cleared'
  <2>1. hist'.stale = hist.stale /\ (hist'.calm => hist.calm)
      BY DEF StartCall, ListsTypeOK, BoundsOK
  <2>2. QED
      BY <1>1, <1>2, <2>1 DEF KeysInv, Named, Cleared, repo
<1>8. QED
    BY <1>4, <1>5, <1>6, <1>7 DEF KeysInv

LEMMA KeysKept ==
    ASSUME ListsTypeOK, KeysInv, ListsNext
    PROVE  KeysInv'
<1>0. DOMAIN hist = {"calm", "over", "stale"}
    BY DEF ListsTypeOK, BoundsOK
<1>1. ASSUME NEW j \in jobs, JobStep(j)
      PROVE  UNCHANGED <<lists, rows, repo, calls, script>> /\ hist'.stale = hist.stale /\ (hist'.calm => hist.calm)
  <2>1. UNCHANGED <<lists, rows, repo, calls, script>> /\ (NoFault \/ Fault)
      BY <1>1 DEF JobStep, ProxyFollowSync, RelayFollowSync, SignAndPost, WriteBack
  <2>2. QED
      BY <1>0, <2>1 DEF NoFault, Fault
<1>2. ASSUME NEW a \in mail, HandleRelayAnswer(a)
      PROVE  UNCHANGED <<lists, rows, repo, calls, script>> /\ hist'.stale = hist.stale /\ (hist'.calm => hist.calm)
    BY <1>2 DEF HandleRelayAnswer, NoFault
<1>3. CASE RelayLeaves
  <2>1. /\ UNCHANGED <<lists, rows, repo, calls>> /\ script'.ops = script.ops
        /\ hist'.stale = hist.stale /\ (hist'.calm => hist.calm)
      BY <1>3 DEF RelayLeaves, ListsTypeOK, BoundsOK
  <2>2. KeysInv => KeysInv'
      BY <2>1 DEF KeysInv, CalledOnce, CreatedOnce, Creating, MembersOfLists, Named, Cleared, Withdrawn, OnePlace, ListKey, InList, InRow,
                  Coming, Setting, Holding, Gathering, repo
  <2>3. QED
      BY <2>2
<1>4. QED
    BY <1>1, <1>2, <1>3, KeysOfCalls, KeysOfStarts, KeysOfOthers DEF ListsNext

(* Once calls are through, a stored key names a record that exists, or one    *)
(* that was left without it.                                                 *)
LEMMA KeysNameThen ==
    ASSUME ListsTypeOK, KeysInv
    PROVE  KeysName
<1>1. SUFFICES ASSUME calls = {}, NEW k \in Keys, k \notin {Nil, Out}
              PROVE  k \in records \cup hist.stale
    BY DEF KeysName
<1>2. \/ \E l \in Names : lists[l] # Nil /\ ListKey(l) = k
      \/ \E m \in Names \X Candidates : rows[m] = k
    BY DEF Keys, ListKey, ListsTypeOK, TablesOK
<1>3. k \in Nat
    BY <1>1, <1>2 DEF ListsTypeOK, TablesOK, ListKey, ListRows
<1>4. QED
    BY <1>1, <1>2, <1>3 DEF KeysInv, Named

-----------------------------------------------------------------------------
(* A step of the only call, with no fault.                                  *)
CalmStart(c) == ListsTypeOK /\ KeysInv /\ Calm /\ calls = {c} /\ CallStep(c) /\ ~Fault /\ ~Misses(c)

LEMMA CalmFrom ==
    ASSUME ListsTypeOK, KeysInv, CalmInv, NEW c \in calls, CallStep(c), hist'.calm
    PROVE  CalmStart(c)
<1>2. ~Fault /\ ~Misses(c)
    BY StaleOf
<1>3. hist.calm
    BY StaleOf
<1>4. Calm
    BY <1>3 DEF CalmInv
<1>5. calls = {c}
    BY <1>4 DEF Calm, OneCall
<1>6. QED
    BY <1>2, <1>4, <1>5 DEF CalmStart

LEMMA CalmFacts ==
    ASSUME NEW c, CalmStart(c)
    PROVE  /\ c \in calls /\ Call(c) /\ ListsTypeOK /\ TablesOK /\ RemoteOK /\ KeysInv /\ Calm /\ ~Fault /\ ~Misses(c)
           /\ ListsOf(c) /\ RowsOf(c) /\ FollowsOf(c)
           /\ ListsTypeOK' /\ TablesOK' /\ (\A d \in calls' : Call(d)) /\ OneCall' /\ KeysInv'
           /\ c.op.op \in {"create", "update"} => c.op.public \in BOOLEAN
           /\ c.op.op \in {"create", "update", "delete", "add", "remove"} => c.op.list \in Names
           /\ c.op.op \in {"add", "remove"} => c.op.actor \in Candidates
           /\ c.op.op \in {"join", "leave"} => c.op.relay \in Relays
<1>1. c \in calls /\ ListsTypeOK /\ KeysInv /\ Calm /\ CallStep(c)
    BY DEF CalmStart
<1>2. ListsOf(c) /\ RowsOf(c) /\ FollowsOf(c)
    BY <1>1 DEF Calm, CalmLists, CalmRows, CalmFollows
<1>3. ListsTypeOK' /\ OneCall'
    BY <1>1, CallStepTypes, CallTurns DEF OneCall, Turned, CalmStart
<1>4. KeysInv'
    BY <1>1, KeysOfCalls
<1>5. TablesOK' /\ \A d \in calls' : Call(d)
    BY <1>3 DEF ListsTypeOK, CallsOK
<1>6. RemoteOK
    BY <1>1 DEF ListsTypeOK
<1>7. QED
    BY <1>1, <1>2, <1>3, <1>4, <1>5, <1>6, CallFacts DEF CalmStart

LEMMA OnlyFurther ==
    ASSUME NEW c, CalmStart(c), NEW p, GoesTo(c, p)
    PROVE  /\ \A d \in calls' : Further(c, d) /\ d.pc = p /\ p # "end"
           /\ p = "end" \/ \E d \in calls' : Further(c, d) /\ d.pc = p
<1> DEFINE e == [c EXCEPT !.pc = p]
<1>1. Further(c, e) /\ e.pc = p
    BY CalmFacts DEF Call, Further
<1>2. calls' = IF p = "end" THEN {} ELSE {e}
    BY <1>1 DEF GoesTo, Goes, CalmStart
<1>3. QED
    BY <1>1, <1>2
LEMMA OnlyEnds ==
    ASSUME NEW c, CalmStart(c), Ends(c)
    PROVE  calls' = {}
    BY DEF CalmStart, Ends

(* What a step does not touch stays.                                        *)
LEMMA RelaysSame ==
    ASSUME NEW c, CalmStart(c), UNCHANGED <<relays, joined, mail>>,
           \A j \in jobs' : j \in jobs \/ j.kind # "relay",
           \A d \in calls' : d.pc # "enqueueRelay"
    PROVE  CalmRelays'
<1>1. CalmRelays /\ calls = {c}
    BY DEF CalmStart, Calm
<1>2. mail = {} /\ (\A j \in jobs' : j.kind # "relay") /\ (joined <=> Accepted)
    BY <1>1 DEF CalmRelays
<1>3. Accepted' <=> Accepted
    BY DEF Accepted
<1>4. QED
    BY <1>1, <1>2, <1>3 DEF CalmRelays

Owing(c) == c.pc \in {"follow", "unfollow"}
LEMMA FollowsSame ==
    ASSUME NEW c, CalmStart(c), UNCHANGED <<follows, far, jobs>>, ~Owing(c), \A d \in calls' : ~Owing(d) /\ FollowsOf(d)',
           \A a \in Fedi \cup Candidates : ActorReferencedByAnyList(a)' = ActorReferencedByAnyList(a)
    PROVE  CalmFollows'
<1>1. CalmFollows /\ calls = {c} /\ jobs \subseteq ProxyJobs \cup RelayJobs
    BY CalmFacts DEF CalmStart, Calm, RemoteOK
<1>2. \A a : ~Owed(a) /\ ~Owed(a)'
    BY <1>1 DEF Owed, Owes, Owing
<1>3. \A a \in Fedi : JobFor(a)' \/ Followed(a)'
    BY <1>1, <1>2 DEF CalmFollows, JobFor, Followed
<1>4. \A j \in jobs' : j.kind = "proxy" => JobOf(j)'
  <2>1. \A j \in jobs : j.kind = "proxy" => j.target \in Fedi
      BY <1>1 DEF ProxyJobs, RelayJobs
  <2>2. QED
      BY <1>1, <1>2, <2>1 DEF CalmFollows, JobOf
<1>5. QED
    BY <1>1, <1>3, <1>4 DEF CalmFollows
LEMMA ReferencedSame ==
    ASSUME \A m \in Names \X Candidates : rows'[m] = Out <=> rows[m] = Out
    PROVE  /\ \A a : ActorReferencedByAnyList(a)' = ActorReferencedByAnyList(a)
           /\ \A l \in Names : Members(l)' = Members(l)
<1>1. \A l \in Names, a \in Candidates : <<l, a>> \in Names \X Candidates
    OBVIOUS
<1>2. QED
    BY <1>1 DEF ActorReferencedByAnyList, Members

LEMMA RecordsSame ==
    ASSUME NEW c, CalmStart(c), records' \subseteq records, hist.over \subseteq hist'.over,
           \A k \in records' : (InList(k) => InList(k)' \/ k \in hist'.over) /\ (InRow(k) => InRow(k)' \/ k \in hist'.over),
           ~Setting(c), ~Gathering(c), \A d \in calls' : d.pc # "dropList"
    PROVE  CalmRecords'
<1>1. CalmRecords /\ calls = {c}
    BY DEF CalmStart, Calm
<1>2. \A k \in records : k \in hist.over \/ InList(k) \/ InRow(k)
    BY <1>1 DEF CalmRecords, Left, Coming
<1>3. QED
    BY <1>2 DEF CalmRecords

LEMMA ListsSame ==
    ASSUME NEW c, CalmStart(c), UNCHANGED lists, ~Opening(c), ~Unpublishing(c), \A d \in calls' : ListsOf(d)'
    PROVE  CalmLists'
<1>1. \A l \in Names : ListDone(l)
    BY DEF CalmStart, Calm, CalmLists
<1>2. QED
    BY <1>1 DEF CalmLists, ListDone, Public, ListKey

LEMMA RowsSame ==
    ASSUME NEW c, CalmStart(c), UNCHANGED <<lists, rows>>, ~Opening(c), ~Unpublishing(c),
           c.pc \notin {"items", "commitItem", "setItem"}, \A d \in calls' : RowsOf(d)'
    PROVE  CalmRows'
<1>1. \A l \in Names, a \in Candidates : RowDone(l, a)
    BY DEF CalmStart, Calm, CalmRows, Pending
<1>2. QED
    BY <1>1 DEF CalmRows, RowDone, Public, Shown, Members

(* Nothing is done yet, and nothing but the call changes.                   *)
Early(c) ==
    c.pc \in {"count", "findForUpdate", "findForDelete", "findForAdd", "referenced", "findForRemove", "insertRelay", "findRelay", "enqueueRelay"}
LEMMA EarlySame ==
    ASSUME NEW c, CalmStart(c), OnlyCalls, Early(c), CalmRelays',
           \A d \in calls' : ~Owing(d) /\ d.pc # "dropList" /\ ListsOf(d) /\ RowsOf(d) /\ FollowsOf(d)
    PROVE  Calm'
<1>1. UNCHANGED <<lists, rows, records, hist, follows, far, relays, joined, mail, jobs>>
    BY DEF OnlyCalls, NoFault, repo, remote
<1>2. \A d : (ListsOf(d)' <=> ListsOf(d)) /\ (RowsOf(d)' <=> RowsOf(d)) /\ (FollowsOf(d)' <=> FollowsOf(d))
  <2>1. \A l, a : Public(l)' = Public(l) /\ ListKey(l)' = ListKey(l) /\ Members(l)' = Members(l) /\ Shown(l, a)' = Shown(l, a)
      BY <1>1 DEF Public, ListKey, Members, Shown
  <2>2. \A a : ActorReferencedByAnyList(a)' = ActorReferencedByAnyList(a)
      BY <1>1 DEF ActorReferencedByAnyList, Members
  <2>3. \A d : ListsOf(d)' <=> ListsOf(d)
      BY <1>1, <2>1 DEF ListsOf, Opening, Unpublishing
  <2>4. \A d : ItemsOf(d)' <=> ItemsOf(d)
      BY <1>1 DEF ItemsOf
  <2>5. \A d : RowsOf(d)' <=> RowsOf(d)
    <3>1. ASSUME NEW d
          PROVE  RowsOf(d)' <=> RowsOf(d)
      <4>1. (Opening(d)' <=> Opening(d)) /\ Pending(d)' = Pending(d)
          BY DEF Opening, Pending
      <4>2. (ItemsOf(d)' <=> ItemsOf(d)) /\ Public(d.op.list)' = Public(d.op.list)
          BY <2>1, <2>4
      <4>3. (\A a \in Pending(d) : Shown(d.op.list, a))' <=> \A a \in Pending(d) : Shown(d.op.list, a)
          BY <2>1, <4>1
      <4>4. QED
          BY <1>1, <4>1, <4>2, <4>3 DEF RowsOf
    <3>2. QED
        BY <3>1
  <2>6. \A d : FollowsOf(d)' <=> FollowsOf(d)
      BY <1>1, <2>1, <2>2 DEF FollowsOf, Gathering
  <2>7. QED
      BY <2>3, <2>5, <2>6
<1>4. CalmFollows'
    BY <1>1, <1>2, ReferencedSame, FollowsSame DEF Early, Owing
<1>5. CalmRecords'
    BY <1>1, RecordsSame DEF Early, Setting, Gathering, InList, InRow, ListKey
<1>6. CalmLists'
    BY <1>1, <1>2, ListsSame DEF Early, Opening, Unpublishing
<1>7. CalmRows'
    BY <1>1, <1>2, RowsSame DEF Early, Opening, Unpublishing
<1>8. QED
    BY <1>4, <1>5, <1>6, <1>7, CalmFacts DEF Calm

LEMMA RowExists == \A p \in BOOLEAN, k \in Nat \cup {Nil} : [public |-> p, key |-> k] # Nil
    BY ListsAssumption DEF ListRows
LEMMA ListFacts ==
    ASSUME TablesOK
    PROVE  /\ \A l \in Names : /\ ListKey(l) \in Nat \cup {Nil} /\ Public(l) \in BOOLEAN
                               /\ lists[l] # Nil => ListKey(l) = lists[l].key /\ Public(l) = lists[l].public
                               /\ lists[l] = Nil => ListKey(l) = Nil /\ Public(l) = FALSE
           /\ \A l \in Names, a \in Candidates : rows[<<l, a>>] \in Nat \cup {Nil, Out}
    BY DEF TablesOK, ListRows, ListKey, Public
LEMMA ItemsAre ==
    ASSUME TablesOK, NEW l \in Names
    PROVE  \A a \in Candidates, k \in Nat : <<a, k>> \in Items(l) <=> rows[<<l, a>>] = k
<1>1. ASSUME NEW a \in Candidates, NEW k \in Nat, rows[<<l, a>>] = k
      PROVE  <<a, k>> \in Items(l)
    BY <1>1 DEF Items, MembersWithAtpRecord, Members
<1>2. ASSUME NEW a \in Candidates, NEW k \in Nat, <<a, k>> \in Items(l)
      PROVE  rows[<<l, a>>] = k
    BY <1>2 DEF Items
<1>3. QED
    BY <1>1, <1>2

LEMMA RecordKeys ==
    ASSUME TablesOK
    PROVE  \A k \in records : k \in Nat /\ k =< nextKey
    BY DEF TablesOK

LEMMA CalmOfReads ==
    ASSUME NEW c, CalmStart(c),
           \/ CountByOwner(c) \/ UpdateListFind(c) \/ DeleteListFind(c) \/ AddMemberFind(c) \/ WasReferenced(c) \/ RemoveMemberFind(c)
    PROVE  Calm'
<1>1. /\ Early(c) /\ OnlyCalls /\ jobs = {} /\ ~Opening(c) /\ ~Unpublishing(c) /\ Pending(c) = {} /\ c.pc # "items"
      /\ c \in calls /\ Call(c) /\ TablesOK
    BY CalmFacts DEF CountByOwner, UpdateListFind, DeleteListFind, AddMemberFind, WasReferenced, RemoveMemberFind, Stands, Early,
        FollowsOf, Gathering, Opening, Unpublishing, Pending
<1>2. /\ \A l \in Names : ListDone(l)
      /\ \A l \in Names, a \in Candidates : RowDone(l, a)
    BY <1>1 DEF CalmStart, Calm, CalmLists, CalmRows
<1> USE <1>1 DEF Stands
<1>3. ASSUME NEW d \in calls'
      PROVE  /\ ~Owing(d) /\ d.pc \notin {"dropList", "enqueueRelay"} /\ ListsOf(d) /\ RowsOf(d) /\ FollowsOf(d)
  <2>2. CASE CountByOwner(c)
    <3>1. d.pc = "insert"
        BY <1>3, <2>2, OnlyFurther, OnlyEnds DEF CountByOwner
    <3>2. QED
        BY <3>1 DEF Owing, ListsOf, RowsOf, FollowsOf, Opening, Unpublishing, Pending
  <2>3. CASE UpdateListFind(c)
    <3>1. c.op.list \in Names
        BY <2>3, CalmFacts DEF UpdateListFind, Call, Placed
    <3>2. lists[c.op.list] # Nil /\ d = [c EXCEPT !.pc = "update", !.public = lists[c.op.list].public, !.key = lists[c.op.list].key]
        BY <1>3, <2>3 DEF UpdateListFind, CalmStart, Ends, Goes
    <3>3. d.pc = "update" /\ d.op = c.op /\ d.public = Public(c.op.list) /\ d.key = ListKey(c.op.list)
        BY <3>1, <3>2, ListFacts DEF Call
    <3>4. QED
        BY <3>2, <3>3 DEF Owing, ListsOf, RowsOf, FollowsOf, Opening, Unpublishing, Pending
  <2>4. CASE DeleteListFind(c)
    <3> DEFINE l == c.op.list
               public == lists[l] # Nil /\ lists[l].public
    <3>1. c.op.list \in Names
        BY <2>4, CalmFacts DEF DeleteListFind, Call, Placed
    <3>2. d = [c EXCEPT !.pc = "delete", !.public = public, !.fedi = Members(l) \cap Fedi,
                        !.items = IF public THEN Items(l) ELSE {}, !.key = IF public THEN lists[l].key ELSE Nil]
        BY <1>3, <2>4 DEF DeleteListFind, CalmStart, Goes
    <3>3. /\ d.pc = "delete" /\ d.op = c.op /\ d.public = public /\ d.fedi = Members(l) \cap Fedi
          /\ d.items = (IF public THEN Items(l) ELSE {}) /\ d.key = (IF public THEN lists[l].key ELSE Nil)
        BY <3>2 DEF Call
    <3>4. public = Public(l)
        BY DEF Public
    <3>5. d.key = ListKey(l)
        BY <1>2, <3>1, <3>3, <3>4, ListFacts DEF ListDone
    <3>6. ItemsOf(d)
      <4>1. CASE Public(l)
        <5>1. d.items = Items(c.op.list) /\ d.op.list \in Names /\ d.op.list = c.op.list /\ d.pc # "clearItem"
            BY <3>1, <3>3, <3>4, <4>1
        <5>2. \A a \in Candidates, k \in Nat : <<a, k>> \in Items(d.op.list) <=> rows[<<d.op.list, a>>] = k
            BY <5>1, ItemsAre
        <5>3. QED
            BY <5>1, <5>2 DEF ItemsOf
      <4>2. CASE ~Public(l)
        <5>1. d.items = {} /\ d.op.list \in Names /\ ~Public(d.op.list) /\ d.pc # "clearItem"
            BY <3>1, <3>3, <3>4, <4>2
        <5>2. \A a \in Candidates : rows[<<d.op.list, a>>] \notin Nat
            BY <1>2, <5>1 DEF RowDone, Shown
        <5>3. QED
            BY <5>1, <5>2 DEF ItemsOf
      <4>3. QED
          BY <4>1, <4>2
    <3>7. QED
        BY <3>3, <3>4, <3>5, <3>6 DEF Owing, ListsOf, RowsOf, FollowsOf, Opening, Unpublishing, Pending
  <2>5. CASE AddMemberFind(c)
    <3> DEFINE l == c.op.list
               new == IF lists[l].public THEN Publishable(lists[l].key, {c.op.actor}) ELSE {}
    <3>1. c.op.list \in Names
        BY <2>5, CalmFacts DEF AddMemberFind, Call, Placed
    <3>2. lists[l] # Nil /\ d = [c EXCEPT !.pc = "referenced", !.new = new]
        BY <1>3, <2>5 DEF AddMemberFind, CalmStart, Goes, Ends
    <3>3. d.pc = "referenced" /\ d.op = c.op /\ d.new = new
        BY <3>2 DEF Call
    <3>4. new = IF Public(l) THEN {c.op.actor} \cap (Visible \ Fedi) ELSE {}
        BY <1>2, <3>1, <3>2, ListFacts DEF ListDone, Publishable
    <3>5. QED
        BY <3>2, <3>3, <3>4 DEF Owing, ListsOf, RowsOf, FollowsOf, Opening, Unpublishing, Pending
  <2>6. CASE WasReferenced(c)
    <3> DEFINE fedi == IF c.op.actor \in Fedi /\ ~ActorReferencedByAnyList(c.op.actor) THEN {c.op.actor} ELSE {}
    <3>1. d = [c EXCEPT !.pc = "addRow", !.fedi = fedi] /\ c.pc = "referenced"
        BY <1>3, <2>6 DEF WasReferenced, CalmStart, Goes
    <3>2. d.pc = "addRow" /\ d.op = c.op /\ d.new = c.new /\ d.fedi = fedi
        BY <3>1 DEF Call
    <3>3. RowsOf(d)
        BY <3>1, <3>2, CalmFacts DEF RowsOf, Opening, Pending
    <3>4. QED
        BY <3>2, <3>3 DEF Owing, ListsOf, FollowsOf, Opening, Unpublishing
  <2>7. CASE RemoveMemberFind(c)
    <3> DEFINE l == c.op.list  a == c.op.actor
               items == IF rows[<<l, a>>] \in {Out, Nil} THEN {} ELSE {<<a, rows[<<l, a>>]>>}
    <3>1. c.op.list \in Names
        BY <2>7, CalmFacts DEF RemoveMemberFind, Call, Placed
    <3>2. d = [c EXCEPT !.pc = "removeRow", !.fedi = {a}, !.items = items]
        BY <1>3, <2>7 DEF RemoveMemberFind, CalmStart, Goes, Ends
    <3>3. d.pc = "removeRow" /\ d.op = c.op /\ d.fedi = {a} /\ d.items = items
        BY <3>2 DEF Call
    <3>4. RowsOf(d)
        BY <3>3 DEF RowsOf, Opening, Pending
    <3>5. QED
        BY <3>3, <3>4 DEF Owing, ListsOf, FollowsOf, Opening, Unpublishing
  <2>8. QED
      BY <2>2, <2>3, <2>4, <2>5, <2>6, <2>7
<1>4. CalmRelays'
    BY <1>3, RelaysSame DEF OnlyCalls, remote
<1>5. QED
    BY <1>3, <1>4, EarlySame

(* The repository and the relays do not touch what list-relay follows.       *)
Plain(d) ==
    d.pc \in {"insert", "commitList", "setList", "items", "commitItem", "setItem", "unpublish", "deleteItem", "clearItem",
              "deleteList", "clearList", "enqueueRelay"}
LEMMA FollowsPlain ==
    ASSUME NEW c, CalmStart(c), UNCHANGED <<follows, far, jobs>>, ~Owing(c), ~Gathering(c),
           c.pc \in {"commitItem", "setItem"} => \A d \in calls' : d.pc \in {"commitItem", "setItem"},
           \A d \in calls' : Plain(d),
           \A m \in Names \X Candidates : rows'[m] = Out <=> rows[m] = Out
    PROVE  CalmFollows'
<1>1. c.pc \in {"commitItem", "setItem"} \/ jobs = {}
    BY CalmFacts DEF FollowsOf
<1>2. \A d \in calls' : ~Owing(d) /\ FollowsOf(d)'
    BY <1>1 DEF Plain, Owing, FollowsOf
<1>3. QED
    BY <1>2, ReferencedSame, FollowsSame

LEMMA CalmOfRelays ==
    ASSUME NEW c, CalmStart(c), CreateRelay(c) \/ DeleteRelay(c) \/ EnqueueRelay(c)
    PROVE  Calm'
<1>1. /\ c.pc \in {"insertRelay", "findRelay", "enqueueRelay"} /\ jobs = {} /\ ~Opening(c) /\ ~Unpublishing(c) /\ Early(c)
      /\ UNCHANGED <<lists, rows, records, hist, follows, far, joined, mail>>
      /\ c \in calls /\ Call(c) /\ c.op.relay \in Relays /\ RemoteOK
    BY CalmFacts DEF CreateRelay, DeleteRelay, EnqueueRelay, Stands, Early, FollowsOf, Gathering, Opening, Unpublishing,
        OnlyCalls,
        NoFault, repo, remote, Call, Placed
<1>2. \A d \in calls' : d.pc = "enqueueRelay" /\ d.op = c.op
    BY OnlyFurther, OnlyEnds DEF CreateRelay, DeleteRelay, EnqueueRelay, Further
<1>3. calls = {c} /\ CalmRelays /\ CalmFollows
    BY DEF CalmStart, Calm
<1>4. mail = {} /\ (joined <=> Accepted)
    BY <1>1, <1>3 DEF CalmRelays
<1>5. CalmLists'
    BY <1>1, <1>2, ListsSame DEF ListsOf, Opening, Unpublishing
<1>6. CalmRows'
    BY <1>1, <1>2, RowsSame DEF RowsOf, Opening, Pending
<1>7. CalmRecords'
    BY <1>1, <1>2, RecordsSame DEF Setting, Gathering, InList, InRow, ListKey
<1>8. CASE UNCHANGED jobs
  <2>1. CalmFollows'
      BY <1>1, <1>2, <1>8, FollowsPlain DEF Owing, Gathering, Plain
  <2>2. CalmRelays'
    <3>1. CASE UNCHANGED relays
      <4>1. Accepted' <=> Accepted
          BY <3>1 DEF Accepted
      <4>2. \A d \in calls' : d.op.op = "leave" /\ relays[d.op.relay] # Nil
          BY <1>1, <1>2, <1>8, <3>1, OnlyFurther, OnlyEnds DEF CreateRelay, DeleteRelay, EnqueueRelay, Stands, Call, Placed,
              RemoteOK
      <4>3. QED
          BY <1>1, <1>3, <1>4, <1>8, <3>1, <4>1, <4>2 DEF CalmRelays
    <3>2. CASE ~UNCHANGED relays
      <4>1. (\A q \in Relays : relays[q] = Nil) /\ relays' = [relays EXCEPT ![c.op.relay] = "pending"]
          BY <3>2 DEF CreateRelay, DeleteRelay, EnqueueRelay, OnlyCalls, remote
      <4>2. \A q \in Relays : relays'[q] = IF q = c.op.relay THEN "pending" ELSE Nil
          BY <1>1, <4>1 DEF RemoteOK
      <4>3. ~Accepted /\ ~Accepted'
          BY <4>1, <4>2 DEF Accepted
      <4>4. QED
          BY <1>1, <1>2, <1>3, <1>4, <1>8, <4>2, <4>3 DEF CalmRelays
    <3>3. QED
        BY <3>1, <3>2
  <2>3. QED
      BY <1>5, <1>6, <1>7, <2>1, <2>2, CalmFacts DEF Calm
<1>9. CASE ~UNCHANGED jobs
  <2>1. EnqueueRelay(c) /\ c.pc = "enqueueRelay" /\ calls' = {} /\ UNCHANGED relays
      BY <1>9, OnlyEnds DEF CreateRelay, DeleteRelay, EnqueueRelay, OnlyCalls, remote, Stands
  <2>2. PICK j : jobs' = {j} /\ j = [kind |-> "relay", target |-> c.op.relay, want |-> c.op.op = "join", tries |-> 0, pc |-> "queued"]
      BY <1>1, <2>1 DEF EnqueueRelay, Enqueue
  <2>3. j.kind = "relay" /\ j.target = c.op.relay /\ (j.want <=> c.op.op = "join") /\ j.pc = "queued"
      BY <2>2
  <2>4. CalmFollows'
    <3>1. \A a : ActorReferencedByAnyList(a)' = ActorReferencedByAnyList(a)
        BY <1>1, ReferencedSame
    <3>2. \A a \in Fedi : Followed(a)
        BY <1>1, <1>3 DEF CalmFollows, JobFor
    <3>3. \A a : ~Owed(a)
        BY <1>1, <1>3 DEF Owed, Owes
    <3>4. \A a \in Fedi : Followed(a)'
        BY <1>1, <3>1, <3>2, <3>3 DEF Followed
    <3>5. QED
        BY <2>1, <2>2, <2>3, <3>4 DEF CalmFollows
  <2>5. CalmRelays'
    <3>1. Accepted' <=> Accepted
        BY <2>1 DEF Accepted
    <3>2. relays[c.op.relay] # Nil /\ (c.op.op = "join" => relays[c.op.relay] = "pending")
        BY <1>3, <2>1 DEF CalmRelays
    <3>3. QED
        BY <1>1, <1>3, <1>4, <2>1, <2>2, <2>3, <3>1, <3>2 DEF CalmRelays
  <2>6. QED
      BY <1>5, <1>6, <1>7, <2>4, <2>5, CalmFacts DEF Calm
<1>10. QED
    BY <1>8, <1>9

LEMMA CalmOfCreate ==
    ASSUME NEW c, CalmStart(c), CreateList(c)
    PROVE  Calm'
<1> DEFINE l == c.op.list
<1>1. /\ c.pc = "insert" /\ c.op.op = "create" /\ c.op.list \in Names /\ c.op.public \in BOOLEAN
      /\ c \in calls /\ Call(c) /\ TablesOK /\ TablesOK'
      /\ UNCHANGED <<rows, records, hist, follows, far, relays, joined, mail, jobs>>
      /\ lists' = [lists EXCEPT ![c.op.list] = [public |-> c.op.public, key |-> Nil]]
    BY CalmFacts DEF CreateList, Stands, Call, Placed, NoFault, repo, remote
<1>2. /\ \A d \in calls' : d.pc = "commitList" /\ d.op = c.op /\ c.op.public
      /\ c.op.public => \E d \in calls' : d.pc = "commitList" /\ d.op = c.op
    BY <1>1, OnlyFurther DEF CreateList, Further
<1>3. /\ lists[c.op.list] = Nil /\ \A a \in Candidates : rows[<<c.op.list, a>>] = Out
    BY <1>1, CalmFacts DEF KeysInv, CreatedOnce, MembersOfLists
<1>4. /\ \A n \in Names : n # l => ListKey(n)' = ListKey(n) /\ Public(n)' = Public(n)
      /\ ListKey(l)' = Nil /\ Public(l)' = c.op.public
    BY <1>1, RowExists DEF TablesOK, ListKey, Public
<1>5. /\ \A n \in Names : ListDone(n)
      /\ \A n \in Names, a \in Candidates : RowDone(n, a)
    BY <1>1, CalmFacts DEF Calm, CalmLists, CalmRows, CalmStart, Opening, Unpublishing, Pending
<1>6. CalmLists'
  <2>1. \A n \in Names : ListDone(n)' \/ \E d \in calls' : On(n, d) /\ Opening(d)
      BY <1>1, <1>2, <1>4, <1>5 DEF ListDone, On, Opening
  <2>2. \A d \in calls' : ListsOf(d)'
      BY <1>2, <1>4 DEF ListsOf, Opening, Unpublishing
  <2>3. QED
      BY <2>1, <2>2 DEF CalmLists, Opening, On
<1>7. CalmRows'
  <2>1. \A n \in Names, a \in Candidates : RowDone(n, a)'
      BY <1>1, <1>3, <1>4, <1>5 DEF RowDone, Shown, Members
  <2>2. \A d \in calls' : RowsOf(d)'
      BY <1>1, <1>2, <1>3 DEF RowsOf, Opening, Pending
  <2>3. QED
      BY <2>1, <2>2 DEF CalmRows
<1>8. CalmRecords'
  <2>1. \A k : k \in records => k \in Nat
      BY <1>1 DEF TablesOK
  <2>2. \A k \in Nat : (InList(k) => InList(k)') /\ (InRow(k) => InRow(k)')
      BY <1>1, <1>3, <1>4 DEF InList, InRow, ListKey
  <2>3. QED
      BY <1>1, <1>2, <2>1, <2>2, RecordsSame DEF Setting, Gathering
<1>9. CalmFollows'
    BY <1>1, <1>2, FollowsPlain DEF Owing, Gathering, Plain
<1>10. CalmRelays'
    BY <1>1, <1>2, RelaysSame
<1>11. QED
    BY <1>6, <1>7, <1>8, <1>9, <1>10, CalmFacts DEF Calm

(* The row of one list changes.                                             *)
LEMMA ListChanged ==
    ASSUME TablesOK, NEW l \in Names, NEW p \in BOOLEAN, NEW k \in Nat \cup {Nil}, lists[l] # Nil,
           lists' = [lists EXCEPT ![l] = [public |-> p, key |-> k]]
    PROVE  /\ \A n \in Names : n # l => ListKey(n)' = ListKey(n) /\ Public(n)' = Public(n) /\ lists'[n] = lists[n]
           /\ ListKey(l)' = k /\ Public(l)' = p /\ lists'[l] # Nil
    BY RowExists DEF TablesOK, ListKey, Public
LEMMA RowIs ==
    ASSUME TablesOK, NEW l \in Names, lists[l] # Nil
    PROVE  /\ \A p : [lists EXCEPT ![l].public = p] = [lists EXCEPT ![l] = [public |-> p, key |-> ListKey(l)]]
           /\ \A k : [lists EXCEPT ![l].key = k] = [lists EXCEPT ![l] = [public |-> Public(l), key |-> k]]
<1>1. lists[l] = [public |-> Public(l), key |-> ListKey(l)]
    BY DEF TablesOK, ListKey, Public, ListRows
<1>2. QED
    BY <1>1 DEF TablesOK
LEMMA RowDoneSame ==
    ASSUME UNCHANGED rows, NEW n, Public(n)' = Public(n)
    PROVE  \A a : (RowDone(n, a)' <=> RowDone(n, a)) /\ (Shown(n, a)' <=> Shown(n, a))
<1>1. Members(n)' = Members(n)
    BY DEF Members
<1>2. QED
    BY <1>1 DEF RowDone, Shown

LEMMA CalmOfUpdate ==
    ASSUME NEW c, CalmStart(c), UpdateList(c)
    PROVE  Calm'
<1> DEFINE l == c.op.list
<1>1. /\ c.pc = "update" /\ c.op.op = "update" /\ c.op.list \in Names /\ c.op.public \in BOOLEAN
      /\ c \in calls /\ Call(c) /\ TablesOK /\ TablesOK'
      /\ UNCHANGED <<rows, records, hist, follows, far, relays, joined, mail, jobs>>
    BY CalmFacts DEF UpdateList, Stands, Call, Placed, NoFault, repo, remote
<1>2. lists[l] # Nil /\ c.public = Public(l) /\ c.key = ListKey(l)
    BY <1>1, CalmFacts DEF ListsOf
<1>3. lists' = [lists EXCEPT ![l] = [public |-> c.op.public, key |-> ListKey(l)]]
    BY <1>1, <1>2, RowIs DEF UpdateList
<1>4. ListKey(l) \in Nat \cup {Nil} /\ Public(l) \in BOOLEAN
    BY <1>1, ListFacts
<1>5. /\ \A n \in Names : n # l => ListKey(n)' = ListKey(n) /\ Public(n)' = Public(n) /\ lists'[n] = lists[n]
      /\ ListKey(l)' = ListKey(l) /\ Public(l)' = c.op.public /\ lists'[l] # Nil
    BY <1>1, <1>2, <1>3, <1>4, ListChanged
<1>6. /\ \A n \in Names : ListDone(n)
      /\ \A n \in Names, a \in Candidates : RowDone(n, a)
    BY <1>1, CalmFacts DEF Calm, CalmLists, CalmRows, CalmStart, Opening, Unpublishing, Pending
<1>7. \E p : /\ GoesTo(c, p)
             /\ p = IF Public(l) = c.op.public THEN "end" ELSE IF c.op.public THEN "commitList" ELSE "unpublish"
    BY <1>2 DEF UpdateList
<1>8. /\ \A d \in calls' : /\ d.op = c.op /\ d.key = c.key /\ Public(l) # c.op.public
                           /\ d.pc = IF c.op.public THEN "commitList" ELSE "unpublish"
      /\ Public(l) = c.op.public \/ \E d \in calls' : d.op = c.op /\ d.pc = IF c.op.public THEN "commitList" ELSE "unpublish"
    BY <1>7, OnlyFurther DEF Further
<1>9. CalmLists'
  <2>1. \A n \in Names : ListDone(n)' \/ \E d \in calls' : On(n, d) /\ (Opening(d) \/ Unpublishing(d))
      BY <1>1, <1>5, <1>6, <1>8 DEF ListDone, On, Opening, Unpublishing
  <2>2. \A d \in calls' : ListsOf(d)'
      BY <1>2, <1>4, <1>5, <1>6, <1>8, <1>1 DEF ListsOf, Opening, Unpublishing, ListDone
  <2>3. QED
      BY <2>1, <2>2 DEF CalmLists, Opening, Unpublishing, On
<1>10. CalmRows'
  <2>1. \A n \in Names, a \in Candidates :
            RowDone(n, a)' \/ \E d \in calls' : On(n, d) /\ (Opening(d) \/ Unpublishing(d))
    <3>1. CASE Public(l) = c.op.public
      <4>1. \A n \in Names : Public(n)' = Public(n)
          BY <1>5, <3>1
      <4>2. QED
          BY <1>1, <1>6, <4>1, RowDoneSame
    <3>2. CASE Public(l) # c.op.public
      <4>1. \E d \in calls' : On(l, d) /\ (Opening(d) \/ Unpublishing(d))
          BY <1>1, <1>8, <3>2 DEF On, Opening, Unpublishing
      <4>2. \A n \in Names, a \in Candidates : n # l => RowDone(n, a)'
          BY <1>1, <1>5, <1>6, RowDoneSame
      <4>3. QED
          BY <4>1, <4>2
    <3>3. QED
        BY <3>1, <3>2
  <2>2. \A d \in calls' : RowsOf(d)'
    <3>1. ASSUME NEW d \in calls'
          PROVE  RowsOf(d)'
      <4>1. d.pc = "commitList" => \A a \in Candidates : rows[<<l, a>>] \notin Nat
          BY <1>1, <1>4, <1>6, <1>8, <3>1 DEF RowDone, Shown
      <4>2. QED
          BY <1>1, <1>8, <3>1, <4>1 DEF RowsOf, Opening, Pending
    <3>2. QED
        BY <3>1
  <2>3. QED
      BY <2>1, <2>2 DEF CalmRows, Opening, Unpublishing, On
<1>11. CalmRecords'
  <2>1. \A k \in records : k \in Nat
      BY <1>1, RecordKeys
  <2>2. \A n \in Names : ListKey(n)' = ListKey(n)
      BY <1>5
  <2>3. \A k \in Nat : (InList(k) => InList(k)') /\ (InRow(k) => InRow(k)')
      BY <1>1, <2>2 DEF InList, InRow
  <2>4. QED
      BY <1>1, <1>8, <2>1, <2>3, RecordsSame DEF Setting, Gathering
<1>12. CalmFollows'
    BY <1>1, <1>8, FollowsPlain DEF Owing, Gathering, Plain
<1>13. CalmRelays'
    BY <1>1, <1>8, RelaysSame
<1>14. QED
    BY <1>9, <1>10, <1>11, <1>12, <1>13, CalmFacts DEF Calm

LEMMA CalmOfPublishMembers ==
    ASSUME NEW c, CalmStart(c), PublishMembers(c)
    PROVE  Calm'
<1> DEFINE l == c.op.list
           new == Members(l) \cap (Visible \ Fedi)
<1>1. /\ c.pc = "items" /\ c.op.op = "update" /\ c.op.list \in Names
      /\ c \in calls /\ Call(c) /\ TablesOK
      /\ UNCHANGED <<lists, rows, records, hist, follows, far, relays, joined, mail, jobs>>
    BY CalmFacts DEF PublishMembers, Stands, Call, Placed, OnlyCalls, NoFault, repo, remote
<1>2. /\ \A n \in Names : ListDone(n)
      /\ \A n \in Names, a \in Candidates : n # l => RowDone(n, a)
    BY <1>1, CalmFacts DEF Calm, CalmLists, CalmRows, CalmStart, Opening, Unpublishing, Pending, On
<1>3. Public(l) /\ \A a \in Candidates : rows[<<l, a>>] \notin Nat
    BY <1>1, CalmFacts DEF RowsOf
<1>4. lists[l] # Nil /\ lists[l].key # Nil
    BY <1>1, <1>2, <1>3, ListFacts DEF ListDone, Public
<1>5. Goes(c, [c EXCEPT !.new = new, !.pc = IF new = {} THEN "end" ELSE "commitItem"])
    BY <1>4 DEF PublishMembers, Publishable
<1>6. /\ \A d \in calls' : d.op = c.op /\ d.pc = "commitItem" /\ d.new = new
      /\ new = {} \/ \E d \in calls' : d.op = c.op /\ d.pc = "commitItem" /\ d.new = new
  <2> DEFINE e == [c EXCEPT !.new = new, !.pc = IF new = {} THEN "end" ELSE "commitItem"]
  <2>1. e.op = c.op /\ e.new = new /\ e.pc = IF new = {} THEN "end" ELSE "commitItem"
      BY <1>1 DEF Call
  <2>2. calls' = (calls \ {c}) \cup (IF e.pc = "end" THEN {} ELSE {e}) /\ calls = {c}
      BY <1>5 DEF Goes, CalmStart
  <2> HIDE DEF e
  <2>3. QED
      BY <2>1, <2>2
<1>7. CalmLists'
  <2>1. \A n \in Names : ListDone(n)'
      BY <1>1, <1>2 DEF ListDone, Public, ListKey
  <2>2. \A d \in calls' : ListsOf(d)'
      BY <1>6 DEF ListsOf, Opening, Unpublishing
  <2>3. QED
      BY <2>1, <2>2 DEF CalmLists
<1>8. \A n, a : (Shown(n, a)' <=> Shown(n, a)) /\ (RowDone(n, a)' <=> RowDone(n, a))
    BY <1>1 DEF Shown, RowDone, Public, Members
<1>9. CalmRows'
  <2>1. ASSUME NEW n \in Names, NEW a \in Candidates, ~RowDone(n, a)
        PROVE  \E d \in calls' : On(n, d) /\ a \in Pending(d)
    <3>1. n = l /\ a \in new
        BY <1>2, <1>3, <2>1 DEF RowDone, Shown
    <3>2. QED
        BY <1>1, <1>6, <3>1 DEF On, Pending
  <2>2. \A d \in calls' : RowsOf(d)'
      BY <1>3, <1>6, <1>8 DEF RowsOf, Opening, Pending, Shown
  <2>3. QED
      BY <1>8, <2>1, <2>2 DEF CalmRows, Pending, On
<1>10. CalmRecords'
    BY <1>1, <1>6, RecordsSame DEF Setting, Gathering, InList, InRow, ListKey
<1>11. CalmFollows'
    BY <1>1, <1>6, FollowsPlain DEF Owing, Gathering, Plain
<1>12. CalmRelays'
    BY <1>1, <1>6, RelaysSame
<1>13. QED
    BY <1>7, <1>9, <1>10, <1>11, <1>12, CalmFacts DEF Calm

LEMMA CalmOfPublishList ==
    ASSUME NEW c, CalmStart(c), PublishListToAtp(c)
    PROVE  Calm'
<1> DEFINE l == c.op.list
<1>1. /\ c.pc = "commitList" /\ c.op.op \in {"create", "update"} /\ c.op.list \in Names
      /\ c \in calls /\ Call(c) /\ TablesOK /\ calls = {c}
      /\ Drawn /\ Goes(c, [c EXCEPT !.pc = "setList", !.key = nextKey + 1])
      /\ UNCHANGED <<lists, rows, hist, follows, far, relays, joined, mail, jobs>>
    BY CalmFacts DEF PublishListToAtp, Stands, Call, Placed, NoFault, remote, CalmStart
<1>e. PICK e : e = [c EXCEPT !.pc = "setList", !.key = nextKey + 1]
    OBVIOUS
<1>2. e.pc = "setList" /\ e.op = c.op /\ e.key = nextKey + 1 /\ e.items = c.items /\ e.new = c.new
    BY <1>1, <1>e DEF Call
<1>3. calls' = (calls \ {c}) \cup (IF e.pc = "end" THEN {} ELSE {e})
    BY <1>1, <1>e DEF Goes
<1>4. calls' = {e}
    BY <1>1, <1>2, <1>3
<1>5. /\ \A n : ListKey(n)' = ListKey(n) /\ Public(n)' = Public(n) /\ (ListDone(n)' <=> ListDone(n))
      /\ \A n, a : (RowDone(n, a)' <=> RowDone(n, a))
    BY <1>1 DEF ListKey, Public, ListDone, RowDone, Shown, Members
<1>6. /\ \A n \in Names : n # l => ListDone(n)
      /\ \A n \in Names, a \in Candidates : n # l => RowDone(n, a)
    BY <1>1, CalmFacts DEF Calm, CalmLists, CalmRows, On
<1>7. CalmLists'
  <2>1. On(l, e) /\ Opening(e)
      BY <1>1, <1>2 DEF On, Opening
  <2>2. ListsOf(e)'
      BY <1>1, <1>2, <1>5, CalmFacts DEF ListsOf, Opening, Unpublishing
  <2>3. QED
      BY <1>4, <1>5, <1>6, <2>1, <2>2 DEF CalmLists, On, Opening, Unpublishing
<1>8. CalmRows'
  <2>1. On(l, e) /\ Opening(e)
      BY <1>1, <1>2 DEF On, Opening
  <2>2. RowsOf(e)'
      BY <1>1, <1>2, CalmFacts DEF RowsOf, Opening, Pending
  <2>3. QED
      BY <1>4, <1>5, <1>6, <2>1, <2>2 DEF CalmRows, On, Opening, Unpublishing
<1>9. CalmRecords'
  <2>1. \A k \in records : k \in hist.over \/ InList(k) \/ InRow(k)
      BY <1>1, CalmFacts DEF Calm, CalmRecords, Coming, Left, Setting, Gathering
  <2>2. \A k : (InList(k)' <=> InList(k)) /\ (InRow(k)' <=> InRow(k))
      BY <1>1, <1>5 DEF InList, InRow
  <2>3. Coming(e.key)'
      BY <1>2, <1>4 DEF Coming, Setting
  <2>4. records' = records \cup {e.key}
      BY <1>1, <1>2 DEF Drawn
  <2>5. QED
      BY <1>1, <1>2, <1>4, <2>1, <2>2, <2>3, <2>4 DEF CalmRecords
<1>10. CalmFollows'
    BY <1>1, <1>2, <1>4, FollowsPlain DEF Owing, Gathering, Plain
<1>11. CalmRelays'
    BY <1>1, <1>2, <1>4, RelaysSame
<1>12. QED
    BY <1>7, <1>8, <1>9, <1>10, <1>11, CalmFacts DEF Calm

LEMMA CalmOfSetList ==
    ASSUME NEW c, CalmStart(c), SetAtpListRecord(c)
    PROVE  Calm'
<1> DEFINE l == c.op.list
<1>1. /\ c.pc = "setList" /\ c.op.op \in {"create", "update"} /\ c.op.list \in Names /\ c.key \in Nat
      /\ c \in calls /\ Call(c) /\ TablesOK /\ calls = {c}
      /\ UNCHANGED <<rows, records, follows, far, relays, joined, mail, jobs>>
      /\ DOMAIN hist = {"calm", "over", "stale"}
    BY CalmFacts DEF SetAtpListRecord, Stands, Call, Placed, Setting, repo, remote, CalmStart, ListsTypeOK, BoundsOK
<1>2. Public(l) /\ ListKey(l) = Nil /\ lists[l] # Nil
    BY <1>1, CalmFacts DEF ListsOf, Opening, Public
<1>3. /\ lists' = [lists EXCEPT ![l] = [public |-> Public(l), key |-> c.key]]
      /\ hist'.over = hist.over
  <2>1. lists[l].key = Nil
      BY <1>1, <1>2, ListFacts
  <2>2. hist' = [hist EXCEPT !.over = @ \cup ({lists[l].key} \ {Nil})]
      BY <1>2, CalmFacts DEF SetAtpListRecord
  <2>3. hist.over \cup ({lists[l].key} \ {Nil}) = hist.over
      BY <2>1
  <2>4. hist'.over = hist.over
      BY <1>1, <2>2, <2>3
  <2>5. lists' = [lists EXCEPT ![l].key = c.key]
      BY <1>2, CalmFacts DEF SetAtpListRecord
  <2>6. [lists EXCEPT ![l].key = c.key] = [lists EXCEPT ![l] = [public |-> Public(l), key |-> c.key]]
      BY <1>1, <1>2, RowIs
  <2>7. QED
      BY <2>4, <2>5, <2>6
<1>4. /\ \A n \in Names : n # l => ListKey(n)' = ListKey(n) /\ Public(n)' = Public(n) /\ lists'[n] = lists[n]
      /\ ListKey(l)' = c.key /\ Public(l)' = Public(l) /\ lists'[l] # Nil
  <2>1. Public(l) \in BOOLEAN /\ c.key \in Nat \cup {Nil} /\ l \in Names /\ TablesOK
      BY <1>1, ListFacts
  <2>2. QED
      BY <1>2, <1>3, <2>1, ListChanged
<1>5. /\ \A n \in Names : n # l => ListDone(n)
      /\ \A n \in Names, a \in Candidates : n # l => RowDone(n, a)
    BY <1>1, CalmFacts DEF Calm, CalmLists, CalmRows, On
<1>6. /\ \A d \in calls' : d.op = c.op /\ d.pc = "items" /\ c.op.op = "update"
      /\ c.op.op = "update" => \E d \in calls' : d.op = c.op /\ d.pc = "items"
    BY <1>1, OnlyFurther DEF SetAtpListRecord, Further, AfterList
<1>7. \A a \in Candidates : rows[<<l, a>>] \notin Nat /\ (c.op.op = "create" => rows[<<l, a>>] = Out)
    BY <1>1, CalmFacts DEF RowsOf, Opening
<1>8. CalmLists'
  <2>1. \A n \in Names : ListDone(n)'
      BY <1>1, <1>2, <1>4, <1>5 DEF ListDone
  <2>2. \A d \in calls' : ListsOf(d)'
      BY <1>6 DEF ListsOf, Opening, Unpublishing
  <2>3. QED
      BY <2>1, <2>2 DEF CalmLists
<1>9. CalmRows'
  <2>1. \A n \in Names, a \in Candidates : n # l => RowDone(n, a)'
      BY <1>1, <1>4, <1>5, RowDoneSame
  <2>2. c.op.op = "create" => \A a \in Candidates : RowDone(l, a)'
      BY <1>1, <1>7 DEF RowDone, Shown, Members
  <2>3. c.op.op = "update" => \E d \in calls' : On(l, d) /\ d.pc = "items"
      BY <1>6 DEF On
  <2>4. \A d \in calls' : RowsOf(d)'
      BY <1>1, <1>2, <1>4, <1>6, <1>7 DEF RowsOf, Opening, Pending
  <2>5. QED
      BY <1>1, <2>1, <2>2, <2>3, <2>4 DEF CalmRows, On
<1>10. CalmRecords'
  <2>1. \A k \in records : k \in hist.over \/ InList(k) \/ InRow(k) \/ k = c.key
      BY <1>1, CalmFacts DEF Calm, CalmRecords, Coming, Left, Setting, Gathering
  <2>2. \A k \in records : k \in Nat
      BY <1>1, RecordKeys
  <2>3. \A k \in Nat : (InList(k) => InList(k)') /\ (InRow(k) => InRow(k)') /\ InList(c.key)'
      BY <1>1, <1>2, <1>4 DEF InList, InRow
  <2>4. QED
      BY <1>1, <1>3, <1>6, <2>1, <2>2, <2>3 DEF CalmRecords
<1>11. CalmFollows'
    BY <1>1, <1>6, FollowsPlain DEF Owing, Gathering, Plain
<1>12. CalmRelays'
    BY <1>1, <1>6, RelaysSame
<1>13. QED
    BY <1>8, <1>9, <1>10, <1>11, <1>12, CalmFacts DEF Calm

LEMMA CalmOfPublishItem ==
    ASSUME NEW c, CalmStart(c), MaybePublishListitem(c)
    PROVE  Calm'
<1> DEFINE l == c.op.list
<1>1. /\ c.pc = "commitItem" /\ c.op.op \in {"update", "add"} /\ c.op.list \in Names
      /\ c \in calls /\ Call(c) /\ TablesOK /\ calls = {c}
      /\ UNCHANGED <<lists, rows, hist, follows, far, relays, joined, mail, jobs>>
    BY CalmFacts DEF MaybePublishListitem, Stands, Call, Placed, NoFault, remote, CalmStart
<1>2. PICK x \in c.new : Drawn /\ Goes(c, [c EXCEPT !.pc = "setItem", !.key = nextKey + 1, !.actor = x, !.new = c.new \ {x}])
    BY CalmFacts DEF MaybePublishListitem
<1>e. PICK e : e = [c EXCEPT !.pc = "setItem", !.key = nextKey + 1, !.actor = x, !.new = c.new \ {x}]
    OBVIOUS
<1>3. e.pc = "setItem" /\ e.op = c.op /\ e.key = nextKey + 1 /\ e.actor = x /\ e.new = c.new \ {x} /\ e.items = c.items
    BY <1>1, <1>e DEF Call
<1>4. calls' = (calls \ {c}) \cup (IF e.pc = "end" THEN {} ELSE {e})
    BY <1>2, <1>e DEF Goes
<1>5. calls' = {e}
    BY <1>1, <1>3, <1>4
<1>6. /\ \A n : ListKey(n)' = ListKey(n) /\ (ListDone(n)' <=> ListDone(n))
      /\ \A n, a : (RowDone(n, a)' <=> RowDone(n, a)) /\ (Shown(n, a)' <=> Shown(n, a))
    BY <1>1 DEF ListKey, Public, ListDone, RowDone, Shown, Members
<1>7. Pending(c) = c.new /\ Pending(e) = c.new
    BY <1>1, <1>2, <1>3 DEF Pending
<1>8. /\ \A n \in Names : ListDone(n)
      /\ \A n \in Names, a \in Candidates : RowDone(n, a) \/ (n = l /\ a \in c.new)
      /\ \A a \in c.new : Shown(l, a)
  <2>1. CalmLists /\ CalmRows /\ RowsOf(c)
      BY CalmFacts DEF Calm
  <2>2. \A n \in Names : ListDone(n)
      BY <1>1, <2>1 DEF CalmLists, Opening, Unpublishing
  <2>3. \A n \in Names, a \in Candidates : RowDone(n, a) \/ (n = l /\ a \in c.new)
      BY <1>1, <1>7, <2>1 DEF CalmRows, On, Opening, Unpublishing
  <2>4. \A a \in c.new : Shown(l, a)
      BY <1>7, <2>1 DEF RowsOf
  <2>5. QED
      BY <2>2, <2>3, <2>4
<1>9. CalmLists'
    BY <1>3, <1>5, <1>6, <1>8 DEF CalmLists, ListsOf, Opening, Unpublishing
<1>10. CalmRows'
  <2>1. On(l, e)
      BY <1>1, <1>3 DEF On
  <2>2. \A a \in Pending(e)' : Shown(e.op.list, a)'
      BY <1>3, <1>6, <1>7, <1>8 DEF Pending
  <2>3. RowsOf(e)'
      BY <1>3, <2>2 DEF RowsOf, Opening
  <2>4. \A n \in Names, a \in Candidates : RowDone(n, a)' \/ \E d \in calls' : On(n, d) /\ a \in Pending(d)
      BY <1>5, <1>6, <1>7, <1>8, <2>1
  <2>5. QED
      BY <1>5, <2>3, <2>4 DEF CalmRows, On, Pending
<1>11. CalmRecords'
  <2>1. \A k \in records : k \in hist.over \/ InList(k) \/ InRow(k)
      BY <1>1, CalmFacts DEF Calm, CalmRecords, Coming, Left, Setting, Gathering
  <2>2. \A k : (InList(k)' <=> InList(k)) /\ (InRow(k)' <=> InRow(k))
      BY <1>1, <1>6 DEF InList, InRow
  <2>3. Coming(e.key)'
      BY <1>3, <1>5 DEF Coming, Setting
  <2>4. records' = records \cup {e.key}
      BY <1>2, <1>3 DEF Drawn
  <2>5. QED
      BY <1>1, <1>3, <1>5, <2>1, <2>2, <2>3, <2>4 DEF CalmRecords
<1>12. CalmFollows'
    BY <1>1, <1>3, <1>5, FollowsPlain DEF Owing, Gathering, Plain
<1>13. CalmRelays'
    BY <1>1, <1>3, <1>5, RelaysSame
<1>14. QED
    BY <1>9, <1>10, <1>11, <1>12, <1>13, CalmFacts DEF Calm

LEMMA CalmOfSetItem ==
    ASSUME NEW c, CalmStart(c), SetMemberAtpRecord(c)
    PROVE  Calm'
<1> DEFINE l == c.op.list
           m == <<c.op.list, c.actor>>
<1>1. /\ c.pc = "setItem" /\ c.op.op \in {"update", "add"} /\ c.op.list \in Names /\ c.key \in Nat /\ c.actor \in Candidates
      /\ m \in Names \X Candidates
      /\ c \in calls /\ Call(c) /\ TablesOK /\ calls = {c}
      /\ UNCHANGED <<lists, records, follows, far, relays, joined, mail, jobs>>
      /\ DOMAIN hist = {"calm", "over", "stale"}
      /\ hist' = [hist EXCEPT !.over = @ \cup ({rows[m]} \ {Nil, Out})]
    BY CalmFacts DEF SetMemberAtpRecord, Stands, Call, Placed, Setting, repo, remote, CalmStart, ListsTypeOK, BoundsOK
<1>2. hist'.over = hist.over \cup ({rows[m]} \ {Nil, Out})
    BY <1>1
<1>3. Pending(c) = c.new \cup {c.actor} /\ \A a \in c.new \cup {c.actor} : Shown(l, a)
    BY <1>1, CalmFacts DEF RowsOf, Pending
<1>4. rows[m] # Out /\ rows' = [rows EXCEPT ![m] = c.key]
    BY <1>3, CalmFacts DEF SetMemberAtpRecord, Shown, Members
<1>5. \A n \in Names \X Candidates : rows'[n] = IF n = m THEN c.key ELSE rows[n]
    BY <1>1, <1>4 DEF TablesOK
<1>6. /\ \A n : ListKey(n)' = ListKey(n) /\ Public(n)' = Public(n) /\ (ListDone(n)' <=> ListDone(n))
      /\ \A n \in Names : Members(n)' = Members(n)
    BY <1>1, <1>4, <1>5, ReferencedSame DEF ListKey, Public, ListDone
<1>7. \A n \in Names : \A a : Shown(n, a)' <=> Shown(n, a)
    BY <1>6 DEF Shown
<1>8. \A d \in calls' : d.op = c.op /\ d.new = c.new /\ d.pc = "commitItem"
    BY Passes, OnlyFurther DEF SetMemberAtpRecord, Further
<1>9. c.new = {} \/ \E d \in calls' : d.op = c.op /\ d.new = c.new /\ d.pc = "commitItem"
    BY OnlyFurther DEF SetMemberAtpRecord, Further, Publishing, GoesTo
<1>10. /\ \A n \in Names : ListDone(n)
       /\ \A n \in Names, a \in Candidates : RowDone(n, a) \/ (n = l /\ a \in c.new \cup {c.actor})
    BY <1>1, <1>3, CalmFacts DEF Calm, CalmLists, CalmRows, On, Opening, Unpublishing
<1>11. CalmLists'
    BY <1>6, <1>8, <1>10 DEF CalmLists, ListsOf, Opening, Unpublishing
<1>12. CalmRows'
  <2>1. ASSUME NEW n \in Names, NEW a \in Candidates
        PROVE  RowDone(n, a)' \/ (n = l /\ a \in c.new)
    <3>1. CASE <<n, a>> = m
        BY <1>1, <1>3, <1>5, <1>7, <3>1 DEF RowDone
    <3>2. CASE <<n, a>> # m
        BY <1>5, <1>7, <1>10, <3>2 DEF RowDone
    <3>3. QED
        BY <3>1, <3>2
  <2>2. \A d \in calls' : On(l, d) /\ Pending(d)' = c.new
      BY <1>1, <1>8 DEF On, Pending
  <2>3. \A d \in calls' : RowsOf(d)'
      BY <1>1, <1>3, <1>7, <1>8, <2>2 DEF RowsOf, Opening
  <2>4. QED
      BY <1>9, <2>1, <2>2, <2>3 DEF CalmRows, On, Pending
<1>13. CalmRecords'
  <2>1. \A k \in records : k \in hist.over \/ InList(k) \/ InRow(k) \/ k = c.key
      BY <1>1, CalmFacts DEF Calm, CalmRecords, Coming, Left, Setting, Gathering
  <2>2. \A k \in records : k \in Nat
      BY <1>1, RecordKeys
  <2>3. \A k \in Nat : (InList(k) => InList(k)') /\ (InRow(k) => InRow(k)' \/ k = rows[m]) /\ InRow(c.key)'
      BY <1>1, <1>5, <1>6 DEF InList, InRow
  <2>4. QED
      BY <1>1, <1>2, <1>8, <2>1, <2>2, <2>3 DEF CalmRecords
<1>14. CalmFollows'
    BY <1>1, <1>4, <1>5, <1>8, FollowsPlain DEF Owing, Gathering, Plain
<1>15. CalmRelays'
    BY <1>1, <1>8, RelaysSame
<1>16. QED
    BY <1>11, <1>12, <1>13, <1>14, <1>15, CalmFacts DEF Calm

(* While a list is unpublished: its key and its rows are those of the call.   *)
LEMMA UnpublishFacts ==
    ASSUME NEW c, CalmStart(c), Unpublishing(c)
    PROVE  /\ c.op.op = "update" /\ c.op.list \in Names /\ On(c.op.list, c)
           /\ c \in calls /\ Call(c) /\ TablesOK /\ calls = {c}
           /\ lists[c.op.list] # Nil /\ ~Public(c.op.list) /\ ListKey(c.op.list) = c.key
           /\ \A n \in Names : n # c.op.list => ListDone(n)
           /\ \A n \in Names, a \in Candidates : n # c.op.list => RowDone(n, a)
           /\ \A k \in records : k \in hist.over \/ InList(k) \/ InRow(k)
           /\ jobs = {} /\ RowsOf(c) /\ ListsOf(c)
<1>1. c.op.op = "update" /\ c.op.list \in Names /\ c \in calls /\ Call(c) /\ TablesOK /\ calls = {c} /\ Calm /\ RowsOf(c) /\ ListsOf(c)
    BY CalmFacts DEF CalmStart, Unpublishing, Call, Placed
<1>2. On(c.op.list, c) /\ \A n : n # c.op.list => ~On(n, c)
    BY <1>1 DEF On
<1>3. lists[c.op.list] # Nil /\ ~Public(c.op.list) /\ ListKey(c.op.list) = c.key
    BY <1>1 DEF ListsOf
<1>4. /\ \A n \in Names : n # c.op.list => ListDone(n)
      /\ \A n \in Names, a \in Candidates : n # c.op.list => RowDone(n, a)
    BY <1>1, <1>2 DEF Calm, CalmLists, CalmRows
<1>5. \A k \in records : k \in hist.over \/ InList(k) \/ InRow(k)
    BY <1>1 DEF Calm, CalmRecords, Coming, Left, Setting, Gathering, Unpublishing
<1>6. jobs = {}
    BY <1>1 DEF Calm, CalmFollows, FollowsOf, Gathering, Unpublishing
<1>7. QED
    BY <1>1, <1>2, <1>3, <1>4, <1>5, <1>6
(* A step on the way, or the last one.                                       *)
LEMMA UnpublishGoesOn ==
    ASSUME NEW c, CalmStart(c), Unpublishing(c), UNCHANGED <<lists, follows, far, relays, joined, mail, jobs>>,
           NEW d, calls' = {d}, d.op = c.op, d.key = c.key, Unpublishing(d), RowsOf(d)', d.pc = "clearList" => d.key \notin records',
           \A m \in Names \X Candidates : m[1] # c.op.list => rows'[m] = rows[m],
           \A m \in Names \X Candidates : rows'[m] = Out <=> rows[m] = Out,
           records' \subseteq records, UNCHANGED hist, \A k \in records' : InRow(k) => InRow(k)'
    PROVE  Calm'
<1> USE UnpublishFacts
<1>1. /\ \A n : ListKey(n)' = ListKey(n) /\ Public(n)' = Public(n) /\ (ListDone(n)' <=> ListDone(n))
      /\ \A n \in Names : Members(n)' = Members(n)
    BY ReferencedSame DEF ListKey, Public, ListDone
<1>2. On(c.op.list, d) /\ Unpublishing(d)
    BY DEF On
<1>3. CalmLists'
  <2>1. ListsOf(d)'
      BY <1>1 DEF ListsOf, Opening, Unpublishing
  <2>2. QED
      BY <1>1, <1>2, <2>1 DEF CalmLists, On, Unpublishing
<1>4. CalmRows'
  <2>1. ASSUME NEW n \in Names, NEW a \in Candidates, n # c.op.list
        PROVE  RowDone(n, a)'
    <3>1. <<n, a>> \in Names \X Candidates /\ RowDone(n, a)
        BY <2>1
    <3>2. QED
        BY <1>1, <2>1, <3>1 DEF RowDone, Shown
  <2>2. QED
      BY <1>2, <2>1 DEF CalmRows, On, Unpublishing
<1>5. CalmRecords'
    BY <1>1, <1>2, RecordsSame DEF Setting, Gathering, Unpublishing, InList
<1>6. CalmFollows'
    BY <1>2, FollowsPlain DEF Owing, Gathering, Plain, Unpublishing
<1>7. CalmRelays'
    BY <1>2, RelaysSame DEF Unpublishing
<1>8. QED
    BY <1>3, <1>4, <1>5, <1>6, <1>7, CalmFacts DEF Calm

LEMMA CalmOfUnpublish ==
    ASSUME NEW c, CalmStart(c), Unpublish(c)
    PROVE  Calm'
<1>1. /\ c.pc = "unpublish" /\ Unpublishing(c)
      /\ UNCHANGED <<lists, rows, records, hist, follows, far, relays, joined, mail, jobs>>
    BY DEF Unpublish, Stands, Unpublishing, OnlyCalls, NoFault, repo, remote
<1>2. PICK d : d = [c EXCEPT !.items = Items(c.op.list), !.pc = IF Items(c.op.list) = {} THEN "deleteList" ELSE "deleteItem"]
    OBVIOUS
<1>3. /\ d.op = c.op /\ d.key = c.key /\ d.items = Items(c.op.list)
      /\ d.pc = IF Items(c.op.list) = {} THEN "deleteList" ELSE "deleteItem"
    BY <1>2, CalmFacts DEF Call
<1>4. calls' = {d}
  <2>1. Goes(c, d) /\ calls = {c}
      BY <1>2 DEF Unpublish, CalmStart
  <2>2. QED
      BY <1>3, <2>1 DEF Goes
<1>5. RowsOf(d)'
  <2>1. ItemsOf(d)'
    <3>1. \A a \in Candidates, k \in Nat : <<a, k>> \in d.items <=> rows[<<d.op.list, a>>] = k
      <4>1. c.op.list \in Names /\ TablesOK
          BY <1>1, UnpublishFacts
      <4>2. \A a \in Candidates, k \in Nat : <<a, k>> \in Items(c.op.list) <=> rows[<<c.op.list, a>>] = k
          BY <4>1, ItemsAre
      <4>3. QED
          BY <1>3, <4>2
    <3>2. QED
        BY <1>1, <1>3, <3>1 DEF ItemsOf
  <2>2. QED
      BY <1>3, <2>1 DEF RowsOf, Opening, Pending
<1>6. QED
    BY <1>1, <1>3, <1>4, <1>5, UnpublishGoesOn DEF Unpublishing, InRow

LEMMA CalmOfUnpublishItem ==
    ASSUME NEW c, CalmStart(c), UnpublishListFromAtp(c), c.pc = "deleteItem"
    PROVE  Calm'
<1>1. Unpublishing(c) /\ ~Fault /\ UNCHANGED <<lists, rows, follows, far, relays, joined, mail, jobs>>
    BY CalmFacts DEF UnpublishListFromAtp, Unpublishing, remote
<1>2. PICK i \in c.items : Deletes(i[2]) /\ Goes(c, [c EXCEPT !.pc = "clearItem", !.actor = i[1], !.items = @ \ {i}])
    BY DEF UnpublishListFromAtp, Stands
<1>3. records' = records \ {i[2]} /\ UNCHANGED hist
    BY <1>1, <1>2 DEF Deletes, NoFault
<1>4. i[1] \in Candidates /\ i[2] \in Nat /\ i = <<i[1], i[2]>>
    BY <1>2, CalmFacts DEF Call
<1>5. ItemsOf(c) /\ rows[<<c.op.list, i[1]>>] = i[2]
  <2>1. ItemsOf(c)
      BY <1>1, UnpublishFacts DEF RowsOf
  <2>2. <<i[1], i[2]>> \in c.items
      BY <1>2, <1>4
  <2>3. QED
      BY <1>4, <2>1, <2>2 DEF ItemsOf
<1>6. PICK d : d = [c EXCEPT !.pc = "clearItem", !.actor = i[1], !.items = @ \ {i}]
    OBVIOUS
<1>7. d.op = c.op /\ d.key = c.key /\ d.items = c.items \ {i} /\ d.pc = "clearItem" /\ d.actor = i[1]
    BY <1>6, CalmFacts DEF Call
<1>8. calls' = {d}
  <2>1. Goes(c, d) /\ calls = {c}
      BY <1>2, <1>6 DEF CalmStart
  <2>2. QED
      BY <1>7, <2>1 DEF Goes
<1>9. RowsOf(d)'
  <2>1. ASSUME NEW a \in Candidates, NEW k \in Nat
        PROVE  <<a, k>> \in d.items <=> rows[<<d.op.list, a>>] = k /\ a # d.actor
    <3>1. <<a, k>> \in c.items <=> rows[<<c.op.list, a>>] = k
        BY <1>5 DEF ItemsOf
    <3>2. <<a, k>> = i <=> a = i[1] /\ k = i[2]
        BY <1>4
    <3>3. QED
        BY <1>5, <1>7, <3>1, <3>2
  <2>2. ItemsOf(d)'
      BY <1>1, <1>7, <2>1 DEF ItemsOf
  <2>3. rows'[<<d.op.list, d.actor>>] \notin records'
      BY <1>1, <1>3, <1>5, <1>7
  <2>4. QED
      BY <1>7, <2>2, <2>3 DEF RowsOf, Opening, Pending
<1>10. QED
    BY <1>1, <1>3, <1>7, <1>8, <1>9, UnpublishGoesOn DEF Unpublishing, InRow

LEMMA CalmOfUnpublishList ==
    ASSUME NEW c, CalmStart(c), UnpublishListFromAtp(c), c.pc = "deleteList"
    PROVE  Calm'
<1>1. Unpublishing(c) /\ ~Fault /\ UNCHANGED <<lists, rows, follows, far, relays, joined, mail, jobs>>
    BY CalmFacts DEF UnpublishListFromAtp, Unpublishing, remote
<1>2. Deletes(c.key) /\ GoesTo(c, "clearList")
    BY DEF UnpublishListFromAtp, Stands
<1>3. records' = records \ {c.key} /\ UNCHANGED hist
    BY <1>1, <1>2 DEF Deletes, NoFault
<1>4. PICK d \in calls' : Further(c, d) /\ d.pc = "clearList"
    BY <1>2, OnlyFurther
<1>5. calls' = {d}
    BY CalmFacts DEF OneCall
<1>6. RowsOf(d)'
  <2>1. ItemsOf(c) /\ c.items = {}
      BY <1>1, UnpublishFacts DEF RowsOf
  <2>2. ItemsOf(d)'
      BY <1>1, <1>4, <2>1 DEF ItemsOf, Further
  <2>3. QED
      BY <1>4, <2>1, <2>2 DEF RowsOf, Opening, Pending, Further
<1>7. QED
    BY <1>1, <1>3, <1>4, <1>5, <1>6, UnpublishGoesOn DEF Unpublishing, InRow, Further

LEMMA CalmOfClearItem ==
    ASSUME NEW c, CalmStart(c), ClearMemberAtpRecord(c)
    PROVE  Calm'
<1> DEFINE m == <<c.op.list, c.actor>>
<1>1. /\ c.pc = "clearItem" /\ Unpublishing(c) /\ UNCHANGED <<lists, records, hist, follows, far, relays, joined, mail, jobs>>
      /\ c.actor \in Candidates
    BY CalmFacts DEF ClearMemberAtpRecord, Unpublishing, Stands, NoFault, repo, remote, Call
<1>2. m \in Names \X Candidates /\ ItemsOf(c) /\ rows[m] \notin records /\ c.op.list \in Names
    BY <1>1, UnpublishFacts DEF RowsOf
<1>3. \A n \in Names \X Candidates : rows'[n] = IF n = m /\ rows[m] # Out THEN Nil ELSE rows[n]
    BY <1>1, <1>2, UnpublishFacts, CalmFacts DEF ClearMemberAtpRecord, TablesOK
<1>4. PICK d \in calls' : Further(c, d) /\ d.pc = IF c.items = {} THEN "deleteList" ELSE "deleteItem"
    BY OnlyFurther DEF ClearMemberAtpRecord
<1>5. calls' = {d}
    BY CalmFacts DEF OneCall
<1>6. RowsOf(d)'
  <2>1. ASSUME NEW a \in Candidates, NEW k \in Nat
        PROVE  <<a, k>> \in d.items <=> rows'[<<d.op.list, a>>] = k
    <3>1. <<a, k>> \in c.items <=> rows[<<c.op.list, a>>] = k /\ a # c.actor
        BY <1>1, <1>2 DEF ItemsOf
    <3>2. rows'[<<c.op.list, a>>] = k <=> rows[<<c.op.list, a>>] = k /\ a # c.actor
        BY <1>2, <1>3
    <3>3. QED
        BY <1>4, <3>1, <3>2 DEF Further
  <2>2. ItemsOf(d)'
      BY <1>4, <2>1 DEF ItemsOf
  <2>3. QED
      BY <1>4, <2>2 DEF RowsOf, Opening, Pending, Further
<1>7. \A k \in records' : InRow(k) => InRow(k)'
    BY <1>1, <1>2, <1>3 DEF InRow
<1>8. \A n \in Names \X Candidates : (n[1] # c.op.list => rows'[n] = rows[n]) /\ (rows'[n] = Out <=> rows[n] = Out)
    BY <1>3
<1>9. QED
    BY <1>1, <1>4, <1>5, <1>6, <1>7, <1>8, UnpublishGoesOn DEF Unpublishing, Further

LEMMA CalmOfClearList ==
    ASSUME NEW c, CalmStart(c), ClearAtpListRecord(c)
    PROVE  Calm'
<1> DEFINE l == c.op.list
<1>1. /\ c.pc = "clearList" /\ Unpublishing(c) /\ UNCHANGED <<rows, records, hist, follows, far, relays, joined, mail, jobs>>
      /\ calls' = {}
    BY OnlyEnds, CalmFacts DEF ClearAtpListRecord, Unpublishing, Stands, NoFault, repo, remote
<1>2. /\ l \in Names /\ lists[l] # Nil /\ ~Public(l) /\ ListKey(l) = c.key /\ c.key \notin records /\ ItemsOf(c) /\ c.items = {}
      /\ TablesOK
    BY <1>1, UnpublishFacts DEF RowsOf, ListsOf
<1>3. lists' = [lists EXCEPT ![l] = [public |-> Public(l), key |-> Nil]]
    BY <1>2, RowIs, CalmFacts DEF ClearAtpListRecord
<1>4. /\ \A n \in Names : n # l => ListKey(n)' = ListKey(n) /\ Public(n)' = Public(n) /\ lists'[n] = lists[n]
      /\ ListKey(l)' = Nil /\ Public(l)' = Public(l) /\ lists'[l] # Nil
  <2>1. Public(l) \in BOOLEAN
      BY <1>2, ListFacts
  <2>2. QED
      BY <1>2, <1>3, <2>1, ListChanged
<1>5. CalmLists'
    BY <1>1, <1>2, <1>4, UnpublishFacts DEF CalmLists, ListDone
<1>6. CalmRows'
  <2>1. \A a \in Candidates : RowDone(l, a)
      BY <1>1, <1>2 DEF RowDone, Shown, ItemsOf
  <2>2. \A n \in Names, a \in Candidates : RowDone(n, a)
      BY <1>1, <2>1, UnpublishFacts
  <2>3. \A n \in Names, a \in Candidates : RowDone(n, a)'
      BY <1>1, <1>4, <2>2, RowDoneSame
  <2>4. QED
      BY <1>1, <2>3 DEF CalmRows
<1>7. CalmRecords'
  <2>1. \A k \in records : InList(k) => InList(k)'
    <3>1. ASSUME NEW k \in records, NEW n \in Names, ListKey(n) = k
          PROVE  ListKey(n)' = k
        BY <1>2, <1>4, <3>1
    <3>2. QED
        BY <3>1 DEF InList
  <2>2. QED
      BY <1>1, <2>1, RecordsSame DEF Setting, Gathering, InRow
<1>8. CalmFollows'
    BY <1>1, FollowsPlain DEF Owing, Gathering
<1>9. CalmRelays'
    BY <1>1, RelaysSame
<1>10. QED
    BY <1>5, <1>6, <1>7, <1>8, <1>9, CalmFacts DEF Calm

-----------------------------------------------------------------------------
(* Rows that go: their keys and their actors are with the call.              *)
LEMMA RecordsLeft ==
    ASSUME NEW c, CalmStart(c), ~Setting(c), ~Gathering(c), UNCHANGED <<records, hist>>,
           \A k \in records : InList(k) => InList(k)' \/ \E d \in calls' : Left(d, k),
           \A k \in records : InRow(k) => InRow(k)' \/ \E d \in calls' : Left(d, k),
           \A d \in calls' : d.pc = "dropList" => d.items = {}
    PROVE  CalmRecords'
<1>1. CalmRecords /\ calls = {c}
    BY DEF CalmStart, Calm
<1>2. \A k \in records : k \in hist.over \/ InList(k) \/ InRow(k)
    BY <1>1 DEF CalmRecords, Left, Coming
<1>3. \A d, k : Left(d, k)' <=> Left(d, k)
    BY DEF Left, Gathering
<1>4. QED
    BY <1>2, <1>3 DEF CalmRecords
LEMMA IdleFollows ==
    ASSUME NEW c, CalmStart(c), jobs = {}, ~Owing(c)
    PROVE  /\ \A a \in Fedi : far[a] = follows[a] /\ follows[a] = ActorReferencedByAnyList(a)
           /\ follows \in [Fedi -> BOOLEAN]
<1>1. CalmFollows /\ calls = {c} /\ RemoteOK
    BY CalmFacts DEF CalmStart, Calm
<1>2. \A a : ~Owed(a) /\ ~JobFor(a)
    BY <1>1 DEF Owed, Owes, Owing, JobFor
<1>3. QED
    BY <1>1, <1>2 DEF CalmFollows, Followed, RemoteOK
LEMMA FollowsLeft ==
    ASSUME NEW c, CalmStart(c), jobs = {}, ~Owing(c), UNCHANGED <<follows, far, jobs>>,
           \A d \in calls' : Gathering(d) /\ d.fedi = c.fedi /\ (d.pc \in {"dropItem", "dropList"} => c.fedi = {}),
           \A a \in Fedi : \/ ActorReferencedByAnyList(a)' = ActorReferencedByAnyList(a)
                           \/ a \in c.fedi /\ \E d \in calls' : d.pc = "unfollow",
           \A a \in c.fedi \cap Fedi : ActorReferencedByAnyList(a)
    PROVE  CalmFollows'
<1>1. /\ \A a \in Fedi : far[a] = follows[a] /\ follows[a] = ActorReferencedByAnyList(a)
      /\ follows \in [Fedi -> BOOLEAN]
    BY IdleFollows
<1>2. \A a \in c.fedi \cap Fedi : follows[a]
    BY <1>1
<1>3. \A d \in calls' : FollowsOf(d)'
    BY <1>2 DEF FollowsOf, Gathering
<1>4. ASSUME NEW a \in Fedi
      PROVE  Followed(a)'
  <2>1. CASE ActorReferencedByAnyList(a)' = ActorReferencedByAnyList(a)
      BY <1>1, <2>1 DEF Followed
  <2>2. CASE a \in c.fedi /\ \E d \in calls' : d.pc = "unfollow"
      BY <1>1, <2>2 DEF Followed, Owed, Owes
  <2>3. QED
      BY <1>4, <2>1, <2>2
<1>5. QED
    BY <1>3, <1>4 DEF CalmFollows
LEMMA WithdrawsTo ==
    ASSUME NEW c, CalmStart(c), Withdraws(c, c)
    PROVE  /\ \A d \in calls' : /\ Further(c, d) /\ Gathering(d)
                                /\ d.pc \in {"dropItem", "dropList"} => c.fedi = {}
                                /\ d.pc = "dropList" => c.items = {}
           /\ c.fedi # {} => \E d \in calls' : d.pc = "unfollow"
           /\ c.items # {} \/ c.public => \E d \in calls' : Further(c, d) /\ Gathering(d)
<1>1. GoesTo(c, Withdrawing(c))
    BY DEF Withdraws, GoesTo
<1>2. /\ \A d \in calls' : Further(c, d) /\ d.pc = Withdrawing(c) /\ Withdrawing(c) # "end"
      /\ Withdrawing(c) = "end" \/ \E d \in calls' : Further(c, d) /\ d.pc = Withdrawing(c)
    BY <1>1, OnlyFurther
<1>3. QED
    BY <1>2 DEF Withdrawing, Gathering

LEMMA CalmOfDelete ==
    ASSUME NEW c, CalmStart(c), DeleteList(c)
    PROVE  Calm'
<1> DEFINE l == c.op.list
<1>1. /\ c.pc = "delete" /\ c.op.op = "delete" /\ c.op.list \in Names
      /\ c \in calls /\ Call(c) /\ TablesOK /\ jobs = {}
      /\ UNCHANGED <<records, hist, follows, far, relays, joined, mail, jobs>>
      /\ ~Opening(c) /\ ~Unpublishing(c) /\ ~Setting(c) /\ ~Gathering(c) /\ ~Owing(c)
    BY CalmFacts DEF DeleteList, Stands, Call, Placed, NoFault, repo, remote, FollowsOf, Opening, Unpublishing, Setting,
        Gathering, Owing
<1>2. CASE UNCHANGED <<lists, rows>> /\ Ends(c)
  <2>1. calls' = {}
      BY <1>2, OnlyEnds
  <2>2. CalmLists' /\ CalmRows'
      BY <1>1, <1>2, <2>1, ListsSame, RowsSame
  <2>3. CalmRecords'
      BY <1>1, <1>2, <2>1, RecordsSame DEF InList, InRow, ListKey
  <2>4. CalmFollows'
      BY <1>1, <1>2, <2>1, FollowsPlain
  <2>5. CalmRelays'
      BY <1>1, <2>1, RelaysSame
  <2>6. QED
      BY <2>2, <2>3, <2>4, <2>5, CalmFacts DEF Calm
<1>3. CASE ~(UNCHANGED <<lists, rows>> /\ Ends(c))
  <2>1. /\ lists[l] # Nil /\ Withdraws(c, c) /\ lists' = [lists EXCEPT ![c.op.list] = Nil]
        /\ rows' = [m \in DOMAIN rows |-> IF m[1] = c.op.list THEN Out ELSE rows[m]]
      BY <1>3 DEF DeleteList
  <2>2. \A m \in Names \X Candidates : rows'[m] = IF m[1] = l THEN Out ELSE rows[m]
      BY <1>1, <2>1 DEF TablesOK
  <2>3. /\ \A n \in Names : n # l => ListKey(n)' = ListKey(n) /\ Public(n)' = Public(n)
        /\ ListKey(l)' = Nil /\ Public(l)' = FALSE
      BY <1>1, <2>1 DEF TablesOK, ListKey, Public
  <2>4. /\ \A n \in Names : ListDone(n)
        /\ \A n \in Names, a \in Candidates : RowDone(n, a)
      BY <1>1, CalmFacts DEF Calm, CalmLists, CalmRows, CalmStart, Pending
  <2>5. c.public = Public(l) /\ c.key = ListKey(l) /\ ItemsOf(c) /\ c.fedi = Members(l) \cap Fedi
      BY <1>1, CalmFacts DEF ListsOf, RowsOf, FollowsOf
  <2>6. CalmLists'
    <3>1. \A n \in Names : ListDone(n)'
        BY <1>1, <2>3, <2>4 DEF ListDone
    <3>2. \A d \in calls' : ListsOf(d)'
        BY <2>1, WithdrawsTo DEF ListsOf, Opening, Unpublishing, Gathering
    <3>3. QED
        BY <3>1, <3>2 DEF CalmLists
  <2>7. CalmRows'
    <3>1. ASSUME NEW n \in Names, NEW a \in Candidates
          PROVE  RowDone(n, a)'
      <4>1. <<n, a>> \in Names \X Candidates /\ RowDone(n, a) /\ rows'[<<n, a>>] = IF n = l THEN Out ELSE rows[<<n, a>>]
          BY <2>2, <2>4
      <4>2. QED
          BY <2>3, <4>1 DEF RowDone, Shown, Members
    <3>2. \A d \in calls' : RowsOf(d)'
        BY <2>1, WithdrawsTo DEF RowsOf, Opening, Pending, Gathering
    <3>3. QED
        BY <3>1, <3>2 DEF CalmRows
  <2>8. CalmRecords'
    <3>1. \A k \in records : k \in Nat
        BY <1>1, RecordKeys
    <3>2. ASSUME NEW k \in records, InList(k)
          PROVE  InList(k)' \/ \E d \in calls' : Left(d, k)
      <4>1. PICK n \in Names : ListKey(n) = k
          BY <3>2 DEF InList
      <4>2. CASE n # l
          BY <2>3, <4>1, <4>2 DEF InList
      <4>3. CASE n = l
        <5>1. c.key = k /\ c.public
            BY <1>1, <2>4, <2>5, <3>1, <4>1, <4>3, ListFacts DEF ListDone
        <5>2. QED
            BY <2>1, <5>1, WithdrawsTo DEF Left, Further
      <4>4. QED
          BY <4>2, <4>3
    <3>3. ASSUME NEW k \in records, InRow(k)
          PROVE  InRow(k)' \/ \E d \in calls' : Left(d, k)
      <4>1. PICK n \in Names, a \in Candidates : rows[<<n, a>>] = k
          BY <3>3 DEF InRow
      <4>2. CASE n # l
          BY <2>2, <4>1, <4>2 DEF InRow
      <4>3. CASE n = l
        <5>1. <<a, k>> \in c.items
            BY <1>1, <2>5, <3>1, <4>1, <4>3 DEF ItemsOf
        <5>2. PICK d \in calls' : Further(c, d) /\ Gathering(d)
            BY <2>1, <5>1, WithdrawsTo
        <5>3. <<a, k>> \in d.items /\ <<a, k>>[2] = k
            BY <5>1, <5>2 DEF Further
        <5>4. QED
            BY <5>2, <5>3 DEF Left
      <4>4. QED
          BY <4>2, <4>3
    <3>4. QED
        BY <1>1, <2>1, <3>2, <3>3, WithdrawsTo, RecordsLeft DEF Further
  <2>9. CalmFollows'
    <3>1. \A a \in Fedi : a \notin c.fedi => ActorReferencedByAnyList(a)' = ActorReferencedByAnyList(a)
      <4>1. ASSUME NEW a \in Fedi, a \notin c.fedi, NEW n \in Names
            PROVE  a \in Members(n)' <=> a \in Members(n)
        <5>1. a \in Candidates
            BY ListsAssumption
        <5>2. <<n, a>> \in Names \X Candidates /\ (n = l => rows[<<n, a>>] = Out)
            BY <1>1, <2>5, <4>1, <5>1 DEF Members
        <5>3. QED
            BY <2>2, <5>1, <5>2 DEF Members
      <4>2. QED
          BY <4>1 DEF ActorReferencedByAnyList
    <3>2. \A a \in c.fedi \cap Fedi : ActorReferencedByAnyList(a)
        BY <1>1, <2>5 DEF ActorReferencedByAnyList
    <3>3. QED
        BY <1>1, <2>1, <3>1, <3>2, WithdrawsTo, FollowsLeft DEF Further
  <2>10. CalmRelays'
      BY <1>1, <2>1, WithdrawsTo, RelaysSame DEF Gathering
  <2>11. QED
      BY <2>6, <2>7, <2>8, <2>9, <2>10, CalmFacts DEF Calm
<1>4. QED
    BY <1>2, <1>3

LEMMA CalmOfRemove ==
    ASSUME NEW c, CalmStart(c), RemoveMember(c)
    PROVE  Calm'
<1> DEFINE m == <<c.op.list, c.op.actor>>
<1>1. /\ c.pc = "removeRow" /\ c.op.op = "remove" /\ c.op.list \in Names /\ c.op.actor \in Candidates
      /\ c \in calls /\ Call(c) /\ TablesOK /\ jobs = {} /\ m \in Names \X Candidates
      /\ UNCHANGED <<lists, records, hist, follows, far, relays, joined, mail, jobs>>
      /\ ~Opening(c) /\ ~Unpublishing(c) /\ ~Setting(c) /\ ~Gathering(c) /\ ~Owing(c)
    BY CalmFacts DEF RemoveMember, Stands, Call, Placed, NoFault, repo, remote, FollowsOf, Opening, Unpublishing, Setting,
        Gathering, Owing
<1>2. CASE rows[m] = Out
  <2>1. calls' = {} /\ UNCHANGED rows
      BY <1>2, OnlyEnds DEF RemoveMember
  <2>2. CalmLists' /\ CalmRows'
      BY <1>1, <2>1, ListsSame, RowsSame
  <2>3. CalmRecords'
      BY <1>1, <2>1, RecordsSame DEF InList, InRow, ListKey
  <2>4. CalmFollows'
      BY <1>1, <2>1, FollowsPlain
  <2>5. CalmRelays'
      BY <1>1, <2>1, RelaysSame
  <2>6. QED
      BY <2>2, <2>3, <2>4, <2>5, CalmFacts DEF Calm
<1>3. CASE rows[m] # Out
  <2>1. Withdraws(c, c) /\ rows' = [rows EXCEPT ![m] = Out]
      BY <1>3 DEF RemoveMember
  <2>2. \A n \in Names \X Candidates : rows'[n] = IF n = m THEN Out ELSE rows[n]
      BY <1>1, <2>1 DEF TablesOK
  <2>3. /\ c.fedi = {c.op.actor}
        /\ \A k \in Nat : rows[m] = k => <<c.op.actor, k>> \in c.items
      BY <1>1, CalmFacts DEF RowsOf, FollowsOf
  <2>4. CalmLists'
    <3>1. \A d \in calls' : ListsOf(d)'
        BY <2>1, WithdrawsTo DEF ListsOf, Opening, Unpublishing, Gathering
    <3>2. QED
        BY <1>1, <3>1, ListsSame
  <2>5. CalmRows'
    <3>1. ASSUME NEW n \in Names, NEW a \in Candidates
          PROVE  RowDone(n, a)'
      <4>1. <<n, a>> \in Names \X Candidates /\ RowDone(n, a) /\ rows'[<<n, a>>] = IF <<n, a>> = m THEN Out ELSE rows[<<n, a>>]
          BY <1>1, <2>2, CalmFacts DEF Calm, CalmRows, CalmStart, Pending
      <4>2. Public(n)' = Public(n)
          BY <1>1 DEF Public
      <4>3. QED
          BY <4>1, <4>2 DEF RowDone, Shown, Members
    <3>2. \A d \in calls' : RowsOf(d)'
        BY <2>1, WithdrawsTo DEF RowsOf, Opening, Pending, Gathering
    <3>3. QED
        BY <3>1, <3>2 DEF CalmRows
  <2>6. CalmRecords'
    <3>1. \A k \in records : k \in Nat
        BY <1>1, RecordKeys
    <3>2. \A k \in records : InList(k) => InList(k)'
        BY <1>1 DEF InList, ListKey
    <3>3. ASSUME NEW k \in records, InRow(k)
          PROVE  InRow(k)' \/ \E d \in calls' : Left(d, k)
      <4>1. PICK n \in Names \X Candidates : rows[n] = k
          BY <3>3 DEF InRow
      <4>2. CASE n # m
          BY <2>2, <4>1, <4>2 DEF InRow
      <4>3. CASE n = m
        <5>1. <<c.op.actor, k>> \in c.items
            BY <2>3, <3>1, <4>1, <4>3
        <5>2. PICK d \in calls' : Further(c, d) /\ Gathering(d)
            BY <2>1, <5>1, WithdrawsTo
        <5>3. <<c.op.actor, k>> \in d.items /\ <<c.op.actor, k>>[2] = k
            BY <5>1, <5>2 DEF Further
        <5>4. QED
            BY <5>2, <5>3 DEF Left
      <4>4. QED
          BY <4>2, <4>3
    <3>4. QED
        BY <1>1, <2>1, <3>2, <3>3, WithdrawsTo, RecordsLeft DEF Further
  <2>7. CalmFollows'
    <3>1. ASSUME NEW a \in Fedi, a \notin c.fedi
          PROVE  ActorReferencedByAnyList(a)' = ActorReferencedByAnyList(a)
      <4>1. a \in Candidates /\ a # c.op.actor
          BY <2>3, <3>1, ListsAssumption
      <4>2. \A n \in Names : rows'[<<n, a>>] = rows[<<n, a>>]
          BY <2>2, <4>1
      <4>3. \A n \in Names : a \in Members(n)' <=> a \in Members(n)
          BY <4>1, <4>2 DEF Members
      <4>4. QED
          BY <4>3 DEF ActorReferencedByAnyList
    <3>2. \A a \in c.fedi \cap Fedi : ActorReferencedByAnyList(a)
        BY <1>1, <1>3, <2>3 DEF ActorReferencedByAnyList, Members
    <3>3. QED
        BY <1>1, <2>1, <3>1, <3>2, WithdrawsTo, FollowsLeft DEF Further
  <2>8. CalmRelays'
      BY <1>1, <2>1, WithdrawsTo, RelaysSame DEF Gathering
  <2>9. QED
      BY <2>4, <2>5, <2>6, <2>7, <2>8, CalmFacts DEF Calm
<1>4. QED
    BY <1>2, <1>3

LEMMA CalmOfDrop ==
    ASSUME NEW c, CalmStart(c), DropRecord(c)
    PROVE  Calm'
<1>1. /\ c.pc \in {"dropItem", "dropList"} /\ c.fedi = {} /\ (c.pc = "dropList" => c.items = {})
      /\ c \in calls /\ Call(c) /\ TablesOK /\ ~Fault /\ Gathering(c) /\ calls = {c}
      /\ UNCHANGED <<lists, rows, follows, far, relays, joined, mail, jobs>>
      /\ ~Opening(c) /\ ~Unpublishing(c) /\ ~Setting(c) /\ ~Owing(c)
    BY CalmFacts DEF DropRecord, Stands, remote, Opening, Unpublishing, Setting, Gathering, Owing, FollowsOf, CalmStart,
        Calm, CalmRecords
<1>2. \A k \in records : k \in hist.over \/ InList(k) \/ InRow(k) \/ Left(c, k)
    BY <1>1, CalmFacts DEF Calm, CalmRecords, Coming
<1>3. \A k : (InList(k)' <=> InList(k)) /\ (InRow(k)' <=> InRow(k))
    BY <1>1 DEF InList, InRow, ListKey
<1>4. PICK x \in {i[2] : i \in c.items} \cup {c.key} :
        /\ records' = records \ {x} /\ UNCHANGED hist
        /\ \A d \in calls' : /\ d.fedi = {} /\ d.pc \in {"dropItem", "dropList"} /\ (d.pc = "dropList" => d.items = {})
        /\ \A k \in records : Left(c, k) /\ k # x => \E d \in calls' : Left(d, k)
  <2>1. CASE c.pc = "dropItem"
    <3>1. PICK i \in c.items : Deletes(i[2]) /\ Withdraws(c, [c EXCEPT !.items = @ \ {i}])
        BY <2>1 DEF DropRecord, Stands
    <3>2. records' = records \ {i[2]} /\ UNCHANGED hist
        BY <1>1, <3>1 DEF Deletes, NoFault
    <3>3. PICK d : d = [c EXCEPT !.items = @ \ {i}]
        OBVIOUS
    <3>4. DOMAIN d = {"op", "pc", "public", "key", "actor", "new", "items", "fedi"} /\ d.items = c.items \ {i}
          /\ d.fedi = c.fedi /\ d.public = c.public /\ d.key = c.key
        BY <1>1, <3>3 DEF Call
    <3>5. PICK e : e = [d EXCEPT !.pc = Withdrawing(d)]
        OBVIOUS
    <3>6. e.items = c.items \ {i} /\ e.fedi = c.fedi /\ e.public = c.public /\ e.key = c.key /\ e.pc = Withdrawing(d)
        BY <3>4, <3>5
    <3>7. calls' = IF Withdrawing(d) = "end" THEN {} ELSE {e}
        BY <1>1, <3>1, <3>3, <3>5, <3>6 DEF Withdraws, Goes
    <3>8. Withdrawing(d) = IF c.items \ {i} # {} THEN "dropItem" ELSE IF c.public THEN "dropList" ELSE "end"
        BY <1>1, <3>4 DEF Withdrawing
    <3>9. \A k \in records : Left(c, k) /\ k # i[2] => \E y \in calls' : Left(y, k)
      <4>1. ASSUME NEW k \in records, Left(c, k), k # i[2]
            PROVE  Left(e, k) /\ Withdrawing(d) # "end"
        <5>1. CASE \E y \in c.items : y[2] = k
          <6>1. PICK y \in c.items : y[2] = k
              BY <5>1
          <6>2. y \in c.items \ {i}
              BY <4>1, <6>1
          <6>3. QED
              BY <3>6, <3>8, <6>1, <6>2 DEF Left, Gathering
        <5>2. CASE c.public /\ c.key = k
            BY <3>6, <3>8, <5>2 DEF Left, Gathering
        <5>3. QED
            BY <4>1, <5>1, <5>2 DEF Left
      <4>2. QED
          BY <3>7, <4>1
    <3>10. \A y \in calls' : y.fedi = {} /\ y.pc \in {"dropItem", "dropList"} /\ (y.pc = "dropList" => y.items = {})
        BY <1>1, <3>6, <3>7, <3>8
    <3>11. i[2] \in {y[2] : y \in c.items} \cup {c.key}
        OBVIOUS
    <3>12. QED
        BY <3>2, <3>9, <3>10, <3>11
  <2>2. CASE c.pc = "dropList"
    <3>1. Deletes(c.key) /\ calls' = {}
        BY <2>2, OnlyEnds DEF DropRecord, Stands
    <3>2. records' = records \ {c.key} /\ UNCHANGED hist
        BY <1>1, <3>1 DEF Deletes, NoFault
    <3>3. \A k : Left(c, k) => k = c.key
        BY <1>1, <2>2 DEF Left
    <3>4. QED
        BY <3>1, <3>2, <3>3
  <2>3. QED
      BY <1>1, <2>1, <2>2
<1>5. CalmLists'
    BY <1>1, <1>4, ListsSame DEF ListsOf, Opening, Unpublishing
<1>6. CalmRows'
    BY <1>1, <1>4, RowsSame DEF RowsOf, Opening, Pending
<1>7. CalmRecords'
  <2>1. \A d, k : Left(d, k)' <=> Left(d, k)
      BY DEF Left, Gathering
  <2>2. \A k \in records' : k \in hist'.over \/ InList(k)' \/ InRow(k)' \/ \E d \in calls' : Left(d, k)'
      BY <1>2, <1>3, <1>4, <2>1
  <2>3. QED
      BY <1>4, <2>2 DEF CalmRecords
<1>8. CalmFollows'
  <2>1. \A d \in calls' : ~Owing(d) /\ FollowsOf(d)'
      BY <1>4 DEF Owing, FollowsOf, Gathering
  <2>2. \A a \in Fedi \cup Candidates : ActorReferencedByAnyList(a)' = ActorReferencedByAnyList(a)
      BY <1>1, ReferencedSame
  <2>3. QED
      BY <1>1, <2>1, <2>2, FollowsSame
<1>9. CalmRelays'
    BY <1>1, <1>4, RelaysSame
<1>10. QED
    BY <1>5, <1>6, <1>7, <1>8, <1>9, CalmFacts DEF Calm

LEMMA CalmOfAdd ==
    ASSUME NEW c, CalmStart(c), AddMember(c)
    PROVE  Calm'
<1> DEFINE l == c.op.list
           x == c.op.actor
           m == <<c.op.list, c.op.actor>>
<1>1. /\ c.pc = "addRow" /\ c.op.op = "add" /\ c.op.list \in Names /\ c.op.actor \in Candidates
      /\ c \in calls /\ Call(c) /\ TablesOK /\ jobs = {} /\ m \in Names \X Candidates
      /\ UNCHANGED <<lists, records, hist, follows, far, relays, joined, mail, jobs>>
      /\ ~Opening(c) /\ ~Unpublishing(c) /\ ~Setting(c) /\ ~Gathering(c) /\ ~Owing(c) /\ Pending(c) = {}
    BY CalmFacts DEF AddMember, Stands, Call, Placed, NoFault, repo, remote, FollowsOf, Opening, Unpublishing, Setting, Gathering,
        Owing, Pending
<1>2. /\ lists[l] # Nil
      /\ c.new = IF Public(l) THEN {x} \cap (Visible \ Fedi) ELSE {}
      /\ c.fedi = IF x \in Fedi /\ ~ActorReferencedByAnyList(x) THEN {x} ELSE {}
    BY <1>1, CalmFacts DEF RowsOf, FollowsOf
<1>3. \A n \in Names \X Candidates : rows'[n] = IF n = m /\ rows[m] = Out THEN Nil ELSE rows[n]
    BY <1>1, <1>2 DEF AddMember, TablesOK
<1>4. PICK p \in {"follow", "commitItem", "end"} :
        GoesTo(c, p) /\ p = IF c.fedi # {} THEN "follow" ELSE IF c.new = {} THEN "end" ELSE "commitItem"
    BY <1>2 DEF AddMember, Publishing, GoesTo
<1>5. /\ \A d \in calls' : Further(c, d) /\ d.pc = p /\ p # "end"
      /\ p = "end" \/ \E d \in calls' : Further(c, d) /\ d.pc = p
    BY <1>4, OnlyFurther
<1>6. /\ \A n \in Names, a \in Candidates : a \in Members(n)' <=> a \in Members(n) \/ <<n, a>> = m
      /\ \A n : Public(n)' = Public(n)
  <2>1. ASSUME NEW n \in Names, NEW a \in Candidates
        PROVE  a \in Members(n)' <=> a \in Members(n) \/ <<n, a>> = m
    <3>1. <<n, a>> \in Names \X Candidates
        OBVIOUS
    <3>2. rows'[<<n, a>>] = IF <<n, a>> = m /\ rows[m] = Out THEN Nil ELSE rows[<<n, a>>]
        BY <1>3, <3>1
    <3>3. rows'[<<n, a>>] # Out <=> rows[<<n, a>>] # Out \/ <<n, a>> = m
        BY <3>2, NilFacts
    <3>4. QED
        BY <3>3 DEF Members
  <2>2. \A n : Public(n)' = Public(n)
      BY <1>1 DEF Public
  <2>3. QED
      BY <2>1, <2>2
<1>7. CalmLists'
  <2>1. \A d \in calls' : ListsOf(d)'
      BY <1>4, <1>5 DEF ListsOf, Opening, Unpublishing
  <2>2. QED
      BY <1>1, <2>1, ListsSame
<1>8. CalmRows'
  <2>1. ASSUME NEW n \in Names, NEW a \in Candidates, ~RowDone(n, a)'
        PROVE  \E d \in calls' : On(n, d) /\ a \in Pending(d)
    <3>1. RowDone(n, a) /\ <<n, a>> \in Names \X Candidates
        BY <1>1, CalmFacts DEF Calm, CalmRows, CalmStart
    <3>2. <<n, a>> = m
      <4>1. ASSUME <<n, a>> # m
            PROVE  FALSE
        <5>1. rows'[<<n, a>>] = rows[<<n, a>>] /\ (a \in Members(n)' <=> a \in Members(n)) /\ Public(n)' = Public(n)
            BY <1>3, <1>6, <3>1, <4>1
        <5>2. QED
            BY <2>1, <3>1, <5>1 DEF RowDone, Shown
      <4>2. QED
          BY <4>1
    <3>3. n = l /\ a = x
        BY <3>2
    <3>4. Shown(l, x)'
      <4>1. CASE rows[m] = Out
          BY <1>1, <1>3, <2>1, <3>3, <4>1 DEF RowDone
      <4>2. CASE rows[m] # Out
        <5>1. rows'[m] = rows[m] /\ (x \in Members(l)' <=> x \in Members(l)) /\ Public(l)' = Public(l)
            BY <1>1, <1>3, <1>6, <4>2 DEF Members
        <5>2. QED
            BY <2>1, <3>1, <3>3, <5>1 DEF RowDone, Shown
      <4>3. QED
          BY <4>1, <4>2
    <3>5. Public(l) /\ x \in Visible \ Fedi
        BY <1>6, <3>4 DEF Shown
    <3>6. c.new = {x} /\ c.fedi = {}
        BY <1>2, <3>5
    <3>7. PICK d \in calls' : Further(c, d) /\ d.pc = "commitItem"
        BY <1>4, <1>5, <3>6
    <3>8. QED
        BY <1>1, <3>3, <3>6, <3>7 DEF On, Pending, Further
  <2>2. ASSUME NEW d \in calls'
        PROVE  RowsOf(d)'
    <3>1. CASE d.pc = "follow"
        BY <1>2, <1>4, <1>5, <2>2, <3>1 DEF RowsOf, Opening, Pending, Further
    <3>2. CASE d.pc = "commitItem"
      <4>1. Pending(d)' = c.new /\ d.op = c.op
          BY <1>5, <2>2, <3>2 DEF Pending, Further
      <4>2. \A a \in c.new : a = x /\ Public(l) /\ x \in Visible \ Fedi
          BY <1>2
      <4>3. x \in Members(l)'
          BY <1>1, <1>6
      <4>4. \A a \in Pending(d)' : Shown(d.op.list, a)'
          BY <1>6, <4>1, <4>2, <4>3 DEF Shown
      <4>5. QED
          BY <3>2, <4>4 DEF RowsOf, Opening
    <3>3. QED
        BY <1>4, <1>5, <2>2, <3>1, <3>2
  <2>3. QED
      BY <2>1, <2>2 DEF CalmRows, On, Pending
<1>9. CalmRecords'
  <2>1. \A k \in records : k \in Nat
      BY <1>1, RecordKeys
  <2>2. \A k \in Nat : (InList(k) => InList(k)') /\ (InRow(k) => InRow(k)')
      BY <1>1, <1>3 DEF InList, InRow, ListKey
  <2>3. QED
      BY <1>1, <1>4, <1>5, <2>1, <2>2, RecordsSame
<1>10. CalmFollows'
  <2>1. /\ \A a \in Fedi : far[a] = follows[a] /\ follows[a] = ActorReferencedByAnyList(a)
        /\ follows \in [Fedi -> BOOLEAN]
      BY <1>1, IdleFollows
  <2>2. ActorReferencedByAnyList(x)'
      BY <1>1, <1>6 DEF ActorReferencedByAnyList
  <2>3. ASSUME NEW a \in Fedi, a # x
        PROVE  ActorReferencedByAnyList(a)' = ActorReferencedByAnyList(a)
    <3>1. a \in Candidates
        BY ListsAssumption
    <3>2. \A n \in Names : a \in Members(n)' <=> a \in Members(n)
        BY <1>6, <2>3, <3>1
    <3>3. QED
        BY <3>2 DEF ActorReferencedByAnyList
  <2>4. CASE c.fedi = {}
    <3>1. x \in Fedi => ActorReferencedByAnyList(x)' = ActorReferencedByAnyList(x)
        BY <1>2, <2>2, <2>4 DEF ActorReferencedByAnyList
    <3>2. \A a \in Fedi : Followed(a)'
        BY <1>1, <2>1, <2>3, <3>1 DEF Followed
    <3>3. \A d \in calls' : FollowsOf(d)'
        BY <1>1, <1>4, <1>5, <2>4 DEF FollowsOf, Gathering
    <3>4. QED
        BY <1>1, <3>2, <3>3 DEF CalmFollows
  <2>5. CASE c.fedi # {}
    <3>1. x \in Fedi /\ ~ActorReferencedByAnyList(x) /\ p = "follow"
        BY <1>2, <1>4, <2>5
    <3>2. \E d \in calls' : d.op = c.op /\ d.pc = "follow"
        BY <1>5, <3>1 DEF Further
    <3>3. \A a \in Fedi : Followed(a)'
      <4>1. \A a \in Fedi : a # x => Followed(a)'
          BY <1>1, <2>1, <2>3 DEF Followed
      <4>2. Owed(x)'
          BY <3>2 DEF Owed, Owes
      <4>3. Followed(x)'
          BY <1>1, <2>1, <3>1, <4>2 DEF Followed
      <4>4. QED
          BY <4>1, <4>3
    <3>4. ~follows[x]
        BY <2>1, <3>1
    <3>5. \A d \in calls' : d.pc = "follow" /\ d.op = c.op
        BY <1>5, <3>1 DEF Further
    <3>6. \A d \in calls' : FollowsOf(d)'
        BY <1>1, <2>2, <3>4, <3>5 DEF FollowsOf, Gathering
    <3>7. QED
        BY <1>1, <3>3, <3>6 DEF CalmFollows
  <2>6. QED
      BY <2>4, <2>5
<1>11. CalmRelays'
    BY <1>1, <1>4, <1>5, RelaysSame
<1>12. QED
    BY <1>7, <1>8, <1>9, <1>10, <1>11, CalmFacts DEF Calm

LEMMA CalmOfEnqueue ==
    ASSUME NEW c, CalmStart(c), EnqueueFollow(c)
    PROVE  Calm'
<1> DEFINE x == c.op.actor
<1>1. /\ c.pc = "follow" /\ c.new = {} /\ x \in Fedi /\ c \in calls /\ calls = {c} /\ jobs = {}
      /\ ~follows[x] /\ ActorReferencedByAnyList(x)
      /\ UNCHANGED <<lists, rows, records, hist, follows, far, relays, joined, mail>>
      /\ ~Opening(c) /\ ~Unpublishing(c) /\ ~Setting(c) /\ ~Gathering(c) /\ CalmFollows
    BY CalmFacts DEF EnqueueFollow, Stands, Call, NoFault, repo, remote, FollowsOf, RowsOf, Opening, Unpublishing, Setting,
        Gathering,
        CalmStart, Calm
<1>2. calls' = {}
    BY <1>1, OnlyFurther DEF EnqueueFollow, Publishing, GoesTo
<1>3. PICK j : jobs' = {j} /\ j = [kind |-> "proxy", target |-> x, want |-> TRUE, tries |-> 0, pc |-> "queued"]
    BY <1>1 DEF EnqueueFollow, Enqueue
<1>4. j.kind = "proxy" /\ j.target = x /\ j.want = TRUE /\ j.pc = "queued"
    BY <1>3
<1>5. CalmLists' /\ CalmRows'
    BY <1>1, <1>2, ListsSame, RowsSame
<1>6. CalmRecords'
    BY <1>1, <1>2, RecordsSame DEF InList, InRow, ListKey
<1>7. CalmFollows'
  <2>1. \A a : ActorReferencedByAnyList(a)' = ActorReferencedByAnyList(a) /\ ~Owed(a)' /\ ~JobFor(a)
      BY <1>1, <1>2, ReferencedSame DEF Owed, JobFor
  <2>2. \A a : Owed(a) => a = x
      BY <1>1 DEF Owed, Owes
  <2>3. \A a \in Fedi : a # x => Followed(a)'
      BY <1>1, <2>1, <2>2 DEF CalmFollows, Followed
  <2>4. far[x] = follows[x] /\ follows[x] = FALSE
      BY <1>1, <2>1, CalmFacts DEF CalmFollows, Followed, RemoteOK
  <2>5. JobOf(j)'
      BY <1>1, <1>4, <2>1, <2>4 DEF JobOf, ActorReferencedByAnyList
  <2>6. JobFor(x)'
      BY <1>3, <1>4 DEF JobFor
  <2>7. QED
      BY <1>2, <1>3, <2>3, <2>5, <2>6 DEF CalmFollows
<1>8. CalmRelays'
    BY <1>1, <1>2, <1>3, <1>4, RelaysSame
<1>9. QED
    BY <1>5, <1>6, <1>7, <1>8, CalmFacts DEF Calm

LEMMA CalmOfUnfollow ==
    ASSUME NEW c, CalmStart(c), MaybeUnfollowIfUnreferenced(c)
    PROVE  Calm'
<1>1. /\ c.pc = "unfollow" /\ c \in calls /\ calls = {c} /\ Call(c)
      /\ \A b \in c.fedi \cap Fedi : follows[b]
      /\ UNCHANGED <<lists, rows, records, hist, follows, far, relays, joined, mail>>
      /\ ~Opening(c) /\ ~Unpublishing(c) /\ ~Setting(c) /\ Gathering(c) /\ CalmFollows /\ CalmRelays /\ CalmRecords /\ RemoteOK
    BY CalmFacts DEF MaybeUnfollowIfUnreferenced, Stands, NoFault, repo, remote, FollowsOf, Opening, Unpublishing, Setting,
        Gathering,
        CalmStart, Calm
<1>2. PICK a \in c.fedi :
        /\ Withdraws(c, [c EXCEPT !.fedi = @ \ {a}])
        /\ \/ Unreferenced(a) /\ Enqueue("proxy", a, FALSE)
           \/ ~Unreferenced(a) /\ UNCHANGED jobs
    BY DEF MaybeUnfollowIfUnreferenced
<1>3. PICK d : d = [c EXCEPT !.fedi = @ \ {a}]
    OBVIOUS
<1>4. DOMAIN d = {"op", "pc", "public", "key", "actor", "new", "items", "fedi"} /\ d.fedi = c.fedi \ {a}
      /\ d.items = c.items /\ d.public = c.public /\ d.key = c.key
    BY <1>1, <1>3 DEF Call
<1>5. PICK p : p = Withdrawing(d)
    OBVIOUS
<1>6. PICK e : e = [d EXCEPT !.pc = p]
    OBVIOUS
<1>7. e.fedi = c.fedi \ {a} /\ e.items = c.items /\ e.public = c.public /\ e.key = c.key /\ e.pc = p
    BY <1>4, <1>6
<1>8. calls' = IF p = "end" THEN {} ELSE {e}
    BY <1>1, <1>2, <1>3, <1>5, <1>6, <1>7 DEF Withdraws, Goes
<1>9. p = IF e.fedi # {} THEN "unfollow" ELSE IF e.items # {} THEN "dropItem" ELSE IF e.public THEN "dropList" ELSE "end"
    BY <1>4, <1>5, <1>7 DEF Withdrawing
<1>10. \A y \in calls' : y = e /\ Gathering(y)
    BY <1>7, <1>8, <1>9 DEF Gathering
<1>11. CalmLists'
  <2>1. \A y \in calls' : ListsOf(y)'
      BY <1>10 DEF ListsOf, Opening, Unpublishing, Gathering
  <2>2. QED
      BY <1>1, <2>1, ListsSame
<1>12. CalmRows'
  <2>1. \A y \in calls' : RowsOf(y)'
      BY <1>10 DEF RowsOf, Opening, Pending, Gathering
  <2>2. QED
      BY <1>1, <2>1, RowsSame
<1>13. CalmRecords'
  <2>1. \A k : (InList(k)' <=> InList(k)) /\ (InRow(k)' <=> InRow(k)) /\ ~Coming(k)
      BY <1>1 DEF InList, InRow, ListKey, Coming
  <2>2. \A k : Left(c, k) => \E y \in calls' : Left(y, k)'
      BY <1>7, <1>8, <1>9 DEF Left, Gathering
  <2>3. \A k \in records' : k \in hist'.over \/ InList(k)' \/ InRow(k)' \/ \E y \in calls' : Left(y, k)'
      BY <1>1, <2>1, <2>2 DEF CalmRecords
  <2>4. \A y \in calls' : y.pc = "dropList" => y.items = {}
      BY <1>7, <1>9, <1>10
  <2>5. QED
      BY <2>3, <2>4 DEF CalmRecords
<1>14. CalmFollows'
  <2>1. /\ \A b : ActorReferencedByAnyList(b)' = ActorReferencedByAnyList(b)
        /\ \A b : Owed(b) <=> b \in c.fedi
        /\ \A b : Owed(b)' <=> b \in c.fedi \ {a}
    <3>1. \A b : Owed(b) <=> b \in c.fedi
        BY <1>1 DEF Owed, Owes
    <3>2. \A y \in calls' : \A b : Owes(y, b)' <=> p = "unfollow" /\ b \in c.fedi \ {a}
        BY <1>7, <1>8, <1>9 DEF Owes
    <3>3. \A b : Owed(b)' <=> b \in c.fedi \ {a}
        BY <1>7, <1>8, <1>9, <3>2 DEF Owed
    <3>4. QED
        BY <1>1, <3>1, <3>3, ReferencedSame
  <2>2. \A j \in jobs : j.kind = "proxy" /\ j.target \in Fedi /\ JobOf(j) /\ j.target \notin c.fedi
    <3>1. \A j \in jobs : j.kind # "relay"
        BY <1>1 DEF CalmRelays
    <3>2. QED
        BY <1>1, <2>1, <3>1 DEF CalmFollows, JobOf, RemoteOK, ProxyJobs, RelayJobs
  <2>3. \A j \in jobs : JobOf(j)'
      BY <1>1, <2>1, <2>2 DEF JobOf
  <2>4. \A b \in Fedi : b # a => JobFor(b) \/ Followed(b)'
      BY <1>1, <2>1 DEF CalmFollows, Followed
  <2>5. a \in Fedi => far[a] = TRUE /\ follows[a] = TRUE
      BY <1>1, <2>2, CalmFacts DEF CalmFollows, Followed, JobFor, RemoteOK
  <2>6. \A y \in calls' : FollowsOf(y)'
    <3>1. e.pc = "unfollow" => \A b \in e.fedi \cap Fedi : follows'[b]
        BY <1>1, <1>7
    <3>2. e.pc \in {"dropItem", "dropList"} => e.fedi = {}
        BY <1>7, <1>9
    <3>3. QED
        BY <1>10, <3>1, <3>2 DEF FollowsOf, Gathering
  <2>7. CASE Unreferenced(a) /\ Enqueue("proxy", a, FALSE)
    <3>1. PICK j : jobs' = jobs \cup {j} /\ j = [kind |-> "proxy", target |-> a, want |-> FALSE, tries |-> 0, pc |-> "queued"]
        BY <2>7 DEF Enqueue
    <3>2. j.kind = "proxy" /\ j.target = a /\ j.want = FALSE /\ j.pc = "queued"
        BY <3>1
    <3>3. JobOf(j)'
        BY <1>1, <2>1, <2>5, <2>7, <3>2 DEF JobOf, Unreferenced, ActorReferencedByAnyList
    <3>4. \A b : JobFor(b)' <=> JobFor(b) \/ b = a
        BY <3>1, <3>2 DEF JobFor
    <3>5. \A b \in Fedi : JobFor(b)' \/ Followed(b)'
        BY <2>4, <3>4
    <3>6. \A i, k \in jobs' : i.kind = "proxy" /\ k.kind = "proxy" /\ i.target = k.target => i = k
      <4>1. \A i, k \in jobs : i.target = k.target => i = k
          BY <1>1, <2>2 DEF CalmFollows
      <4>2. \A i \in jobs : i.target # j.target
          BY <2>2, <3>2
      <4>3. QED
          BY <3>1, <4>1, <4>2
    <3>7. \A i \in jobs' : i.kind = "proxy" => JobOf(i)'
        BY <2>3, <3>1, <3>3
    <3>8. QED
        BY <2>6, <3>5, <3>6, <3>7 DEF CalmFollows
  <2>8. CASE ~Unreferenced(a) /\ UNCHANGED jobs
    <3>1. a \in Fedi => Followed(a)'
        BY <1>1, <2>1, <2>5, <2>8 DEF Followed, Unreferenced, ActorReferencedByAnyList
    <3>2. \A b \in Fedi : JobFor(b)' \/ Followed(b)'
        BY <2>4, <2>8, <3>1 DEF JobFor
    <3>3. QED
        BY <1>1, <2>3, <2>6, <2>8, <3>2 DEF CalmFollows
  <2>9. QED
      BY <1>2, <2>7, <2>8
<1>15. CalmRelays'
  <2>1. \A j \in jobs' : j \in jobs \/ j.kind # "relay"
      BY <1>2 DEF Enqueue
  <2>2. QED
      BY <1>1, <1>10, <2>1, RelaysSame DEF Gathering
<1>16. QED
    BY <1>11, <1>12, <1>13, <1>14, <1>15, CalmFacts DEF Calm

LEMMA CalmOfCalls ==
    ASSUME NEW c, CalmStart(c)
    PROVE  Calm'
<1>1. CallStep(c) /\ (UnpublishListFromAtp(c) => c.pc \in {"deleteItem", "deleteList"})
    BY DEF CalmStart, UnpublishListFromAtp, Stands
<1>2. CASE UnpublishListFromAtp(c)
    BY <1>1, <1>2, CalmOfUnpublishItem, CalmOfUnpublishList
<1>3. CASE \/ CountByOwner(c) \/ UpdateListFind(c) \/ DeleteListFind(c) \/ AddMemberFind(c) \/ WasReferenced(c) \/ RemoveMemberFind(c)
           \/ CreateRelay(c) \/ DeleteRelay(c) \/ EnqueueRelay(c)
    BY <1>3, CalmOfReads, CalmOfRelays
<1>4. CASE \/ CreateList(c) \/ UpdateList(c) \/ PublishMembers(c) \/ PublishListToAtp(c) \/ SetAtpListRecord(c)
           \/ MaybePublishListitem(c) \/ SetMemberAtpRecord(c) \/ Unpublish(c) \/ ClearMemberAtpRecord(c) \/ ClearAtpListRecord(c)
    BY <1>4, CalmOfCreate, CalmOfUpdate, CalmOfPublishMembers, CalmOfPublishList, CalmOfSetList, CalmOfPublishItem, CalmOfSetItem,
        CalmOfUnpublish, CalmOfClearItem, CalmOfClearList
<1>5. CASE \/ DeleteList(c) \/ DropRecord(c) \/ AddMember(c) \/ EnqueueFollow(c) \/ RemoveMember(c) \/ MaybeUnfollowIfUnreferenced(c)
    BY <1>5, CalmOfDelete, CalmOfDrop, CalmOfAdd, CalmOfEnqueue, CalmOfRemove, CalmOfUnfollow
<1>6. ~Breaks(c)
    BY DEF CalmStart, Breaks
<1>7. QED
    BY <1>1, <1>2, <1>3, <1>4, <1>5, <1>6 DEF CallStep

(* What jobs and relays do leaves lists and records alone.                  *)
LEMMA TablesStay ==
    ASSUME Calm, UNCHANGED <<lists, rows, records, calls>>, hist'.over = hist.over
    PROVE  OneCall' /\ CalmLists' /\ CalmRows' /\ CalmRecords'
<1>1. \A l, a : Public(l)' = Public(l) /\ ListKey(l)' = ListKey(l) /\ Members(l)' = Members(l) /\ Shown(l, a)' = Shown(l, a)
    BY DEF Public, ListKey, Members, Shown
<1>2. \A k : (InList(k)' <=> InList(k)) /\ (InRow(k)' <=> InRow(k)) /\ (Coming(k)' <=> Coming(k))
    BY <1>1 DEF InList, InRow, Coming, Setting
<1>3. \A d, k : Left(d, k)' <=> Left(d, k)
    BY DEF Left, Gathering
<1>4. OneCall' /\ CalmRecords'
    BY <1>2, <1>3 DEF Calm, OneCall, CalmRecords
<1>5. CalmLists'
  <2>1. \A d : ListsOf(d)' <=> ListsOf(d)
      BY <1>1 DEF ListsOf, Opening, Unpublishing
  <2>2. \A l \in Names : ListDone(l)' <=> ListDone(l)
      BY <1>1 DEF ListDone
  <2>3. QED
      BY <2>1, <2>2 DEF Calm, CalmLists, On, Opening, Unpublishing
<1>6. CalmRows'
  <2>1. \A d : (ItemsOf(d)' <=> ItemsOf(d)) /\ (Opening(d)' <=> Opening(d)) /\ Pending(d)' = Pending(d)
      BY DEF ItemsOf, Opening, Pending
  <2>2. \A l, a : RowDone(l, a)' <=> RowDone(l, a)
      BY <1>1 DEF RowDone
  <2>3. ASSUME NEW d \in calls
        PROVE  RowsOf(d)'
    <3>1. RowsOf(d)
        BY DEF Calm, CalmRows
    <3>2. (\A a \in Pending(d) : Shown(d.op.list, a))' <=> \A a \in Pending(d) : Shown(d.op.list, a)
        BY <1>1, <2>1
    <3>3. (ItemsOf(d)' <=> ItemsOf(d)) /\ Public(d.op.list)' = Public(d.op.list) /\ (Opening(d)' <=> Opening(d))
        BY <1>1, <2>1
    <3>4. QED
        BY <3>1, <3>2, <3>3 DEF RowsOf
  <2>4. QED
      BY <2>2, <2>3 DEF Calm, CalmRows, On, Opening, Unpublishing, Pending
<1>7. QED
    BY <1>4, <1>5, <1>6

LEMMA CalmOfStarts ==
    ASSUME ListsTypeOK, CalmInv, NEW o \in script.ops, StartCall(o), hist'.calm
    PROVE  Calm'
<1>1. /\ hist.calm /\ calls = {} /\ jobs = {} /\ mail = {} /\ hist'.over = hist.over
      /\ UNCHANGED <<lists, rows, records, follows, far, relays, joined, mail, jobs>>
    BY DEF StartCall, Outstanding, ListsTypeOK, BoundsOK, repo, remote
<1>2. PICK c : c = NewCall(o)
    OBVIOUS
<1>3. /\ calls' = {c} /\ Calm
      /\ c.pc \in {"count", "findForUpdate", "findForDelete", "findForAdd", "findForRemove", "insertRelay", "findRelay"}
    BY <1>1, <1>2, OperationFields DEF StartCall, NewCall, FirstStep, CalmInv, ListsTypeOK, BoundsOK
<1>4. \A l, a : Public(l)' = Public(l) /\ ListKey(l)' = ListKey(l) /\ Members(l)' = Members(l) /\ Shown(l, a)' = Shown(l, a)
    BY <1>1 DEF Public, ListKey, Members, Shown
<1>5. CalmLists'
    BY <1>1, <1>3, <1>4 DEF Calm, CalmLists, ListDone, ListsOf, Opening, Unpublishing
<1>6. CalmRows'
    BY <1>1, <1>3, <1>4 DEF Calm, CalmRows, RowDone, RowsOf, Opening, Pending
<1>7. CalmRecords'
    BY <1>1, <1>3 DEF Calm, CalmRecords, InList, InRow, ListKey, Coming, Left
<1>8. CalmFollows'
  <2>1. \A a : ActorReferencedByAnyList(a)' = ActorReferencedByAnyList(a)
      BY <1>1, ReferencedSame
  <2>2. \A a \in Fedi : Followed(a)'
      BY <1>1, <1>3, <2>1 DEF Calm, CalmFollows, JobFor, Followed, Owed
  <2>3. FollowsOf(c)'
      BY <1>1, <1>3 DEF FollowsOf, Gathering
  <2>4. QED
      BY <1>1, <1>3, <2>2, <2>3 DEF CalmFollows
<1>9. CalmRelays'
    BY <1>1, <1>3 DEF Calm, CalmRelays, Accepted
<1>10. QED
    BY <1>3, <1>5, <1>6, <1>7, <1>8, <1>9 DEF Calm, OneCall

(* A job of list-relay: the only one for its actor.                         *)
LEMMA CalmOfProxyJobs ==
    ASSUME ListsTypeOK, Calm, NEW j \in jobs, JobStep(j), j.kind = "proxy", ~Fault
    PROVE  Calm'
<1> DEFINE t == j.target
<1>1. /\ CalmFollows /\ CalmRelays /\ RemoteOK /\ t \in Fedi /\ j.want \in BOOLEAN
      /\ JobOf(j) /\ \A k \in jobs : k.kind = "proxy" /\ k.target = t => k = j
      /\ DOMAIN j = {"kind", "target", "want", "tries", "pc"}
    BY DEF Calm, CalmFollows, ListsTypeOK, RemoteOK, ProxyJobs, RelayJobs
<1>2. /\ UNCHANGED <<lists, rows, records, calls, hist, relays, joined, mail>>
      /\ \/ j.pc = "queued" /\ Moved(j, "post") /\ UNCHANGED <<follows, far>>
         \/ j.pc = "post" /\ Moved(j, "write") /\ UNCHANGED follows /\ far' = [far EXCEPT ![j.target] = j.want]
         \/ j.pc = "write" /\ Gone(j) /\ UNCHANGED far /\ follows' = [follows EXCEPT ![j.target] = j.want]
    BY <1>1 DEF JobStep, ProxyFollowSync, RelayFollowSync, SignAndPost, WriteBack, Arrives, NoFault, repo, remote, JobOf
<1>3. PICK p \in {"post", "write", "done"} :
        /\ p = "post" => j.pc = "queued" /\ Moved(j, p) /\ UNCHANGED <<follows, far>>
        /\ p = "write" => j.pc = "post" /\ Moved(j, p) /\ UNCHANGED follows /\ far' = [far EXCEPT ![t] = j.want]
        /\ p = "done" => j.pc = "write" /\ Gone(j) /\ UNCHANGED far /\ follows' = [follows EXCEPT ![t] = j.want]
    BY <1>2
<1>4. PICK k : k = [j EXCEPT !.pc = p]
    OBVIOUS
<1>5. k.kind = "proxy" /\ k.target = t /\ k.want = j.want /\ k.pc = p
    BY <1>1, <1>4
<1>6. jobs' = IF p = "done" THEN jobs \ {j} ELSE (jobs \ {j}) \cup {k}
    BY <1>3, <1>4 DEF Moved, Gone
<1>7. /\ \A a \in Fedi : a # t => follows'[a] = follows[a] /\ far'[a] = far[a]
      /\ \A a : ActorReferencedByAnyList(a)' = ActorReferencedByAnyList(a)
      /\ \A a : Owed(a)' <=> Owed(a)
    BY <1>1, <1>2, <1>3, ReferencedSame DEF RemoteOK, Owed, Owes
<1>8. /\ ~Owed(t) /\ ActorReferencedByAnyList(t) = j.want /\ follows[t] # j.want
      /\ far[t] = IF j.pc = "write" THEN j.want ELSE ~j.want
      /\ follows'[t] = IF p = "done" THEN j.want ELSE follows[t]
      /\ far'[t] = IF p = "post" THEN ~j.want ELSE j.want
    BY <1>1, <1>3 DEF JobOf, RemoteOK
<1>9. CalmFollows'
  <2>1. \A i, x \in jobs' : i.kind = "proxy" /\ x.kind = "proxy" /\ i.target = x.target => i = x
      BY <1>1, <1>5, <1>6 DEF CalmFollows
  <2>2. ASSUME NEW a \in Fedi
        PROVE  JobFor(a)' \/ Followed(a)'
    <3>1. CASE a = t
      <4>1. CASE p = "done"
          BY <1>7, <1>8, <3>1, <4>1 DEF Followed
      <4>2. CASE p # "done"
          BY <1>5, <1>6, <3>1, <4>2 DEF JobFor
      <4>3. QED
          BY <4>1, <4>2
    <3>2. CASE a # t /\ JobFor(a)
        BY <1>6, <3>2 DEF JobFor
    <3>3. CASE a # t /\ ~JobFor(a)
        BY <1>1, <1>7, <3>3 DEF CalmFollows, Followed
    <3>4. QED
        BY <3>1, <3>2, <3>3
  <2>3. \A i \in jobs' : i.kind = "proxy" => JobOf(i)'
    <3>1. ASSUME NEW i \in jobs, i # j, i.kind = "proxy"
          PROVE  JobOf(i)'
      <4>1. i.target \in Fedi /\ i.target # t /\ JobOf(i)
          BY <1>1, <3>1 DEF CalmFollows, RemoteOK, ProxyJobs, RelayJobs
      <4>2. QED
          BY <1>7, <4>1 DEF JobOf
    <3>2. p # "done" => JobOf(k)'
        BY <1>5, <1>7, <1>8 DEF JobOf
    <3>3. QED
        BY <1>6, <3>1, <3>2
  <2>4. ASSUME NEW c \in calls
        PROVE  FollowsOf(c)'
    <3>1. FollowsOf(c) /\ (c.pc \in {"commitItem", "setItem"} \/ Gathering(c))
        BY <1>1 DEF CalmFollows, FollowsOf
    <3>2. c.pc = "unfollow" => t \notin c.fedi
        BY <1>8 DEF Owed, Owes
    <3>3. c.pc = "unfollow" => \A a \in c.fedi \cap Fedi : follows'[a]
        BY <1>7, <3>1, <3>2 DEF FollowsOf
    <3>4. QED
        BY <3>1, <3>3 DEF FollowsOf, Gathering
  <2>5. QED
      BY <1>2, <2>1, <2>2, <2>3, <2>4 DEF CalmFollows
<1>10. CalmRelays'
  <2>1. (\A i \in jobs : i.kind # "relay") /\ mail = {} /\ (joined <=> Accepted)
      BY <1>1 DEF CalmRelays
  <2>2. \A i \in jobs' : i.kind # "relay"
      BY <1>5, <1>6, <2>1
  <2>3. Accepted' <=> Accepted
      BY <1>2 DEF Accepted
  <2>4. QED
      BY <1>1, <1>2, <2>1, <2>2, <2>3 DEF CalmRelays
<1>11. QED
    BY <1>2, <1>9, <1>10, TablesStay DEF Calm

(* A job of relay-agent: nothing else is under way.                         *)
LEMMA CalmOfRelayJobs ==
    ASSUME ListsTypeOK, Calm, NEW j \in jobs, JobStep(j), j.kind = "relay", ~Fault
    PROVE  Calm'
<1> DEFINE t == j.target
<1>1. /\ CalmFollows /\ CalmRelays /\ RemoteOK /\ t \in Relays /\ j.want \in BOOLEAN /\ calls = {} /\ jobs = {j}
      /\ DOMAIN j = {"kind", "target", "want", "tries", "pc"}
      /\ j.want /\ j.pc \in {"queued", "post"} => relays[t] = "pending"
      /\ j.pc \in {"post", "write"} => relays[t] # Nil
      /\ mail # {} => j.want /\ j.pc = "write"
      /\ mail = {} => (joined <=> Accepted) \/ (~j.want /\ j.pc = "write")
    BY DEF Calm, CalmRelays, ListsTypeOK, RemoteOK, ProxyJobs, RelayJobs
<1>2. /\ UNCHANGED <<lists, rows, records, calls, hist, follows, far>>
      /\ \/ j.pc = "queued" /\ relays[t] = Nil /\ Gone(j) /\ UNCHANGED <<relays, joined, mail>>
         \/ j.pc = "queued" /\ relays[t] # Nil /\ Moved(j, "post") /\ UNCHANGED <<relays, joined, mail>>
         \/ j.pc = "post" /\ Moved(j, "write") /\ Arrives(j) /\ UNCHANGED relays
         \/ /\ j.pc = "write" /\ Gone(j) /\ UNCHANGED <<joined, mail>>
            /\ relays' = IF j.want THEN relays ELSE [relays EXCEPT ![j.target] = Nil]
    BY <1>1 DEF JobStep, ProxyFollowSync, RelayFollowSync, SignAndPost, WriteBack, Arrives, NoFault, repo, remote
<1>3. CalmFollows'
  <2>1. \A a : ActorReferencedByAnyList(a)' = ActorReferencedByAnyList(a) /\ ~Owed(a) /\ ~Owed(a)' /\ ~JobFor(a)
      BY <1>1, <1>2, ReferencedSame DEF Owed, JobFor
  <2>2. \A i \in jobs' : i.kind # "proxy"
      BY <1>1, <1>2 DEF Gone, Moved
  <2>3. \A a \in Fedi : Followed(a)'
      BY <1>1, <1>2, <2>1 DEF CalmFollows, Followed
  <2>4. QED
      BY <1>1, <1>2, <2>2, <2>3 DEF CalmFollows
<1>4. CalmRelays'
  <2>1. /\ \A q, r \in Relays : relays[q] # Nil /\ relays[r] # Nil => q = r
        /\ ~j.want /\ j.pc = "write" => ~joined
        /\ \A x, y \in mail : x = y
        /\ \A x \in mail : relays[x.re] # Nil /\ (joined <=> x.say = "accepted")
      BY <1>1 DEF CalmRelays
  <2>2. CASE j.pc = "queued" /\ Gone(j) /\ UNCHANGED <<relays, joined, mail>>
    <3>1. jobs' = {} /\ mail' = {} /\ (joined' <=> Accepted')
        BY <1>1, <2>2 DEF Gone, Accepted
    <3>2. QED
        BY <1>1, <1>2, <2>1, <2>2, <3>1 DEF CalmRelays
  <2>3. CASE j.pc = "queued" /\ relays[t] # Nil /\ Moved(j, "post") /\ UNCHANGED <<relays, joined, mail>>
    <3>1. PICK k : k = [j EXCEPT !.pc = "post"]
        OBVIOUS
    <3>2. jobs' = {k} /\ k.kind = "relay" /\ k.target = t /\ k.want = j.want /\ k.pc = "post"
        BY <1>1, <2>3, <3>1 DEF Moved
    <3>3. mail' = {} /\ (joined' <=> Accepted')
        BY <1>1, <2>3 DEF Accepted
    <3>4. QED
        BY <1>1, <1>2, <2>1, <2>3, <3>2, <3>3 DEF CalmRelays
  <2>4. CASE j.pc = "post" /\ Moved(j, "write") /\ Arrives(j) /\ UNCHANGED relays
    <3>1. PICK k : k = [j EXCEPT !.pc = "write"]
        OBVIOUS
    <3>2. jobs' = {k} /\ k.kind = "relay" /\ k.target = t /\ k.want = j.want /\ k.pc = "write"
        BY <1>1, <2>4, <3>1 DEF Moved
    <3>3. mail = {} /\ (joined <=> Accepted) /\ relays[t] # Nil
        BY <1>1, <2>4
    <3>4. CASE j.want
      <4>1. ~joined
        <5>1. relays[t] = "pending"
            BY <1>1, <2>4, <3>4
        <5>2. ~Accepted
            BY <1>1, <2>1, <3>3, <5>1, NilFacts DEF Accepted
        <5>3. QED
            BY <3>3, <5>2
      <4>2. PICK s \in {"accepted", "rejected"} : mail' = {[re |-> t, say |-> s]} /\ (joined' <=> s = "accepted")
          BY <1>1, <2>4, <3>3, <3>4, <4>1 DEF Arrives
      <4>3. \A x \in mail' : x.re = t /\ x.say = s
          BY <4>2
      <4>4. QED
          BY <1>1, <1>2, <2>1, <2>4, <3>2, <3>3, <3>4, <4>2, <4>3 DEF CalmRelays
    <3>5. CASE ~j.want
      <4>1. ~joined' /\ mail' = {}
          BY <1>1, <2>4, <3>3, <3>5 DEF Arrives
      <4>2. QED
          BY <1>1, <1>2, <2>1, <2>4, <3>2, <3>3, <3>5, <4>1 DEF CalmRelays
    <3>6. QED
        BY <3>4, <3>5
  <2>5. CASE /\ j.pc = "write" /\ Gone(j) /\ UNCHANGED <<joined, mail>>
             /\ relays' = IF j.want THEN relays ELSE [relays EXCEPT ![t] = Nil]
    <3>1. jobs' = {} /\ relays[t] # Nil
        BY <1>1, <2>5 DEF Gone
    <3>2. CASE j.want
      <4>1. UNCHANGED relays /\ (mail = {} => (joined' <=> Accepted'))
          BY <1>1, <2>5, <3>2 DEF Accepted
      <4>2. QED
          BY <1>1, <1>2, <2>1, <2>5, <3>1, <4>1 DEF CalmRelays
    <3>3. CASE ~j.want
      <4>1. \A r \in Relays : relays'[r] = Nil
          BY <1>1, <2>1, <2>5, <3>1, <3>3 DEF RemoteOK
      <4>2. ~Accepted' /\ ~joined' /\ mail' = {}
          BY <1>1, <2>1, <2>5, <3>3, <4>1, NilFacts DEF Accepted
      <4>3. QED
          BY <1>1, <1>2, <3>1, <4>1, <4>2 DEF CalmRelays
    <3>4. QED
        BY <3>2, <3>3
  <2>6. QED
      BY <1>2, <2>2, <2>3, <2>4, <2>5
<1>5. QED
    BY <1>2, <1>3, <1>4, TablesStay DEF Calm

LEMMA CalmOfJobs ==
    ASSUME ListsTypeOK, CalmInv, NEW j \in jobs, JobStep(j), hist'.calm
    PROVE  Calm'
<1>1. ~Fault
    BY DEF Fault, ListsTypeOK, BoundsOK
<1>2. UNCHANGED hist
    BY <1>1 DEF JobStep, ProxyFollowSync, RelayFollowSync, SignAndPost, WriteBack, NoFault
<1>3. Calm /\ j.kind \in {"proxy", "relay"}
    BY <1>2 DEF CalmInv, ListsTypeOK, RemoteOK, ProxyJobs, RelayJobs
<1>4. QED
    BY <1>1, <1>3, CalmOfProxyJobs, CalmOfRelayJobs

LEMMA CalmOfAnswers ==
    ASSUME ListsTypeOK, CalmInv, hist'.calm, (\E a \in mail : HandleRelayAnswer(a)) \/ RelayLeaves
    PROVE  Calm'
<1>1. /\ UNCHANGED <<lists, rows, records, calls, follows, far, jobs>> /\ hist'.over = hist.over /\ hist.calm
      /\ RelayLeaves => calls = {} /\ jobs = {} /\ mail = {}
    BY DEF HandleRelayAnswer, RelayLeaves, NoFault, repo, ListsTypeOK, BoundsOK, Outstanding
<1>2. CalmFollows /\ CalmRelays /\ Calm /\ RemoteOK
    BY <1>1 DEF CalmInv, Calm, ListsTypeOK
<1>3. CalmFollows'
  <2>1. \A a : /\ ActorReferencedByAnyList(a)' = ActorReferencedByAnyList(a) /\ (Owed(a)' <=> Owed(a))
               /\ (JobFor(a)' <=> JobFor(a)) /\ (Followed(a)' <=> Followed(a))
      BY <1>1, ReferencedSame DEF Owed, Owes, JobFor, Followed
  <2>2. \A i : JobOf(i)' <=> JobOf(i)
      BY <1>1, <2>1 DEF JobOf
  <2>3. \A l : Members(l)' = Members(l)
      BY <1>1 DEF Members
  <2>4. \A c : FollowsOf(c)' <=> FollowsOf(c)
      BY <1>1, <2>1, <2>3 DEF FollowsOf, Gathering
  <2>5. QED
      BY <1>1, <1>2, <2>1, <2>2, <2>4 DEF CalmFollows
<1>4. CASE RelayLeaves
  <2>1. /\ calls = {} /\ jobs = {} /\ joined /\ joined' = FALSE /\ UNCHANGED relays
        /\ mail' = {[re |-> r, say |-> "rejected"] : r \in {q \in Relays : relays[q] # Nil}}
      BY <1>1, <1>4 DEF RelayLeaves
  <2>2. PICK r \in Relays : relays[r] = "accepted"
      BY <1>1, <1>2, <1>4, <2>1 DEF CalmRelays, Accepted
  <2>3. {q \in Relays : relays[q] # Nil} = {r} /\ relays[r] # Nil
      BY <1>2, <2>2, NilFacts DEF CalmRelays
  <2>4. mail' = {[re |-> r, say |-> "rejected"]}
      BY <2>1, <2>3
  <2>5. CalmRelays'
    <3>1. mail' # {} /\ \A x \in mail' : x.re = r /\ x.say = "rejected"
        BY <2>4
    <3>2. /\ \A p, q \in Relays : relays[q] # Nil /\ relays[p] # Nil => q = p
          /\ calls' = {} /\ jobs' = {} /\ ~joined' /\ UNCHANGED relays /\ \A x, y \in mail' : x = y
        BY <1>1, <1>2, <2>1, <2>4 DEF CalmRelays
    <3>3. QED
        BY <2>3, <3>1, <3>2 DEF CalmRelays
  <2>6. QED
      BY <1>1, <1>2, <1>3, <2>5, TablesStay DEF Calm
<1>5. CASE \E a \in mail : HandleRelayAnswer(a)
  <2>1. PICK a \in mail : HandleRelayAnswer(a)
      BY <1>5
  <2>2. /\ calls = {} /\ mail = {a} /\ relays[a.re] # Nil /\ (joined <=> a.say = "accepted") /\ a.re \in Relays
        /\ \A i \in jobs : i.kind = "relay" /\ i.want /\ i.pc = "write"
        /\ \A q, r \in Relays : relays[q] # Nil /\ relays[r] # Nil => q = r
        /\ a.say \in {"accepted", "rejected"}
      BY <1>2 DEF CalmRelays, RemoteOK, Answers
  <2>3. mail' = {} /\ UNCHANGED joined /\ relays' = [relays EXCEPT ![a.re] = a.say]
      BY <2>1, <2>2 DEF HandleRelayAnswer
  <2>4. \A r \in Relays : relays'[r] = IF r = a.re THEN a.say ELSE Nil
      BY <1>2, <2>2, <2>3 DEF RemoteOK
  <2>5. Accepted' <=> joined'
      BY <2>2, <2>3, <2>4, NilFacts DEF Accepted
  <2>6. CalmRelays'
    <3>1. \A i \in jobs : jobs = {i} /\ i.target \in Relays /\ relays[i.target] # Nil
        BY <1>2, <2>2 DEF CalmRelays, RemoteOK, ProxyJobs, RelayJobs
    <3>2. \A i \in jobs : relays'[i.target] # Nil
        BY <2>2, <2>4, <3>1, NilFacts
    <3>3. QED
        BY <1>1, <2>2, <2>3, <2>4, <2>5, <3>1, <3>2 DEF CalmRelays
  <2>7. QED
      BY <1>1, <1>2, <1>3, <2>6, TablesStay DEF Calm
<1>6. QED
    BY <1>4, <1>5

LEMMA CalmInitial ==
    ASSUME ListsInit
    PROVE  CalmInv
<1>1. /\ \A l \in Names : lists[l] = Nil /\ \A m \in Names \X Candidates : rows[m] = Out
      /\ records = {} /\ calls = {} /\ jobs = {} /\ mail = {} /\ ~joined
      /\ \A a \in Fedi : follows[a] = FALSE /\ far[a] = FALSE
      /\ \A r \in Relays : relays[r] = Nil
    BY DEF ListsInit
<1>2. \A l \in Names, a \in Candidates : rows[<<l, a>>] = Out
    BY <1>1
<1>3. CalmLists
    BY <1>1 DEF CalmLists, ListDone, ListKey, Public
<1>4. CalmRows /\ \A a \in Fedi : ActorReferencedByAnyList(a) = FALSE
    BY <1>1, <1>2, NilFacts DEF CalmRows, RowDone, Shown, Public, ActorReferencedByAnyList, Members
<1>5. CalmRecords /\ OneCall
    BY <1>1 DEF CalmRecords, OneCall
<1>6. CalmFollows
    BY <1>1, <1>4 DEF CalmFollows, Followed
<1>7. CalmRelays
    BY <1>1, NilFacts DEF CalmRelays, Accepted
<1>8. QED
    BY <1>3, <1>4, <1>5, <1>6, <1>7 DEF CalmInv, Calm

LEMMA CalmKept ==
    ASSUME ListsTypeOK, KeysInv, CalmInv, ListsNext
    PROVE  CalmInv'
<1>1. SUFFICES ASSUME hist'.calm
              PROVE  Calm'
    BY DEF CalmInv
<1>2. CASE \E o \in script.ops : StartCall(o)
    BY <1>1, <1>2, CalmOfStarts
<1>3. CASE \E c \in calls : CallStep(c)
    BY <1>1, <1>3, CalmFrom, CalmOfCalls
<1>4. CASE \E j \in jobs : JobStep(j)
    BY <1>1, <1>4, CalmOfJobs
<1>5. CASE (\E a \in mail : HandleRelayAnswer(a)) \/ RelayLeaves
    BY <1>1, <1>5, CalmOfAnswers
<1>6. QED
    BY <1>2, <1>3, <1>4, <1>5 DEF ListsNext

LEMMA CalmSettlesThen ==
    ASSUME ListsTypeOK, KeysInv, CalmInv
    PROVE  CalmSettles
<1>1. SUFFICES ASSUME Calm, calls = {}, jobs = {}, mail = {}, hist.calm
              PROVE  /\ \A l \in Names : Public(l) <=> (lists[l] # Nil /\ lists[l].key # Nil)
                     /\ \A l \in Names, a \in Candidates :
                            (Public(l) /\ a \in Members(l) \cap (Visible \ Fedi)) <=> rows[<<l, a>>] \notin {Out, Nil}
                     /\ records = (Keys \ {Nil, Out}) \cup (hist.over \cap records)
                     /\ \A a \in Fedi : follows[a] = ActorReferencedByAnyList(a) /\ far[a] = follows[a]
                     /\ joined <=> \E r \in Relays : relays[r] = "accepted"
    BY DEF CalmInv, CalmSettles, Outstanding
<1>2. TablesOK /\ CalmLists /\ CalmRows /\ CalmRecords /\ CalmFollows /\ CalmRelays
    BY <1>1 DEF Calm, ListsTypeOK
<1>3. \A l \in Names : Public(l) <=> (lists[l] # Nil /\ lists[l].key # Nil)
    BY <1>1, <1>2 DEF CalmLists, ListDone, ListKey
<1>4. \A l \in Names, a \in Candidates :
        (Public(l) /\ a \in Members(l) \cap (Visible \ Fedi)) <=> rows[<<l, a>>] \notin {Out, Nil}
  <2>1. \A l \in Names, a \in Candidates : RowDone(l, a)
      BY <1>1, <1>2 DEF CalmRows
  <2>2. \A l \in Names, a \in Candidates : rows[<<l, a>>] \in Nat \cup {Nil, Out}
      BY <1>2 DEF TablesOK
  <2>3. \A l \in Names, a \in Candidates : rows[<<l, a>>] \in Nat <=> rows[<<l, a>>] \notin {Out, Nil}
      BY <2>2, NilFacts
  <2>4. QED
      BY <2>1, <2>3 DEF RowDone, Shown
<1>5. records = (Keys \ {Nil, Out}) \cup (hist.over \cap records)
  <2>1. ASSUME NEW k \in records
        PROVE  k \in hist.over \/ k \in Keys \ {Nil, Out}
    <3>1. k \in Nat /\ k \notin {Nil, Out}
        BY <1>2, NilFacts DEF TablesOK
    <3>2. CASE InList(k)
      <4>1. PICK l \in Names : ListKey(l) = k
          BY <3>2 DEF InList
      <4>2. lists[l] # Nil /\ lists[l].key = k
          BY <3>1, <4>1 DEF ListKey
      <4>3. QED
          BY <3>1, <4>2 DEF Keys
    <3>3. CASE InRow(k)
        BY <1>2, <3>1, <3>3 DEF InRow, Keys, TablesOK
    <3>4. QED
        BY <1>1, <1>2, <3>2, <3>3 DEF CalmRecords, Coming
  <2>2. Keys \ {Nil, Out} \subseteq records
      BY <1>1, KeysNameThen DEF KeysName, KeysInv, Cleared
  <2>3. QED
      BY <2>1, <2>2
<1>6. \A a \in Fedi : follows[a] = ActorReferencedByAnyList(a) /\ far[a] = follows[a]
    BY <1>1, <1>2 DEF CalmFollows, JobFor, Followed, Owed
<1>7. joined <=> \E r \in Relays : relays[r] = "accepted"
    BY <1>1, <1>2 DEF CalmRelays, Accepted
<1>8. QED
    BY <1>3, <1>4, <1>5, <1>6, <1>7

-----------------------------------------------------------------------------
IInv == ListsTypeOK /\ KeysInv /\ CalmInv
LEMMA IInvStays ==
    ASSUME IInv, [ListsNext]_listsVars
    PROVE  IInv'
<1>1. CASE ListsNext
    BY <1>1, TypesNext, KeysKept, CalmKept DEF IInv
<1>2. CASE UNCHANGED listsVars
  <2>1. ListsTypeOK' <=> ListsTypeOK
      BY <1>2 DEF listsVars, repo, ListsTypeOK, TablesOK, RemoteOK, BoundsOK, CallsOK, Call, Placed, Setting
  <2>2. KeysInv'
      BY <1>2, KeysOfOthers DEF IInv, listsVars, repo
  <2>3. CalmInv'
    <3>1. SUFFICES ASSUME hist.calm
                  PROVE  Calm'
        BY <1>2 DEF CalmInv, listsVars
    <3>2. Calm /\ UNCHANGED <<lists, rows, records, calls, hist, jobs, follows, far, relays, joined, mail>>
        BY <1>2, <3>1 DEF IInv, CalmInv, listsVars
    <3>3. \A a : /\ ActorReferencedByAnyList(a)' = ActorReferencedByAnyList(a) /\ (Owed(a)' <=> Owed(a))
                 /\ (JobFor(a)' <=> JobFor(a)) /\ (Followed(a)' <=> Followed(a)) /\ Members(a)' = Members(a)
        BY <3>2, ReferencedSame DEF Owed, Owes, JobFor, Followed, Members
    <3>4. (\A i : JobOf(i)' <=> JobOf(i)) /\ (\A c : FollowsOf(c)' <=> FollowsOf(c))
        BY <3>2, <3>3 DEF JobOf, FollowsOf, Gathering
    <3>5. CalmFollows'
        BY <3>2, <3>3, <3>4 DEF Calm, CalmFollows
    <3>6. CalmRelays'
        BY <3>2 DEF Calm, CalmRelays, Accepted
    <3>7. QED
        BY <3>2, <3>5, <3>6, TablesStay DEF Calm
  <2>4. QED
      BY <2>1, <2>2, <2>3 DEF IInv
<1>3. QED
    BY <1>1, <1>2

(* Type correctness: in every reachable state the tables, the jobs and the    *)
(* answers under way, and what every call has read, are of their types.       *)
THEOREM ListsTypeCorrect == ListsSpec => []ListsTypeOK
<1>1. ListsTypeOK /\ [ListsNext]_listsVars => ListsTypeOK'
  <2>1. UNCHANGED listsVars => (ListsTypeOK' <=> ListsTypeOK)
      BY DEF listsVars, repo, ListsTypeOK, TablesOK, RemoteOK, BoundsOK, CallsOK, Call, Placed, Setting
  <2>2. QED
      BY <2>1, TypesNext
<1>2. QED
    BY <1>1, TypesInit, PTL DEF ListsSpec

(* For any lists, members, relays and scripts, whatever calls overlap, fail    *)
(* or end half-way: once the calls are through, a key stored in a list or a   *)
(* member row names a record that exists, but for the keys that a call which  *)
(* had deleted their record failed to clear (lists.rs stores a key only after *)
(* its commit, and deletes a record before it clears or drops its key).  And   *)
(* when calls and jobs came one after the other and none failed, public lists *)
(* and their members have one record each, list-relay follows exactly the     *)
(* actors some list names, and the relay has us when its row says accepted.   *)
THEOREM ListsSettleAlways == ListsSpec => []ListsSettle
<1>1. ListsInit => IInv
    BY TypesInit, KeysInitial, CalmInitial DEF IInv
<1>2. IInv /\ [ListsNext]_listsVars => IInv'
    BY IInvStays
<1>3. IInv => ListsSettle
    BY KeysNameThen, CalmSettlesThen DEF IInv, ListsSettle
<1>4. QED
    BY <1>1, <1>2, <1>3, PTL DEF ListsSpec
====

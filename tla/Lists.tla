------------------------------- MODULE Lists -------------------------------
(***************************************************************************)
(* Lists of one owner (handlers/lists.rs, repository/list.rs) and what the   *)
(* two virtual actors follow for the server: list-relay follows a remote     *)
(* Fediverse actor while any list names it (jobs/proxy_follow_sync.rs), and  *)
(* relay-agent joins and leaves the relays an administrator registers        *)
(* (admin/relays.rs, jobs/relay_follow_sync.rs, inbound relay.rs).           *)
(*                                                                         *)
(* A public list is also a record of the owner's AT repository, with one     *)
(* record for each member seen there; their keys are stored in the rows      *)
(* after each commit.  Calls interleave at every statement and every commit; *)
(* rows of one query are gone through in any order.  Faults: a commit, the   *)
(* storing or clearing of a key, a POST (with or without having arrived) or  *)
(* the end of a job fails, or a call ends where it stands: a statement is an *)
(* error, the client is gone, the process dies.                              *)
(* Names, times, the owner check and withdrawn members are left out.         *)
(***************************************************************************)
EXTENDS Integers, FiniteSets

CONSTANTS
    Nil, Out,           \* no list, no key, no relay; not a member
    Names, Candidates,  \* lists and possible members
    Fedi, Visible,      \* members followed by proxy; members with a DID
    MaxLists, MaxMembers,   \* list_creation_max, list_member_max
    SyncAttempts,       \* attempts of a job (10)
    Relays,             \* ids of relay rows, for the same inbox
    ListScripts         \* operations; bounds: calls at once, faults, leaves

ListRows == [public: BOOLEAN, key: Nat \cup {Nil}]
Answers == {"accepted", "rejected"}
ASSUME ListsAssumption ==
    /\ Fedi \cup Visible \subseteq Candidates
    /\ Nil \notin Nat \cup ListRows \cup Answers \cup {"pending"}
    /\ Out \notin Nat \cup {Nil}

Operations ==
    [op: {"create", "update"}, list: Names, public: BOOLEAN] \cup [op: {"delete"}, list: Names]
    \cup [op: {"add", "remove"}, list: Names, actor: Candidates] \cup [op: {"join", "leave"}, relay: Relays]
(* A list has an id of its own: none is created twice.                      *)
ASSUME ListScriptsAssumption ==
    \A s \in ListScripts :
        /\ s.ops \subseteq Operations
        /\ s.faults \in Nat /\ s.leaves \in Nat
        /\ \A o, p \in s.ops : o.op = "create" /\ p.op = "create" /\ o.list = p.list => o = p

VARIABLES
    lists,              \* [Names -> Nil or [public, key]]
    rows,               \* [Names \X Candidates -> Out or the key of the member's record]
    records, nextKey,   \* keys in the AT repository; last key drawn
    follows, far,       \* rows of list-relay; what the other servers hold
    relays, joined,     \* rows of the relays; whether the relay has us
    mail,               \* answers of the relay on their way
    calls, jobs,        \* calls and jobs under way or waiting
    script, faults,
    hist                \* history: nothing overlapped or failed; keys overwritten,
                        \* keys left in a row when their record was gone

listsVars == <<lists, rows, records, nextKey, follows, far, relays, joined, mail, calls, jobs, script, faults, hist>>
repo == <<records, nextKey>>
remote == <<follows, far, relays, joined, mail>>

Members(l) == {a \in Candidates : rows[<<l, a>>] # Out}
ActorReferencedByAnyList(a) == \E l \in Names : a \in Members(l)
MembersWithAtpRecord(l) == {a \in Members(l) : rows[<<l, a>>] # Nil}
(* The members with their keys.                                             *)
Items(l) == {<<a, rows[<<l, a>>]>> : a \in MembersWithAtpRecord(l)}

-----------------------------------------------------------------------------
(* Calls: where they are, and what they have read: a key, the members still   *)
(* to be published, the records still to be withdrawn, the actors still to be *)
(* followed or unfollowed.                                                  *)

FirstStep(op) ==
    CASE op = "create" -> "count"
      [] op = "update" -> "findForUpdate"
      [] op = "delete" -> "findForDelete"
      [] op = "add" -> "findForAdd"
      [] op = "remove" -> "findForRemove"
      [] op = "join" -> "insertRelay"
      [] op = "leave" -> "findRelay"
NewCall(o) ==
    [op |-> o, pc |-> FirstStep(o.op), public |-> FALSE, key |-> Nil, actor |-> Nil, new |-> {}, items |-> {}, fedi |-> {}]

Goes(c, d) == calls' = (calls \ {c}) \cup (IF d.pc = "end" THEN {} ELSE {d})
GoesTo(c, l) == Goes(c, [c EXCEPT !.pc = l])
Ends(c) == calls' = calls \ {c}
Stands(c, l) == c \in calls /\ c.pc = l

Outstanding == calls # {} \/ jobs # {} \/ mail # {}
StartCall(o) ==
    /\ o \in script.ops /\ Cardinality(calls) < script.atOnce
    /\ script' = [script EXCEPT !.ops = @ \ {o}]
    /\ calls' = calls \cup {NewCall(o)}
    /\ hist' = [hist EXCEPT !.calm = @ /\ ~Outstanding]
    /\ UNCHANGED <<lists, rows, repo, remote, jobs, faults>>

Fault == faults > 0 /\ faults' = faults - 1 /\ hist' = [hist EXCEPT !.calm = FALSE]
(* The call does not clear the key it was to clear.                         *)
Clearing(c) ==
    CASE c.pc = "clearItem" -> {rows[<<c.op.list, c.actor>>]}
      [] c.pc = "clearList" /\ lists[c.op.list] # Nil -> {lists[c.op.list].key}
      [] OTHER -> {}
Misses(c) ==
    /\ faults > 0 /\ faults' = faults - 1
    /\ hist' = [hist EXCEPT !.calm = FALSE, !.stale = @ \cup (Clearing(c) \ records)]
NoFault == UNCHANGED <<faults, hist>>

Enqueue(k, t, w) == jobs' = jobs \cup {[kind |-> k, target |-> t, want |-> w, tries |-> 0, pc |-> "queued"]}
OnlyCalls == UNCHANGED <<lists, rows, repo, remote, jobs, script>> /\ NoFault
(* An error of a statement ends the call, and so does the end of its request. *)
Breaks(c) == c \in calls /\ Ends(c) /\ Misses(c) /\ UNCHANGED <<lists, rows, repo, remote, jobs, script>>

-----------------------------------------------------------------------------
(* create_list *)
CountByOwner(c) ==
    /\ Stands(c, "count")
    /\ IF Cardinality({l \in Names : lists[l] # Nil}) >= MaxLists THEN Ends(c) ELSE GoesTo(c, "insert")
    /\ OnlyCalls
CreateList(c) ==
    /\ Stands(c, "insert")
    /\ lists' = [lists EXCEPT ![c.op.list] = [public |-> c.op.public, key |-> Nil]]
    /\ GoesTo(c, IF c.op.public THEN "commitList" ELSE "end")
    /\ UNCHANGED <<rows, repo, remote, jobs, script>> /\ NoFault

(* update_list: what was read before the UPDATE decides what is published.    *)
UpdateListFind(c) ==
    /\ Stands(c, "findForUpdate")
    /\ LET row == lists[c.op.list]
       IN  IF row = Nil THEN Ends(c) ELSE Goes(c, [c EXCEPT !.pc = "update", !.public = row.public, !.key = row.key])
    /\ OnlyCalls
UpdateList(c) ==
    /\ Stands(c, "update")
    /\ \/ lists[c.op.list] = Nil /\ Ends(c) /\ UNCHANGED lists
       \/ /\ lists[c.op.list] # Nil
          /\ lists' = [lists EXCEPT ![c.op.list].public = c.op.public]
          /\ GoesTo(c, IF c.public = c.op.public THEN "end" ELSE IF c.op.public THEN "commitList" ELSE "unpublish")
    /\ UNCHANGED <<rows, repo, remote, jobs, script>> /\ NoFault

(* publish_list_to_atp and maybe_publish_listitem: the record, then its key   *)
(* by a statement of its own; nothing without the key of the list.           *)
Publishable(uri, as) == IF uri = Nil THEN {} ELSE as \cap (Visible \ Fedi)
Publishing(c) == Goes(c, [c EXCEPT !.pc = IF c.new = {} THEN "end" ELSE "commitItem"])
PublishMembers(c) ==
    /\ Stands(c, "items")
    /\ LET l == c.op.list
       IN  IF lists[l] = Nil THEN Ends(c)
           ELSE LET new == Publishable(lists[l].key, Members(l))
                IN  Goes(c, [c EXCEPT !.new = new, !.pc = IF new = {} THEN "end" ELSE "commitItem"])
    /\ OnlyCalls
Drawn == nextKey' = nextKey + 1 /\ records' = records \cup {nextKey + 1}
AfterList(c) == IF c.op.op = "update" THEN "items" ELSE "end"
PublishListToAtp(c) ==
    /\ Stands(c, "commitList")
    /\ \/ Drawn /\ Goes(c, [c EXCEPT !.pc = "setList", !.key = nextKey + 1]) /\ NoFault
       \/ Fault /\ UNCHANGED repo /\ GoesTo(c, AfterList(c))
    /\ UNCHANGED <<lists, rows, remote, jobs, script>>
SetAtpListRecord(c) ==
    /\ Stands(c, "setList") /\ GoesTo(c, AfterList(c))
    /\ LET l == c.op.list
       IN  \/ /\ lists' = IF lists[l] = Nil THEN lists ELSE [lists EXCEPT ![l].key = c.key]
              /\ hist' = [hist EXCEPT !.over = IF lists[l] = Nil THEN @ ELSE @ \cup ({lists[l].key} \ {Nil})]
              /\ UNCHANGED faults
           \/ Fault /\ UNCHANGED lists
    /\ UNCHANGED <<rows, repo, remote, jobs, script>>
MaybePublishListitem(c) ==
    /\ Stands(c, "commitItem")
    /\ \E a \in c.new :
        LET rest == c.new \ {a}
        IN  \/ Drawn /\ Goes(c, [c EXCEPT !.pc = "setItem", !.key = nextKey + 1, !.actor = a, !.new = rest]) /\ NoFault
            \/ Fault /\ UNCHANGED repo /\ Goes(c, [c EXCEPT !.pc = IF rest = {} THEN "end" ELSE "commitItem", !.new = rest])
    /\ UNCHANGED <<lists, rows, remote, jobs, script>>
SetMemberAtpRecord(c) ==
    /\ Stands(c, "setItem") /\ Publishing(c)
    /\ LET m == <<c.op.list, c.actor>>
       IN  \/ /\ rows' = IF rows[m] = Out THEN rows ELSE [rows EXCEPT ![m] = c.key]
              /\ hist' = [hist EXCEPT !.over = @ \cup ({rows[m]} \ {Nil, Out})]
              /\ UNCHANGED faults
           \/ Fault /\ UNCHANGED rows
    /\ UNCHANGED <<lists, repo, remote, jobs, script>>

(* unpublish_list_from_atp: each member's record and key, then the list's;    *)
(* the errors of the commits are logged, those of the clearing dropped.      *)
Unpublish(c) ==
    /\ Stands(c, "unpublish")
    /\ LET items == Items(c.op.list)
       IN  Goes(c, [c EXCEPT !.items = items, !.pc = IF items = {} THEN "deleteList" ELSE "deleteItem"])
    /\ OnlyCalls
Deletes(k) ==
    \/ records' = records \ {k} /\ NoFault
    \/ Fault /\ UNCHANGED records
UnpublishListFromAtp(c) ==
    /\ \/ /\ Stands(c, "deleteItem")
          /\ \E i \in c.items : Deletes(i[2]) /\ Goes(c, [c EXCEPT !.pc = "clearItem", !.actor = i[1], !.items = @ \ {i}])
       \/ Stands(c, "deleteList") /\ Deletes(c.key) /\ GoesTo(c, "clearList")
    /\ UNCHANGED <<lists, rows, nextKey, remote, jobs, script>>
ClearMemberAtpRecord(c) ==
    /\ Stands(c, "clearItem") /\ GoesTo(c, IF c.items = {} THEN "deleteList" ELSE "deleteItem")
    /\ LET m == <<c.op.list, c.actor>>
       IN  \/ rows' = (IF rows[m] = Out THEN rows ELSE [rows EXCEPT ![m] = Nil]) /\ NoFault
           \/ Misses(c) /\ UNCHANGED rows
    /\ UNCHANGED <<lists, repo, remote, jobs, script>>
ClearAtpListRecord(c) ==
    /\ Stands(c, "clearList") /\ Ends(c)
    /\ LET l == c.op.list
       IN  \/ lists' = (IF lists[l] = Nil THEN lists ELSE [lists EXCEPT ![l].key = Nil]) /\ NoFault
           \/ Misses(c) /\ UNCHANGED lists
    /\ UNCHANGED <<rows, repo, remote, jobs, script>>

(* What follows when rows are gone: list-relay unfollows, the records are     *)
(* deleted, that of the list last.                                          *)
Withdrawing(c) ==
    IF c.fedi # {} THEN "unfollow" ELSE IF c.items # {} THEN "dropItem" ELSE IF c.public THEN "dropList" ELSE "end"
Withdraws(c, d) == Goes(c, [d EXCEPT !.pc = Withdrawing(d)])

(* delete_list: the members and the keys are read before the cascade.        *)
DeleteListFind(c) ==
    /\ Stands(c, "findForDelete")
    /\ LET l == c.op.list
           public == lists[l] # Nil /\ lists[l].public
       IN  Goes(c, [c EXCEPT !.pc = "delete", !.public = public, !.fedi = Members(l) \cap Fedi,
                             !.items = IF public THEN Items(l) ELSE {}, !.key = IF public THEN lists[l].key ELSE Nil])
    /\ OnlyCalls
DeleteList(c) ==
    /\ Stands(c, "delete")
    /\ LET l == c.op.list
       IN  \/ lists[l] = Nil /\ Ends(c) /\ UNCHANGED <<lists, rows>>
           \/ /\ lists[l] # Nil /\ Withdraws(c, c)
              /\ lists' = [lists EXCEPT ![l] = Nil]
              /\ rows' = [m \in DOMAIN rows |-> IF m[1] = l THEN Out ELSE rows[m]]
    /\ UNCHANGED <<repo, remote, jobs, script>> /\ NoFault
DropRecord(c) ==
    /\ \/ /\ Stands(c, "dropItem")
          /\ \E i \in c.items : Deletes(i[2]) /\ Withdraws(c, [c EXCEPT !.items = @ \ {i}])
       \/ Stands(c, "dropList") /\ Deletes(c.key) /\ Ends(c)
    /\ UNCHANGED <<lists, rows, nextKey, remote, jobs, script>>

(* add_member: was the actor in any list before the INSERT?                  *)
AddMemberFind(c) ==
    /\ Stands(c, "findForAdd")
    /\ LET l == c.op.list
       IN  IF lists[l] = Nil \/ Cardinality(Members(l)) >= MaxMembers THEN Ends(c)
           ELSE Goes(c, [c EXCEPT !.pc = "referenced",
                                  !.new = IF lists[l].public THEN Publishable(lists[l].key, {c.op.actor}) ELSE {}])
    /\ OnlyCalls
WasReferenced(c) ==
    /\ Stands(c, "referenced")
    /\ LET a == c.op.actor
       IN  Goes(c, [c EXCEPT !.pc = "addRow", !.fedi = IF a \in Fedi /\ ~ActorReferencedByAnyList(a) THEN {a} ELSE {}])
    /\ OnlyCalls
AddMember(c) ==
    /\ Stands(c, "addRow")
    /\ LET m == <<c.op.list, c.op.actor>>
       IN  \/ lists[c.op.list] = Nil /\ Ends(c) /\ UNCHANGED rows       \* foreign key
           \/ /\ lists[c.op.list] # Nil
              /\ IF c.fedi # {} THEN GoesTo(c, "follow") ELSE Publishing(c)
              /\ rows' = IF rows[m] = Out THEN [rows EXCEPT ![m] = Nil] ELSE rows    \* ON CONFLICT DO NOTHING
    /\ UNCHANGED <<lists, repo, remote, jobs, script>> /\ NoFault
EnqueueFollow(c) ==
    /\ Stands(c, "follow") /\ Publishing(c)
    /\ Enqueue("proxy", c.op.actor, TRUE)
    /\ UNCHANGED <<lists, rows, repo, remote, script>> /\ NoFault

(* remove_member, and maybe_unfollow_if_unreferenced                         *)
RemoveMemberFind(c) ==
    /\ Stands(c, "findForRemove")
    /\ LET a == c.op.actor
           k == rows[<<c.op.list, a>>]
       IN  IF lists[c.op.list] = Nil THEN Ends(c)
           ELSE Goes(c, [c EXCEPT !.pc = "removeRow", !.fedi = {a}, !.items = IF k \in {Out, Nil} THEN {} ELSE {<<a, k>>}])
    /\ OnlyCalls
RemoveMember(c) ==
    /\ Stands(c, "removeRow")
    /\ LET m == <<c.op.list, c.op.actor>>
       IN  \/ rows[m] = Out /\ Ends(c) /\ UNCHANGED rows
           \/ rows[m] # Out /\ Withdraws(c, c) /\ rows' = [rows EXCEPT ![m] = Out]
    /\ UNCHANGED <<lists, repo, remote, jobs, script>> /\ NoFault
(* Faulty variant: unfollows although another list names the actor.          *)
UnreferencedNow(a) == a \in Fedi
Unreferenced(a) == a \in Fedi /\ ~ActorReferencedByAnyList(a)
MaybeUnfollowIfUnreferenced(c) ==
    /\ Stands(c, "unfollow")
    /\ \E a \in c.fedi :
        /\ Withdraws(c, [c EXCEPT !.fedi = @ \ {a}])
        /\ \/ Unreferenced(a) /\ Enqueue("proxy", a, FALSE)
           \/ ~Unreferenced(a) /\ UNCHANGED jobs
    /\ UNCHANGED <<lists, rows, repo, remote, script>> /\ NoFault

-----------------------------------------------------------------------------
(* create_relay: one row for an inbox; its id is in the activity id.          *)
CreateRelay(c) ==
    /\ Stands(c, "insertRelay")
    /\ LET r == c.op.relay
       IN  \/ (\E q \in Relays : relays[q] # Nil) /\ Ends(c) /\ UNCHANGED relays
           \/ /\ \A q \in Relays : relays[q] = Nil
              /\ relays' = [relays EXCEPT ![r] = "pending"]
              /\ GoesTo(c, "enqueueRelay")
    /\ UNCHANGED <<lists, rows, repo, follows, far, joined, mail, jobs, script>> /\ NoFault
DeleteRelay(c) ==
    /\ Stands(c, "findRelay")
    /\ GoesTo(c, IF relays[c.op.relay] = Nil THEN "end" ELSE "enqueueRelay")
    /\ OnlyCalls
EnqueueRelay(c) ==
    /\ Stands(c, "enqueueRelay") /\ Ends(c)
    /\ Enqueue("relay", c.op.relay, c.op.op = "join")
    /\ UNCHANGED <<lists, rows, repo, remote, script>> /\ NoFault

-----------------------------------------------------------------------------
(* Jobs: read the state, POST, write the state.                              *)
Moved(j, pc) == jobs' = (jobs \ {j}) \cup {[j EXCEPT !.pc = pc]}
Gone(j) == jobs' = jobs \ {j}
Failed(j) == jobs' = (jobs \ {j}) \cup (IF j.tries + 1 < SyncAttempts THEN {[j EXCEPT !.pc = "queued", !.tries = @ + 1]} ELSE {})

ProxyFollowSync(j) ==
    /\ j.kind = "proxy" /\ j.pc = "queued"
    /\ \/ follows[j.target] = j.want /\ Gone(j)
       \/ follows[j.target] # j.want /\ Moved(j, "post")
    /\ UNCHANGED <<lists, rows, repo, remote, calls, script>> /\ NoFault
RelayFollowSync(j) ==
    /\ j.kind = "relay" /\ j.pc = "queued"
    /\ \/ relays[j.target] = Nil /\ Gone(j)
       \/ relays[j.target] # Nil /\ Moved(j, "post")
    /\ UNCHANGED <<lists, rows, repo, remote, calls, script>> /\ NoFault

(* The other server takes the Follow or the Undo; a relay answers a Follow.  *)
Arrives(j) ==
    \/ /\ j.kind = "proxy" /\ far' = [far EXCEPT ![j.target] = j.want]
       /\ UNCHANGED <<joined, mail>>
    \/ /\ j.kind = "relay" /\ j.want
       /\ \/ joined' = TRUE /\ mail' = mail \cup {[re |-> j.target, say |-> "accepted"]}
          \/ joined' = joined /\ mail' = mail \cup {[re |-> j.target, say |-> "rejected"]}
       /\ UNCHANGED far
    \/ /\ j.kind = "relay" /\ ~j.want /\ joined' = FALSE
       /\ UNCHANGED <<far, mail>>
SignAndPost(j) ==
    /\ j.pc = "post"
    /\ \/ Arrives(j) /\ Moved(j, "write") /\ NoFault
       \/ Fault /\ Failed(j) /\ (Arrives(j) \/ UNCHANGED <<far, joined, mail>>)
    /\ UNCHANGED <<lists, rows, repo, follows, relays, calls, script>>

(* upsert_pending or delete_by_actors; the relay's row goes with the Undo.   *)
WriteBack(j) ==
    /\ j.pc = "write"
    /\ \/ /\ j.kind = "proxy" /\ follows' = [follows EXCEPT ![j.target] = j.want]
          /\ Gone(j) /\ NoFault /\ UNCHANGED relays
       \/ /\ j.kind = "relay"
          /\ relays' = IF j.want THEN relays ELSE [relays EXCEPT ![j.target] = Nil]
          /\ Gone(j) /\ NoFault /\ UNCHANGED follows
       \/ Fault /\ Failed(j) /\ UNCHANGED <<follows, relays>>
    /\ UNCHANGED <<lists, rows, repo, far, joined, mail, calls, script>>

(* relay_id_for_follow_object: an answer to a row that is gone is not taken.  *)
HandleRelayAnswer(a) ==
    /\ a \in mail /\ mail' = mail \ {a}
    /\ relays' = IF relays[a.re] = Nil THEN relays ELSE [relays EXCEPT ![a.re] = a.say]
    /\ UNCHANGED <<lists, rows, repo, follows, far, joined, calls, jobs, script>> /\ NoFault

(* The relay drops us: an Undo of its own, handled like a Reject.            *)
RelayLeaves ==
    /\ joined /\ script.leaves > 0
    /\ script' = [script EXCEPT !.leaves = @ - 1] /\ joined' = FALSE
    /\ mail' = mail \cup {[re |-> r, say |-> "rejected"] : r \in {q \in Relays : relays[q] # Nil}}
    /\ hist' = [hist EXCEPT !.calm = @ /\ ~Outstanding]
    /\ UNCHANGED <<lists, rows, repo, follows, far, relays, calls, jobs, faults>>

-----------------------------------------------------------------------------
ListsInit ==
    /\ lists = [l \in Names |-> Nil] /\ rows = [m \in Names \X Candidates |-> Out]
    /\ records = {} /\ nextKey = 0
    /\ follows = [a \in Fedi |-> FALSE] /\ far = [a \in Fedi |-> FALSE]
    /\ relays = [r \in Relays |-> Nil] /\ joined = FALSE /\ mail = {}
    /\ calls = {} /\ jobs = {}
    /\ \E s \in ListScripts :
        script = [ops |-> s.ops, atOnce |-> s.atOnce, leaves |-> s.leaves] /\ faults = s.faults
    /\ hist = [calm |-> TRUE, over |-> {}, stale |-> {}]

CallStep(c) ==
    \/ CountByOwner(c) \/ CreateList(c) \/ UpdateListFind(c) \/ UpdateList(c) \/ PublishMembers(c)
    \/ PublishListToAtp(c) \/ SetAtpListRecord(c) \/ MaybePublishListitem(c) \/ SetMemberAtpRecord(c)
    \/ Unpublish(c) \/ UnpublishListFromAtp(c) \/ ClearMemberAtpRecord(c) \/ ClearAtpListRecord(c)
    \/ DeleteListFind(c) \/ DeleteList(c) \/ DropRecord(c)
    \/ AddMemberFind(c) \/ WasReferenced(c) \/ AddMember(c) \/ EnqueueFollow(c)
    \/ RemoveMemberFind(c) \/ RemoveMember(c) \/ MaybeUnfollowIfUnreferenced(c)
    \/ CreateRelay(c) \/ DeleteRelay(c) \/ EnqueueRelay(c) \/ Breaks(c)
JobStep(j) == ProxyFollowSync(j) \/ RelayFollowSync(j) \/ SignAndPost(j) \/ WriteBack(j)
ListsNext ==
    \/ \E o \in script.ops : StartCall(o)
    \/ \E c \in calls : CallStep(c)
    \/ \E j \in jobs : JobStep(j)
    \/ \E a \in mail : HandleRelayAnswer(a)
    \/ RelayLeaves
ListsSpec == ListsInit /\ [][ListsNext]_listsVars

-----------------------------------------------------------------------------
Keys == {lists[l].key : l \in {n \in Names : lists[n] # Nil}} \cup {rows[m] : m \in DOMAIN rows}
Public(l) == lists[l] # Nil /\ lists[l].public

(* Whatever calls overlap: once they are through, a key stored in a row names  *)
(* a record that exists, so that unpublishing or removing withdraws it; only   *)
(* where a call deleted the record and then failed to clear the key, or ended  *)
(* before it, does the key stay (unpublish_list_from_atp drops that error).   *)
KeysName == calls = {} => Keys \ {Nil, Out} \subseteq records \cup hist.stale

(* When calls and jobs came one after the other and none failed: a public     *)
(* list and its visible members have one record each and no other record is   *)
(* left, up to keys that were overwritten (a member added again, lists.rs      *)
(* add_member); list-relay follows exactly the Fediverse actors some list      *)
(* names (the reference count of proxy_follow_sync.rs); the relay has us       *)
(* exactly when its row says accepted.                                        *)
CalmSettles ==
    (hist.calm /\ ~Outstanding) =>
        /\ \A l \in Names : Public(l) <=> (lists[l] # Nil /\ lists[l].key # Nil)
        /\ \A l \in Names, a \in Candidates :
               (Public(l) /\ a \in Members(l) \cap (Visible \ Fedi)) <=> rows[<<l, a>>] \notin {Out, Nil}
        /\ records = (Keys \ {Nil, Out}) \cup (hist.over \cap records)
        /\ \A a \in Fedi : follows[a] = ActorReferencedByAnyList(a) /\ far[a] = follows[a]
        /\ joined <=> \E r \in Relays : relays[r] = "accepted"
ListsSettle == KeysName /\ CalmSettles
====

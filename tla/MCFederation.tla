----------------------------- MODULE MCFederation -----------------------------
(* Social and Ingest in one run: one of them takes steps, the variables of    *)
(* the other keep their first value.                                        *)
EXTENDS Social

CONSTANTS me, al, rs, fe, ann, bob, n1, n2, n3, n4, n5, l1

-----------------------------------------------------------------------------
(* Social: two local actors and the two kinds of remote ones that speak       *)
(* ActivityPub, one of them also with an AT repository.                      *)

MCActors == {me, al, rs, fe}
MCLocal == {me, al}
MCKind == me :> "local" @@ al :> "local" @@ rs :> "remote_seiran" @@ fe :> "fedi"
MCPairs == {<<me, me>>, <<me, al>>, <<me, rs>>, <<rs, me>>}
MCMoves == {<<rs, fe>>}
MCStartLocked == {{me, al, rs}}

-----------------------------------------------------------------------------
(* Ingest: a person with two identities and one with a Bluesky identity only. *)

MCPersons == {ann, bob}
MCObjects == {n1, n2, n3, n4, n5, l1}
Thing(by, ap, at, late, copyOf, target) ==
    [by |-> by, ap |-> ap, at |-> at, late |-> late, copyOf |-> copyOf, target |-> target]
(* n1 and n5 are ann's, on both networks; n2 a repost of it, n3 and n4 are its        *)
(* copies by a bridge, l1 is a reaction to it.                               *)
MCObj == [o \in MCObjects |->
    CASE o = n1 -> Thing(ann, TRUE, TRUE, TRUE, None, None)
      [] o = n2 -> Thing(bob, TRUE, TRUE, FALSE, None, n1)
      [] o = n3 -> Thing(bob, FALSE, TRUE, FALSE, n1, None)
      [] o = n4 -> Thing(bob, TRUE, FALSE, FALSE, n1, None)
      [] o = n5 -> Thing(ann, TRUE, TRUE, FALSE, None, None)
      [] o = l1 -> Thing(bob, TRUE, TRUE, FALSE, None, n1)]
Act(kind, by, obj) == [kind |-> kind, by |-> by, obj |-> obj]
Did(p) == [ap |-> None, did |-> p, claimedDid |-> None, claimedAp |-> None]
DidDeclared(p) == [ap |-> None, did |-> p, claimedDid |-> None, claimedAp |-> p]
Fedi(p) == [ap |-> p, did |-> None, claimedDid |-> p, claimedAp |-> None]
Sc(inbox, stream_, known, here_, suspended_, repeats_, drops_, faults_, crashes_) ==
    [inbox |-> inbox, stream |-> stream_, known |-> known, followed |-> {ann, bob}, suspended |-> suspended_, here |-> here_,
     repeats |-> repeats_, drops |-> drops_, faults |-> faults_, crashes |-> crashes_]
Saved(o, author) ==
    [author |-> author, ap |-> None, at |-> o, claimedAt |-> None, claimedAp |-> None, copyOf |-> None, copyUri |-> None,
     bridge |-> None, target |-> None, deleted |-> FALSE, gone |-> FALSE]
MCScripts ==
    {Sc({Act("Create", ann, n5)}, <<Act("post", ann, n5)>>, <<DidDeclared(ann)>>, <<>>, {}, 1, 1, 1, 1),
     Sc({Act("Create", ann, n1), Act("Update", ann, n1)}, <<Act("post", ann, n1)>>, <<DidDeclared(ann)>>, <<>>, {}, 1, 0, 0, 1),
     Sc({Act("Create", ann, n1), Act("Update", ann, n1), Act("Delete", ann, n1)}, <<Act("post", ann, n1)>>,
        <<DidDeclared(ann)>>, <<>>, {}, 1, 0, 0, 0),
     Sc({Act("Create", ann, n1)}, <<Act("post", bob, n3), Act("post", ann, n1)>>, <<Did(bob), Fedi(ann)>>, <<>>, {}, 0, 1, 0, 0),
     Sc({Act("Announce", bob, n2), Act("Undo", bob, n2)}, <<Act("repost", ann, n2), Act("delete", ann, n2)>>,
        <<Did(bob)>>, <<>>, {}, 0, 0, 1, 0),
     Sc({Act("Create", ann, n5)}, <<Act("repost", ann, n2)>>, <<>>, <<>>, {}, 0, 0, 0, 0),
     Sc({Act("Create", bob, n4)}, <<Act("repost", bob, n2)>>, <<>>, <<>>, {}, 0, 0, 1, 0),
     Sc({Act("Like", bob, l1), Act("Undo", bob, l1)}, <<Act("like", bob, l1), Act("unlike", bob, l1)>>,
        <<DidDeclared(ann), Did(bob)>>, <<[Saved(n1, 1) EXCEPT !.ap = n1]>>, {}, 0, 0, 0, 0),
     Sc({Act("Create", ann, n1)}, <<Act("post", ann, n1), Act("repost", bob, n2), Act("like", bob, l1)>>,
        <<Fedi(ann), Did(bob)>>, <<>>, {ann, bob}, 0, 0, 0, 0)}

-----------------------------------------------------------------------------
VARIABLES which,
    actors, posts, reactions, counts, handling, jobs, reader, cursor, script, repeats, drops, missing, crashes, met, deleted, handled
ingest == <<actors, posts, reactions, counts, handling, jobs, reader, cursor, script, repeats, drops, missing, crashes, met, deleted, handled>>
I == INSTANCE Ingest WITH
        Persons <- MCPersons, Objects <- MCObjects, Obj <- MCObj, Dual <- {ann}, Scripts <- MCScripts, Calls <- {1, 2},
        MaxTries <- 2, MaxAttempts <- 3, calls <- handling, faults <- missing

NoIngest ==
    /\ actors = None /\ posts = None /\ reactions = None /\ counts = None /\ handling = None /\ jobs = None /\ reader = None
    /\ cursor = None /\ script = None /\ repeats = None /\ drops = None /\ missing = None /\ crashes = None
    /\ met = None /\ deleted = None /\ handled = None

MCInit ==
    \/ which = "social" /\ Init /\ NoIngest
    \/ which = "ingest" /\ I!Init /\ Init
MCNext ==
    \/ which = "social" /\ Next /\ UNCHANGED <<which, ingest>>
    \/ which = "ingest" /\ I!Next /\ UNCHANGED <<which, vars>>
    \/ which = "social" /\ UNCHANGED <<which, vars, ingest>>     \* calls may end; ingest has to go on
MCSpec == MCInit /\ [][MCNext]_<<which, vars, ingest>>

(* The two halves of a person and of a post meet, in whichever order they     *)
(* arrive.                                                                  *)
HalvesMeet == which = "ingest" => I!TypeOK /\ I!PersonsMeet /\ I!PostsMeet
(* What was deleted stays deleted, and no event is missed by a live process.  *)
IngestExact == which = "ingest" => I!NoteStaysDeleted /\ I!NothingMissed
====

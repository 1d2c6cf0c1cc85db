------------------------------- MODULE MCJobs -------------------------------
(* FollowImport and Dm in one run: one of them takes steps, the other stays in *)
(* an initial state.                                                        *)
EXTENDS FollowImport, Dm

CONSTANTS w1, w2, me, bs, bt,
    Parts     \* which of them run

-----------------------------------------------------------------------------
(* Dm: a local user and two Bluesky users; pages of two messages and one      *)
(* reaction for each message.                                               *)

Convo == <<me, bs>>
Dms(author, to, root, msg) ==
    [author |-> author, vis |-> "direct", reply |-> None, quote |-> None, repost |-> None, to |-> {to}, deleted |-> FALSE,
     root |-> root, msg |-> msg]
TalkDb(posts, links) ==
    [posts |-> posts, follows |-> <<>>, blocks |-> <<>>, mutes |-> {}, repostMutes |-> {}, gone |-> {}, notified |-> {},
     list |-> [owner |-> me, public |-> FALSE, members |-> {}],
     links |-> links, read |-> <<>>, reactions |-> {}, hiddenDms |-> {}]
NoTalk == TalkDb(<<>>, <<>>)
(* Post 1 was received and is message 1.                                     *)
KnownTalk == TalkDb(1 :> Dms(bs, me, 1, <<Convo, 1>>), 1 :> [convo |-> Convo, last |-> <<Convo, 1>>])
KnownChat == Convo :> <<[from |-> bs, at |-> 1, post |-> None, reactions |-> {}, gone |-> {}]>>

Wish(op, p) == [op |-> op, by |-> me, on |-> p, to |-> None, content |-> "x"]
Send(p, to) == [Wish("send", p) EXCEPT !.to = to]
Happening(op, a, i, content) == [op |-> op, by |-> a, convo |-> Convo, on |-> i, content |-> content]
Talk(requests, chatEvents, d, ch, nfaults) ==
    [requests |-> requests, events |-> chatEvents, db |-> d, chat |-> ch, clock |-> IF ch = <<>> THEN 0 ELSE Len(ch[Convo]),
     faults |-> nfaults]

(* The user writes while the peer does: two threads of one conversation.     *)
MCTalkMeet == {Talk({Send(None, bs), Wish("read", 1)}, {Happening("write", bs, 0, "a")}, NoTalk, <<>>, 1)}
(* A history longer than a page.                                             *)
MCHistory ==
    {Talk({}, {Happening("write", bs, 0, "a"), Happening("write", me, 0, "a"), Happening("write", bs, 0, "b")}, NoTalk, <<>>, 2),
     Talk({}, {Happening("write", bs, 0, "a"), Happening("write", me, 0, "a")}, NoTalk, KnownChat, 1)}
(* Reactions from both sides, and a message hidden.                          *)
MCTalkReact ==
    {Talk({Wish("react", 1), r}, {Happening("react", bs, 1, "y"), Happening("unreact", bs, 1, "y")}, KnownTalk, KnownChat, 0) :
        r \in {Wish("unreact", 1), [Wish("react", 1) EXCEPT !.content = "z"]}} \cup
    {Talk({Wish("react", 1), Wish("unreact", 1)}, {Happening("react", bs, 1, "y")}, KnownTalk, KnownChat, 1),
     Talk({Wish("react", 1), Wish("hide", 1)}, {Happening("react", bs, 1, "y")}, KnownTalk, KnownChat, 1)}
(* Answers in a thread, marked read from two clients.                        *)
MCTalkRead ==
    {Talk({Send(1, bs), Wish("read", 1), [Wish("read", 1) EXCEPT !.content = "y"]}, {}, KnownTalk, KnownChat, 0),
     Talk({Send(1, bs), Wish("react", 2)}, {}, KnownTalk, KnownChat, 1)} \cup
    {Talk({Wish("read", 1), [Wish("read", 1) EXCEPT !.content = "y"]}, {Happening("write", bs, 0, "a")},
            [KnownTalk EXCEPT !.mutes = mu], KnownChat, 0) : mu \in {{}, {<<me, bs>>}}}
MCDmScripts == MCTalkMeet \cup MCHistory \cup MCTalkReact \cup MCTalkRead

(* An answer in the thread of one Bluesky user, addressed to another.        *)
MCOther == {Talk({Send(1, bt)}, {}, KnownTalk, KnownChat, 0)}

-----------------------------------------------------------------------------
VARIABLE which

MCInit ==
    /\ which \in Parts
    /\ Init /\ (which # "import" => monolith)
    /\ IF which = "dm" THEN DmInit ELSE DmInitWith(Talk({}, {}, NoTalk, <<>>, 0))
MCNext ==
    \/ which = "import" /\ Next /\ UNCHANGED <<which, dmVars>>
    \/ which = "dm" /\ DmNext /\ UNCHANGED <<which, vars>>
(* The fairness of the two modules, for the part that runs.                *)
MCFairness ==
    /\ WF_vars(which = "import" /\ StartEnqueue)
    /\ \A w \in Workers : WF_vars(which = "import" /\ HandlerStep(w))
    /\ WF_dmVars(which = "dm" /\ PollStep) /\ WF_dmVars(which = "dm" /\ \E j \in jobs : JobStep(j))
    /\ \A s \in Calls : WF_dmVars(which = "dm" /\ CallStep(s))
MCSpec == MCInit /\ [][MCNext]_<<which, vars, dmVars>> /\ MCFairness

(* The last page of a conversation ends up the same on both sides (Dm).       *)
DmConverges == which = "dm" => Converges
=============================================================================

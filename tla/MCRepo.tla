------------------------------- MODULE MCRepo -------------------------------
(* AtpRepo and RepoTree in one run: one of them takes steps, the other stays *)
(* in its initial state or has no value.                                   *)
EXTENDS AtpRepo, TLC

CONSTANTS a1, a2, w1, w2, w3, p1, nothing,
    Parts    \* which of them run

(* Three concurrent calls: a post, its deletion and a profile on one       *)
(* repository; three profiles on one; or two on one and one on another.    *)
W(a, op, p) == [actor |-> a, op |-> op, post |-> p, key |-> "self"]
Calls(x, y, z) == w1 :> x @@ w2 :> y @@ w3 :> z

MCWorkloads == {
    Calls(W(a1, "put", p1), W(a1, "delete", p1), W(a1, "put", NoPost)),
    Calls(W(a1, "put", NoPost), W(a1, "put", NoPost), W(a1, "put", NoPost)),
    Calls(W(a1, "put", NoPost), W(a1, "delete", NoPost), W(a2, "put", NoPost))}

-----------------------------------------------------------------------------
(* RepoTree: three keys that extend one another and one of another            *)
(* collection; the hashes of the first two may lie above or below the third,  *)
(* for those who read the tree.                                             *)
TreeKeys == {<<1, 0, 1>>, <<1, 0, 1, 2>>, <<1, 0, 1, 2, 1>>, <<2, 0, 1>>}
TreeLayers == {f \in [TreeKeys -> 0 .. 2] : f[<<2, 0, 1>>] = 0 /\ f[<<1, 0, 1, 2, 1>>] = 1}
VARIABLES which, layerOf, rows, hidden, blocks, root, commits, reader, was
tree == <<layerOf, rows, hidden, blocks, root, commits, reader, was>>
T == INSTANCE RepoTree WITH
        Keys <- TreeKeys, Slash <- 0, PostCollection <- <<2>>, Values <- {1, 2}, Layers <- TreeLayers, MaxLayer <- 2, MaxMstDepth <- 2,
        PageSize <- 1, MaxCommits <- 1, MaxLost <- 1, head <- root, deleted <- hidden, None <- nothing
NoTree ==
    layerOf = nothing /\ rows = nothing /\ hidden = nothing /\ blocks = nothing /\ root = nothing /\ commits = nothing /\ reader = nothing /\ was = nothing

-----------------------------------------------------------------------------
MCInit ==
    \/ which = "commits" /\ which \in Parts /\ Init /\ NoTree
    \/ /\ which = "tree" /\ which \in Parts /\ T!Init /\ InitWith(CHOOSE c \in Workloads : TRUE)
       /\ reader.op # "getRepo" => layerOf[<<1, 0, 1>>] = 2 /\ layerOf[<<1, 0, 1, 2>>] = 0
MCNext ==
    \/ which = "commits" /\ Next /\ UNCHANGED <<which, tree>>
    \/ which = "tree" /\ T!Next /\ UNCHANGED <<which, vars>>
MCFairness == \A w \in Writers : WF_vars(which = "commits" /\ Step(w))
MCSpec == MCInit /\ [][MCNext]_<<which, vars, tree>> /\ MCFairness

(* Whoever reads a repository, as a file, by record or as a list, gets all of  *)
(* one commit, or of what nobody touched, while commits go on (RepoTree).    *)
RepoReads == which = "tree" => T!RepoReads
=============================================================================

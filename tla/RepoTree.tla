------------------------------ MODULE RepoTree ------------------------------
(* The repository of one account as a Merkle search tree: how a commit builds *)
(* it (atp/repo.rs, atp/service.rs), and those who read it while commits go   *)
(* on: com.atproto.sync.getRepo, whose CAR file another server downloads and  *)
(* walks (atp/car.rs, atp/mst_walk.rs), com.atproto.repo.getRecord and        *)
(* listRecords.                                                             *)
(*                                                                         *)
(* A CID stands for the content it is the hash of: it is that content, so a  *)
(* set of blocks is a set of contents.  A commit is one transaction          *)
(* (SERIALIZABLE; AtpRepo takes it apart), a read is one step per query.     *)
EXTENDS Naturals, SequencesExt

CONSTANTS
    Keys,          \* keys of records: byte strings with a Slash
    Slash,         \* the byte between collection and rkey
    PostCollection, \* app.bsky.feed.post, the records of which are rows of posts
    Values,        \* contents of records
    Layers,        \* what the hashes may say: functions from Keys to layers
    MaxLayer,      \* the highest of them
    MaxMstDepth,   \* MAX_MST_DEPTH
    PageSize,      \* limit of listRecords
    MaxCommits,    \* bound: commits while the reader reads
    MaxLost,       \* bound: blocks missing at the end of a download
    None

VARIABLES
    layerOf,       \* the layer of each key
    rows,          \* posts (at_rkey, at_cid) and atp_records: key -> CID of the record
    deleted,       \* keys of posts with a deleted_at; no query here sees them
    blocks,        \* atp_blocks
    head,          \* actors.at_repo_cid
    commits,       \* commits so far
    reader,        \* the request that is being served
    was            \* history: commit -> the records it committed
vars == <<layerOf, rows, deleted, blocks, head, commits, reader, was>>

-----------------------------------------------------------------------------
(* Keys.                                                                    *)

(* The order of strings: byte by byte, a prefix first.                       *)
Less(a, b) ==
    \E i \in 1 .. Len(b) :
        /\ i <= Len(a) + 1
        /\ \A j \in 1 .. i - 1 : a[j] = b[j]
        /\ i <= Len(a) => a[i] < b[i]

CommonPrefixLen(a, b) ==
    CHOOSE n \in 0 .. Len(a) :
        /\ n <= Len(b) /\ \A j \in 1 .. n : a[j] = b[j]
        /\ n < Len(a) /\ n < Len(b) => a[n + 1] # b[n + 1]

(* split_once: at the first slash.                                          *)
SlashAt(key) == CHOOSE i \in 1 .. Len(key) : key[i] = Slash /\ \A j \in 1 .. i - 1 : key[j] # Slash
Collection(key) == SubSeq(key, 1, SlashAt(key) - 1)
Rkey(key) == SubSeq(key, SlashAt(key) + 1, Len(key))
WellFormed(key) == \E i \in 1 .. Len(key) : key[i] = Slash
IsPost(key) == Collection(key) = PostCollection

-----------------------------------------------------------------------------
(* Building the tree.                                                       *)

RecordCid(v) == [record |-> v]
NodeCid(e, l) == [e |-> e, l |-> l]
CommitCid(root, rev, prev) == [data |-> root, rev |-> rev, prev |-> prev]

Record(cid) == [root |-> cid, blocks |-> {cid}]
NoTree == [root |-> None, blocks |-> {}]
EmptyNode == [e |-> <<>>, l |-> None, buf |-> <<>>, blocks |-> {}, prev |-> <<>>]

(* A key of the node's own layer, stored as what differs from the key before  *)
(* it in this node.                                                         *)
PushEntry(node, kv) ==
    LET p == CommonPrefixLen(node.prev, kv.key) IN
    [node EXCEPT !.e = Append(@, [k |-> SubSeq(kv.key, p + 1, Len(kv.key)), p |-> p, t |-> None, v |-> kv.cid]),
                 !.prev = kv.key]

(* The keys that wait for a lower layer.                                     *)
(* Faulty variant: the last key seen, not the last one of this node.         *)
BufferEntrySeen(node, kv) == [node EXCEPT !.buf = Append(@, kv), !.prev = kv.key]
BufferEntry(node, kv) == [node EXCEPT !.buf = Append(@, kv)]

RECURSIVE BuildLayer(_, _)

(* flush_subtree: the waiting keys become a subtree left of the entry that    *)
(* comes next, which is right of the last one.                              *)
FlushSubtree(node, layer) ==
    LET sub == IF node.buf = <<>> THEN NoTree ELSE BuildLayer(node.buf, IF layer = 0 THEN 0 ELSE layer - 1) IN
    [node EXCEPT !.buf = <<>>, !.blocks = @ \cup sub.blocks,
                 !.l = IF node.e = <<>> THEN sub.root ELSE @,
                 !.e = IF node.e = <<>> THEN @ ELSE [@ EXCEPT ![Len(@)].t = sub.root]]

(* A repository is a tree of layers: each node holds the keys of its layer,   *)
(* a subtree the lower ones in between.                                     *)
BuildLayer(entries, layer) ==
    LET Place(node, kv) ==
            IF layerOf[kv.key] < layer THEN BufferEntry(node, kv) ELSE PushEntry(FlushSubtree(node, layer), kv)
        node == FlushSubtree(FoldLeft(Place, EmptyNode, entries), layer)
        cid  == NodeCid(node.e, node.l) IN
    [root |-> cid, blocks |-> node.blocks \cup {cid}]

BuildMst(entries) ==
    IF entries = <<>> THEN Record(NodeCid(<<>>, None))
    ELSE BuildLayer(entries, CHOOSE l \in 0 .. MaxLayer : /\ \E i \in DOMAIN entries : layerOf[entries[i].key] = l
                                                          /\ \A i \in DOMAIN entries : layerOf[entries[i].key] <= l)

(* load_atp_entries and sort_by.                                            *)
Entries(r) == LET sorted == SetToSortSeq(DOMAIN r, Less) IN [i \in DOMAIN sorted |-> [key |-> sorted[i], cid |-> r[sorted[i]]]]

-----------------------------------------------------------------------------
(* Reading it.                                                              *)

Failed == [ok |-> FALSE, leaves |-> <<>>]
Nothing == [ok |-> TRUE, leaves |-> <<>>]

RECURSIVE WalkNode(_, _, _)
WalkOptional(cid, have, depth) == IF cid = None THEN Nothing ELSE WalkNode(cid, have, depth)

(* walk_node: the left subtree, then each entry and the subtree right of it.  *)
WalkNode(cid, have, depth) ==
    LET Visit(acc, entry) ==
            LET key   == SubSeq(acc.prev, 1, entry.p) \o entry.k
                right == WalkOptional(entry.t, have, depth + 1) IN
            IF acc.ok /\ entry.p <= Len(acc.prev) /\ entry.v \in have /\ right.ok
            THEN [ok |-> TRUE, leaves |-> Append(acc.leaves, [key |-> key, cid |-> entry.v]) \o right.leaves, prev |-> key]
            ELSE [Failed EXCEPT !.leaves = acc.leaves] @@ [prev |-> <<>>]
    IN IF depth > MaxMstDepth \/ cid \notin have THEN Failed
       ELSE LET left == WalkOptional(cid.l, have, depth + 1)
                all  == FoldLeft(Visit, left @@ [prev |-> <<>>], cid.e) IN
            [ok |-> all.ok, leaves |-> all.leaves]

WalkMst(root, have) == WalkNode(root, have, 0)

(* A CAR file: its root and its blocks; torn when it ends inside an entry,     *)
(* which decode_car refuses.                                                *)
EncodeCar(root, have) == [root |-> root, blocks |-> have, torn |-> FALSE]
DecodeCar(car) == IF car.torn THEN None ELSE [root |-> car.root, blocks |-> car.blocks]

(* decode_repo_records: an error, or every record.                           *)
Decoded(key, cid) == [collection |-> Collection(key), rkey |-> Rkey(key), cid |-> cid]
DecodeRepoRecords(car) ==
    LET file == DecodeCar(car)
        walk == WalkMst(file.root.data, file.blocks) IN
    IF file = None \/ file.root \notin file.blocks \/ ~walk.ok \/ \E i \in DOMAIN walk.leaves : ~WellFormed(walk.leaves[i].key)
    THEN Failed
    ELSE [ok |-> TRUE, leaves |-> [i \in DOMAIN walk.leaves |-> Decoded(walk.leaves[i].key, walk.leaves[i].cid)]]

-----------------------------------------------------------------------------
(* Commits.                                                                 *)

(* try_apply_write: the new tree, the commit and the record are added to the  *)
(* blocks (ON CONFLICT DO NOTHING), none is ever taken away.                 *)
Commit(entries, cids) ==
    LET tree   == BuildMst(entries)
        commit == CommitCid(tree.root, commits + 1, head) IN
    /\ commits < MaxCommits
    /\ blocks' = blocks \cup tree.blocks \cup cids \cup {commit}
    /\ head' = commit
    /\ commits' = commits + 1
    /\ was' = was @@ (commit :> entries)
    /\ UNCHANGED <<layerOf, deleted>>

Without(key) == [k \in DOMAIN rows \ {key} |-> rows[k]]
Touch(key) == reader' = [reader EXCEPT !.touched = @ \cup {key}]

(* A post is committed once, its at_uri being unique; other records may be    *)
(* written over.                                                            *)
PutRecord(key, v) ==
    /\ IsPost(key) => key \notin DOMAIN rows \cup deleted
    /\ rows' = (key :> RecordCid(v)) @@ rows
    /\ Commit(Entries(rows'), {RecordCid(v)})
    /\ Touch(key)
(* delete_note: a post goes from the queries at once, from the tree with the  *)
(* next commit, which may be any.                                           *)
SoftDelete(key) ==
    /\ IsPost(key) /\ key \in DOMAIN rows
    /\ rows' = Without(key) /\ deleted' = deleted \cup {key}
    /\ Touch(key)
    /\ UNCHANGED <<layerOf, blocks, head, commits, was>>
(* A deletion of what is not there is a commit too.                          *)
DeleteRecord(key) ==
    /\ IsPost(key) => key \in deleted
    /\ rows' = Without(key)
    /\ Commit(Entries(rows'), {})
    /\ Touch(key)

-----------------------------------------------------------------------------
(* One reader.                                                              *)

Step(pc, changes) ==
    /\ reader' = [changes EXCEPT !.pc = pc]
    /\ UNCHANGED <<layerOf, rows, deleted, blocks, head, commits, was>>
At(op, pc) == reader.op = op /\ reader.pc = pc

(* getRepo: the actor with its head, then the blocks, in two queries.         *)
GetRepo ==
    /\ At("getRepo", "start")
    /\ IF head = None THEN Step("end", reader) ELSE Step("blocks", [reader EXCEPT !.root = head])
FindBlocksByActor ==
    /\ At("getRepo", "blocks")
    /\ Step("sent", [reader EXCEPT !.car = EncodeCar(reader.root, blocks)])
(* The other server's download, complete or cut short.                       *)
FetchRepoCar(lost, torn) ==
    /\ At("getRepo", "sent")
    /\ lost \subseteq reader.car.blocks
    /\ LET car == [reader.car EXCEPT !.blocks = @ \ lost, !.torn = torn] IN
       Step("end", [reader EXCEPT !.car = car, !.got = DecodeRepoRecords(car), !.whole = lost = {} /\ ~torn])

(* getRecord: the row, then its block; of a post that has none the answer is  *)
(* made up from the row, and lacks what the row does not have.               *)
FindRecord(key) ==
    /\ At("getRecord", "start") /\ IsPost(key)
    /\ IF key \in DOMAIN rows THEN Step("blocks", [reader EXCEPT !.root = rows[key]]) ELSE Step("end", reader)
RecordRow(key) ==
    /\ At("getRecord", "start") /\ ~IsPost(key)
    /\ IF key \in DOMAIN rows THEN Step("blocks", [reader EXCEPT !.root = rows[key]]) ELSE Step("end", reader)
BlockBytes ==
    /\ At("getRecord", "blocks")
    /\ Step("end", [reader EXCEPT !.found = reader.root \in blocks])

(* listRecords, page after page: the rows of a collection from the cursor on,  *)
(* then the block of each.                                                  *)
Listed(collection) == {k \in DOMAIN rows : Collection(k) = collection}
Beyond(collection, cursor, reverse) ==
    {k \in Listed(collection) : cursor = None \/ IF reverse THEN Less(Rkey(k), cursor) ELSE Less(cursor, Rkey(k))}
ListRecords ==
    LET rest  == SetToSortSeq(Beyond(reader.collection, reader.cursor, reader.reverse),
                              LAMBDA a, b : IF reader.reverse THEN Less(b, a) ELSE Less(a, b))
        page  == SubSeq(rest, 1, IF Len(rest) < PageSize THEN Len(rest) ELSE PageSize) IN
    /\ At("listRecords", "start")
    /\ IF page = <<>> THEN Step("end", reader)
       ELSE Step("blocks", [reader EXCEPT !.page = [i \in DOMAIN page |-> [key |-> page[i], cid |-> rows[page[i]]]],
                                          !.cursor = Rkey(page[Len(page)])])
FetchRecordValues ==
    /\ At("listRecords", "blocks")
    /\ Step("start", [reader EXCEPT !.page = <<>>, !.list = @ \o [i \in DOMAIN reader.page |-> reader.page[i].key],
                                    !.found = @ /\ \A i \in DOMAIN reader.page : reader.page[i].cid \in blocks])

(* A query that fails ends the request with an error; one for the content of  *)
(* a listed record leaves an empty value, one for a post the made-up answer.  *)
ReadFails ==
    /\ reader.pc \in {"start", "blocks"}
    /\ IF reader.op = "listRecords" /\ reader.pc = "blocks"
       THEN Step("start", [reader EXCEPT !.page = <<>>, !.list = @ \o [i \in DOMAIN reader.page |-> reader.page[i].key]])
       ELSE Step("failed", reader)

-----------------------------------------------------------------------------
NewReader(op, collection, reverse) ==
    [op |-> op, pc |-> "start", root |-> None, car |-> None, got |-> Failed, whole |-> FALSE, found |-> TRUE,
     collection |-> collection, reverse |-> reverse, cursor |-> None, page |-> <<>>, list |-> <<>>, touched |-> {},
     there |-> Listed(collection)]

(* A repository with some records, or one without a commit.                  *)
Init ==
    /\ layerOf \in Layers
    /\ \E K \in SUBSET Keys : rows = [k \in K |-> RecordCid(CHOOSE v \in Values : TRUE)]
    /\ LET tree == BuildMst(Entries(rows)) IN
       IF rows = <<>> THEN head = None /\ blocks = {} /\ was = <<>>
       ELSE /\ head = CommitCid(tree.root, 0, None)
            /\ blocks = tree.blocks \cup {head} \cup {rows[k] : k \in DOMAIN rows}
            /\ was = (head :> Entries(rows))
    /\ commits = 0 /\ deleted = {}
    /\ \/ \E op \in {"getRepo", "getRecord"} : reader = NewReader(op, <<>>, FALSE)
       \/ \E c \in {Collection(k) : k \in Keys}, reverse \in BOOLEAN : reader = NewReader("listRecords", c, reverse)

Next ==
    \/ \E k \in Keys, v \in Values : PutRecord(k, v)
    \/ \E k \in Keys : DeleteRecord(k) \/ SoftDelete(k)
    \/ GetRepo \/ FindBlocksByActor
    \/ FetchRepoCar({}, TRUE)
    \/ At("getRepo", "sent") /\ \E lost \in {L \in SUBSET reader.car.blocks : Cardinality(L) <= MaxLost} : FetchRepoCar(lost, FALSE)
    \/ \E k \in Keys : FindRecord(k) \/ RecordRow(k)
    \/ BlockBytes \/ ListRecords \/ FetchRecordValues \/ ReadFails

Spec == Init /\ [][Next]_vars

-----------------------------------------------------------------------------
(* What another server reads out of a getRepo file is an error, or exactly   *)
(* the records of the commit the file names, in order, whatever was committed *)
(* between the two queries and whatever is missing of the file; a whole file  *)
(* is never an error (mst_walk.rs decode_repo_records, repo.rs build_mst).    *)
Committed(commit) == [i \in DOMAIN was[commit] |-> Decoded(was[commit][i].key, was[commit][i].cid)]
ReadsBack ==
    At("getRepo", "end") /\ reader.root # None =>
        /\ reader.got.ok => reader.got.leaves = Committed(reader.root)
        /\ reader.whole => reader.got.ok

(* A row never names a block that is not there (getRecord answers 404 or what  *)
(* it makes up, listRecords an empty value).                                 *)
BlocksFound == reader.found

(* A listing names a record once, in the order of its rkeys, and every record  *)
(* nobody touched.                                                          *)
ListsAll ==
    At("listRecords", "end") =>
        /\ \A i, j \in DOMAIN reader.list : i < j => IF reader.reverse THEN Less(reader.list[j], reader.list[i])
                                                     ELSE Less(reader.list[i], reader.list[j])
        /\ reader.there \ reader.touched \subseteq {reader.list[i] : i \in DOMAIN reader.list}

RepoReads == ReadsBack /\ BlocksFound /\ ListsAll
=============================================================================

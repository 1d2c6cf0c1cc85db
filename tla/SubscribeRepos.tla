--------------------------- MODULE SubscribeRepos ---------------------------
(***************************************************************************)
(* One relay that reads com.atproto.sync.subscribeRepos: the handler       *)
(* handle_subscribe_repos (seiran-api xrpc/sync.rs) reads the event log    *)
(* from the cursor of the relay page by page, then goes over to the events *)
(* of the bus (event_bus.rs), which it has subscribed to before.  The      *)
(* relay (external) keeps the largest seq it was sent as its cursor and    *)
(* connects again with it.                                                 *)
(***************************************************************************)
EXTENDS EventLog, Sequences

CONSTANTS
    MaxIds,            \* bound: ids the sequence hands out
    BackfillPageSize,  \* BACKFILL_PAGE_SIZE
    Capacity,          \* ATP_EVENTS_CAPACITY
    MaxDisconnects,    \* bound: connections that end
    MaxFaults          \* bound: failed queries, events the bus loses for this
                       \* process, writers that end before publish_event

PageSizeAssumption == BackfillPageSize \in Nat \ {0}
CapacityAssumption == Capacity \in Nat \ {0}

VARIABLES
    wire,      \* published events on their way to the broadcast channel
    conn,      \* the handler: "down", "read", "send" or "live"
    cur,       \* its variable cursor
    page,      \* rows read and not yet sent: [seq, framed]
    full,      \* the page had BackfillPageSize rows
    rx,        \* its receiver of the broadcast channel
    lagged,    \* the receiver has lost an event (RecvError::Lagged)
    got,       \* events the relay was sent
    cursor,    \* the cursor of the relay
    owed,      \* rows with a frame that were after the cursor at connect
    before,    \* rows that were not after the cursor at connect
    disconnects, dbErrors, losses, drops

handlerVars == <<conn, cur, page, full, rx, lagged, owed, before>>
relayVars == <<got, cursor>>
countVars == <<disconnects, dbErrors, losses, drops>>
vars == <<logVars, wire, handlerVars, relayVars, countVars>>

MayFail == dbErrors + losses + drops < MaxFaults

Init ==
    /\ EventLogInit
    /\ wire = {}
    /\ conn = "down" /\ cur = 0 /\ page = <<>> /\ full = FALSE /\ rx = <<>>
    /\ lagged = FALSE
    /\ got = {} /\ cursor = 0 /\ owed = {} /\ before = {}
    /\ disconnects = 0 /\ dbErrors = 0 /\ losses = 0 /\ drops = 0

-----------------------------------------------------------------------------
(* The writers, with their hand-over to the bus.                           *)

WriterStep(w) ==
    /\ DrawSeq(w) \/ CommitEvent(w) \/ Rollback(w) \/ InsertBare(w) \/ StoreFrame(w)
    /\ lastSeq' =< MaxIds
    /\ UNCHANGED <<wire, handlerVars, relayVars, countVars>>

StoreFrameAlone(w) == StoreFrame(w) /\ UNCHANGED <<wire, handlerVars, relayVars, countVars>>

PublishToBus(w) ==
    /\ Publish(w)
    /\ wire' = wire \cup {wseq[w]}
    /\ UNCHANGED <<handlerVars, relayVars, countVars>>

WriterEnds(w) ==
    /\ MayFail
    /\ drops' = drops + 1
    /\ Drop(w) \/ CommitAndDrop(w)
    /\ UNCHANGED <<wire, handlerVars, relayVars, disconnects, dbErrors, losses>>

(* Faulty variant: events are only received once the backfill is done.     *)
BusDeliversLiveOnly(s) ==
    /\ s \in wire
    /\ wire' = wire \ {s}
    /\ rx' = IF conn # "live" THEN rx
             ELSE IF Len(rx) < Capacity THEN Append(rx, s) ELSE Append(Tail(rx), s)
    /\ lagged' = (lagged \/ (conn = "live" /\ Len(rx) = Capacity))
    /\ UNCHANGED <<logVars, conn, cur, page, full, owed, before, relayVars, countVars>>

(* EventBus: through Redis events of several processes arrive in any       *)
(* order.  Only receivers that exist get the event; a full receiver loses  *)
(* its oldest (Lagged is logged, and the loop goes on).                    *)
BusDelivers(s) ==
    /\ s \in wire
    /\ wire' = wire \ {s}
    /\ rx' = IF conn = "down" THEN rx
             ELSE IF Len(rx) < Capacity THEN Append(rx, s) ELSE Append(Tail(rx), s)
    /\ lagged' = (lagged \/ (conn # "down" /\ Len(rx) = Capacity))
    /\ UNCHANGED <<logVars, conn, cur, page, full, owed, before, relayVars, countVars>>

(* The Redis subscription of this process is down, or the PUBLISH of the   *)
(* process that wrote the event failed.                                    *)
BusLoses(s) ==
    /\ s \in wire
    /\ MayFail
    /\ losses' = losses + 1
    /\ wire' = wire \ {s}
    /\ UNCHANGED <<logVars, handlerVars, relayVars, disconnects, dbErrors, drops>>

-----------------------------------------------------------------------------
(* handle_subscribe_repos *)

Receive(s) ==
    /\ got' = got \cup {s}
    /\ cursor' = IF s > cursor THEN s ELSE cursor

(* subscribe(), then the cursor: with one, the log is read.                *)
Connect ==
    /\ conn = "down"
    /\ conn' = "read"
    /\ cur' = cursor
    /\ rx' = <<>> /\ lagged' = FALSE
    /\ page' = <<>>
    /\ full' = FALSE
    /\ owed' = {s \in framed : s > cursor}
    /\ before' = {s \in log : s =< cursor}
    /\ UNCHANGED <<logVars, wire, relayVars, countVars>>

(* A relay without a cursor is live at once: the past is not owed to it.   *)
ConnectFresh ==
    /\ conn = "down"
    /\ cursor = 0
    /\ conn' = "live"
    /\ rx' = <<>> /\ lagged' = FALSE
    /\ page' = <<>>
    /\ owed' = {}
    /\ before' = log
    /\ UNCHANGED <<logVars, wire, cur, full, relayVars, countVars>>

(* find_events_after(cursor, BACKFILL_PAGE_SIZE): ORDER BY id LIMIT.  The  *)
(* one list of rows after c that ascends, leaves no smaller row out and is  *)
(* short only when there are no more.                                      *)
RowsAfter(c) ==
    LET ids == {s \in log : s > c} IN
    {rows \in UNION {[1 .. n -> ids] : n \in 0 .. BackfillPageSize} :
        /\ \A i, j \in 1 .. Len(rows) : i < j => rows[i] < rows[j]
        /\ \A s \in ids :
              \/ \E i \in 1 .. Len(rows) : rows[i] = s
              \/ Len(rows) = BackfillPageSize /\ \A i \in 1 .. Len(rows) : rows[i] < s}

ReadPage ==
    /\ conn = "read"
    /\ \E rows \in RowsAfter(cur) :
          /\ page' = [i \in 1 .. Len(rows) |-> [seq |-> rows[i], framed |-> rows[i] \in framed]]
          /\ full' = (Len(rows) = BackfillPageSize)
    /\ conn' = "send"
    /\ UNCHANGED <<logVars, wire, cur, rx, lagged, owed, before, relayVars, countVars>>

(* The query failed: unwrap_or_default() makes it an empty, last page.     *)
ReadPageError ==
    /\ conn = "read"
    /\ MayFail
    /\ dbErrors' = dbErrors + 1
    /\ page' = <<>>
    /\ full' = FALSE
    /\ conn' = "send"
    /\ UNCHANGED <<logVars, wire, cur, rx, lagged, owed, before, relayVars, disconnects, losses, drops>>

(* One row: a frame that is stored is sent; an account row without one has *)
(* no commit_cid and is passed over.                                       *)
SendRow ==
    /\ conn = "send"
    /\ page # <<>>
    /\ cur' = Head(page).seq
    /\ page' = Tail(page)
    /\ IF Head(page).framed THEN Receive(Head(page).seq) ELSE UNCHANGED relayVars
    /\ UNCHANGED <<logVars, wire, conn, full, rx, lagged, owed, before, countVars>>

(* Faulty variant: a page that was not full is read again, for ever.       *)
EndPageAgain ==
    /\ conn = "send"
    /\ page = <<>>
    /\ conn' = "read"
    /\ UNCHANGED <<logVars, wire, cur, page, full, rx, lagged, owed, before, relayVars, countVars>>

EndPage ==
    /\ conn = "send"
    /\ page = <<>>
    /\ conn' = IF full THEN "read" ELSE "live"
    /\ UNCHANGED <<logVars, wire, cur, page, full, rx, lagged, owed, before, relayVars, countVars>>

(* rx.recv() in the live loop. *)
SendLive ==
    /\ conn = "live"
    /\ rx # <<>>
    /\ Receive(Head(rx))
    /\ rx' = Tail(rx)
    /\ UNCHANGED <<logVars, wire, conn, cur, page, full, lagged, owed, before, countVars>>

(* Network, or shutdown of the process.                                    *)
Disconnect ==
    /\ conn # "down"
    /\ disconnects < MaxDisconnects
    /\ disconnects' = disconnects + 1
    /\ conn' = "down"
    /\ rx' = <<>> /\ lagged' = FALSE
    /\ page' = <<>>
    /\ UNCHANGED <<logVars, wire, cur, full, owed, before, relayVars, dbErrors, losses, drops>>

-----------------------------------------------------------------------------
Handler ==
    \/ Connect \/ ConnectFresh \/ ReadPage \/ ReadPageError \/ SendRow \/ EndPage
    \/ SendLive \/ Disconnect

Next ==
    \/ \E w \in Writers : WriterStep(w) \/ PublishToBus(w) \/ WriterEnds(w)
    \/ \E s \in wire : BusDelivers(s) \/ BusLoses(s)
    \/ Handler

Spec == Init /\ [][Next]_vars

(* Futures are polled, queries and sends end, Redis delivers; a commit may *)
(* take for ever, a call may roll back for ever, a relay may stay away.    *)
FairSpec ==
    /\ Spec
    /\ WF_vars(ReadPage) /\ WF_vars(SendRow) /\ WF_vars(EndPage) /\ WF_vars(SendLive)
    /\ \A w \in Writers :
          /\ WF_vars(StoreFrameAlone(w))
          /\ WF_vars(PublishToBus(w))
    /\ \A s \in 1 .. MaxIds : WF_vars(BusDelivers(s))

-----------------------------------------------------------------------------
(* A row that the backfill is still to send.                               *)
InBackfill(s) ==
    \/ conn = "read" /\ s > cur
    \/ /\ conn = "send"
       /\ \/ \E i \in 1 .. Len(page) : page[i].seq = s /\ page[i].framed
          \/ full /\ s > cur /\ \A i \in 1 .. Len(page) : s > page[i].seq

(* An event that still is to come to the relay on the connection it has.   *)
OnItsWay(s) ==
    \/ s \in wire
    \/ \E i \in 1 .. Len(rx) : rx[i] = s
    \/ \E w \in Writers : wseq[w] = s /\ wst[w] \in {"bare", "visible"}
    \/ InBackfill(s)

(* The ways the code has to lose an event for a connected relay: a writer  *)
(* that ends before publish_event, the bus, a query that fails, a receiver *)
(* that lags.                                                              *)
Quiet == drops = 0 /\ losses = 0 /\ dbErrors = 0 /\ ~lagged

(* No gap between the log and the bus: while the relay is connected, every *)
(* event that becomes visible is sent, or on its way, whatever commits     *)
(* between the pages, in whatever order of ids (subscribe() before the     *)
(* first page, publish_event after COMMIT).                                *)
NoGap ==
    conn # "down" /\ Quiet => \A s \in log \ before : s \in got \/ OnItsWay(s)

(* The handler only goes live when the relay has all that was in the log   *)
(* after its cursor (docs/protocols.md: all that is unsent, 500 at a time, *)
(* then live), unless a query failed: that page counts as the last.        *)
BackfillComplete == conn = "live" /\ dbErrors = 0 => owed \subseteq got

(* Nothing that becomes visible is missed by a connected relay, and it has *)
(* the backlog when it goes live.                                          *)
RelaySafe == NoGap /\ BackfillComplete

(* A relay that always connects with its cursor has every event up to it,  *)
(* or gets it yet: the id is the cursor (docs/database.md).                *)
CursorComplete ==
    conn # "down" /\ Quiet => \A s \in log : s =< cursor => s \in got \/ OnItsWay(s)

(* While it stays connected, the relay gets every event of a writer that   *)
(* has published, unless the bus or its receiver lost one or a query for a *)
(* page failed.                                                            *)
EventsArrive ==
    \A w \in Writers :
        (wst[w] = "published" /\ conn # "down" /\ wseq[w] \notin before)
            ~> \/ wseq[w] \in got
               \/ conn = "down"
               \/ lagged \/ losses > 0 \/ dbErrors > 0
=============================================================================

---------------------------- MODULE ReadersProofs ----------------------------
(***************************************************************************)
(* What readers are shown while others write: a relay that reads the event *)
(* log (SubscribeRepos), for every set of writers, page size and capacity, *)
(* and any number of connections and faults; and a viewer who reads a page *)
(* of a timeline (Feeds), for every set of actors and posts, every first   *)
(* database, page size and window, and any number of writes of other       *)
(* requests between the queries.                                           *)
(***************************************************************************)
EXTENDS SubscribeRepos, Feeds, FiniteSetTheorems, WellFoundedInduction, TLAPS


Row == [seq : Nat, framed : BOOLEAN]

LogTypes ==
    /\ lastSeq \in Nat /\ log \subseteq Nat /\ framed \subseteq log
    /\ wst \in [Writers -> {"idle", "open", "bare", "visible", "published", "dropped"}]
    /\ wseq \in [Writers -> Nat]
    /\ \A w \in Writers : wst[w] = "bare" => wseq[w] \in log
Types ==
    /\ LogTypes
    /\ wire \subseteq Nat /\ rx \in Seq(Nat) /\ Len(rx) =< Capacity /\ lagged \in BOOLEAN
    /\ conn \in {"down", "read", "send", "live"} /\ cur \in Nat
    /\ page \in Seq(Row) /\ full \in BOOLEAN
    /\ cursor \in Nat
    /\ disconnects \in Nat /\ dbErrors \in Nat /\ losses \in Nat /\ drops \in Nat

(* A visible row without a frame gets one: its writer is between the two.  *)
BareRows ==
    drops = 0 => \A s \in log \ framed : \E w \in Writers : wseq[w] = s /\ wst[w] = "bare"

(* What the relay was owed when it connected was sent, or the backfill is  *)
(* still to send it.                                                       *)
OwedComes ==
    conn # "down" /\ dbErrors = 0 =>
        \A s \in owed : s \in framed /\ (s \in got \/ InBackfill(s))

IInv == Types /\ BareRows /\ NoGap /\ OwedComes

-----------------------------------------------------------------------------
(* While a call of a writer is under way, the handler and the relay stand  *)
(* still: what the backfill is to send and what the bus holds is the same. *)
HandlerStill == UNCHANGED <<conn, cur, page, full, rx, got, before, owed, lagged, dbErrors, losses, drops>>

(* The empty page and the empty receiver have their types.                 *)
LEMMA NoRows ==
    ASSUME CapacityAssumption
    PROVE  <<>> \in Seq(Row) /\ <<>> \in Seq(Nat) /\ Len(<<>>) =< Capacity
  BY DEF CapacityAssumption

LEMMA InitIInv == ASSUME CapacityAssumption, Init PROVE IInv
<1> USE DEF Init, EventLogInit
<1>1. Types
  BY NoRows DEF Types, LogTypes
<1>2. BareRows /\ NoGap /\ OwedComes
  BY DEF BareRows, NoGap, OwedComes
<1> QED
  BY <1>1, <1>2 DEF IInv

(* A step that changes the writer w alone and keeps what is visible keeps  *)
(* an event on its way, unless w was between its COMMIT and publish_event. *)
LEMMA WriterKeepsNoGap ==
    ASSUME NoGap, NEW w \in Writers, HandlerStill, wire \subseteq wire',
           \A v \in Writers \ {w} : wst'[v] = wst[v] /\ wseq'[v] = wseq[v],
           \A s \in log' \ log : OnItsWay(s)',
           wst[w] \in {"bare", "visible"} => wseq'[w] = wseq[w] /\ OnItsWay(wseq[w])'
    PROVE  NoGap'
<1> SUFFICES ASSUME (conn # "down" /\ Quiet)', NEW s \in log' \ before'
             PROVE  (s \in got \/ OnItsWay(s))'
  BY DEF NoGap
<1>1. conn # "down" /\ Quiet /\ before' = before /\ got' = got
  BY DEF Quiet, HandlerStill
<1>2. CASE s \notin log
  BY <1>2
<1>3. CASE s \in log
  <2>1. s \in got \/ OnItsWay(s)
    BY <1>1, <1>3 DEF NoGap
  <2>2. CASE s \in got
    BY <2>2, <1>1
  <2>3. CASE s \in wire \/ (\E i \in 1 .. Len(rx) : rx[i] = s)
    BY <2>3 DEF HandlerStill, OnItsWay
  <2>4. CASE InBackfill(s)
    <3>1. InBackfill(s)'
      BY <2>4 DEF HandlerStill, InBackfill
    <3> QED
      BY <3>1 DEF OnItsWay
  <2>5. CASE \E v \in Writers : wseq[v] = s /\ wst[v] \in {"bare", "visible"}
    <3>1. PICK v \in Writers : wseq[v] = s /\ wst[v] \in {"bare", "visible"}
      BY <2>5
    <3>2. CASE v = w
      BY <3>1, <3>2
    <3>3. CASE v # w
      BY <3>1, <3>3 DEF OnItsWay
    <3> QED
      BY <3>2, <3>3
  <2> QED
    BY <2>1, <2>2, <2>3, <2>4, <2>5 DEF OnItsWay
<1> QED
  BY <1>2, <1>3

LEMMA WriterKeepsOwed ==
    ASSUME OwedComes, HandlerStill, framed \subseteq framed'
    PROVE  OwedComes'
<1>1. \A s : InBackfill(s)' <=> InBackfill(s)
  BY DEF HandlerStill, InBackfill
<1> QED
  BY <1>1 DEF HandlerStill, OwedComes

LEMMA WriterStepIInv ==
    ASSUME IInv, NEW w \in Writers, WriterStep(w)
    PROVE  IInv'
<1> USE DEF WriterStep, handlerVars, relayVars, countVars
<1>1. HandlerStill /\ UNCHANGED <<wire, cursor, disconnects>>
  BY DEF HandlerStill
<1>2. LogTypes
  BY DEF IInv, Types
<1>3. /\ LogTypes' /\ log \subseteq log' /\ framed \subseteq framed'
      /\ \A v \in Writers \ {w} : wst'[v] = wst[v] /\ wseq'[v] = wseq[v]
      /\ \A s \in log' \ log : wseq'[w] = s /\ (wst'[w] = "bare" \/ (s \in framed' /\ wst'[w] = "visible"))
      /\ wst[w] \in {"bare", "visible"} => wst'[w] = "visible" /\ wseq'[w] = wseq[w]
      /\ wst[w] = "bare" => wseq[w] \in framed'
  <2>1. CASE DrawSeq(w)
    BY <2>1, <1>2 DEF DrawSeq, Draw, LogTypes
  <2>2. CASE CommitEvent(w)
    BY <2>2, <1>2 DEF CommitEvent, LogTypes
  <2>3. CASE Rollback(w)
    BY <2>3, <1>2 DEF Rollback, LogTypes
  <2>4. CASE InsertBare(w)
    BY <2>4, <1>2 DEF InsertBare, Draw, LogTypes
  <2>5. CASE StoreFrame(w)
    BY <2>5, <1>2 DEF StoreFrame, LogTypes
  <2> QED
    BY <2>1, <2>2, <2>3, <2>4, <2>5
<1>4. Types'
  BY <1>1, <1>3 DEF IInv, Types, HandlerStill
<1>5. BareRows'
  <2> SUFFICES ASSUME drops = 0, NEW s \in log' \ framed'
               PROVE  \E v \in Writers : wseq'[v] = s /\ wst'[v] = "bare"
    BY <1>1 DEF BareRows, HandlerStill
  <2>1. CASE s \notin log
    BY <2>1, <1>3
  <2>2. CASE s \in log
    BY <2>2, <1>3 DEF IInv, BareRows
  <2> QED
    BY <2>1, <2>2
<1>6. NoGap'
  <2>1. \A s \in log' \ log : OnItsWay(s)'
    BY <1>3 DEF OnItsWay
  <2>2. wst[w] \in {"bare", "visible"} => wseq'[w] = wseq[w] /\ OnItsWay(wseq[w])'
    BY <1>3 DEF OnItsWay
  <2> QED
    BY <1>1, <1>3, <2>1, <2>2, WriterKeepsNoGap DEF IInv
<1>7. OwedComes'
  BY <1>1, <1>3, WriterKeepsOwed DEF IInv
<1> QED
  BY <1>4, <1>5, <1>6, <1>7 DEF IInv

LEMMA PublishIInv ==
    ASSUME IInv, NEW w \in Writers, PublishToBus(w)
    PROVE  IInv'
<1> USE DEF PublishToBus, Publish, handlerVars, relayVars, countVars
<1>1. HandlerStill
  BY DEF HandlerStill
<1>2. Types'
  BY DEF IInv, Types, LogTypes
<1>3. \A v \in Writers \ {w} : wst'[v] = wst[v] /\ wseq'[v] = wseq[v]
  BY DEF IInv, Types, LogTypes
<1>4. BareRows'
  BY <1>3 DEF IInv, BareRows
<1>5. NoGap'
  <2>1. OnItsWay(wseq[w])'
    BY DEF OnItsWay
  <2> QED
    BY <1>1, <1>3, <2>1, WriterKeepsNoGap DEF IInv
<1>6. OwedComes'
  BY <1>1, WriterKeepsOwed DEF IInv
<1> QED
  BY <1>2, <1>4, <1>5, <1>6 DEF IInv

LEMMA WriterEndsIInv ==
    ASSUME IInv, NEW w \in Writers, WriterEnds(w)
    PROVE  IInv'
<1> USE DEF WriterEnds, handlerVars, relayVars
<1>1. framed \subseteq framed' /\ drops' \in Nat /\ drops' # 0
  BY DEF IInv, Types, Drop, CommitAndDrop
<1>2. LogTypes'
  <2>1. LogTypes
    BY DEF IInv, Types
  <2>2. CASE Drop(w)
    BY <2>1, <2>2 DEF LogTypes, Drop
  <2>3. CASE CommitAndDrop(w)
    <3>1. /\ lastSeq' \in Nat /\ log' \subseteq Nat /\ framed' \subseteq log'
          /\ log \subseteq log'
      <4>1. /\ lastSeq' = lastSeq /\ log' = log \cup {wseq[w]}
            /\ framed' = framed \cup {wseq[w]}
        BY <2>3 DEF CommitAndDrop
      <4>2. wseq[w] \in Nat /\ lastSeq \in Nat /\ log \subseteq Nat /\ framed \subseteq log
        BY <2>1 DEF LogTypes
      <4> QED
        BY ONLY <4>1, <4>2
    <3>2. /\ wst' \in [Writers -> {"idle", "open", "bare", "visible", "published", "dropped"}]
          /\ wseq' \in [Writers -> Nat]
      BY <2>1, <2>3 DEF LogTypes, CommitAndDrop
    <3>3. \A v \in Writers : wst'[v] = "bare" => wseq'[v] \in log'
      BY <2>1, <2>3, <3>1 DEF LogTypes, CommitAndDrop
    <3> QED
      BY <3>1, <3>2, <3>3 DEF LogTypes
  <2> QED
    BY <2>2, <2>3
<1>3. Types'
  BY <1>1, <1>2 DEF IInv, Types
<1>4. BareRows' /\ NoGap'
  BY <1>1 DEF BareRows, NoGap, Quiet
<1>5. OwedComes'
  <2>1. \A s : InBackfill(s)' <=> InBackfill(s)
    BY DEF InBackfill
  <2> QED
    BY <1>1, <2>1 DEF IInv, OwedComes
<1> QED
  BY <1>3, <1>4, <1>5 DEF IInv

-----------------------------------------------------------------------------
(* The event s leaves the wire and is in the receiver, or the receiver has *)
(* lagged, or there is none.                                               *)
LEMMA BusDeliversIInv ==
    ASSUME CapacityAssumption, IInv, NEW s \in wire, BusDelivers(s)
    PROVE  IInv'
<1> USE DEF BusDelivers, logVars, relayVars, countVars
<1>1. Types'
  <2>1. Len(rx) >= Capacity => Tail(rx) \in Seq(Nat) /\ Len(Tail(rx)) = Len(rx) - 1
    BY DEF CapacityAssumption, IInv, Types
  <2>2. s \in Nat /\ rx \in Seq(Nat) /\ Len(rx) =< Capacity /\ Capacity \in Nat \ {0}
    BY DEF CapacityAssumption, IInv, Types
  <2>3. rx' \in Seq(Nat) /\ Len(rx') =< Capacity
    <3>1. CASE conn = "down"
      BY <2>2, <3>1
    <3>2. CASE conn # "down" /\ Len(rx) < Capacity
      BY <2>2, <3>2
    <3>3. CASE conn # "down" /\ ~(Len(rx) < Capacity)
      BY <2>1, <2>2, <3>3
    <3> QED
      BY <3>1, <3>2, <3>3
  <2> QED
    BY <2>3 DEF IInv, Types, LogTypes
<1>2. BareRows'
  BY DEF IInv, BareRows
<1>3. \A t : InBackfill(t)' <=> InBackfill(t)
  BY DEF InBackfill
<1>4. OwedComes'
  BY <1>3 DEF IInv, OwedComes
<1>5. NoGap'
  <2> SUFFICES ASSUME (conn # "down" /\ Quiet)', NEW t \in log \ before
               PROVE  (t \in got \/ OnItsWay(t))'
    BY DEF NoGap
  <2>1. conn # "down" /\ Quiet /\ rx' = Append(rx, s)
    <3>1. Len(rx) # Capacity /\ ~lagged /\ conn # "down"
      BY DEF Quiet, IInv, Types
    <3>2. Len(rx) < Capacity
      BY <3>1 DEF IInv, Types, CapacityAssumption
    <3> QED
      BY <3>1, <3>2 DEF Quiet
  <2>2. t \in got \/ OnItsWay(t)
    BY <2>1 DEF IInv, NoGap
  <2>3. Len(rx') = Len(rx) + 1 /\ rx'[Len(rx) + 1] = s /\ \A i \in 1 .. Len(rx) : rx'[i] = rx[i]
    BY <2>1 DEF IInv, Types
  <2>4. Len(rx) \in Nat
    BY DEF IInv, Types
  <2>5. CASE t = s
    <3>1. Len(rx) + 1 \in 1 .. Len(rx')
      BY <2>3, <2>4
    <3> QED
      BY <2>3, <2>5, <3>1 DEF OnItsWay
  <2>6. CASE \E i \in 1 .. Len(rx) : rx[i] = t
    <3>1. PICK i \in 1 .. Len(rx) : rx[i] = t
      BY <2>6
    <3>2. i \in 1 .. Len(rx') /\ rx'[i] = t
      BY <3>1, <2>3, <2>4
    <3> QED
      BY <3>2 DEF OnItsWay
  <2>7. CASE t # s /\ t \in wire
    BY <2>7 DEF OnItsWay
  <2>8. CASE t \in got \/ InBackfill(t) \/ (\E w \in Writers : wseq[w] = t /\ wst[w] \in {"bare", "visible"})
    BY <2>8, <1>3 DEF OnItsWay
  <2> QED
    BY <2>2, <2>5, <2>6, <2>7, <2>8 DEF OnItsWay
<1> QED
  BY <1>1, <1>2, <1>4, <1>5 DEF IInv

LEMMA BusLosesIInv ==
    ASSUME IInv, NEW s \in wire, BusLoses(s)
    PROVE  IInv'
<1> USE DEF BusLoses, logVars, handlerVars, relayVars
<1>1. Types' /\ losses' # 0
  BY DEF IInv, Types, LogTypes
<1>2. BareRows' /\ NoGap'
  BY <1>1 DEF IInv, BareRows, NoGap, Quiet
<1>3. OwedComes'
  <2>1. \A t : InBackfill(t)' <=> InBackfill(t)
    BY DEF InBackfill
  <2> QED
    BY <2>1 DEF IInv, OwedComes
<1> QED
  BY <1>1, <1>2, <1>3 DEF IInv

-----------------------------------------------------------------------------
LEMMA ConnectIInv ==
    ASSUME CapacityAssumption, IInv, Connect \/ ConnectFresh
    PROVE  IInv'
<1> USE DEF Connect, ConnectFresh, logVars, relayVars, countVars
<1>1. Types'
  BY NoRows DEF IInv, Types, LogTypes
<1>2. BareRows'
  BY DEF IInv, BareRows
<1>3. NoGap'
  <2>1. log \subseteq Nat /\ cursor \in Nat
    BY DEF IInv, Types, LogTypes
  <2>2. CASE Connect
    <3>1. \A s \in log' \ before' : InBackfill(s)'
      BY <2>1, <2>2 DEF InBackfill
    <3> QED
      BY <3>1 DEF NoGap, OnItsWay
  <2>3. CASE ConnectFresh
    BY <2>3 DEF NoGap
  <2> QED
    BY <2>2, <2>3
<1>4. OwedComes'
  BY DEF IInv, Types, OwedComes, InBackfill
<1> QED
  BY <1>1, <1>2, <1>3, <1>4 DEF IInv

(* A visible row after the cursor is in the page, with its frame or with   *)
(* its writer still to store one and publish it; or a later page has it.   *)
LEMMA ReadPageIInv ==
    ASSUME PageSizeAssumption, IInv, ReadPage
    PROVE  IInv'
<1> USE DEF ReadPage, logVars, relayVars, countVars
<1>1. PICK rows \in RowsAfter(cur) :
          /\ page' = [i \in 1 .. Len(rows) |-> [seq |-> rows[i], framed |-> rows[i] \in framed]]
          /\ full' = (Len(rows) = BackfillPageSize)
  OBVIOUS
<1>2. PICK n \in 0 .. BackfillPageSize : rows \in [1 .. n -> {s \in log : s > cur}]
  BY DEF RowsAfter
<1>3. n \in Nat /\ Len(rows) = n
  BY <1>2 DEF PageSizeAssumption
<1>4. /\ page' = [i \in 1 .. n |-> [seq |-> rows[i], framed |-> rows[i] \in framed]]
      /\ \A i \in 1 .. n : rows[i] \in log /\ rows[i] \in Nat
  BY <1>1, <1>2, <1>3 DEF IInv, Types, LogTypes
<1>5. page' \in Seq(Row) /\ Len(page') = n
      /\ \A i \in 1 .. n : page'[i].seq = rows[i] /\ page'[i].framed = (rows[i] \in framed)
  BY <1>3, <1>4 DEF Row
<1>6. Types'
  BY <1>1, <1>5 DEF IInv, Types, LogTypes
<1>7. BareRows'
  BY DEF IInv, BareRows
<1>8. \A s \in log : s > cur => \/ InBackfill(s)'
                                \/ s \notin framed
  <2> SUFFICES ASSUME NEW s \in log, s > cur, s \in framed
               PROVE  InBackfill(s)'
    OBVIOUS
  <2>1. \/ \E i \in 1 .. n : rows[i] = s
        \/ n = BackfillPageSize /\ \A i \in 1 .. n : rows[i] < s
    BY <1>3 DEF RowsAfter
  <2>2. CASE \E i \in 1 .. n : rows[i] = s
    BY <2>2, <1>5 DEF InBackfill
  <2>3. CASE n = BackfillPageSize /\ \A i \in 1 .. n : rows[i] < s
    <3>1. full' /\ \A i \in 1 .. Len(page') : s > page'[i].seq
      BY <2>3, <1>1, <1>3, <1>4, <1>5 DEF IInv, Types, LogTypes
    <3> QED
      BY <3>1 DEF InBackfill
  <2> QED
    BY <2>1, <2>2, <2>3
<1>9. NoGap'
  <2> SUFFICES ASSUME Quiet', NEW s \in log \ before
               PROVE  (s \in got \/ OnItsWay(s))'
    BY DEF NoGap
  <2>1. drops = 0 /\ (s \in got \/ OnItsWay(s))
    BY DEF IInv, NoGap, Quiet
  <2>2. CASE InBackfill(s)
    <3>1. s > cur
      BY <2>2 DEF InBackfill
    <3>2. CASE s \in framed
      BY <3>1, <3>2, <1>8 DEF OnItsWay
    <3>3. CASE s \notin framed
      BY <2>1, <3>3 DEF IInv, BareRows, OnItsWay
    <3> QED
      BY <3>2, <3>3
  <2>3. CASE ~InBackfill(s)
    BY <2>1, <2>3 DEF OnItsWay
  <2> QED
    BY <2>2, <2>3
<1>10. OwedComes'
  <2> SUFFICES ASSUME dbErrors = 0, NEW s \in owed
               PROVE  s \in framed /\ (s \in got \/ InBackfill(s)')
    BY DEF OwedComes
  <2>1. s \in framed /\ (s \in got \/ InBackfill(s)) /\ s \in log
    BY DEF IInv, OwedComes, Types, LogTypes
  <2>2. InBackfill(s) => s > cur
    BY DEF InBackfill
  <2> QED
    BY <2>1, <2>2, <1>8
<1> QED
  BY <1>6, <1>7, <1>9, <1>10 DEF IInv

LEMMA ReadPageErrorIInv ==
    ASSUME CapacityAssumption, IInv, ReadPageError
    PROVE  IInv'
<1> USE DEF ReadPageError, logVars, relayVars
<1>1. dbErrors' \in Nat /\ dbErrors' # 0
  BY DEF IInv, Types
<1>2. Types'
  BY <1>1, NoRows DEF IInv, Types, LogTypes
<1>3. BareRows' /\ NoGap' /\ OwedComes'
  BY <1>1 DEF IInv, BareRows, NoGap, OwedComes, Quiet
<1> QED
  BY <1>2, <1>3 DEF IInv

(* What does not touch the writers, the bus or the receiver keeps an event *)
(* on its way if it keeps what the backfill is to send, or sends it.       *)
LEMMA BackfillKeeps ==
    ASSUME IInv, conn # "down",
           UNCHANGED <<logVars, wire, rx, lagged, owed, before, countVars>>,
           \A s \in Nat : InBackfill(s) => s \in got' \/ InBackfill(s)',
           got \subseteq got'
    PROVE  (BareRows /\ NoGap /\ OwedComes)'
<1> USE DEF logVars, countVars
<1>1. BareRows'
  BY DEF IInv, BareRows
<1>2. NoGap'
  <2>1. log \subseteq Nat
    BY DEF IInv, Types, LogTypes
  <2> QED
    BY <2>1 DEF IInv, NoGap, Quiet, OnItsWay
<1>3. OwedComes'
  <2>1. framed \subseteq Nat
    BY DEF IInv, Types, LogTypes
  <2> QED
    BY <2>1 DEF IInv, OwedComes
<1> QED
  BY <1>1, <1>2, <1>3

LEMMA SendRowIInv ==
    ASSUME IInv, SendRow
    PROVE  IInv'
<1> USE DEF SendRow, Receive, relayVars
<1>1. page \in Seq(Row) /\ page # <<>>
  BY DEF IInv, Types
<1>2. /\ Len(page) \in Nat \ {0} /\ Head(page) = page[1] /\ page[1] \in Row
      /\ Len(page') = Len(page) - 1
      /\ \A i \in 1 .. Len(page) - 1 : page'[i] = page[i + 1]
      /\ page' \in Seq(Row)
  BY <1>1
<1>3. page[1].seq \in Nat /\ page[1].framed \in BOOLEAN
  BY <1>2 DEF Row
<1>4. Types'
  BY <1>2, <1>3 DEF IInv, Types, LogTypes, logVars, countVars
<1>5. ASSUME NEW s \in Nat, InBackfill(s)
      PROVE  s \in got' \/ InBackfill(s)'
  <2>1. CASE \E i \in 1 .. Len(page) : page[i].seq = s /\ page[i].framed
    <3>1. PICK i \in 1 .. Len(page) : page[i].seq = s /\ page[i].framed
      BY <2>1
    <3>2. CASE i = 1
      BY <3>1, <3>2, <1>2
    <3>3. CASE i # 1
      <4>1. i - 1 \in 1 .. Len(page') /\ page'[i - 1] = page[i]
        BY <1>2, <3>3
      <4> QED
        BY <3>1, <4>1 DEF InBackfill
    <3> QED
      BY <3>2, <3>3
  <2>2. CASE full /\ s > cur /\ \A i \in 1 .. Len(page) : s > page[i].seq
    <3>1. s > cur' /\ \A i \in 1 .. Len(page') : s > page'[i].seq
      BY <2>2, <1>2
    <3> QED
      BY <2>2, <3>1 DEF InBackfill
  <2> QED
    BY <1>5, <2>1, <2>2 DEF InBackfill
<1>6. got \subseteq got'
  OBVIOUS
<1>7. (BareRows /\ NoGap /\ OwedComes)'
  BY <1>5, <1>6, BackfillKeeps
<1> QED
  BY <1>4, <1>7 DEF IInv

LEMMA EndPageIInv ==
    ASSUME IInv, EndPage
    PROVE  IInv'
<1> USE DEF EndPage, relayVars
<1>1. Types'
  BY DEF IInv, Types, LogTypes, logVars, countVars
<1>2. \A s \in Nat : InBackfill(s) => InBackfill(s)'
  BY DEF InBackfill
<1>3. (BareRows /\ NoGap /\ OwedComes)'
  BY <1>2, BackfillKeeps
<1> QED
  BY <1>1, <1>3 DEF IInv

LEMMA SendLiveIInv ==
    ASSUME CapacityAssumption, IInv, SendLive
    PROVE  IInv'
<1> USE DEF SendLive, Receive, logVars, countVars
<1>1. rx \in Seq(Nat) /\ rx # <<>>
  BY DEF IInv, Types
<1>2. /\ Len(rx) \in Nat \ {0} /\ Head(rx) = rx[1] /\ rx[1] \in Nat
      /\ Len(rx') = Len(rx) - 1
      /\ \A i \in 1 .. Len(rx) - 1 : rx'[i] = rx[i + 1]
      /\ rx' \in Seq(Nat)
  BY <1>1
<1>3. Types'
  <2>1. Len(rx') =< Capacity
    BY <1>2, CapacityAssumption DEF IInv, Types, CapacityAssumption
  <2> QED
    BY <1>2, <2>1 DEF IInv, Types, LogTypes
<1>4. BareRows'
  BY DEF IInv, BareRows
<1>5. \A s : InBackfill(s)' <=> InBackfill(s)
  BY DEF InBackfill
<1>6. OwedComes'
  BY <1>5 DEF IInv, OwedComes
<1>7. NoGap'
  <2> SUFFICES ASSUME Quiet', NEW s \in log \ before
               PROVE  (s \in got \/ OnItsWay(s))'
    BY DEF NoGap
  <2>1. s \in got \/ OnItsWay(s)
    BY DEF IInv, NoGap, Quiet
  <2>2. CASE \E i \in 1 .. Len(rx) : rx[i] = s
    <3>1. PICK i \in 1 .. Len(rx) : rx[i] = s
      BY <2>2
    <3>2. CASE i = 1
      BY <3>1, <3>2, <1>2
    <3>3. CASE i # 1
      <4>1. i - 1 \in 1 .. Len(rx') /\ rx'[i - 1] = s
        BY <1>2, <3>1, <3>3
      <4> QED
        BY <4>1 DEF OnItsWay
    <3> QED
      BY <3>2, <3>3
  <2>3. CASE ~\E i \in 1 .. Len(rx) : rx[i] = s
    BY <2>1, <2>3, <1>5 DEF OnItsWay
  <2> QED
    BY <2>2, <2>3
<1> QED
  BY <1>3, <1>4, <1>6, <1>7 DEF IInv

LEMMA DisconnectIInv ==
    ASSUME CapacityAssumption, IInv, Disconnect
    PROVE  IInv'
<1> USE DEF Disconnect, logVars, relayVars
<1>1. Types'
  <2>1. disconnects' \in Nat
    BY DEF IInv, Types
  <2> QED
    BY <2>1, NoRows DEF IInv, Types, LogTypes
<1>2. BareRows' /\ NoGap' /\ OwedComes'
  BY DEF IInv, BareRows, NoGap, OwedComes
<1> QED
  BY <1>1, <1>2 DEF IInv

-----------------------------------------------------------------------------
LEMMA NextIInv ==
    ASSUME PageSizeAssumption, CapacityAssumption, IInv, [Next]_vars
    PROVE  IInv'
<1>1. ASSUME NEW w \in Writers, WriterStep(w) \/ PublishToBus(w) \/ WriterEnds(w)
      PROVE  IInv'
  BY <1>1, WriterStepIInv, PublishIInv, WriterEndsIInv
<1>2. ASSUME NEW s \in wire, BusDelivers(s) \/ BusLoses(s)
      PROVE  IInv'
  BY <1>2, BusDeliversIInv, BusLosesIInv
<1>3. CASE Handler
  BY <1>3, ConnectIInv, ReadPageIInv, ReadPageErrorIInv, SendRowIInv, EndPageIInv, SendLiveIInv,
     DisconnectIInv DEF Handler
<1>4. CASE UNCHANGED vars
  <2> USE <1>4 DEF vars, logVars, handlerVars, relayVars, countVars
  <2>1. \A s : (InBackfill(s)' <=> InBackfill(s)) /\ (OnItsWay(s)' <=> OnItsWay(s))
    BY DEF InBackfill, OnItsWay
  <2>2. Types' /\ BareRows'
    BY DEF IInv, Types, LogTypes, BareRows
  <2>3. NoGap' /\ OwedComes'
    BY <2>1 DEF IInv, NoGap, Quiet, OwedComes
  <2> QED
    BY <2>2, <2>3 DEF IInv
<1> QED
  BY <1>1, <1>2, <1>3, <1>4 DEF Next

(* The inductive invariant of the relay: what is visible and not sent is   *)
(* with its writer, on the bus, in the receiver or in the backfill.        *)
THEOREM RelayInvariant ==
    ASSUME PageSizeAssumption, CapacityAssumption
    PROVE  Spec => []IInv
<1>1. Init => IInv
  BY InitIInv
<1>2. IInv /\ [Next]_vars => IInv'
  BY NextIInv
<1> QED
  BY <1>1, <1>2, PTL DEF Spec

(* Nothing that becomes visible is missed by a relay that stays connected, *)
(* whatever the order in which ids commit between two pages, and the       *)
(* backlog is sent before the handler goes live (handle_subscribe_repos).  *)
THEOREM RelayIsSafe ==
    ASSUME PageSizeAssumption, CapacityAssumption
    PROVE  Spec => []RelaySafe
<1>1. IInv => RelaySafe
  BY DEF IInv, RelaySafe, BackfillComplete, OwedComes, InBackfill
<1> QED
  BY <1>1, RelayInvariant, PTL

-----------------------------------------------------------------------------
(* Pages of a timeline.                                                     *)
USE LocalAssumption, TablesAssumption

-----------------------------------------------------------------------------
(* The viewer sees the post at this instant, and its author is not hidden. *)
Unhidden(d, v, p) == d.posts[p].author \notin HiddenNow(d, v)
Fit(d, v, p) == p \in VisibleNow(d, v) /\ Unhidden(d, v, p)

LEMMA ShownIsUnhidden ==
    ASSUME NEW d, NEW v, NEW p, AuthorShown(d, v, p)
    PROVE  Unhidden(d, v, p)
BY DEF AuthorShown, Own, Unhidden, HiddenNow

(* A viewer with an account sees what the row condition lets through.       *)
LEMMA FilterIsVisible ==
    ASSUME NEW d, NEW v \in Actors, NEW p \in Live(d), NEW x, PostVisibleToViewer(d, v, p, x)
    PROVE  p \in VisibleNow(d, v)
BY DEF PostVisibleToViewer, VisibleNow, PostIsVisibleTo

LEMMA AnyModeIsVisible ==
    ASSUME NEW d, NEW v, NEW p \in Live(d), NEW x, PostIsVisibleTo(d, v, p, x)
    PROVE  p \in VisibleNow(d, v)
BY DEF PostVisibleToViewer, VisibleNow, PostIsVisibleTo

LEMMA PageOfSubset ==
    ASSUME NEW S, NEW pg
    PROVE  PageOf(S, pg) \subseteq S
BY DEF PageOf, Newest, InPage

LEMMA NewestSubset ==
    ASSUME NEW S, NEW n
    PROVE  Newest(S, n) \subseteq S
BY DEF Newest

-----------------------------------------------------------------------------
(* What each surface selects. *)

LEMMA FollowingFits ==
    ASSUME NEW d, NEW v \in Actors, NEW t \in FollowingTargets(d, v), NEW x, NEW p \in FollowingOf(d, v, t, x)
    PROVE  Fit(d, v, p)
<1>1. p \in Live(d) /\ d.posts[p].author = t /\ PostVisibleToViewer(d, v, p, x)
  BY DEF FollowingOf, FollowingPostFilter
<1>2. t = v \/ ~Hidden(d, v, t)
  BY DEF FollowingTargets
<1> QED
  BY <1>1, <1>2, FilterIsVisible DEF Fit, Unhidden, HiddenNow

LEMMA SocialLocalFits ==
    ASSUME NEW d, NEW v, NEW x, NEW p \in SocialLocalIds(d, v, x)
    PROVE  Fit(d, v, p)
BY AnyModeIsVisible, ShownIsUnhidden DEF SocialLocalIds, Fit

LEMMA LocalFits ==
    ASSUME NEW d, NEW v, NEW x, NEW p \in LocalIds(d, v, x)
    PROVE  Fit(d, v, p)
BY AnyModeIsVisible, ShownIsUnhidden DEF LocalIds, Fit

LEMMA GlobalFits ==
    ASSUME NEW d, NEW v, NEW x, NEW p \in GlobalIds(d, v, x)
    PROVE  Fit(d, v, p)
BY AnyModeIsVisible, ShownIsUnhidden DEF GlobalIds, Fit

LEMMA ActorFits ==
    ASSUME NEW d, NEW a, NEW v, NEW x, NEW p \in ActorIds(d, a, v, x)
    PROVE  Fit(d, v, p)
BY AnyModeIsVisible, ShownIsUnhidden DEF ActorIds, Fit

LEMMA TagFits ==
    ASSUME NEW d, NEW v, NEW p \in TagIds(d, v)
    PROVE  Fit(d, v, p)
BY ShownIsUnhidden DEF TagIds, Fit, VisibleNow, PostIsVisibleTo, PostVisibleToViewer

LEMMA MentionIsFor ==
    ASSUME NEW d, NEW v \in Actors, NEW x, NEW p \in MentionIds(d, v, x), d.posts[p].vis = "direct"
    PROVE  p \in VisibleNow(d, v) \/ <<p, v>> \in d.notified
BY DEF MentionIds, VisibleNow, PostIsVisibleTo, PostVisibleToViewer

LEMMA BelowFits ==
    ASSUME NEW d, NEW v, NEW q, NEW n, NEW p \in ThreadDescendants(d, q, v, n)
    PROVE  Fit(d, v, p)
<1>1. p \in ShownTo(d, v)
  BY DEF ThreadDescendants
<1> QED
  BY <1>1, ShownIsUnhidden DEF ShownTo, VisibleNow, Fit

LEMMA ContextFits ==
    ASSUME NEW d, NEW v, NEW q, NEW n, NEW p \in ContextBefore(d, q, v, n) \cup ContextAfter(d, q, v, n)
    PROVE  Fit(d, v, p)
<1>1. p \in ActorIds(d, d.posts[q].author, v, FALSE)
  BY NewestSubset DEF ContextBefore, ContextAfter
<1> QED
  BY <1>1, ActorFits

(* The two plans of feed_candidate_ids.                                     *)
LEMMA CandidateFollowing ==
    ASSUME NEW d, NEW v \in Actors, NEW x, NEW p,
           \/ \E pg : p \in LateralIds(d, [kind |-> "Following", viewer |-> v, excludeDirect |-> x], pg)
           \/ \E u, l, n : p \in WindowIds(d, [kind |-> "Following", viewer |-> v, excludeDirect |-> x], u, l, n)
    PROVE  Fit(d, v, p)
<1> DEFINE s == [kind |-> "Following", viewer |-> v, excludeDirect |-> x]
<1>0. s.kind = "Following" /\ s.viewer = v /\ s.excludeDirect = x
  OBVIOUS
<1> HIDE DEF s
<1>1. ASSUME NEW pg, p \in LateralIds(d, s, pg) PROVE Fit(d, v, p)
  <2>1. p \in UNION {PageOf(FollowingOf(d, v, t, x), pg) : t \in FollowingTargets(d, v)}
    BY <1>0, <1>1, NewestSubset DEF LateralIds
  <2>2. PICK t \in FollowingTargets(d, v) : p \in PageOf(FollowingOf(d, v, t, x), pg)
    BY <2>1
  <2> QED
    BY <2>2, PageOfSubset, FollowingFits
<1>2. ASSUME NEW u, NEW l, NEW n, p \in WindowIds(d, s, u, l, n) PROVE Fit(d, v, p)
  <2>1. /\ p \in Live(d)
        /\ d.posts[p].author = v \/ ~Hidden(d, v, d.posts[p].author)
        /\ FollowingPostFilter(d, v, p, x)
    BY <1>0, <1>2, NewestSubset DEF WindowIds
  <2> QED
    BY <2>1, FilterIsVisible DEF FollowingPostFilter, Fit, Unhidden, HiddenNow
<1> QED
  BY <1>1, <1>2 DEF s

LEMMA CandidateListed ==
    ASSUME NEW d, NEW v, NEW x, NEW p,
           \/ \E pg : p \in LateralIds(d, [kind |-> "ListMembers", viewer |-> v, excludeDirect |-> x], pg)
           \/ \E u, l, n : p \in WindowIds(d, [kind |-> "ListMembers", viewer |-> v, excludeDirect |-> x], u, l, n)
    PROVE  p \in Live(d) /\ d.posts[p].vis # "direct"
<1> DEFINE s == [kind |-> "ListMembers", viewer |-> v, excludeDirect |-> x]
<1>0. s.kind = "ListMembers"
  OBVIOUS
<1> HIDE DEF s
<1>1. ASSUME NEW pg, p \in LateralIds(d, s, pg) PROVE p \in Live(d) /\ d.posts[p].vis # "direct"
  <2>1. p \in UNION {PageOf(ListPostsOf(d, t), pg) : t \in d.list.members}
    BY <1>0, <1>1, NewestSubset DEF LateralIds
  <2>2. PICK t \in d.list.members : p \in PageOf(ListPostsOf(d, t), pg)
    BY <2>1
  <2> QED
    BY <2>2, PageOfSubset DEF ListPostsOf
<1>2. ASSUME NEW u, NEW l, NEW n, p \in WindowIds(d, s, u, l, n) PROVE p \in Live(d) /\ d.posts[p].vis # "direct"
  BY <1>0, <1>2, NewestSubset DEF WindowIds
<1> QED
  BY <1>1, <1>2 DEF s

-----------------------------------------------------------------------------
(* The inductive invariant: what a request holds, against the database of  *)
(* this instant.                                                           *)

IsRequest(r) ==
    DOMAIN r = {"pc", "surface", "viewer", "page", "excl", "win", "upper", "post", "ids", "rows",
                "renotes", "quotes", "always", "seen", "hidden"}

(* A post the request may answer with.                                      *)
Admitted(d, r, p) ==
    /\ p \in DOMAIN d.posts
    /\ r.surface \notin {"list", "mentions"} => p \in r.seen
    /\ d.posts[p].vis = "direct" =>
          p \in r.seen \/ (r.surface = "mentions" /\ <<p, r.viewer>> \in d.notified)
    /\ r.surface \notin {"list", "mentions", "note"} => d.posts[p].author \notin r.hidden

(* The history is up to date: what is visible now was seen, and who was     *)
(* hidden throughout is hidden now.                                         *)
UpToDate(d, r) ==
    /\ VisibleNow(d, r.viewer) \subseteq r.seen
    /\ r.hidden \subseteq HiddenNow(d, r.viewer)

Choosing == {"count", "window", "rest"}

Sound(d, r) ==
    /\ IsRequest(r)
    /\ UpToDate(d, r)
    /\ \A p \in r.ids \cup r.rows : Admitted(d, r, p)
    /\ r.renotes \cup r.quotes \subseteq r.seen
    /\ r.pc \in Choosing => r.surface \in {"home", "social", "list"}
    /\ r.surface \in {"home", "social"} => r.viewer \in Local

FeedsInv ==
    /\ IsDatabase(db)
    /\ req.pc # "idle" => Sound(db, req)

LEMMA InvShowsVisible ==
    ASSUME FeedsInv
    PROVE  PagesShowVisible
BY DEF FeedsInv, Sound, Admitted, PagesShowVisible, ShownWasVisible, HiddenStaysOut, Done

LEMMA FitIsAdmitted ==
    ASSUME NEW d, NEW r, NEW p, UpToDate(d, r), Fit(d, r.viewer, p)
    PROVE  Admitted(d, r, p)
BY DEF UpToDate, Fit, Unhidden, Admitted, VisibleNow, Live

(* What either plan of feed_candidate_ids finds.                            *)
LEMMA CandidateAdmitted ==
    ASSUME NEW d, NEW r, Sound(d, r), r.pc \in Choosing, NEW p,
           \/ \E pg : p \in LateralIds(d, Source(r), pg)
           \/ \E u, l, n : p \in WindowIds(d, Source(r), u, l, n)
    PROVE  Admitted(d, r, p)
<1>1. CASE r.surface = "list"
  <2>1. Source(r) = [kind |-> "ListMembers", viewer |-> r.viewer, excludeDirect |-> r.excl]
    BY <1>1 DEF Source
  <2>2. p \in Live(d) /\ d.posts[p].vis # "direct"
    BY <2>1, CandidateListed
  <2> QED
    BY <1>1, <2>2 DEF Admitted, Live
<1>2. CASE r.surface \in {"home", "social"}
  <2>1. Source(r) = [kind |-> "Following", viewer |-> r.viewer, excludeDirect |-> r.excl]
    BY <1>2 DEF Source
  <2>2. r.viewer \in Actors /\ UpToDate(d, r)
    BY <1>2 DEF Sound
  <2> QED
    BY <2>1, <2>2, CandidateFollowing, FitIsAdmitted
<1> QED
  BY <1>1, <1>2 DEF Sound

-----------------------------------------------------------------------------
(* The first query of a request. *)

Begun(r, surface, v, pc, rows) ==
    /\ IsRequest(r) /\ UpToDate(db, r)
    /\ r.pc = pc /\ r.surface = surface /\ r.viewer = v /\ r.rows = rows
    /\ r.ids = {} /\ r.renotes = {} /\ r.quotes = {}

LEMMA RequestFields ==
    ASSUME NEW surface, NEW v, NEW pg, NEW excl, NEW pc, NEW rows, pc # "idle"
    PROVE  Begun(Request(surface, v, pg, excl, pc, rows), surface, v, pc, rows)
<1> DEFINE r0 == [pc |-> pc, surface |-> surface, viewer |-> v, page |-> pg, excl |-> excl,
                  win |-> 1, upper |-> IF pg.until = None THEN MaxId ELSE pg.until,
                  post |-> None, ids |-> {}, rows |-> rows, renotes |-> {}, quotes |-> {},
                  always |-> PostIds, seen |-> {}, hidden |-> Actors]
<1>1. Request(surface, v, pg, excl, pc, rows) = Watch(db, r0)
  BY DEF Request
<1>2. /\ IsRequest(r0)
      /\ r0.pc = pc /\ r0.surface = surface /\ r0.viewer = v /\ r0.rows = rows
      /\ r0.ids = {} /\ r0.renotes = {} /\ r0.quotes = {}
  BY DEF IsRequest
<1> HIDE DEF r0
<1> QED
  BY <1>1, <1>2 DEF Watch, Begun, IsRequest, UpToDate

(* A handler whose rows may be shown starts a sound request.                *)
LEMMA RequestSound ==
    ASSUME NEW surface, NEW v, NEW pg, NEW excl, NEW pc, NEW rows, pc # "idle",
           \A p \in rows : Admitted(db, Request(surface, v, pg, excl, pc, rows), p),
           pc \in Choosing => surface \in {"home", "social", "list"},
           surface \in {"home", "social"} => v \in Local
    PROVE  Sound(db, Request(surface, v, pg, excl, pc, rows))
BY RequestFields DEF Sound, Begun

LEMMA RequestFits ==
    ASSUME NEW surface, NEW v, NEW pg, NEW excl, NEW pc, NEW rows, pc # "idle",
           \A p \in rows : Fit(db, v, p),
           pc \in Choosing => surface \in {"home", "social", "list"},
           surface \in {"home", "social"} => v \in Local
    PROVE  Sound(db, Request(surface, v, pg, excl, pc, rows))
BY RequestFields, RequestSound, FitIsAdmitted DEF Begun

LEMMA HandlersSound ==
    ASSUME FeedsInv, Handlers
    PROVE  FeedsInv'
<1> SUFFICES ASSUME req'.pc # "idle" PROVE Sound(db, req')
  BY DEF FeedsInv, Handlers, HomeTimeline, SocialTimeline, MentionsTimeline, LocalTimeline, GlobalTimeline,
         TagTimeline, ListTimeline, TimelineByActor, GetNote, NoteReplies, NoteContext, Begin
<1> USE DEF Choosing
<1>1. ASSUME NEW v \in Local, NEW pg \in Pages, NEW excl \in BOOLEAN,
             \/ HomeTimeline(v, pg, excl) \/ SocialTimeline(v, pg, excl)
      PROVE  Sound(db, req')
  BY <1>1, RequestFits DEF HomeTimeline, SocialTimeline, Begin
<1>2. ASSUME NEW v \in Local, NEW pg \in Pages, NEW excl \in BOOLEAN, MentionsTimeline(v, pg, excl)
      PROVE  Sound(db, req')
  <2> DEFINE rows == PageOf(MentionIds(db, v, excl), pg)
             r == Request("mentions", v, pg, FALSE, "renotes", rows)
  <2>1. r.surface = "mentions" /\ r.viewer = v /\ UpToDate(db, r)
    <3> HIDE DEF rows
    <3>1. Begun(r, "mentions", v, "renotes", rows)
      BY RequestFields
    <3> HIDE DEF r
    <3> QED
      BY <3>1 DEF Begun
  <2>2. req' = r
    BY <1>2 DEF MentionsTimeline, Begin
  <2>3. ASSUME NEW p \in rows PROVE Admitted(db, r, p)
    <3>1. p \in MentionIds(db, v, excl)
      BY <2>3, PageOfSubset
    <3>2. p \in DOMAIN db.posts
      BY <3>1 DEF MentionIds, Live
    <3>3. db.posts[p].vis = "direct" => p \in VisibleNow(db, v) \/ <<p, v>> \in db.notified
      BY <3>1, MentionIsFor
    <3> HIDE DEF r, rows
    <3> QED
      BY <2>1, <3>2, <3>3 DEF Admitted, UpToDate
  <2> HIDE DEF rows
  <2> QED
    BY <2>2, <2>3, RequestSound
<1>3. ASSUME NEW v \in Viewers, NEW pg \in Pages,
             \/ LocalTimeline(v, pg, FALSE) \/ GlobalTimeline(v, pg, FALSE) \/ TagTimeline(v, pg)
      PROVE  Sound(db, req')
  <2>1. /\ \A p \in PageOf(LocalIds(db, v, FALSE), pg) : Fit(db, v, p)
        /\ \A p \in PageOf(GlobalIds(db, v, FALSE), pg) : Fit(db, v, p)
        /\ \A p \in PageOf(TagIds(db, v), pg) : Fit(db, v, p)
    BY PageOfSubset, LocalFits, GlobalFits, TagFits
  <2>2. CASE LocalTimeline(v, pg, FALSE)
    BY <2>1, <2>2, RequestFits DEF LocalTimeline, Begin
  <2>3. CASE GlobalTimeline(v, pg, FALSE)
    BY <2>1, <2>3, RequestFits DEF GlobalTimeline, Begin
  <2>4. CASE TagTimeline(v, pg)
    BY <2>1, <2>4, RequestFits DEF TagTimeline, Begin
  <2> QED
    BY <1>3, <2>2, <2>3, <2>4
<1>4. ASSUME NEW v \in Viewers, NEW pg \in Pages, ListTimeline(v, pg)
      PROVE  Sound(db, req')
  BY <1>4, RequestFits DEF ListTimeline, Begin
<1>5. ASSUME NEW v \in Viewers, NEW pg \in Pages, NEW a \in Actors, TimelineByActor(a, v, pg, FALSE)
      PROVE  Sound(db, req')
  <2>1. \A p \in PageOf(ActorIds(db, a, v, FALSE), pg) : Fit(db, v, p)
    BY PageOfSubset, ActorFits
  <2> QED
    BY <1>5, <2>1, RequestFits DEF TimelineByActor, Begin
<1>6. ASSUME NEW v \in Viewers, NEW p \in DOMAIN db.posts, GetNote(p, v)
      PROVE  Sound(db, req')
  <2> DEFINE r == Request("note", v, NoPage, FALSE, "renotes", {p})
  <2>1. p \in VisibleNow(db, v)
    BY <1>6 DEF GetNote, FindByIdForViewer, VisibleNow
  <2>2. r.surface = "note" /\ r.viewer = v /\ UpToDate(db, r)
    <3>1. Begun(r, "note", v, "renotes", {p})
      BY RequestFields
    <3> HIDE DEF r
    <3> QED
      BY <3>1 DEF Begun
  <2>3. req' = r
    BY <1>6 DEF GetNote, Begin
  <2>4. Admitted(db, r, p)
    <3> HIDE DEF r
    <3> QED
      BY <2>1, <2>2 DEF Admitted, UpToDate
  <2> QED
    BY <2>3, <2>4, RequestSound
<1>7. ASSUME NEW v \in Viewers, NEW p \in DOMAIN db.posts, NoteReplies(p, v) \/ NoteContext(p, v)
      PROVE  Sound(db, req')
  <2>1. PICK surface \in {"replies", "context"}, pc \in {"descend", "before"} :
            req' = [Request(surface, v, NoPage, FALSE, pc, {}) EXCEPT !.post = p]
    BY <1>7 DEF NoteReplies, NoteContext, Begin
  <2> DEFINE r == Request(surface, v, NoPage, FALSE, pc, {})
  <2>2. Sound(db, r) /\ IsRequest(r)
    BY RequestFits, RequestFields DEF Begun
  <2> HIDE DEF r
  <2> QED
    BY <2>1, <2>2 DEF r, Sound, IsRequest, UpToDate, Admitted
<1> QED
  BY <1>1, <1>2, <1>3, <1>4, <1>5, <1>6, <1>7 DEF Handlers

-----------------------------------------------------------------------------
(* The queries that follow: none changes whom the request is for, or its   *)
(* history.                                                                *)

SameRequest(r, s) ==
    /\ IsRequest(s)
    /\ s.surface = r.surface /\ s.viewer = r.viewer /\ s.seen = r.seen /\ s.hidden = r.hidden

LEMMA SameRequestSound ==
    ASSUME NEW d, NEW r, NEW s, Sound(d, r), SameRequest(r, s),
           \A p \in s.ids \cup s.rows : Admitted(d, r, p),
           s.renotes \cup s.quotes \subseteq r.seen,
           s.pc \in Choosing => r.pc \in Choosing
    PROVE  Sound(d, s)
BY DEF Sound, SameRequest, UpToDate, Admitted

LEMMA EmbeddedSeen ==
    ASSUME Sound(db, req), NEW ids
    PROVE  FetchEmbedded(ids) \subseteq req.seen
BY DEF FetchEmbedded, FindVisibleByIds, VisibleNow, Sound, UpToDate

LEMMA QueriesSound ==
    ASSUME FeedsInv, Queries
    PROVE  FeedsInv'
<1> SUFFICES ASSUME req.pc # "idle", req'.pc # "idle" PROVE Sound(db, req')
  BY DEF FeedsInv, Queries, FeedCandidateIds, WindowedIds, LateralRest, SocialMerge, FetchRows,
         Descend, Before, After, EmbedRenotes, EmbedQuotes, Respond, At
<1>0. /\ Sound(db, req) /\ IsRequest(req) /\ UpToDate(db, req)
      /\ \A p \in req.ids \cup req.rows : Admitted(db, req, p)
      /\ req.renotes \cup req.quotes \subseteq req.seen
  BY DEF FeedsInv, Sound
<1> USE DEF At, SameRequest, IsRequest
<1>1. CASE FeedCandidateIds
  <2>1. PICK pc : req' = [req EXCEPT !.pc = pc] /\ req.pc = "count"
    BY <1>1 DEF FeedCandidateIds
  <2>2. SameRequest(req, req') /\ req'.ids = req.ids /\ req'.rows = req.rows
    BY <1>0, <2>1
  <2>3. req'.renotes = req.renotes /\ req'.quotes = req.quotes /\ req.pc \in Choosing
    BY <1>0, <2>1 DEF Choosing
  <2> QED
    BY ONLY <1>0, <2>2, <2>3, SameRequestSound
<1>2. CASE WindowedIds
  <2> DEFINE since == IF req.page.since = None THEN 0 ELSE req.page.since
             anchor == IF req.page.until = None THEN Now ELSE SnowflakeTime(req.page.until)
             lower == Max({SnowflakeFloor(anchor - WindowAges[req.win]) - 1, since})
             found == WindowIds(db, Source(req), req.upper, lower, Left(req.ids))
             next == IF Cardinality(req.ids \cup found) >= req.page.limit \/ lower = since THEN AfterIds
                     ELSE IF req.win = Len(WindowAges) THEN "rest" ELSE "window"
  <2>1. /\ req' = [req EXCEPT !.ids = req.ids \cup found, !.upper = lower + 1, !.win = @ + 1, !.pc = next]
        /\ req.pc = "window"
    BY <1>2 DEF WindowedIds
  <2>2. req.pc \in Choosing
    BY <2>1 DEF Choosing
  <2>3. \A p \in found : Admitted(db, req, p)
    BY <1>0, <2>2, CandidateAdmitted
  <2> HIDE DEF lower, found, next
  <2>4. /\ SameRequest(req, req') /\ req'.ids = req.ids \cup found /\ req'.rows = req.rows
        /\ req'.renotes = req.renotes /\ req'.quotes = req.quotes
    BY <1>0, <2>1
  <2> QED
    BY ONLY <1>0, <2>2, <2>3, <2>4, SameRequestSound
<1>3. CASE LateralRest
  <2>1. PICK pg, pc :
            /\ req' = [req EXCEPT !.ids = req.ids \cup LateralIds(db, Source(req), pg), !.pc = pc]
            /\ req.pc = "rest"
    BY <1>3 DEF LateralRest
  <2>2. /\ SameRequest(req, req') /\ req'.ids = req.ids \cup LateralIds(db, Source(req), pg)
        /\ req'.rows = req.rows /\ req'.renotes = req.renotes /\ req'.quotes = req.quotes
    BY <1>0, <2>1
  <2>3. req.pc \in Choosing
    BY <2>1 DEF Choosing
  <2>4. \A p \in LateralIds(db, Source(req), pg) : Admitted(db, req, p)
    BY ONLY <1>0, <2>3, CandidateAdmitted
  <2> QED
    BY ONLY <1>0, <2>2, <2>3, <2>4, SameRequestSound
<1>4. CASE SocialMerge
  <2> DEFINE local == PageOf(SocialLocalIds(db, req.viewer, req.excl), req.page)
  <2>1. req' = [req EXCEPT !.ids = Newest(req.ids \cup local, req.page.limit), !.pc = "rows"]
    BY <1>4 DEF SocialMerge
  <2>2. \A p \in local : Admitted(db, req, p)
    BY <1>0, PageOfSubset, SocialLocalFits, FitIsAdmitted
  <2> HIDE DEF local
  <2>3. /\ SameRequest(req, req') /\ req'.ids \subseteq req.ids \cup local /\ req'.rows = req.rows
        /\ req'.renotes = req.renotes /\ req'.quotes = req.quotes /\ req'.pc \notin Choosing
    BY <1>0, <2>1, NewestSubset DEF Choosing
  <2> QED
    BY ONLY <1>0, <2>2, <2>3, SameRequestSound
<1>5. CASE FetchRows
  <2>1. req' = [req EXCEPT !.rows = FetchFeedPosts(db, req.ids), !.pc = "renotes"]
    BY <1>5 DEF FetchRows
  <2>2. /\ SameRequest(req, req') /\ req'.ids = req.ids /\ req'.rows \subseteq req.ids
        /\ req'.renotes = req.renotes /\ req'.quotes = req.quotes /\ req'.pc \notin Choosing
    BY <1>0, <2>1 DEF FetchFeedPosts, Choosing
  <2> QED
    BY ONLY <1>0, <2>2, SameRequestSound
<1>6. CASE Descend \/ Before \/ After
  <2>1. PICK found, pc :
            /\ req' = [req EXCEPT !.rows = found, !.pc = pc]
            /\ pc \in {"after", "renotes"}
            /\ \A p \in found : p \in req.rows \/ Fit(db, req.viewer, p)
    <3>1. CASE Descend
      BY <3>1, BelowFits DEF Descend
    <3>2. CASE Before
      <4>1. PICK n : req' = [req EXCEPT !.rows = req.rows \cup ContextBefore(db, req.post, req.viewer, n), !.pc = "after"]
        BY <3>2 DEF Before
      <4> DEFINE new == req.rows \cup ContextBefore(db, req.post, req.viewer, n)
      <4>2. \A p \in new : p \in req.rows \/ Fit(db, req.viewer, p)
        BY ContextFits
      <4> HIDE DEF new
      <4>3. req' = [req EXCEPT !.rows = new, !.pc = "after"]
        BY <4>1 DEF new
      <4> QED
        BY ONLY <4>2, <4>3
    <3>3. CASE After
      <4>1. PICK n : req' = [req EXCEPT !.rows = req.rows \cup ContextAfter(db, req.post, req.viewer, n), !.pc = "renotes"]
        BY <3>3 DEF After
      <4> DEFINE new == req.rows \cup ContextAfter(db, req.post, req.viewer, n)
      <4>2. \A p \in new : p \in req.rows \/ Fit(db, req.viewer, p)
        BY ContextFits
      <4> HIDE DEF new
      <4>3. req' = [req EXCEPT !.rows = new, !.pc = "renotes"]
        BY <4>1 DEF new
      <4> QED
        BY ONLY <4>2, <4>3
    <3> QED
      BY <1>6, <3>1, <3>2, <3>3
  <2>2. /\ SameRequest(req, req') /\ req'.ids = req.ids /\ req'.rows = found
        /\ req'.renotes = req.renotes /\ req'.quotes = req.quotes /\ req'.pc \notin Choosing
    BY <1>0, <2>1 DEF Choosing
  <2>3. \A p \in found : Admitted(db, req, p)
    BY ONLY <1>0, <2>1, FitIsAdmitted
  <2> QED
    BY ONLY <1>0, <2>2, <2>3, SameRequestSound
<1>7. CASE EmbedRenotes \/ EmbedQuotes
  <2>1. \E ids, pc : /\ pc \in {"quotes", "done"}
                     /\ \/ req' = [req EXCEPT !.renotes = FetchEmbedded(ids), !.pc = pc]
                        \/ req' = [req EXCEPT !.quotes = FetchEmbedded(ids), !.pc = pc]
    BY <1>7 DEF EmbedRenotes, EmbedQuotes
  <2>2. PICK ids, pc : /\ pc \in {"quotes", "done"}
                       /\ \/ req' = [req EXCEPT !.renotes = FetchEmbedded(ids), !.pc = pc]
                          \/ req' = [req EXCEPT !.quotes = FetchEmbedded(ids), !.pc = pc]
    BY <2>1
  <2>3. FetchEmbedded(ids) \subseteq req.seen
    BY <1>0, EmbeddedSeen
  <2>4. /\ SameRequest(req, req') /\ req'.ids = req.ids /\ req'.rows = req.rows
        /\ req'.renotes \cup req'.quotes \subseteq req.seen /\ req'.pc \notin Choosing
    BY <1>0, <2>2, <2>3 DEF Choosing
  <2> QED
    BY ONLY <1>0, <2>4, SameRequestSound
<1>8. CASE Respond
  BY <1>8 DEF Respond, Idle
<1> QED
  BY <1>1, <1>2, <1>3, <1>4, <1>5, <1>6, <1>7, <1>8 DEF Queries

-----------------------------------------------------------------------------
(* Writes of other requests: a post keeps its author and its visibility.    *)

Grows(d, e) ==
    /\ IsDatabase(e)
    /\ \A p \in DOMAIN d.posts :
          p \in DOMAIN e.posts /\ e.posts[p].author = d.posts[p].author /\ e.posts[p].vis = d.posts[p].vis
    /\ e.notified = d.notified

LEMMA WatchSound ==
    ASSUME NEW d, NEW e, NEW r, Sound(d, r), r.pc # "idle", Grows(d, e)
    PROVE  Sound(e, Watch(e, r))
<1> DEFINE w == Watch(e, r)
<1>1. /\ IsRequest(w) /\ w.pc = r.pc /\ w.surface = r.surface /\ w.viewer = r.viewer
      /\ w.ids = r.ids /\ w.rows = r.rows /\ w.renotes = r.renotes /\ w.quotes = r.quotes
      /\ w.seen = r.seen \cup VisibleNow(e, r.viewer) /\ w.hidden = r.hidden \cap HiddenNow(e, r.viewer)
  BY DEF Watch, Sound, IsRequest
<1> HIDE DEF w
<1>2. UpToDate(e, w)
  BY <1>1 DEF UpToDate
<1>3. ASSUME NEW p, Admitted(d, r, p) PROVE Admitted(e, w, p)
  BY <1>1, <1>3 DEF Admitted, Grows
<1> QED
  BY <1>1, <1>2, <1>3 DEF Sound, w

LEMMA ChangeSound ==
    ASSUME FeedsInv, NEW new, Change(new), Grows(db, new)
    PROVE  FeedsInv'
<1>1. db' = new /\ req' = Watch(new, req)
  BY DEF Change
<1>2. CASE req.pc = "idle"
  BY <1>1, <1>2 DEF Watch, FeedsInv, Grows
<1>3. CASE req.pc # "idle"
  BY <1>1, <1>3, WatchSound DEF FeedsInv, Grows
<1> QED
  BY <1>2, <1>3

(* A write that touches no post.                                            *)
LEMMA SamePostsGrow ==
    ASSUME NEW d, IsDatabase(d), NEW e, DOMAIN e = DOMAIN d, e.posts = d.posts, e.notified = d.notified
    PROVE  Grows(d, e)
BY DEF Grows, IsDatabase

LEMMA RelationsGrow ==
    ASSUME NEW d, IsDatabase(d), NEW v, NEW t
    PROVE  /\ Grows(d, InsertAccepted(d, v, t)) /\ Grows(d, DeleteFollow(d, v, t))
           /\ Grows(d, InsertBlock(d, v, t, None)) /\ Grows(d, DeleteBlock(d, v, t))
           /\ Grows(d, InsertMute(d, v, t)) /\ Grows(d, DeleteMute(d, v, t))
           /\ Grows(d, InsertRepostMute(d, v, t)) /\ Grows(d, DeleteRepostMute(d, v, t))
<1>1. DOMAIN d = {"follows", "blocks", "mutes", "repostMutes", "gone", "posts", "list", "notified"}
  BY DEF IsDatabase
<1>2. ASSUME NEW x
      PROVE  /\ Grows(d, [d EXCEPT !.follows = x]) /\ Grows(d, [d EXCEPT !.blocks = x])
             /\ Grows(d, [d EXCEPT !.mutes = x]) /\ Grows(d, [d EXCEPT !.repostMutes = x])
  BY <1>1, SamePostsGrow
<1>3. Grows(d, d)
  BY DEF Grows
<1> QED
  BY <1>2, <1>3 DEF InsertAccepted, InsertFollow, DeleteFollow, InsertBlock, DeleteBlock, InsertMute, DeleteMute,
                    InsertRepostMute, DeleteRepostMute

LEMMA DeletedGrow ==
    ASSUME NEW d, IsDatabase(d), NEW p \in Live(d)
    PROVE  Grows(d, SoftDeletePost(d, p))
<1>1. p \in DOMAIN d.posts /\ d.posts \in [DOMAIN d.posts -> PostRows]
  BY DEF Live, IsDatabase
<1>2. PICK row : row = [d.posts[p] EXCEPT !.deleted = TRUE]
  OBVIOUS
<1>3. row \in PostRows /\ row.author = d.posts[p].author /\ row.vis = d.posts[p].vis
  BY <1>1, <1>2 DEF PostRows
<1>4. PICK posts : posts = [d.posts EXCEPT ![p] = row]
  OBVIOUS
<1>5. /\ posts \in [DOMAIN d.posts -> PostRows] /\ DOMAIN posts = DOMAIN d.posts
      /\ \A q \in DOMAIN d.posts : posts[q] = IF q = p THEN row ELSE d.posts[q]
  BY <1>1, <1>3, <1>4
<1>6. SoftDeletePost(d, p) = [d EXCEPT !.posts = posts]
  BY <1>2, <1>4 DEF SoftDeletePost
<1>7. PICK e : e = [d EXCEPT !.posts = posts]
  OBVIOUS
<1>8. DOMAIN e = DOMAIN d /\ e.posts = posts /\ e.notified = d.notified
  BY <1>7 DEF IsDatabase
<1>9. Grows(d, e)
  BY <1>3, <1>5, <1>8 DEF Grows, IsDatabase
<1> QED
  BY <1>6, <1>7, <1>9

LEMMA PostedGrow ==
    ASSUME NEW d, IsDatabase(d), NEW p \in PostIds \ DOMAIN d.posts, NEW row \in PostRows
    PROVE  Grows(d, InsertPost(d, p, row))
<1>1. PICK posts : posts = Put(d.posts, p, row)
  OBVIOUS
<1>2. /\ posts \in [DOMAIN d.posts \cup {p} -> PostRows]
      /\ \A q \in DOMAIN d.posts : posts[q] = d.posts[q]
  BY <1>1 DEF Put, IsDatabase
<1>3. PICK e : e = [d EXCEPT !.posts = posts]
  OBVIOUS
<1>4. DOMAIN e = DOMAIN d /\ e.posts = posts /\ e.notified = d.notified
  BY <1>3 DEF IsDatabase
<1>5. Grows(d, e)
  BY <1>2, <1>4 DEF Grows, IsDatabase
<1> QED
  BY <1>1, <1>3, <1>5 DEF InsertPost

(* Each write of another request is a Change to a database that grows.      *)
LEMMA ChangesGrow ==
    ASSUME FeedsInv, Changes
    PROVE  \E new : Change(new) /\ Grows(db, new)
<1>1. IsDatabase(db)
  BY DEF FeedsInv
<1>2. CASE FollowChange \/ BlockChange \/ MuteChange \/ RepostMuteChange
  <2>1. PICK v, t : \/ Change(InsertAccepted(db, v, t)) \/ Change(DeleteFollow(db, v, t))
                    \/ Change(InsertBlock(db, v, t, None)) \/ Change(DeleteBlock(db, v, t))
                    \/ Change(InsertMute(db, v, t)) \/ Change(DeleteMute(db, v, t))
                    \/ Change(InsertRepostMute(db, v, t)) \/ Change(DeleteRepostMute(db, v, t))
    BY <1>2 DEF FollowChange, BlockChange, MuteChange, RepostMuteChange
  <2> QED
    BY <1>1, <2>1, RelationsGrow
<1>3. CASE SuspendChange \/ ListChange
  <2>1. ASSUME NEW x PROVE Grows(db, [db EXCEPT !.gone = x]) /\ Grows(db, [db EXCEPT !.list = x])
    <3>1. DOMAIN db = {"follows", "blocks", "mutes", "repostMutes", "gone", "posts", "list", "notified"}
      BY <1>1 DEF IsDatabase
    <3> QED
      BY <1>1, <3>1, SamePostsGrow
  <2>2. PICK x : Change([db EXCEPT !.gone = x]) \/ Change([db EXCEPT !.list = x])
    BY <1>3 DEF SuspendChange, ListChange
  <2> QED
    BY <2>1, <2>2
<1>4. CASE DeleteChange
  BY <1>1, <1>4, DeletedGrow DEF DeleteChange
<1>5. CASE PostChange
  <2>1. PICK p \in PostIds \ DOMAIN db.posts, a \in Actors, vis \in {"public", "followers_only"} :
            Change(InsertPost(db, p, Post(a, vis, None, None, None, {})))
    BY <1>5 DEF PostChange
  <2>2. Post(a, vis, None, None, None, {}) \in PostRows
    BY DEF Post, PostRows, Visibilities
  <2> QED
    BY <1>1, <2>1, <2>2, PostedGrow
<1> QED
  BY <1>2, <1>3, <1>4, <1>5 DEF Changes

LEMMA ChangesSound ==
    ASSUME FeedsInv, Changes
    PROVE  FeedsInv'
BY ChangesGrow, ChangeSound

-----------------------------------------------------------------------------

LEMMA FeedsInvInit == FeedsInit => FeedsInv
BY DEF FeedsInit, FeedsInv, Idle

LEMMA FeedsInvNext == FeedsInv /\ [FeedsNext]_feedsVars => FeedsInv'
<1>1. ASSUME FeedsInv, UNCHANGED feedsVars PROVE FeedsInv'
  BY <1>1 DEF feedsVars, FeedsInv, Sound, UpToDate, Admitted, VisibleNow, HiddenNow
<1> QED
  BY <1>1, HandlersSound, QueriesSound, ChangesSound DEF FeedsNext

(* Whatever a page shows was visible to its viewer while the request ran,   *)
(* and no author hidden throughout it has a row (feed.rs, post.rs,          *)
(* retrieval.rs build_note_responses): however many writes of other         *)
(* requests fall between its queries.                                       *)
THEOREM PagesShowVisibleAlways == FeedsSpec => []PagesShowVisible
<1>1. FeedsSpec => []FeedsInv
  BY FeedsInvInit, FeedsInvNext, PTL DEF FeedsSpec
<1>2. FeedsInv => PagesShowVisible
  BY InvShowsVisible
<1> QED
  BY <1>1, <1>2, PTL

-----------------------------------------------------------------------------
(* Pages leave no hole.                                                    *)

(* A set of naturals has a least element, a finite one a greatest.          *)
LEMMA LeastNatural ==
    ASSUME NEW S \in SUBSET Nat, S # {}
    PROVE  \E m \in S : \A n \in S : m =< n
<1> DEFINE R == {p \in Nat \X Nat : p[1] < p[2]}
<1>1. R = OpToRel(<, Nat)
  BY DEF OpToRel
<1>2. IsWellFoundedOn(R, Nat)
  BY <1>1, NatLessThanWellFounded
<1>3. \A m, n \in Nat : <<n, m>> \in R <=> n < m
  OBVIOUS
<1> HIDE DEF R
<1>4. PICK m \in S : \A n \in S : ~(<<n, m>> \in R)
  BY <1>2, WFMin
<1>5. ASSUME NEW n \in S PROVE m =< n
  <2>1. n \in Nat /\ m \in Nat
    OBVIOUS
  <2>2. ~(n < m)
    BY <1>3, <1>4, <2>1
  <2> QED
    BY <2>1, <2>2
<1> QED
  BY <1>5

LEMMA GreatestOfFinite ==
    ASSUME NEW S \in SUBSET Nat, IsFiniteSet(S), S # {}
    PROVE  \E m \in S : \A n \in S : n =< m
<1> DEFINE Bad == {X \in SUBSET Nat : IsFiniteSet(X) /\ X # {} /\ ~\E m \in X : \A n \in X : n =< m}
           Sizes == {Cardinality(X) : X \in Bad}
<1> SUFFICES ASSUME S \in Bad PROVE FALSE
  OBVIOUS
<1>1. Sizes \subseteq Nat /\ Sizes # {}
  BY FS_CardinalityType
<1>2. PICK k \in Sizes : \A n \in Sizes : k =< n
  <2> HIDE DEF Sizes
  <2> QED
    BY <1>1, LeastNatural
<1>3. PICK X \in Bad : Cardinality(X) = k
  OBVIOUS
<1>4. PICK x \in X : x \in Nat
  OBVIOUS
<1>5. IsFiniteSet(X \ {x}) /\ Cardinality(X \ {x}) = Cardinality(X) - 1 /\ Cardinality(X) \in Nat
  BY FS_RemoveElement, FS_CardinalityType
<1>6. X \ {x} \notin Bad
  <2>1. ASSUME X \ {x} \in Bad PROVE FALSE
    <3>1. Cardinality(X \ {x}) \in Sizes
      BY <2>1
    <3>2. k =< Cardinality(X \ {x})
      <4> HIDE DEF Sizes
      <4> QED
        BY <1>2, <3>1
    <3> QED
      BY <1>3, <1>5, <3>2
  <2> QED
    BY <2>1
<1>7. CASE X \ {x} = {}
  BY <1>4, <1>7
<1>8. CASE X \ {x} # {}
  <2>1. PICK m \in X \ {x} : \A n \in X \ {x} : n =< m
    BY <1>5, <1>6, <1>8
  <2>2. m \in Nat /\ x \in Nat
    BY <1>4
  <2> QED
    BY <2>1, <2>2
<1> QED
  BY <1>7, <1>8

Above(S, p) == {q \in S : q > p}

(* A set that has n elements above p keeps n of them among its n newest.    *)
LEMMA NewestAbove ==
    ASSUME NEW S \in SUBSET Nat, IsFiniteSet(S), NEW n \in Int, NEW p \in Nat, Cardinality(Above(S, p)) >= n
    PROVE  Cardinality(Above(Newest(S, n), p)) >= n
<1>1. \A T \in SUBSET S : IsFiniteSet(T) /\ Cardinality(T) \in Nat
  BY FS_Subset, FS_CardinalityType
<1>2. \A T \in SUBSET S : \A U \in SUBSET T : Cardinality(U) =< Cardinality(T)
  BY <1>1, FS_Subset
<1>3. Above(S, p) \subseteq S /\ Newest(S, n) \subseteq S /\ Above(Newest(S, n), p) \subseteq Above(S, p)
  BY DEF Above, Newest
<1>4. CASE Above(S, p) \subseteq Newest(S, n)
  <2>1. Above(Newest(S, n), p) = Above(S, p)
    BY <1>3, <1>4 DEF Above
  <2> QED
    BY <2>1
<1>5. CASE ~(Above(S, p) \subseteq Newest(S, n))
  <2> DEFINE Rest == Above(S, p) \ Newest(S, n)
  <2>1. Rest \in SUBSET Nat /\ IsFiniteSet(Rest) /\ Rest # {}
    BY <1>1, <1>3, <1>5
  <2>2. PICK q \in Rest : \A o \in Rest : o =< q
    <3> HIDE DEF Rest
    <3> QED
      BY <2>1, GreatestOfFinite
  <2>3. q \in S /\ q \in Nat /\ q > p /\ ~(Cardinality(Above(S, q)) < n)
    BY DEF Above, Newest
  <2>4. Above(S, q) \subseteq Above(Newest(S, n), p)
    <3> SUFFICES ASSUME NEW o \in Above(S, q) PROVE o \in Newest(S, n) /\ o > p
      BY DEF Above
    <3>1. o \in S /\ o \in Nat /\ o > q /\ o > p
      BY <2>3 DEF Above
    <3>2. o \notin Rest
      BY <2>2, <2>3, <3>1
    <3> QED
      BY <3>1, <3>2 DEF Above
  <2>5. Cardinality(Above(S, q)) =< Cardinality(Above(Newest(S, n), p))
    BY <1>2, <1>3, <2>4
  <2>6. Cardinality(Above(S, q)) \in Nat /\ Cardinality(Above(Newest(S, n), p)) \in Nat
    BY <1>1, <1>3 DEF Above
  <2> QED
    BY <2>3, <2>5, <2>6
<1> QED
  BY <1>4, <1>5

(* p is in ids, or n later ones are.                                        *)
Found(ids, n, p) == p \in ids \/ Cardinality(Above(ids, p)) >= n

LEMMA NewestFinds ==
    ASSUME NEW S \in SUBSET Nat, IsFiniteSet(S), NEW n \in Int, NEW p \in Nat, Found(S, n, p)
    PROVE  Found(Newest(S, n), n, p)
<1>1. Cardinality(Above(S, p)) \in Nat
  BY FS_Subset, FS_CardinalityType DEF Above
<1>2. CASE Cardinality(Above(S, p)) >= n
  BY <1>2, NewestAbove DEF Found
<1>3. CASE ~(Cardinality(Above(S, p)) >= n)
  BY <1>1, <1>3 DEF Found, Newest, Above
<1> QED
  BY <1>2, <1>3

LEMMA FoundInLarger ==
    ASSUME NEW T \in SUBSET Nat, IsFiniteSet(T), NEW S \in SUBSET T, NEW n \in Int, NEW p \in Nat, Found(S, n, p)
    PROVE  Found(T, n, p)
<1>1. Above(S, p) \subseteq Above(T, p) /\ Above(T, p) \subseteq T
  BY DEF Above
<1>2. /\ Cardinality(Above(S, p)) =< Cardinality(Above(T, p))
      /\ Cardinality(Above(T, p)) \in Nat /\ Cardinality(Above(S, p)) \in Nat
  BY <1>1, FS_Subset, FS_CardinalityType
<1> QED
  BY <1>1, <1>2 DEF Found

(* What was left of the page is filled below u, what it held is above.      *)
LEMMA FoundBelow ==
    ASSUME NEW A \in SUBSET Nat, IsFiniteSet(A), NEW B \in SUBSET Nat, IsFiniteSet(B), NEW u \in Int,
           \A q \in A : q >= u, \A q \in B : q < u, NEW n \in Int, NEW p \in Nat, p < u,
           Found(B, n - Cardinality(A), p)
    PROVE  Found(A \cup B, n, p)
<1>1. Above(A \cup B, p) = A \cup Above(B, p) /\ A \cap Above(B, p) = {}
  <2>1. \A q \in A : q \in Nat /\ q > p /\ q \notin B
    <3> SUFFICES ASSUME NEW q \in A PROVE q \in Nat /\ q > p /\ q \notin B
      OBVIOUS
    <3>1. q \in Nat /\ q >= u /\ (q \in B => q < u)
      OBVIOUS
    <3> QED
      BY <3>1
  <2> QED
    BY <2>1 DEF Above
<1>2. IsFiniteSet(Above(B, p))
  BY FS_Subset DEF Above
<1>3. /\ Cardinality(A \cup Above(B, p)) = Cardinality(A) + Cardinality(Above(B, p)) - Cardinality(A \cap Above(B, p))
      /\ Cardinality(A \cap Above(B, p)) = 0
  BY <1>1, <1>2, FS_Union, FS_EmptySet
<1>4. Cardinality(A) \in Nat /\ Cardinality(Above(B, p)) \in Nat
  BY <1>2, FS_CardinalityType
<1>5. Found(B, n - Cardinality(A), p) => p \in B \/ Cardinality(Above(B, p)) >= n - Cardinality(A)
  BY DEF Found
<1>6. p \in B \/ Cardinality(A) + Cardinality(Above(B, p)) >= n
  BY <1>4, <1>5
<1>7. Cardinality(Above(A \cup B, p)) = Cardinality(A) + Cardinality(Above(B, p))
  <2>1. Cardinality(Above(A \cup B, p)) = Cardinality(A \cup Above(B, p))
    BY <1>1
  <2> QED
    BY ONLY <1>3, <1>4, <2>1
<1> QED
  BY <1>6, <1>7 DEF Found

(* The post is chosen by the local half of social_timeline if the viewer     *)
(* may see it at all: no write changes that.                                *)
Mine(d, r, p) ==
    r.surface = "social" /\ LocalPost(d, p) /\ (d.posts[p].vis # "unlisted" \/ Own(d, r.viewer, p))

Wanted(d, r) == {p \in r.always : ~Mine(d, r, p)}

Since(r) == IF r.page.since = None THEN 0 ELSE r.page.since
Start(r) == IF r.page.until = None THEN MaxId ELSE r.page.until
Floor(r, k) == SnowflakeFloor(SnowflakeTime(Start(r)) - WindowAges[k]) - 1

(* The search has come down to upper: what it wants it has found, or is yet  *)
(* to pass, and the windows to come lie below.                              *)
Descending(d, r) ==
    /\ r.upper \in Int
    /\ \A q \in r.ids : q >= r.upper
    /\ \A p \in Wanted(d, r) : Found(r.ids, r.page.limit, p) \/ p < r.upper
    /\ Since(r) < r.upper
    /\ r.pc = "count" => r.ids = {} /\ r.win = 1 /\ r.upper = Start(r)
    /\ r.pc = "window" => r.win \in 1..Len(WindowAges) /\ Floor(r, r.win) < r.upper

Covers(d, r) ==
    /\ r.page \in Pages
    /\ r.always \subseteq InPage(Eligible(d, r), r.page)
    /\ r.ids \subseteq PostIds
    /\ r.pc \in {"count", "window", "rest", "local", "rows", "renotes", "quotes", "done"}
    /\ r.pc \in {"count", "window", "rest"} /\ r.always # {} => Descending(d, r)
    /\ r.pc = "local" => \A p \in Wanted(d, r) : Found(r.ids, r.page.limit, p)
    /\ r.pc = "rows" => \A p \in r.always : Found(r.ids, r.page.limit, p)
    /\ r.pc \in {"renotes", "quotes", "done"} =>
          \A p \in r.always : p \in r.rows \/ Cardinality(Above(r.ids, p)) >= r.page.limit

Merging == {"home", "social", "list"}
HolesInv ==
    /\ FeedsInv
    /\ req.pc # "idle" /\ req.surface \in Merging => Covers(db, req)

-----------------------------------------------------------------------------
LEMMA GreaterOfTwo ==
    ASSUME NEW a \in Int, NEW b \in Int
    PROVE  Max({a, b}) \in {a, b} /\ Max({a, b}) >= a /\ Max({a, b}) >= b
<1>1. \E x \in {a, b} : \A y \in {a, b} : x >= y
  <2>1. CASE a >= b
    BY <2>1
  <2>2. CASE b >= a
    BY <2>2
  <2> QED
    BY <2>1, <2>2
<1> QED
  BY <1>1 DEF Max

LEMMA FloorBelow ==
    ASSUME NEW n \in Nat \ {0}, NEW x \in Nat, NEW a \in Nat
    PROVE  /\ x \div n \in Int
           /\ ((x \div n) - a) * n - 1 < x
           /\ ((x \div n) - a) * n \in Int
<1>1. x \div n \in Int /\ n * (x \div n) =< x
  OBVIOUS
<1>2. PICK y \in Int : y = x \div n
  BY <1>1
<1>3. a * n >= 0 /\ a * n \in Int
  OBVIOUS
<1>4. (y - a) * n = y * n - a * n /\ y * n = n * y
  OBVIOUS
<1> QED
  BY <1>1, <1>2, <1>3, <1>4

LEMMA OlderIsLower ==
    ASSUME NEW n \in Nat \ {0}, NEW y \in Int, NEW a \in Nat, NEW b \in Nat, a =< b
    PROVE  (y - b) * n - 1 =< (y - a) * n - 1
<1>1. (b - a) * n >= 0
  OBVIOUS
<1>2. (y - a) * n = (y - b) * n + (b - a) * n
  OBVIOUS
<1> QED
  BY <1>1, <1>2

-----------------------------------------------------------------------------
(* What the two plans find.                                                 *)

LEMMA PostsAreFinite ==
    /\ PostIds \subseteq Nat /\ PostIds \in SUBSET Nat /\ IsFiniteSet(PostIds)
    /\ \A S \in SUBSET PostIds : S \in SUBSET Nat /\ IsFiniteSet(S) /\ Cardinality(S) \in Nat
<1>1. PostIds \subseteq Nat /\ IsFiniteSet(PostIds)
  BY FeedsAssumption
<1> QED
  BY <1>1, FS_Subset, FS_CardinalityType

(* A post of the set that the page's bounds let through is found by its     *)
(* query.                                                                   *)
LEMMA PageFinds ==
    ASSUME NEW S \in SUBSET PostIds, NEW pg, pg.limit \in Int, NEW p \in InPage(S, pg)
    PROVE  Found(PageOf(S, pg), pg.limit, p)
<1>1. InPage(S, pg) \in SUBSET PostIds
  BY DEF InPage
<1>2. InPage(S, pg) \in SUBSET Nat /\ IsFiniteSet(InPage(S, pg)) /\ p \in Nat
  BY <1>1, PostsAreFinite
<1>3. Found(InPage(S, pg), pg.limit, p)
  BY DEF Found
<1> QED
  BY <1>2, <1>3, NewestFinds DEF PageOf

(* The post belongs to the source.                                          *)
InSource(d, s, p) ==
    \/ s.kind = "Following" /\ \E t \in FollowingTargets(d, s.viewer) : p \in FollowingOf(d, s.viewer, t, s.excludeDirect)
    \/ s.kind = "ListMembers" /\ \E t \in d.list.members : p \in ListPostsOf(d, t)

LEMMA LivePosts ==
    ASSUME NEW d, IsDatabase(d)
    PROVE  Live(d) \subseteq PostIds
BY DEF IsDatabase, Live

LEMMA LateralFinds ==
    ASSUME NEW d, IsDatabase(d), NEW s, NEW p, InSource(d, s, p), NEW pg, pg.limit \in Int,
           pg.until = None \/ p < pg.until, pg.since = None \/ p > pg.since
    PROVE  Found(LateralIds(d, s, pg), pg.limit, p)
<1>0. Live(d) \subseteq PostIds
  BY LivePosts
<1>1. ASSUME NEW Chosen, NEW Targets, \A t \in Targets : Chosen[t] \in SUBSET PostIds,
             NEW t \in Targets, p \in Chosen[t]
      PROVE  Found(Newest(UNION {PageOf(Chosen[o], pg) : o \in Targets}, pg.limit), pg.limit, p)
  <2> DEFINE all == UNION {PageOf(Chosen[o], pg) : o \in Targets}
  <2>1. all \in SUBSET PostIds
    BY <1>1, PageOfSubset
  <2>2. PageOf(Chosen[t], pg) \subseteq all
    BY <1>1
  <2>3. p \in InPage(Chosen[t], pg)
    BY <1>1 DEF InPage
  <2>4. Found(PageOf(Chosen[t], pg), pg.limit, p)
    BY <1>1, <2>3, PageFinds
  <2>5. p \in Nat /\ all \in SUBSET Nat /\ IsFiniteSet(all)
    BY <1>1, <2>1, PostsAreFinite
  <2> HIDE DEF all
  <2>6. Found(all, pg.limit, p)
    BY <2>2, <2>4, <2>5, FoundInLarger
  <2>7. Found(Newest(all, pg.limit), pg.limit, p)
    BY <2>5, <2>6, NewestFinds
  <2> QED
    BY <2>7 DEF all
<1>2. CASE s.kind = "Following"
  <2> DEFINE T == FollowingTargets(d, s.viewer)
             F == [t \in T |-> FollowingOf(d, s.viewer, t, s.excludeDirect)]
  <2>1. PICK t \in T : p \in F[t]
    BY <1>2 DEF InSource
  <2>2. \A o \in T : F[o] \in SUBSET PostIds
    BY <1>0 DEF FollowingOf
  <2>3. LateralIds(d, s, pg) = Newest(UNION {PageOf(F[o], pg) : o \in T}, pg.limit)
    <3>1. {PageOf(F[o], pg) : o \in T} = {PageOf(FollowingOf(d, s.viewer, o, s.excludeDirect), pg) : o \in T}
      OBVIOUS
    <3> HIDE DEF F
    <3> QED
      BY <1>2, <3>1 DEF LateralIds
  <2> HIDE DEF T, F
  <2> QED
    BY <1>1, <2>1, <2>2, <2>3
<1>3. CASE s.kind = "ListMembers"
  <2> DEFINE T == d.list.members
             F == [t \in T |-> ListPostsOf(d, t)]
  <2>1. PICK t \in T : p \in F[t]
    BY <1>3 DEF InSource
  <2>2. \A o \in T : F[o] \in SUBSET PostIds
    BY <1>0 DEF ListPostsOf
  <2>3. LateralIds(d, s, pg) = Newest(UNION {PageOf(F[o], pg) : o \in T}, pg.limit)
    <3>1. {PageOf(F[o], pg) : o \in T} = {PageOf(ListPostsOf(d, o), pg) : o \in T}
      OBVIOUS
    <3> HIDE DEF F
    <3> QED
      BY <1>3, <3>1 DEF LateralIds
  <2> HIDE DEF T, F
  <2> QED
    BY <1>1, <2>1, <2>2, <2>3
<1> QED
  BY <1>2, <1>3 DEF InSource

LEMMA LateralIsBelow ==
    ASSUME NEW d, IsDatabase(d), NEW s, s.kind \in {"Following", "ListMembers"}, NEW pg, pg.until # None
    PROVE  LateralIds(d, s, pg) \subseteq {q \in PostIds : q < pg.until}
<1>0. Live(d) \subseteq PostIds
  BY LivePosts
<1>1. \A S : S \subseteq PostIds => PageOf(S, pg) \subseteq {q \in PostIds : q < pg.until}
  BY DEF PageOf, Newest, InPage
<1>2. CASE s.kind = "Following"
  <2>1. \A t : FollowingOf(d, s.viewer, t, s.excludeDirect) \subseteq PostIds
    BY <1>0 DEF FollowingOf
  <2>2. UNION {PageOf(FollowingOf(d, s.viewer, t, s.excludeDirect), pg) : t \in FollowingTargets(d, s.viewer)}
            \subseteq {q \in PostIds : q < pg.until}
    BY <1>1, <2>1
  <2> QED
    BY <1>2, <2>2, NewestSubset DEF LateralIds
<1>3. CASE s.kind = "ListMembers"
  <2>1. \A t : ListPostsOf(d, t) \subseteq PostIds
    BY <1>0 DEF ListPostsOf
  <2>2. UNION {PageOf(ListPostsOf(d, t), pg) : t \in d.list.members} \subseteq {q \in PostIds : q < pg.until}
    BY <1>1, <2>1
  <2> QED
    BY <1>3, <2>2, NewestSubset DEF LateralIds
<1> QED
  BY <1>2, <1>3

LEMMA WindowFinds ==
    ASSUME NEW d, IsDatabase(d), NEW s, NEW p, InSource(d, s, p), NEW u \in Int, NEW l \in Int, NEW n \in Int,
           l < p, p < u
    PROVE  Found(WindowIds(d, s, u, l, n), n, p)
<1>0. Live(d) \subseteq PostIds
  BY LivePosts
<1>1. PICK S \in SUBSET PostIds : p \in S /\ WindowIds(d, s, u, l, n) = Newest(S, n)
  <2>1. CASE s.kind = "Following"
    <3> DEFINE S == {q \in Live(d) : l < q /\ q < u /\
                        (/\ \/ d.posts[q].author = s.viewer
                            \/ /\ AcceptedFollow(d, s.viewer, d.posts[q].author)
                               /\ ~Hidden(d, s.viewer, d.posts[q].author)
                         /\ FollowingPostFilter(d, s.viewer, q, s.excludeDirect))}
    <3>1. WindowIds(d, s, u, l, n) = Newest(S, n)
      BY <2>1 DEF WindowIds
    <3>2. p \in S
      BY <2>1 DEF InSource, FollowingOf, FollowingTargets, AcceptedTargets
    <3>3. S \subseteq PostIds
      BY <1>0
    <3> QED
      BY <3>1, <3>2, <3>3
  <2>2. CASE s.kind = "ListMembers"
    <3> DEFINE S == {q \in Live(d) : l < q /\ q < u /\
                        (d.posts[q].author \in d.list.members /\ d.posts[q].vis # "direct")}
    <3>1. WindowIds(d, s, u, l, n) = Newest(S, n)
      BY <2>2 DEF WindowIds
    <3>2. p \in S
      BY <2>2 DEF InSource, ListPostsOf
    <3>3. S \subseteq PostIds
      BY <1>0
    <3> QED
      BY <3>1, <3>2, <3>3
  <2> QED
    BY <2>1, <2>2 DEF InSource
<1>2. p \in Nat /\ S \in SUBSET Nat /\ IsFiniteSet(S)
  BY <1>1, PostsAreFinite
<1>3. Found(S, n, p)
  BY <1>1 DEF Found
<1> QED
  BY <1>1, <1>2, <1>3, NewestFinds

LEMMA WindowIsBetween ==
    ASSUME NEW d, IsDatabase(d), NEW s, s.kind \in {"Following", "ListMembers"}, NEW u, NEW l, NEW n
    PROVE  WindowIds(d, s, u, l, n) \subseteq {q \in PostIds : l < q /\ q < u}
<1>0. Live(d) \subseteq PostIds
  BY LivePosts
<1>1. CASE s.kind = "Following"
  BY <1>0, <1>1, NewestSubset DEF WindowIds
<1>2. CASE s.kind = "ListMembers"
  BY <1>0, <1>2, NewestSubset DEF WindowIds
<1> QED
  BY <1>1, <1>2

-----------------------------------------------------------------------------
(* A wanted post belongs to the source; the others are the local half's.    *)

LEMMA WantedIsInSource ==
    ASSUME NEW d, NEW r, r.surface \in Merging, r.always \subseteq InPage(Eligible(d, r), r.page), NEW p \in Wanted(d, r)
    PROVE  InSource(d, Source(r), p)
<1>1. p \in Eligible(d, r) /\ ~Mine(d, r, p)
  BY DEF Wanted, InPage
<1>2. CASE r.surface \in {"home", "social"}
  <2>1. p \notin SocialLocalIds(d, r.viewer, r.excl) \/ r.surface # "social"
    BY <1>1 DEF Mine, SocialLocalIds
  <2>2. p \in UNION {FollowingOf(d, r.viewer, t, r.excl) : t \in FollowingTargets(d, r.viewer)}
    BY <1>1, <1>2, <2>1 DEF Eligible
  <2>3. Source(r) = [kind |-> "Following", viewer |-> r.viewer, excludeDirect |-> r.excl]
    BY <1>2 DEF Source
  <2> QED
    BY <2>2, <2>3 DEF InSource
<1>3. CASE r.surface = "list"
  <2>1. p \in UNION {ListPostsOf(d, t) : t \in d.list.members}
    BY <1>1, <1>3 DEF Eligible
  <2>2. Source(r) = [kind |-> "ListMembers", viewer |-> r.viewer, excludeDirect |-> r.excl]
    BY <1>3 DEF Source
  <2> QED
    BY <2>1, <2>2 DEF InSource
<1> QED
  BY <1>2, <1>3 DEF Merging

LEMMA MineIsLocal ==
    ASSUME NEW d, NEW r, r.viewer \in Local, NEW p \in Eligible(d, r), Mine(d, r, p)
    PROVE  p \in SocialLocalIds(d, r.viewer, r.excl)
<1>1. r.viewer # None
  BY LocalAssumption
<1>2. r.surface = "social" /\ LocalPost(d, p)
  BY DEF Mine
<1>3. CASE p \in SocialLocalIds(d, r.viewer, r.excl)
  BY <1>3
<1>4. CASE p \notin SocialLocalIds(d, r.viewer, r.excl)
  <2>1. PICK t \in FollowingTargets(d, r.viewer) : p \in FollowingOf(d, r.viewer, t, r.excl)
    BY <1>2, <1>4 DEF Eligible
  <2>2. /\ p \in Live(d) /\ d.posts[p].author = t
        /\ PostVisibleToViewer(d, r.viewer, p, r.excl) /\ RepostNotMuted(d, r.viewer, p)
    BY <2>1 DEF FollowingOf, FollowingPostFilter
  <2>3. AuthorShown(d, r.viewer, p)
    BY <2>1, <2>2 DEF AuthorShown, FollowingTargets, Own
  <2>4. PostIsVisibleTo(d, r.viewer, p, r.excl) /\ RepostShown(d, r.viewer, p)
    BY <1>1, <2>2 DEF PostIsVisibleTo, RepostShown
  <2> QED
    BY <1>2, <2>2, <2>3, <2>4 DEF SocialLocalIds, Mine
<1> QED
  BY <1>3, <1>4

LEMMA EligibleIsLive ==
    ASSUME NEW d, NEW r
    PROVE  Eligible(d, r) \subseteq Live(d)
BY DEF Eligible, FollowingOf, ListPostsOf, SocialLocalIds

LEMMA PageTypes ==
    ASSUME NEW pg \in Pages
    PROVE  /\ pg.limit \in Int
           /\ pg.until = None \/ pg.until \in Int
           /\ pg.since = None \/ pg.since \in Int
BY PagesAssumption DEF Pages, Page

(* Of what was eligible throughout, p is in the database and on the page.   *)
LEMMA AlwaysFacts ==
    ASSUME NEW d, IsDatabase(d), NEW r, r.page \in Pages, r.always \subseteq InPage(Eligible(d, r), r.page),
           NEW p \in r.always
    PROVE  /\ p \in Live(d) /\ p \in PostIds /\ p \in Nat
           /\ r.page.until = None \/ p < r.page.until
           /\ r.page.since = None \/ p > r.page.since
           /\ Since(r) \in Int /\ Start(r) \in Nat /\ Since(r) < p /\ p < Start(r)
<1>1. p \in Live(d) /\ p \in PostIds /\ p \in Nat /\ p > 0
  <2>1. p \in Eligible(d, r)
    BY DEF InPage
  <2>2. p \in Live(d) /\ p \in PostIds
    BY <2>1, EligibleIsLive, LivePosts
  <2> QED
    BY <2>2, FeedsAssumption
<1>2. /\ r.page.until = None \/ p < r.page.until
      /\ r.page.since = None \/ p > r.page.since
  BY DEF InPage
<1>3. MaxId \in Nat /\ p < MaxId
  <2>1. PICK m \in PostIds : \A n \in PostIds : n =< m
    BY <1>1, PostsAreFinite, GreatestOfFinite
  <2>2. Max(PostIds) \in PostIds /\ \A n \in PostIds : Max(PostIds) >= n
    <3>1. \E x \in PostIds : \A y \in PostIds : x >= y
      BY <2>1, PostsAreFinite
    <3> QED
      BY <3>1 DEF Max
  <2>3. Max(PostIds) \in Nat /\ Max(PostIds) >= p
    BY <1>1, <2>2, PostsAreFinite
  <2> QED
    BY <1>1, <2>3 DEF MaxId
<1>4. /\ r.page.until = None \/ r.page.until \in Int
      /\ r.page.since = None \/ r.page.since \in Int
  BY PageTypes
<1>5. Since(r) \in Int /\ Since(r) < p
  BY <1>1, <1>2, <1>4 DEF Since
<1>6. Start(r) \in Nat /\ p < Start(r)
  BY <1>1, <1>2, <1>3, <1>4 DEF Start
<1> QED
  BY <1>1, <1>2, <1>5, <1>6

(* The fields Covers reads but for pc, ids, upper, win and rows.            *)
SamePage(r, s) ==
    /\ s.surface = r.surface /\ s.viewer = r.viewer /\ s.excl = r.excl /\ s.page = r.page /\ s.always = r.always

LEMMA SamePageSame ==
    ASSUME NEW d, NEW r, NEW s, SamePage(r, s)
    PROVE  /\ Eligible(d, s) = Eligible(d, r) /\ Wanted(d, s) = Wanted(d, r)
           /\ Since(s) = Since(r) /\ Start(s) = Start(r) /\ \A k : Floor(s, k) = Floor(r, k)
BY DEF SamePage, Eligible, Wanted, Mine, Since, Start, Floor

(* The choice of the plan.                                                  *)
LEMMA FloorType ==
    ASSUME NEW r, Start(r) \in Nat, NEW k \in 1..Len(WindowAges)
    PROVE  /\ Floor(r, k) \in Int /\ Floor(r, k) < Start(r)
           /\ \A j \in 1..Len(WindowAges) : k =< j => Floor(r, j) =< Floor(r, k)
<1>1. \A j \in 1..Len(WindowAges) : WindowAges[j] \in Nat
  BY WindowsAssumption
<1>2. IdsPerTick \in Nat \ {0}
  BY FeedsAssumption
<1>3. PICK y : y = Start(r) \div IdsPerTick
  OBVIOUS
<1>4. y \in Int
  BY <1>2, <1>3, FloorBelow
<1>5. \A j \in 1..Len(WindowAges) : Floor(r, j) = (y - WindowAges[j]) * IdsPerTick - 1
  BY <1>3 DEF Floor, SnowflakeFloor, SnowflakeTime
<1>6. Floor(r, k) \in Int /\ Floor(r, k) < Start(r)
  <2>1. (y - WindowAges[k]) * IdsPerTick \in Int /\ (y - WindowAges[k]) * IdsPerTick - 1 < Start(r)
    BY <1>1, <1>2, <1>3, FloorBelow
  <2> QED
    BY <1>5, <2>1
<1>7. ASSUME NEW j \in 1..Len(WindowAges), k =< j PROVE Floor(r, j) =< Floor(r, k)
  <2>1. WindowAges[k] =< WindowAges[j]
    BY <1>7, WindowsAssumption
  <2>2. (y - WindowAges[j]) * IdsPerTick - 1 =< (y - WindowAges[k]) * IdsPerTick - 1
    BY <1>1, <1>2, <1>4, <2>1, OlderIsLower
  <2> QED
    BY <1>5, <2>2
<1> QED
  BY <1>6, <1>7

-----------------------------------------------------------------------------
(* The steps of a request, from what r covers to what s covers.             *)

CoverPcs == {"count", "window", "rest", "local", "rows", "renotes", "quotes", "done"}
(* What Covers says of every request.                                       *)
Framed(d, r) ==
    /\ IsDatabase(d) /\ r.surface \in Merging /\ (r.surface \in {"home", "social"} => r.viewer \in Local)
    /\ r.page \in Pages /\ r.always \subseteq InPage(Eligible(d, r), r.page) /\ r.ids \subseteq PostIds

LEMMA FramedFacts ==
    ASSUME NEW d, NEW r, Framed(d, r)
    PROVE  /\ r.page.limit \in Int
           /\ r.ids \subseteq Nat /\ IsFiniteSet(r.ids) /\ Cardinality(r.ids) \in Nat
           /\ Source(r).kind \in {"Following", "ListMembers"}
           /\ Wanted(d, r) \subseteq r.always
<1>1. r.page.limit \in Int
  BY PageTypes DEF Framed
<1>2. r.ids \subseteq Nat /\ IsFiniteSet(r.ids) /\ Cardinality(r.ids) \in Nat
  BY PostsAreFinite DEF Framed
<1>3. Source(r).kind \in {"Following", "ListMembers"}
  BY DEF Source
<1> QED
  BY <1>1, <1>2, <1>3 DEF Wanted

(* A page of no posts, or of fewer than it holds already, is full.          *)
LEMMA FullFinds ==
    ASSUME NEW ids, NEW n \in Int, Cardinality(ids) \in Nat, Cardinality(ids) >= n, NEW p, Above(ids, p) = ids
    PROVE  Found(ids, n, p)
BY DEF Found

LEMMA CountCovers ==
    ASSUME NEW d, NEW r, NEW s, Framed(d, r), Framed(d, s), Covers(d, r), SamePage(r, s), r.pc = "count",
           s.ids = r.ids, s.upper = r.upper, s.win = r.win,
           \/ s.pc \in {"window", "rest"}
           \/ r.page.limit =< 0 /\ s.pc \in {"local", "rows"}
    PROVE  Covers(d, s)
<1>1. /\ Wanted(d, s) = Wanted(d, r) /\ Since(s) = Since(r) /\ Start(s) = Start(r)
      /\ \A k : Floor(s, k) = Floor(r, k)
  BY SamePageSame
<1>2. CASE r.always = {}
  <2>1. s.always = {} /\ Wanted(d, s) = {}
    BY <1>2 DEF SamePage, Wanted
  <2> QED
    BY <2>1 DEF Covers, Framed
<1>3. CASE r.always # {}
  <2>1. Descending(d, r) /\ r.ids = {} /\ r.win = 1 /\ r.upper = Start(r)
    BY <1>3 DEF Covers, Descending
  <2>2. CASE s.pc \in {"window", "rest"}
    <3>1. 1 \in 1..Len(WindowAges) /\ Start(r) \in Nat
      <4>1. PICK p \in r.always : TRUE
        BY <1>3
      <4>2. Start(r) \in Nat
        BY <4>1, AlwaysFacts DEF Framed
      <4> QED
        BY <4>2, WindowsAssumption
    <3>2. Floor(r, 1) < Start(r)
      BY <3>1, FloorType
    <3>3. Descending(d, s)
      BY <1>1, <2>1, <2>2, <3>1, <3>2 DEF Descending, SamePage
    <3> QED
      BY <2>2, <3>3 DEF Covers, Framed
  <2>3. CASE r.page.limit =< 0 /\ s.pc \in {"local", "rows"}
    <3>1. ASSUME NEW p PROVE Found(s.ids, s.page.limit, p)
      <4>1. s.ids = {} /\ s.page.limit = r.page.limit /\ r.page.limit \in Int
        BY <2>1, FramedFacts DEF SamePage
      <4>2. Cardinality(Above(s.ids, p)) = 0
        BY <4>1, FS_EmptySet DEF Above
      <4> QED
        BY <2>3, <4>1, <4>2 DEF Found
    <3>2. \A p : Found(s.ids, s.page.limit, p)
      BY <3>1
    <3> QED
      BY <2>3, <3>2 DEF Covers, Framed
  <2> QED
    BY <2>2, <2>3
<1> QED
  BY <1>2, <1>3

(* One window: l is its lower end.                                          *)
LEMMA WindowCovers ==
    ASSUME NEW d, NEW r, NEW s, Framed(d, r), Framed(d, s), Covers(d, r), SamePage(r, s), r.pc = "window",
           NEW l, l = Max({Floor(r, r.win), Since(r)}),
           NEW new, new = WindowIds(d, Source(r), r.upper, l, r.page.limit - Cardinality(r.ids)),
           s.ids = r.ids \cup new, s.upper = l + 1, s.win = r.win + 1,
           \/ (Cardinality(s.ids) >= r.page.limit \/ l = Since(r)) /\ s.pc = (IF r.surface = "social" THEN "local" ELSE "rows")
           \/ r.win = Len(WindowAges) /\ s.pc = "rest"
           \/ r.win # Len(WindowAges) /\ s.pc = "window"
    PROVE  Covers(d, s)
<1>0. /\ Wanted(d, s) = Wanted(d, r) /\ Since(s) = Since(r) /\ Start(s) = Start(r)
      /\ \A k : Floor(s, k) = Floor(r, k)
      /\ s.always = r.always /\ s.page = r.page /\ s.surface = r.surface
  BY SamePageSame DEF SamePage
<1>1. CASE r.always = {}
  <2>1. s.always = {} /\ Wanted(d, s) = {}
    BY <1>1 DEF SamePage, Wanted
  <2>2. s.pc \in CoverPcs
    BY DEF CoverPcs
  <2> QED
    BY <2>1, <2>2 DEF Covers, Framed, CoverPcs
<1>2. CASE r.always # {}
  <2>1. Descending(d, r)
    BY <1>2 DEF Covers
  <2>2. PICK a \in r.always : TRUE
    BY <1>2
  <2>3. Since(r) \in Int /\ Start(r) \in Nat
    BY <2>2, AlwaysFacts DEF Framed
  <2>4. /\ r.win \in 1..Len(WindowAges) /\ Floor(r, r.win) \in Int /\ Floor(r, r.win) < r.upper
        /\ r.upper \in Int /\ Since(r) < r.upper
    BY <2>1, <2>3, FloorType DEF Descending
  <2>5. l \in Int /\ l >= Since(r) /\ l >= Floor(r, r.win) /\ l < r.upper
    <3>1. l \in {Floor(r, r.win), Since(r)} /\ l >= Floor(r, r.win) /\ l >= Since(r)
      <4>1. Floor(r, r.win) \in Int /\ Since(r) \in Int
        BY <2>3, <2>4
      <4>2. PICK f \in Int, b \in Int : f = Floor(r, r.win) /\ b = Since(r)
        BY <4>1
      <4>3. Max({f, b}) \in {f, b} /\ Max({f, b}) >= f /\ Max({f, b}) >= b
        BY GreaterOfTwo
      <4> QED
        BY <4>2, <4>3
    <3> QED
      BY <2>3, <2>4, <3>1
  <2>6. s.upper \in Int /\ Since(s) < s.upper /\ l + 1 =< r.upper
    BY <1>0, <2>3, <2>4, <2>5
  <2> DEFINE n == r.page.limit - Cardinality(r.ids)
  <2>7. /\ r.page.limit \in Int /\ n \in Int /\ r.ids \in SUBSET Nat /\ IsFiniteSet(r.ids)
        /\ s.ids \in SUBSET Nat /\ IsFiniteSet(s.ids) /\ Cardinality(s.ids) \in Nat
    <3>1. /\ r.page.limit \in Int /\ r.ids \subseteq Nat /\ IsFiniteSet(r.ids) /\ Cardinality(r.ids) \in Nat
      BY FramedFacts
    <3>2. s.ids \subseteq Nat /\ IsFiniteSet(s.ids) /\ Cardinality(s.ids) \in Nat
      BY FramedFacts
    <3>3. n \in Int
      BY <3>1
    <3> HIDE DEF n
    <3> QED
      BY <3>1, <3>2, <3>3
  <2>8. new \subseteq {q \in PostIds : l < q /\ q < r.upper}
    BY FramedFacts, WindowIsBetween DEF Framed
  <2>9. \A q \in new : q \in Nat /\ q < r.upper /\ l < q
    BY <2>8, PostsAreFinite
  <2>10. new \in SUBSET Nat /\ IsFiniteSet(new)
    BY <2>8, PostsAreFinite
  <2>11. \A q \in s.ids : q >= s.upper
    <3>1. ASSUME NEW q \in r.ids PROVE q >= l + 1
      <4>1. q \in Nat /\ q >= r.upper
        BY <2>1, <2>7 DEF Descending
      <4> QED
        BY <2>4, <2>5, <4>1
    <3>2. ASSUME NEW q \in new PROVE q >= l + 1
      <4>1. q \in Nat /\ l < q
        BY <2>9, <3>2
      <4> QED
        BY <2>5, <4>1
    <3> QED
      BY <3>1, <3>2
  <2>12. ASSUME NEW p \in Wanted(d, r) PROVE Found(s.ids, r.page.limit, p) \/ p < s.upper
    <3>1. p \in Nat
      BY AlwaysFacts, FramedFacts DEF Framed
    <3>2. CASE Found(r.ids, r.page.limit, p)
      <4>1. r.ids \in SUBSET s.ids
        OBVIOUS
      <4> QED
        BY <2>7, <3>1, <3>2, <4>1, FoundInLarger
    <3>3. CASE p < r.upper /\ l < p
      <4>1. InSource(d, Source(r), p)
        BY WantedIsInSource DEF Framed
      <4>2. Found(new, n, p)
        BY <2>4, <2>5, <2>7, <3>3, <4>1, WindowFinds DEF Framed
      <4>3. \A q \in r.ids : q >= r.upper
        BY <2>1 DEF Descending
      <4> HIDE DEF n
      <4>4. Found(r.ids \cup new, r.page.limit, p)
        BY <2>4, <2>7, <2>9, <2>10, <3>1, <3>3, <4>2, <4>3, FoundBelow DEF n
      <4> QED
        BY <4>4
    <3>4. CASE p =< l
      BY <2>5, <3>1, <3>4
    <3>5. Found(r.ids, r.page.limit, p) \/ p < r.upper
      BY <2>1 DEF Descending
    <3> QED
      BY <2>5, <3>1, <3>2, <3>3, <3>4, <3>5
  <2>13. CASE Cardinality(s.ids) >= r.page.limit \/ l = Since(r)
    <3>1. ASSUME NEW p \in Wanted(d, r), ~Found(s.ids, r.page.limit, p) PROVE FALSE
      <4>1. p \in Nat /\ Since(r) < p
        BY AlwaysFacts, FramedFacts DEF Framed
      <4>2. p < l + 1
        BY <2>12, <3>1
      <4>3. Cardinality(s.ids) >= r.page.limit
        BY <2>3, <2>5, <2>13, <4>1, <4>2
      <4>4. \A q \in s.ids : q > p
        <5>1. ASSUME NEW q \in s.ids PROVE q > p
          <6>1. q \in Nat /\ q >= l + 1
            BY <2>7, <2>11
          <6> QED
            BY <2>5, <4>1, <4>2, <6>1
        <5> QED
          BY <5>1
      <4>5. Above(s.ids, p) = s.ids
        BY <4>4 DEF Above
      <4> QED
        BY <2>7, <3>1, <4>3, <4>5, FullFinds
    <3>2. \A p \in Wanted(d, s) : Found(s.ids, s.page.limit, p)
      BY <1>0, <3>1
    <3>3. CASE s.pc \in {"local", "rows"} /\ (s.pc = "rows" => r.surface # "social")
      <4>1. s.pc = "rows" => \A p \in s.always : p \in Wanted(d, s)
        BY <1>0, <3>3 DEF Wanted, Mine
      <4> QED
        BY <3>2, <3>3, <4>1 DEF Covers, Framed
    <3>4. CASE s.pc \in {"window", "rest"}
      <4>1. Descending(d, s)
        <5>1. s.pc = "window" => s.win \in 1..Len(WindowAges) /\ Floor(s, s.win) < s.upper
          <6>1. CASE s.pc = "window"
            <7>1. r.win + 1 \in 1..Len(WindowAges) /\ r.win =< r.win + 1
              BY <2>4, <6>1, WindowsAssumption
            <7>2. Floor(r, r.win + 1) =< Floor(r, r.win) /\ Floor(r, r.win + 1) \in Int
              BY <2>3, <2>4, <7>1, FloorType
            <7> QED
              BY <1>0, <2>4, <2>5, <7>1, <7>2
          <6> QED
            BY <6>1
        <5> QED
          BY <1>0, <2>6, <2>11, <2>12, <3>4, <5>1 DEF Descending
      <4> QED
        BY <3>4, <4>1 DEF Covers, Framed
    <3> QED
      BY <3>3, <3>4
  <2>14. CASE ~(Cardinality(s.ids) >= r.page.limit \/ l = Since(r))
    <3>1. s.pc = "window" => s.win \in 1..Len(WindowAges) /\ Floor(s, s.win) < s.upper
      <4>1. CASE s.pc = "window"
        <5>1. r.win + 1 \in 1..Len(WindowAges) /\ r.win =< r.win + 1
          BY <2>4, <2>14, <4>1, WindowsAssumption
        <5>2. Floor(r, r.win + 1) =< Floor(r, r.win) /\ Floor(r, r.win + 1) \in Int
          BY <2>3, <2>4, <5>1, FloorType
        <5> QED
          BY <1>0, <2>4, <2>5, <5>1, <5>2
      <4> QED
        BY <4>1
    <3>2. s.pc \in {"window", "rest"}
      BY <2>14
    <3>3. Descending(d, s)
      BY <1>0, <2>6, <2>11, <2>12, <3>1, <3>2 DEF Descending
    <3> QED
      BY <3>2, <3>3 DEF Covers, Framed
  <2> QED
    BY <2>13, <2>14
<1> QED
  BY <1>1, <1>2

(* lateral_ids for what the windows left of the page.                       *)
LEMMA RestCovers ==
    ASSUME NEW d, NEW r, NEW s, Framed(d, r), Framed(d, s), Covers(d, r), SamePage(r, s), r.pc = "rest",
           NEW pg, pg.limit = r.page.limit - Cardinality(r.ids), pg.until = r.upper, pg.since = r.page.since,
           s.ids = r.ids \cup LateralIds(d, Source(r), pg),
           s.pc = (IF r.surface = "social" THEN "local" ELSE "rows")
    PROVE  Covers(d, s)
<1>0. /\ Wanted(d, s) = Wanted(d, r)
      /\ s.always = r.always /\ s.page = r.page /\ s.surface = r.surface
  BY SamePageSame DEF SamePage
<1> DEFINE new == LateralIds(d, Source(r), pg)
<1>1. ASSUME NEW p \in Wanted(d, r) PROVE Found(s.ids, r.page.limit, p)
  <2>1. /\ p \in r.always /\ p \in Nat
        /\ r.page.since = None \/ p > r.page.since
    BY AlwaysFacts, FramedFacts DEF Framed
  <2>2. Descending(d, r)
    BY <2>1 DEF Covers
  <2>3. /\ r.upper \in Int /\ \A q \in r.ids : q >= r.upper
        /\ Found(r.ids, r.page.limit, p) \/ p < r.upper
    BY <2>2 DEF Descending
  <2>4. r.page.limit \in Int /\ r.ids \subseteq Nat /\ IsFiniteSet(r.ids) /\ Cardinality(r.ids) \in Nat
    BY FramedFacts
  <2>5. r.upper # None
    BY <2>3, PagesAssumption
  <2>6. new \subseteq {q \in PostIds : q < r.upper}
    <3>1. Source(r).kind \in {"Following", "ListMembers"} /\ IsDatabase(d)
      BY FramedFacts DEF Framed
    <3> QED
      BY <2>5, <3>1, LateralIsBelow
  <2>7. new \in SUBSET Nat /\ IsFiniteSet(new) /\ \A q \in new : q < r.upper
    BY <2>6, PostsAreFinite
  <2>8. s.ids \in SUBSET Nat /\ IsFiniteSet(s.ids) /\ r.ids \in SUBSET s.ids
    BY FramedFacts
  <2>9. CASE Found(r.ids, r.page.limit, p)
    BY <2>1, <2>4, <2>8, <2>9, FoundInLarger
  <2>10. CASE p < r.upper
    <3>1. InSource(d, Source(r), p)
      BY WantedIsInSource DEF Framed
    <3>2. pg.limit \in Int
      BY <2>4
    <3>3. Found(new, pg.limit, p)
      BY <2>1, <2>5, <2>10, <3>1, <3>2, LateralFinds DEF Framed
    <3> HIDE DEF new
    <3>4. Found(r.ids \cup new, r.page.limit, p)
      BY <2>1, <2>3, <2>4, <2>7, <2>10, <3>3, FoundBelow
    <3> QED
      BY <3>4 DEF new
  <2> QED
    BY <2>3, <2>9, <2>10
<1>2. \A p \in Wanted(d, s) : Found(s.ids, s.page.limit, p)
  BY <1>0, <1>1
<1>3. s.pc = "rows" => \A p \in s.always : p \in Wanted(d, s)
  BY <1>0 DEF Wanted, Mine
<1>4. s.pc \in {"local", "rows"}
  OBVIOUS
<1> QED
  BY <1>2, <1>3, <1>4 DEF Covers, Framed

(* The merge of social_timeline.                                            *)
LEMMA MergeCovers ==
    ASSUME NEW d, NEW r, NEW s, Framed(d, r), Framed(d, s), Covers(d, r), SamePage(r, s), r.pc = "local",
           s.ids = Newest(r.ids \cup PageOf(SocialLocalIds(d, r.viewer, r.excl), r.page), r.page.limit), s.pc = "rows"
    PROVE  Covers(d, s)
<1> DEFINE mine == PageOf(SocialLocalIds(d, r.viewer, r.excl), r.page)
           all == r.ids \cup mine
<1>0. s.always = r.always /\ s.page = r.page
  BY DEF SamePage
<1>1. r.page.limit \in Int /\ r.ids \subseteq PostIds
  BY FramedFacts DEF Framed
<1>2. SocialLocalIds(d, r.viewer, r.excl) \subseteq PostIds
  BY LivePosts DEF SocialLocalIds, Framed
<1>3. mine \subseteq PostIds
  BY <1>2, PageOfSubset
<1>4. all \in SUBSET Nat /\ IsFiniteSet(all)
  BY <1>1, <1>3, PostsAreFinite
<1>5. ASSUME NEW p \in r.always PROVE Found(s.ids, s.page.limit, p)
  <2>1. p \in Nat
    BY AlwaysFacts DEF Framed
  <2>2. Found(all, r.page.limit, p)
    <3>1. CASE Mine(d, r, p)
      <4>1. p \in Eligible(d, r) /\ p \in InPage(Eligible(d, r), r.page)
        BY DEF InPage, Framed
      <4>2. p \in SocialLocalIds(d, r.viewer, r.excl)
        BY <3>1, <4>1, MineIsLocal DEF Framed, Mine
      <4>3. p \in InPage(SocialLocalIds(d, r.viewer, r.excl), r.page)
        BY <4>1, <4>2 DEF InPage
      <4>4. Found(mine, r.page.limit, p)
        BY <1>1, <1>2, <4>3, PageFinds
      <4>5. mine \in SUBSET all
        OBVIOUS
      <4> HIDE DEF mine, all
      <4> QED
        BY <1>1, <1>4, <2>1, <4>4, <4>5, FoundInLarger
    <3>2. CASE ~Mine(d, r, p)
      <4>1. Found(r.ids, r.page.limit, p)
        BY <3>2 DEF Wanted, Covers
      <4>2. r.ids \in SUBSET all
        OBVIOUS
      <4> HIDE DEF mine, all
      <4> QED
        BY <1>1, <1>4, <2>1, <4>1, <4>2, FoundInLarger
    <3> QED
      BY <3>1, <3>2
  <2>3. s.ids = Newest(all, r.page.limit)
    OBVIOUS
  <2> HIDE DEF all
  <2>4. Found(Newest(all, r.page.limit), r.page.limit, p)
    BY <1>1, <1>4, <2>1, <2>2, NewestFinds
  <2> QED
    BY <1>0, <2>3, <2>4
<1>6. \A p \in s.always : Found(s.ids, s.page.limit, p)
  BY <1>0, <1>5
<1> QED
  BY <1>6 DEF Covers, Framed

(* The rows: what is eligible is live.                                      *)
LEMMA FetchCovers ==
    ASSUME NEW d, NEW r, NEW s, Framed(d, r), Framed(d, s), Covers(d, r), SamePage(r, s), r.pc = "rows",
           s.ids = r.ids, s.rows = FetchFeedPosts(d, r.ids), s.pc = "renotes"
    PROVE  Covers(d, s)
<1>1. ASSUME NEW p \in s.always PROVE p \in s.rows \/ Cardinality(Above(s.ids, p)) >= s.page.limit
  <2>1. p \in r.always /\ s.page = r.page
    BY DEF SamePage
  <2>2. p \in Live(d) /\ Found(r.ids, r.page.limit, p)
    BY <2>1, AlwaysFacts DEF Covers, Framed
  <2> QED
    BY <2>1, <2>2 DEF Found, FetchFeedPosts
<1> QED
  BY <1>1 DEF Covers, Framed

LEMMA EmbedCovers ==
    ASSUME NEW d, NEW r, NEW s, Framed(d, s), Covers(d, r), SamePage(r, s), r.pc \in {"renotes", "quotes"},
           s.ids = r.ids, s.rows = r.rows, s.pc \in {"quotes", "done"}
    PROVE  Covers(d, s)
BY DEF Covers, SamePage, Framed

(* A write of another request: less is eligible throughout, and what is the *)
(* local half's stays so.                                                   *)
LEMMA WatchCovers ==
    ASSUME NEW d, NEW e, NEW r, IsDatabase(d), Covers(d, r), IsRequest(r), r.pc # "idle", Grows(d, e)
    PROVE  Covers(e, Watch(e, r))
<1> DEFINE w == Watch(e, r)
<1>1. /\ w.pc = r.pc /\ w.surface = r.surface /\ w.viewer = r.viewer /\ w.excl = r.excl /\ w.page = r.page
      /\ w.ids = r.ids /\ w.rows = r.rows /\ w.win = r.win /\ w.upper = r.upper
      /\ w.always = r.always \cap InPage(Eligible(e, r), r.page)
  BY DEF Watch, IsRequest
<1> HIDE DEF w
<1>2. /\ Eligible(e, w) = Eligible(e, r) /\ Since(w) = Since(r) /\ Start(w) = Start(r)
      /\ \A k : Floor(w, k) = Floor(r, k)
  BY <1>1 DEF Eligible, Since, Start, Floor
<1>3. w.always \subseteq r.always /\ w.always \subseteq InPage(Eligible(e, w), w.page)
  BY <1>1, <1>2
<1>4. ASSUME NEW p \in Wanted(e, w) PROVE p \in Wanted(d, r)
  <2>1. p \in r.always /\ p \in w.always
    BY <1>3 DEF Wanted
  <2>2. p \in DOMAIN d.posts
    BY <2>1, EligibleIsLive DEF Covers, InPage, Live
  <2>3. e.posts[p].author = d.posts[p].author /\ e.posts[p].vis = d.posts[p].vis
    BY <2>2 DEF Grows
  <2> QED
    BY <1>1, <2>1, <2>3 DEF Wanted, Mine, LocalPost, Own
<1>5. r.pc \in {"count", "window", "rest"} /\ w.always # {} => Descending(e, w)
  <2> SUFFICES ASSUME r.pc \in {"count", "window", "rest"}, w.always # {} PROVE Descending(e, w)
    OBVIOUS
  <2>1. Descending(d, r)
    BY <1>3 DEF Covers
  <2> QED
    BY <1>1, <1>2, <1>4, <2>1 DEF Descending
<1>6. Covers(e, w)
  BY <1>1, <1>3, <1>4, <1>5 DEF Covers
<1> QED
  BY <1>6 DEF w

-----------------------------------------------------------------------------
(* HolesInv is inductive.                                                   *)

LEMMA HolesShow ==
    ASSUME HolesInv
    PROVE  PagesHaveNoHole
BY DEF HolesInv, Covers, PagesHaveNoHole, Done, Merging, Above

(* A request begins with an empty page and the whole range before it.       *)
LEMMA RequestCovers ==
    ASSUME IsDatabase(db), NEW surface \in Merging, NEW v, NEW pg \in Pages, NEW excl
    PROVE  Covers(db, Request(surface, v, pg, excl, "count", {}))
<1> DEFINE r0 == [pc |-> "count", surface |-> surface, viewer |-> v, page |-> pg, excl |-> excl,
                  win |-> 1, upper |-> IF pg.until = None THEN MaxId ELSE pg.until,
                  post |-> None, ids |-> {}, rows |-> {}, renotes |-> {}, quotes |-> {},
                  always |-> PostIds, seen |-> {}, hidden |-> Actors]
           r == Watch(db, r0)
<1>1. Request(surface, v, pg, excl, "count", {}) = r
  BY DEF Request
<1>2. /\ r0.pc = "count" /\ r0.surface = surface /\ r0.page = pg /\ r0.ids = {} /\ r0.win = 1
      /\ r0.upper = Start(r0) /\ IsRequest(r0)
  BY DEF Start, IsRequest
<1> HIDE DEF r0
<1>3. /\ r.pc = "count" /\ r.surface = surface /\ r.page = pg /\ r.ids = {} /\ r.win = 1 /\ r.upper = r0.upper
      /\ r.always \subseteq InPage(Eligible(db, r0), pg) /\ r.viewer = r0.viewer /\ r.excl = r0.excl
  BY <1>2 DEF Watch, IsRequest
<1> HIDE DEF r
<1>4. Eligible(db, r) = Eligible(db, r0) /\ Start(r) = Start(r0)
  BY <1>2, <1>3 DEF Eligible, Start
<1>5. r.always \subseteq InPage(Eligible(db, r), r.page)
  BY <1>3, <1>4
<1>6. r.always # {} => Descending(db, r)
  <2> SUFFICES ASSUME NEW p \in r.always PROVE Descending(db, r)
    OBVIOUS
  <2>1. r.page \in Pages
    BY <1>3
  <2>2. Start(r) \in Nat /\ Since(r) \in Int /\ Since(r) < p /\ p \in Nat /\ p < Start(r)
    BY <1>5, <2>1, AlwaysFacts
  <2>3. ASSUME NEW q \in Wanted(db, r) PROVE q < r.upper
    <3>1. q \in r.always
      BY DEF Wanted
    <3>2. q < Start(r)
      BY <1>5, <2>1, <3>1, AlwaysFacts
    <3> QED
      BY <1>2, <1>3, <1>4, <3>2
  <2>4. r.upper = Start(r) /\ Since(r) < r.upper
    BY <1>2, <1>3, <1>4, <2>2
  <2> QED
    BY <1>3, <2>2, <2>3, <2>4 DEF Descending
<1> QED
  BY <1>1, <1>3, <1>5, <1>6 DEF Covers

LEMMA HandlersCover ==
    ASSUME HolesInv, Handlers
    PROVE  HolesInv'
<1>1. FeedsInv' /\ IsDatabase(db) /\ db' = db
  BY HandlersSound DEF HolesInv, FeedsInv, Handlers, HomeTimeline, SocialTimeline, MentionsTimeline, LocalTimeline,
     GlobalTimeline, TagTimeline, ListTimeline, TimelineByActor, GetNote, NoteReplies, NoteContext, Begin
<1> SUFFICES ASSUME req'.surface \in Merging PROVE Covers(db, req')
  BY <1>1 DEF HolesInv
<1>2. ASSUME NEW surface, NEW v, NEW pg, NEW excl, NEW pc, NEW rows, pc # "idle",
             req' = Request(surface, v, pg, excl, pc, rows)
      PROVE  surface \in Merging
  <2>1. Begun(req', surface, v, pc, rows)
    BY <1>2, RequestFields
  <2> QED
    BY <2>1 DEF Begun
<1>3. ASSUME NEW v \in Local, NEW pg \in Pages, NEW excl \in BOOLEAN,
             HomeTimeline(v, pg, excl) \/ SocialTimeline(v, pg, excl)
      PROVE  Covers(db, req')
  <2>1. PICK surface \in Merging : req' = Request(surface, v, pg, excl, "count", {})
    BY <1>3 DEF HomeTimeline, SocialTimeline, Begin, Merging
  <2> QED
    BY <1>1, <2>1, RequestCovers
<1>4. ASSUME NEW v \in Viewers, NEW pg \in Pages, ListTimeline(v, pg)
      PROVE  Covers(db, req')
  <2>1. req' = Request("list", v, pg, FALSE, "count", {}) /\ "list" \in Merging
    BY <1>4 DEF ListTimeline, Begin, Merging
  <2> QED
    BY <1>1, <2>1, RequestCovers
<1>5. ASSUME NEW v \in Local, NEW pg \in Pages, NEW excl \in BOOLEAN, MentionsTimeline(v, pg, excl)
      PROVE  FALSE
  <2>1. PICK surface \in {"mentions"} : \E rows : req' = Request(surface, v, pg, FALSE, "renotes", rows)
    BY <1>5 DEF MentionsTimeline, Begin
  <2>2. surface \in Merging
    BY <1>2, <2>1
  <2> QED
    BY <2>1, <2>2 DEF Merging
<1>6. ASSUME NEW v \in Viewers, NEW pg \in Pages,
             \/ LocalTimeline(v, pg, FALSE) \/ GlobalTimeline(v, pg, FALSE) \/ TagTimeline(v, pg)
             \/ \E a \in Actors : TimelineByActor(a, v, pg, FALSE)
      PROVE  FALSE
  <2>1. PICK surface \in {"local", "global", "tag", "actor"} : \E excl, rows :
            req' = Request(surface, v, pg, excl, "renotes", rows)
    <3>1. CASE LocalTimeline(v, pg, FALSE)
      BY <3>1 DEF LocalTimeline, Begin
    <3>2. CASE GlobalTimeline(v, pg, FALSE)
      BY <3>2 DEF GlobalTimeline, Begin
    <3>3. CASE TagTimeline(v, pg)
      BY <3>3 DEF TagTimeline, Begin
    <3>4. CASE \E a \in Actors : TimelineByActor(a, v, pg, FALSE)
      BY <3>4 DEF TimelineByActor, Begin
    <3> QED
      BY <1>6, <3>1, <3>2, <3>3, <3>4
  <2>2. surface \in Merging
    BY <1>2, <2>1
  <2> QED
    BY <2>1, <2>2 DEF Merging
<1>7. ASSUME NEW v \in Viewers, NEW p \in DOMAIN db.posts, GetNote(p, v)
      PROVE  FALSE
  <2>1. PICK surface \in {"note"} : req' = Request(surface, v, NoPage, FALSE, "renotes", {p})
    BY <1>7 DEF GetNote, Begin
  <2>2. surface \in Merging
    BY <1>2, <2>1
  <2> QED
    BY <2>1, <2>2 DEF Merging
<1>8. ASSUME NEW v \in Viewers, NEW p \in DOMAIN db.posts, NoteReplies(p, v) \/ NoteContext(p, v)
      PROVE  FALSE
  <2>1. PICK surface \in {"replies", "context"}, pc \in {"descend", "before"} :
            req' = [Request(surface, v, NoPage, FALSE, pc, {}) EXCEPT !.post = p]
    BY <1>8 DEF NoteReplies, NoteContext, Begin
  <2> DEFINE r == Request(surface, v, NoPage, FALSE, pc, {})
  <2>2. Begun(r, surface, v, pc, {})
    BY RequestFields
  <2> HIDE DEF r
  <2>3. req'.surface = surface
    BY <2>1, <2>2 DEF r, Begun, IsRequest
  <2> QED
    BY <2>3 DEF Merging
<1> QED
  BY <1>3, <1>4, <1>5, <1>6, <1>7, <1>8 DEF Handlers

LEMMA QueriesCover ==
    ASSUME HolesInv, Queries
    PROVE  HolesInv'
<1>1. FeedsInv' /\ FeedsInv /\ req.pc # "idle" /\ db' = db
  BY QueriesSound DEF HolesInv, Queries, FeedCandidateIds, WindowedIds, LateralRest, SocialMerge, FetchRows,
         Descend, Before, After, EmbedRenotes, EmbedQuotes, Respond, At
<1>2. Sound(db, req) /\ IsRequest(req) /\ IsDatabase(db)
  BY <1>1 DEF FeedsInv, Sound
<1> SUFFICES ASSUME req'.pc # "idle", req'.surface \in Merging PROVE Covers(db, req')
  BY <1>1 DEF HolesInv
<1>3. req.surface = req'.surface /\ SamePage(req, req')
  <2> USE <1>2 DEF At, IsRequest, SamePage
  <2>1. CASE FeedCandidateIds \/ LateralRest \/ SocialMerge \/ FetchRows \/ EmbedRenotes \/ EmbedQuotes \/ Descend
    BY <2>1 DEF FeedCandidateIds, LateralRest, SocialMerge, FetchRows, EmbedRenotes, EmbedQuotes, Descend
  <2>2. CASE WindowedIds
    <3>1. PICK ids, upper, pc : req' = [req EXCEPT !.ids = ids, !.upper = upper, !.win = req.win + 1, !.pc = pc]
      BY <2>2 DEF WindowedIds
    <3> QED
      BY <3>1
  <2>3. CASE Before
    <3>1. PICK rows : req' = [req EXCEPT !.rows = rows, !.pc = "after"]
      BY <2>3 DEF Before
    <3> QED
      BY <3>1
  <2>4. CASE After
    <3>1. PICK rows : req' = [req EXCEPT !.rows = rows, !.pc = "renotes"]
      BY <2>4 DEF After
    <3> QED
      BY <3>1
  <2>5. CASE Respond
    BY <2>5 DEF Respond, Idle
  <2> QED
    BY <2>1, <2>2, <2>3, <2>4, <2>5 DEF Queries
<1>4. Covers(db, req)
  BY <1>1, <1>3 DEF HolesInv
<1>5. Framed(db, req)
  BY <1>2, <1>3, <1>4 DEF Framed, Covers, Sound
<1>6. ASSUME req'.ids \subseteq PostIds PROVE Framed(db, req')
  <2>1. Eligible(db, req') = Eligible(db, req)
    BY <1>3, SamePageSame
  <2> QED
    BY <1>3, <1>5, <1>6, <2>1 DEF Framed, SamePage
<1>7. Source(req).kind \in {"Following", "ListMembers"} /\ req.ids \subseteq PostIds
  BY <1>5, FramedFacts DEF Framed
<1>8. CASE FeedCandidateIds
  <2>1. PICK pc : /\ req.pc = "count" /\ req' = [req EXCEPT !.pc = pc]
                  /\ \/ pc \in {"window", "rest"}
                     \/ req.page.limit =< 0 /\ pc \in {"local", "rows"}
    BY <1>8 DEF FeedCandidateIds, At, AfterIds
  <2>2. req'.ids = req.ids /\ req'.upper = req.upper /\ req'.win = req.win /\ req'.pc = pc
    BY <1>2, <2>1 DEF IsRequest
  <2>3. Framed(db, req')
    BY <1>6, <1>7, <2>2
  <2> QED
    BY <1>3, <1>4, <1>5, <2>1, <2>2, <2>3, CountCovers
<1>9. CASE WindowedIds
  <2> DEFINE l == Max({Floor(req, req.win), Since(req)})
             new == WindowIds(db, Source(req), req.upper, l, req.page.limit - Cardinality(req.ids))
             pc == IF Cardinality(req.ids \cup new) >= req.page.limit \/ l = Since(req) THEN AfterIds
                   ELSE IF req.win = Len(WindowAges) THEN "rest" ELSE "window"
  <2>1. /\ req' = [req EXCEPT !.ids = req.ids \cup new, !.upper = l + 1, !.win = req.win + 1, !.pc = pc]
        /\ req.pc = "window"
    <3>1. (IF req.page.until = None THEN Now ELSE SnowflakeTime(req.page.until)) = SnowflakeTime(Start(req))
      BY DEF Now, Start, MaxId
    <3> QED
      BY <1>9, <3>1 DEF WindowedIds, At, Left, Floor, Since
  <2>2. new \subseteq PostIds
    BY <1>2, <1>7, WindowIsBetween
  <2>3. PICK m : m = l
    OBVIOUS
  <2>4. PICK found : found = new
    OBVIOUS
  <2> HIDE DEF l, new
  <2>5. /\ req'.ids = req.ids \cup found /\ req'.upper = m + 1 /\ req'.win = req.win + 1 /\ req'.pc = pc
    BY <1>2, <2>1, <2>3, <2>4 DEF IsRequest
  <2>6. Framed(db, req')
    BY <1>6, <1>7, <2>2, <2>4, <2>5
  <2>7. \/ (Cardinality(req'.ids) >= req.page.limit \/ m = Since(req)) /\ req'.pc = (IF req.surface = "social" THEN "local" ELSE "rows")
        \/ req.win = Len(WindowAges) /\ req'.pc = "rest"
        \/ req.win # Len(WindowAges) /\ req'.pc = "window"
    BY <2>3, <2>4, <2>5 DEF AfterIds
  <2>8. /\ m = Max({Floor(req, req.win), Since(req)})
        /\ found = WindowIds(db, Source(req), req.upper, m, req.page.limit - Cardinality(req.ids))
    BY <2>3, <2>4 DEF l, new
  <2> QED
    <3>1. req.pc = "window" /\ req'.ids = req.ids \cup found /\ req'.upper = m + 1 /\ req'.win = req.win + 1
      BY <2>1, <2>5
    <3>2. SamePage(req, req') /\ Framed(db, req) /\ Framed(db, req') /\ Covers(db, req)
      BY <1>3, <1>4, <1>5, <2>6
    <3> QED
      BY ONLY <2>7, <2>8, <3>1, <3>2, WindowCovers
<1>10. CASE LateralRest
  <2> DEFINE pg == Page(req.page.limit - Cardinality(req.ids), req.upper, req.page.since)
             new == LateralIds(db, Source(req), pg)
  <2>1. req' = [req EXCEPT !.ids = req.ids \cup new, !.pc = AfterIds] /\ req.pc = "rest"
    BY <1>10 DEF LateralRest, At, Left
  <2>2. PICK g : g = pg
    OBVIOUS
  <2>3. g.limit = req.page.limit - Cardinality(req.ids) /\ g.until = req.upper /\ g.since = req.page.since
    BY <2>2 DEF Page
  <2>4. new \subseteq PostIds
    <3>1. Live(db) \subseteq PostIds
      BY <1>2, LivePosts
    <3>2. \A x \in new : \/ \E t : x \in PageOf(FollowingOf(db, Source(req).viewer, t, Source(req).excludeDirect), pg)
                         \/ \E t : x \in PageOf(ListPostsOf(db, t), pg)
      <4>1. CASE Source(req).kind = "Following"
        <5>1. new \subseteq UNION {PageOf(FollowingOf(db, Source(req).viewer, t, Source(req).excludeDirect), pg) :
                                       t \in FollowingTargets(db, Source(req).viewer)}
          BY <4>1, NewestSubset DEF LateralIds
        <5> QED
          BY <5>1
      <4>2. CASE Source(req).kind = "ListMembers"
        <5>1. new \subseteq UNION {PageOf(ListPostsOf(db, t), pg) : t \in db.list.members}
          BY <4>2, NewestSubset DEF LateralIds
        <5> QED
          BY <5>1
      <4> QED
        BY <1>7, <4>1, <4>2
    <3>3. \A t : /\ FollowingOf(db, Source(req).viewer, t, Source(req).excludeDirect) \subseteq PostIds
                 /\ ListPostsOf(db, t) \subseteq PostIds
      BY <3>1 DEF FollowingOf, ListPostsOf
    <3> QED
      BY <3>2, <3>3, PageOfSubset
  <2> HIDE DEF pg
  <2>5. req'.ids = req.ids \cup LateralIds(db, Source(req), g) /\ req'.pc = AfterIds
    BY <1>2, <2>1, <2>2 DEF IsRequest
  <2>6. Framed(db, req')
    BY <1>6, <1>7, <2>2, <2>4, <2>5
  <2>7. req'.pc = (IF req.surface = "social" THEN "local" ELSE "rows")
    BY <2>5 DEF AfterIds
  <2> QED
    BY ONLY <1>3, <1>4, <1>5, <2>1, <2>3, <2>5, <2>6, <2>7, RestCovers
<1>11. CASE SocialMerge
  <2> DEFINE ids == Newest(req.ids \cup PageOf(SocialLocalIds(db, req.viewer, req.excl), req.page), req.page.limit)
  <2>1. req' = [req EXCEPT !.ids = ids, !.pc = "rows"] /\ req.pc = "local"
    BY <1>11 DEF SocialMerge, At
  <2>2. req'.ids = ids /\ req'.pc = "rows"
    BY <1>2, <2>1 DEF IsRequest
  <2>3. ids \subseteq PostIds
    <3>1. SocialLocalIds(db, req.viewer, req.excl) \subseteq PostIds
      BY <1>2, LivePosts DEF SocialLocalIds
    <3> QED
      BY <1>7, <3>1, PageOfSubset, NewestSubset
  <2>4. Framed(db, req')
    BY <1>6, <2>2, <2>3
  <2> HIDE DEF ids
  <2> QED
    BY <1>3, <1>4, <1>5, <2>1, <2>2, <2>4, MergeCovers DEF ids
<1>12. CASE FetchRows
  <2>1. req' = [req EXCEPT !.rows = FetchFeedPosts(db, req.ids), !.pc = "renotes"] /\ req.pc = "rows"
    BY <1>12 DEF FetchRows, At
  <2>2. req'.ids = req.ids /\ req'.rows = FetchFeedPosts(db, req.ids) /\ req'.pc = "renotes"
    BY <1>2, <2>1 DEF IsRequest
  <2>3. Framed(db, req')
    BY <1>6, <1>7, <2>2
  <2> QED
    BY <1>3, <1>4, <1>5, <2>1, <2>2, <2>3, FetchCovers
<1>13. CASE Descend \/ Before \/ After
  BY <1>4, <1>13 DEF Descend, Before, After, At, Covers
<1>14. CASE EmbedRenotes \/ EmbedQuotes
  <2>1. \E x, pc : /\ req.pc \in {"renotes", "quotes"} /\ pc \in {"quotes", "done"}
                   /\ req' = [req EXCEPT !.renotes = x, !.pc = pc] \/ req' = [req EXCEPT !.quotes = x, !.pc = pc]
    BY <1>14 DEF EmbedRenotes, EmbedQuotes, At
  <2>2. req'.ids = req.ids /\ req'.rows = req.rows /\ req'.pc \in {"quotes", "done"}
    BY <1>2, <2>1 DEF IsRequest
  <2>3. Framed(db, req')
    BY <1>6, <1>7, <2>2
  <2> QED
    BY <1>3, <1>4, <2>1, <2>2, <2>3, EmbedCovers
<1>15. CASE Respond
  BY <1>15 DEF Respond, Idle
<1> QED
  BY <1>8, <1>9, <1>10, <1>11, <1>12, <1>13, <1>14, <1>15 DEF Queries

LEMMA ChangesCover ==
    ASSUME HolesInv, Changes
    PROVE  HolesInv'
<1>1. PICK new : Change(new) /\ Grows(db, new)
  BY ChangesGrow DEF HolesInv
<1>2. FeedsInv' /\ FeedsInv
  BY ChangesSound DEF HolesInv
<1>3. db' = new /\ req' = Watch(new, req)
  BY <1>1 DEF Change
<1> SUFFICES ASSUME req'.pc # "idle", req'.surface \in Merging PROVE Covers(db', req')
  BY <1>2 DEF HolesInv
<1>4. req.pc # "idle"
  BY <1>3 DEF Watch
<1>5. IsRequest(req) /\ IsDatabase(db)
  BY <1>2, <1>4 DEF FeedsInv, Sound
<1>6. req'.surface = req.surface
  BY <1>3, <1>4, <1>5 DEF Watch, IsRequest
<1>7. Covers(db, req)
  BY <1>4, <1>6 DEF HolesInv
<1> QED
  BY <1>1, <1>3, <1>4, <1>5, <1>7, WatchCovers

LEMMA HolesInvInit == FeedsInit => HolesInv
BY FeedsInvInit DEF FeedsInit, HolesInv, Idle

LEMMA HolesInvNext == HolesInv /\ [FeedsNext]_feedsVars => HolesInv'
<1>1. ASSUME HolesInv, UNCHANGED feedsVars PROVE HolesInv'
  <2>1. FeedsInv'
    BY <1>1, FeedsInvNext DEF HolesInv
  <2>2. db' = db /\ req' = req
    BY <1>1 DEF feedsVars
  <2> QED
    BY <1>1, <2>1, <2>2 DEF HolesInv
<1> QED
  BY <1>1, HandlersCover, QueriesCover, ChangesCover DEF FeedsNext

(* The page of a home, social or list timeline leaves out nothing that      *)
(* belonged to the timeline throughout the request, unless it is full of    *)
(* later posts (feed.rs feed_candidate_ids, windowed_ids, lateral_ids;      *)
(* social_timeline): whichever plan is chosen, wherever the windows and     *)
(* the page end, and whatever is followed, blocked, posted or deleted       *)
(* between the queries.                                                     *)
THEOREM PagesHaveNoHoleAlways == FeedsSpec => []PagesHaveNoHole
<1>1. FeedsSpec => []HolesInv
  BY HolesInvInit, HolesInvNext, PTL DEF FeedsSpec
<1>2. HolesInv => PagesHaveNoHole
  BY HolesShow
<1> QED
  BY <1>1, <1>2, PTL
==============================================================================

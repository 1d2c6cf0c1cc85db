------------------------------ MODULE EventLog ------------------------------
(***************************************************************************)
(* The event log atp_repo_events as its readers see it, and the hand-over  *)
(* of each event to the bus: what the writers of atp/service.rs promise.   *)
(* A writer is one call of apply_write (a commit: number, row and frame    *)
(* become visible together) or of broadcast_account_event (the row is      *)
(* visible before its frame is stored).                                    *)
(***************************************************************************)
EXTENDS Integers, FiniteSets

CONSTANTS
    Writers,       \* calls that write one event each
    Broadcasters   \* those of Writers that are broadcast_account_event

BroadcastersAssumption == Broadcasters \subseteq Writers

VARIABLES
    lastSeq,    \* the sequence behind atp_repo_events.id
    log,        \* ids of the visible rows
    framed,     \* ids of the visible rows that have frame_bytes
    wst,        \* wst[w]: where the call of w is
    wseq        \* wseq[w]: the id the call of w holds (0: none)

logVars == <<lastSeq, log, framed, wst, wseq>>

EventLogInit ==
    /\ lastSeq = 0
    /\ log = {}
    /\ framed = {}
    /\ wst = [w \in Writers |-> "idle"]
    /\ wseq = [w \in Writers |-> 0]

Draw(w) ==
    /\ lastSeq' = lastSeq + 1
    /\ wseq' = [wseq EXCEPT ![w] = lastSeq + 1]

(* The INSERT of a transaction that goes on: ids are drawn at once, and    *)
(* not given back by a rollback.                                           *)
DrawSeq(w) ==
    /\ w \notin Broadcasters
    /\ wst[w] = "idle"
    /\ Draw(w)
    /\ wst' = [wst EXCEPT ![w] = "open"]
    /\ UNCHANGED <<log, framed>>

(* COMMIT: the row becomes visible, with its frame.                        *)
CommitEvent(w) ==
    /\ wst[w] = "open"
    /\ log' = log \cup {wseq[w]}
    /\ framed' = framed \cup {wseq[w]}
    /\ wst' = [wst EXCEPT ![w] = "visible"]
    /\ UNCHANGED <<lastSeq, wseq>>

(* ROLLBACK, and the call starts over or gives up: the id is never used.   *)
Rollback(w) ==
    /\ wst[w] = "open"
    /\ wst' = [wst EXCEPT ![w] = "idle"]
    /\ wseq' = [wseq EXCEPT ![w] = 0]
    /\ UNCHANGED <<lastSeq, log, framed>>

(* broadcast_account_event: the INSERT commits on its own, without frame.  *)
InsertBare(w) ==
    /\ w \in Broadcasters
    /\ wst[w] = "idle"
    /\ Draw(w)
    /\ log' = log \cup {lastSeq + 1}
    /\ wst' = [wst EXCEPT ![w] = "bare"]
    /\ UNCHANGED framed

StoreFrame(w) ==
    /\ wst[w] = "bare"
    /\ framed' = framed \cup {wseq[w]}
    /\ wst' = [wst EXCEPT ![w] = "visible"]
    /\ UNCHANGED <<lastSeq, log, wseq>>

(* publish_event, after the row is visible.                                *)
Publish(w) ==
    /\ wst[w] = "visible"
    /\ wst' = [wst EXCEPT ![w] = "published"]
    /\ UNCHANGED <<lastSeq, log, framed, wseq>>

(* The process dies, or the call returns an error, before the hand-over.   *)
Drop(w) ==
    /\ wst[w] \in {"idle", "open", "bare", "visible"}
    /\ wst' = [wst EXCEPT ![w] = "dropped"]
    /\ wseq' = [wseq EXCEPT ![w] = 0]
    /\ UNCHANGED <<lastSeq, log, framed>>

(* The same, but the COMMIT had been carried out when the call failed.     *)
CommitAndDrop(w) ==
    /\ wst[w] = "open"
    /\ log' = log \cup {wseq[w]}
    /\ framed' = framed \cup {wseq[w]}
    /\ wst' = [wst EXCEPT ![w] = "dropped"]
    /\ wseq' = [wseq EXCEPT ![w] = 0]
    /\ UNCHANGED lastSeq

EventLogNext ==
    \E w \in Writers :
        \/ DrawSeq(w) \/ CommitEvent(w) \/ Rollback(w)
        \/ InsertBare(w) \/ StoreFrame(w)
        \/ Publish(w) \/ Drop(w) \/ CommitAndDrop(w)

EventLogSpec == EventLogInit /\ [][EventLogNext]_logVars
=============================================================================

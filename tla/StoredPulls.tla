---------------------------- MODULE StoredPulls ----------------------------
(***************************************************************************)
(* The pulls of LogPull over the table of LogEntryStore: their queries     *)
(* read the committed rows while statements that write others are running. *)
(***************************************************************************)
EXTENDS LogEntryStore, LogPull

(* What a query finds of each community.                                   *)
StoredLog == [c \in Community |-> LogOf(c)]

(* StampOf gives the receivedAt with which an entry comes to be stored: at *)
(* most one statement ever stores it, so every behaviour of the store has  *)
(* such stamps.                                                            *)
Stamped == \A row \in rows : row.receivedAt = StampOf[row.cid]

(* A step of a statement, of the clock or of whoever tampers with counters.*)
StoreStep ==
  /\ Next
  /\ Stamped'
  /\ log' = StoredLog'
  /\ UNCHANGED pullVars

(* A step of a client or of the handler of its pull.                       *)
ReaderStep == PullStep /\ UNCHANGED vars

StoredInit == Init /\ log = StoredLog /\ PullersInit

StoredNext == StoreStep \/ ReaderStep

storedSystem == <<vars, log, pullVars>>

StoredSpec == StoredInit /\ [][StoredNext]_storedSystem

-----------------------------------------------------------------------------
(* A client by sequence holds the position of every committed row of its   *)
(* community that its filters let through, from where it began up to its   *)
(* cursor: no statement that was still running, no lost counter, failed    *)
(* write or lost response ever makes it pass a row by.                     *)
NoRowPassedBy ==
  \A p \in Puller : \A row \in RowsOf(CommunityAt[p]) :
    /\ kind[p] = "sequence"
    /\ row.cid \in FilterOf[p]
    /\ base[p] < row.syncSeq /\ row.syncSeq <= cursor[p]
    => Contains(delivered[p], row.syncSeq)

(* Whatever a client received is committed.                                *)
DeliveredIsCommitted ==
  \A p \in Puller : \A seq \in ToSet(delivered[p]) :
    \E row \in RowsOf(CommunityAt[p]) :
      row.syncSeq = seq /\ row.cid \in FilterOf[p]
=============================================================================

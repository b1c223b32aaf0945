---------------------------- MODULE LogEntryStore ----------------------------
(***************************************************************************)
(* LogEntrySyncStorageService: the log_entry_sync table, the sync sequence *)
(* counter beside it, and the single SQL statement of addLogEntry that     *)
(* allocates a sequence number and inserts the row.                        *)
(*                                                                         *)
(* The statement runs autocommitted at READ COMMITTED.  Its interleaving   *)
(* points are: the snapshot taken when it starts (the "recovered" CTE reads*)
(* through it), the row lock on the community's counter (held until        *)
(* commit), and the commit.  Postgres itself is modelled from how the      *)
(* statement uses it: a statement that waits for a lock is one whose next  *)
(* step is disabled, and an aborted statement leaves no trace.             *)
(***************************************************************************)
EXTENDS LogEntries, Naturals, FiniteSets, FiniteSetsExt

CONSTANTS
  Request,        \* log entry sync messages; a retry starts the same one again
  CidOf,          \* the entry each message carries
  CommunityOf,    \* the community (teamId) each message names
  MaxTime,        \* bound on the clock
  MaxDrifts       \* bound on the losses of a counter row

ASSUME RequestAssumption ==
  /\ CidOf \in [Request -> Cid]
  /\ CommunityOf \in [Request -> Community]

ASSUME BoundAssumption == MaxTime \in Nat /\ MaxDrifts \in Nat

VARIABLES
  rows,           \* log_entry_sync: the committed rows
  counter,        \* next_sync_seq of each community, 0 when it has no row
  stmt,           \* the addLogEntry call each message is in
  now,            \* the server's clock
  drifts          \* how many times a counter row was lost or set back

vars == <<rows, counter, stmt, now, drifts>>

Row == [cid : Cid, community : Community, syncSeq : Nat, receivedAt : Nat]

Phase == {"idle", "received", "running", "allocated", "duplicate",
          "stored", "failed"}

Call == [pc : Phase, receivedAt : Nat, recovered : Nat, syncSeq : Nat]

Idle == [pc |-> "idle", receivedAt |-> 0, recovered |-> 0, syncSeq |-> 0]

Greatest(a, b) == IF a >= b THEN a ELSE b

RowsOf(c) == {row \in rows : row.community = c}

SeqsOf(c) == {row.syncSeq : row \in RowsOf(c)}

HighestSeq(c) == IF SeqsOf(c) = {} THEN 0 ELSE Max(SeqsOf(c))

(* Mutant: the table has no primary key.                                   *)
IsStored_Never(d) == FALSE

IsStored(d) == \E row \in rows : row.cid = d

(***************************************************************************)
(* The row lock on a community's counter is held by the statement that     *)
(* allocated from it and has not yet committed or aborted.                 *)
(***************************************************************************)
CounterLocked(c) ==
  \E r \in Request : CommunityOf[r] = c /\ stmt[r].pc = "allocated"

Init ==
  /\ rows = {}
  /\ counter = [c \in Community |-> 0]
  /\ stmt = [r \in Request |-> Idle]
  /\ now = 1
  /\ drifts = 0

-----------------------------------------------------------------------------
(* processIncomingLogEntrySyncMessage stamps receivedAt before the write.  *)

Receive(r) ==
  /\ stmt[r].pc = "idle"
  /\ stmt' = [stmt EXCEPT ![r] =
                [Idle EXCEPT !.pc = "received", !.receivedAt = now]]
  /\ UNCHANGED <<rows, counter, now, drifts>>

(* The statement starts: "recovered" is read through its snapshot.         *)
BeginStatement(r) ==
  /\ stmt[r].pc = "received"
  /\ stmt' = [stmt EXCEPT ![r].pc = "running",
                          ![r].recovered = HighestSeq(CommunityOf[r]) + 1]
  /\ UNCHANGED <<rows, counter, now, drifts>>

(* Mutant: the number comes from the counter row alone.                    *)
Allocate_CounterOnly(r) ==
  /\ stmt[r].pc = "running"
  /\ ~CounterLocked(CommunityOf[r])
  /\ stmt' = [stmt EXCEPT ![r].pc = "allocated",
                          ![r].recovered = 0,
                          ![r].syncSeq = counter[CommunityOf[r]] - 1]
  /\ UNCHANGED <<rows, counter, now, drifts>>

(* "insert ... on conflict do update ... returning next_sync_seq - 1": the *)
(* conflict is with the latest committed counter, not with the snapshot.   *)
Allocate(r) ==
  LET c == CommunityOf[r] IN
  /\ stmt[r].pc = "running"
  /\ ~CounterLocked(c)
  /\ stmt' = [stmt EXCEPT ![r].pc = "allocated",
                          ![r].recovered = 0,
                          ![r].syncSeq =
                             Greatest(counter[c], stmt[r].recovered)]
  /\ UNCHANGED <<rows, counter, now, drifts>>

(* Mutant: (community_id, sync_seq) has no unique index.                   *)
SeqTaken_Never(r) == FALSE

SeqTaken(r) == stmt[r].syncSeq \in SeqsOf(CommunityOf[r])

(* The row and the advanced counter become visible together.               *)
InsertAndCommit(r) ==
  LET c == CommunityOf[r] IN
  /\ stmt[r].pc = "allocated"
  /\ ~IsStored(CidOf[r])
  /\ ~SeqTaken(r)
  /\ rows' = rows \cup {[cid |-> CidOf[r], community |-> c,
                         syncSeq |-> stmt[r].syncSeq,
                         receivedAt |-> stmt[r].receivedAt]}
  /\ counter' = [counter EXCEPT ![c] = stmt[r].syncSeq + 1]
  /\ UNCHANGED <<now, drifts>>

Commit(r) ==
  /\ InsertAndCommit(r)
  /\ stmt' = [stmt EXCEPT ![r].pc = "stored"]

(* The connection breaks after the commit: addLogEntry returns undefined.  *)
CommitReplyLost(r) ==
  /\ InsertAndCommit(r)
  /\ stmt' = [stmt EXCEPT ![r].pc = "failed", ![r].syncSeq = 0]

(* Mutant: a duplicate is answered with the number allocated to it.        *)
DuplicateId_KeepsOwn(r) ==
  /\ stmt[r].pc = "allocated"
  /\ IsStored(CidOf[r])
  /\ stmt' = [stmt EXCEPT ![r].pc = "stored"]
  /\ UNCHANGED <<rows, counter, now, drifts>>

(* The primary key is checked first; the aborted statement releases the    *)
(* counter unchanged.                                                      *)
DuplicateId(r) ==
  /\ stmt[r].pc = "allocated"
  /\ IsStored(CidOf[r])
  /\ stmt' = [stmt EXCEPT ![r].pc = "duplicate", ![r].syncSeq = 0]
  /\ UNCHANGED <<rows, counter, now, drifts>>

(* Any other error: (community_id, sync_seq) is taken, or the statement    *)
(* or its connection fails before the commit.                              *)
Abort(r) ==
  /\ stmt[r].pc \in {"running", "allocated"}
  /\ stmt' = [stmt EXCEPT ![r].pc = "failed", ![r].syncSeq = 0]
  /\ UNCHANGED <<rows, counter, now, drifts>>

(* getStoredPositionById: the stored entry's own position is returned, or  *)
(* undefined when the query fails.                                         *)
ReadBack(r) ==
  /\ stmt[r].pc = "duplicate"
  /\ \/ \E row \in rows :
          /\ row.cid = CidOf[r]
          /\ stmt' = [stmt EXCEPT ![r].pc = "stored",
                                  ![r].syncSeq = row.syncSeq,
                                  ![r].receivedAt = row.receivedAt]
     \/ stmt' = [stmt EXCEPT ![r].pc = "failed"]
  /\ UNCHANGED <<rows, counter, now, drifts>>

(* Mutant: a call that failed is made again, without end.                  *)
Return_Retries(r) ==
  /\ stmt[r].pc \in {"stored", "failed"}
  /\ stmt' = [stmt EXCEPT ![r] =
                IF @.pc = "stored" THEN Idle ELSE [@ EXCEPT !.pc = "received"]]
  /\ UNCHANGED <<rows, counter, now, drifts>>

(* The handler takes the result; the client may send the message again.    *)
Return(r) ==
  /\ stmt[r].pc \in {"stored", "failed"}
  /\ stmt' = [stmt EXCEPT ![r] = Idle]
  /\ UNCHANGED <<rows, counter, now, drifts>>

(* "even if the counter row drifts": it is deleted or set back by hand.    *)
LoseCounter(c) ==
  /\ drifts < MaxDrifts
  /\ ~CounterLocked(c)
  /\ \E n \in 0..counter[c] :
       /\ n < counter[c]
       /\ counter' = [counter EXCEPT ![c] = n]
  /\ drifts' = drifts + 1
  /\ UNCHANGED <<rows, stmt, now>>

Tick ==
  /\ now < MaxTime
  /\ now' = now + 1
  /\ UNCHANGED <<rows, counter, stmt, drifts>>

AddLogEntry(r) ==
  \/ Receive(r)    \/ BeginStatement(r)  \/ Allocate(r)
  \/ Commit(r)     \/ CommitReplyLost(r) \/ DuplicateId(r)
  \/ Abort(r)      \/ ReadBack(r)        \/ Return(r)

Next ==
  \/ \E r \in Request : AddLogEntry(r)
  \/ \E c \in Community : LoseCounter(c)
  \/ Tick

Spec == Init /\ [][Next]_vars

(***************************************************************************)
(* A started call runs on: its own steps need nobody, and the queue on a   *)
(* counter row is first come first served, so a waiting statement gets it. *)
(* A statement that only waits is under no obligation to fail.             *)
(***************************************************************************)
Finish(r) ==
  /\ stmt[r].pc = "allocated"
  /\ Commit(r) \/ DuplicateId(r) \/ Abort(r)

RunsOn(r) == BeginStatement(r) \/ Finish(r) \/ ReadBack(r) \/ Return(r)

FairSpec ==
  /\ Spec
  /\ \A r \in Request : WF_vars(RunsOn(r)) /\ SF_vars(Allocate(r))

-----------------------------------------------------------------------------
(* Every variable holds a value of its type.                               *)
TypeOK ==
  /\ rows \subseteq Row
  /\ counter \in [Community -> Nat]
  /\ stmt \in [Request -> Call]
  /\ now \in Nat
  /\ drifts \in Nat

(* Two rows of one community never share a sync sequence, and two rows     *)
(* never share an entry ID, however statements interleave and counters     *)
(* are lost (the claim of the statement in addLogEntry).                   *)
UniqueRows ==
  \A row, other \in rows :
    \/ row.cid = other.cid
    \/ row.community = other.community /\ row.syncSeq = other.syncSeq
    => row = other

(* The committed sequences of a community are 1, 2, ..., n with no hole:   *)
(* a lost counter, an aborted statement or a duplicate leaves none.        *)
GapFree == \A c \in Community : SeqsOf(c) = 1..HighestSeq(c)

(* While no counter was tampered with, the number a statement allocates    *)
(* under the counter lock is the next free one, so that its insert cannot  *)
(* fail on the (community, sync_seq) index: the snapshot that "recovered"  *)
(* reads may be stale, the result is not.                                  *)
AllocatedIsNext ==
  \A r \in Request :
    drifts = 0 /\ stmt[r].pc = "allocated"
      => stmt[r].syncSeq = HighestSeq(CommunityOf[r]) + 1

(* The position addLogEntry returns is the committed position of the       *)
(* message's entry, whether this call wrote it or an earlier one did.      *)
AnswerIsStored ==
  \A r \in Request :
    stmt[r].pc = "stored" =>
      \E row \in rows : /\ row.cid = CidOf[r]
                        /\ row.syncSeq = stmt[r].syncSeq
                        /\ row.receivedAt = stmt[r].receivedAt

(* Rows become visible in the order of their sync sequences: a commit      *)
(* never lands at or below a sequence a reader may already have passed,    *)
(* and never changes or removes a row.                                     *)
CommitStep ==
  /\ rows \subseteq rows'
  /\ \A row \in rows' \ rows : row.syncSeq > HighestSeq(row.community)

CommitsInOrder == [][CommitStep]_vars

(* The log of each community as CommunityLog sees it.                      *)
LogOf(c) ==
  [i \in 1..HighestSeq(c) |->
     (CHOOSE row \in RowsOf(c) : row.syncSeq = i).cid]

AbstractLog == INSTANCE CommunityLog
                 WITH log <- [c \in Community |-> LogOf(c)]

(* The store implements the append-only log.                               *)
ImplementsCommunityLog == AbstractLog!LogSpec

(* Every call of addLogEntry returns.                                      *)
CallsReturn ==
  \A r \in Request : stmt[r].pc # "idle" ~> stmt[r].pc = "idle"
=============================================================================

-------------------------- MODULE LogEntries_proofs --------------------------
(***************************************************************************)
(* The log entries: the store's invariants hold for every set of           *)
(* communities, entries and messages, every clock and any number of counter*)
(* losses; the store implements the abstract log; pulls of that log        *)
(* deliver, in order and without a gap, what was not committed too late;   *)
(* and the pulls over the store itself (StoredPulls) inherit all of it.    *)
(***************************************************************************)
EXTENDS StoredPulls, FiniteSetTheorems, SequenceTheorems, TLAPS

(* A community's counter is held by one statement at a time.               *)
LockExclusive ==
  \A r, s \in Request :
    /\ stmt[r].pc = "allocated"
    /\ stmt[s].pc = "allocated"
    /\ CommunityOf[r] = CommunityOf[s]
    => r = s

(* A counter never runs ahead of the rows, and without losses it is exactly*)
(* one past them (or missing, when there are none).                        *)
CounterBound ==
  \A c \in Community :
    /\ counter[c] <= HighestSeq(c) + 1
    /\ drifts = 0 => \/ counter[c] = HighestSeq(c) + 1
                     \/ counter[c] = 0 /\ HighestSeq(c) = 0

(* What a statement read through its snapshot, or allocated, is at most one*)
(* past the rows committed by now.                                         *)
CallBound ==
  \A r \in Request :
    /\ stmt[r].pc = "running" =>
         stmt[r].recovered \in 1..(HighestSeq(CommunityOf[r]) + 1)
    /\ stmt[r].pc = "allocated" =>
         stmt[r].syncSeq \in 1..(HighestSeq(CommunityOf[r]) + 1)

HighestIsNat == \A c \in Community : HighestSeq(c) \in Nat

IInv ==
  /\ TypeOK
  /\ HighestIsNat
  /\ GapFree
  /\ UniqueRows
  /\ LockExclusive
  /\ CounterBound
  /\ CallBound
  /\ AllocatedIsNext
  /\ AnswerIsStored

-----------------------------------------------------------------------------
(* The greatest number of a non-empty interval from 1 is its end.          *)
LEMMA MaxOfInterval ==
  ASSUME NEW n \in Nat, n > 0
  PROVE  Max(1..n) = n
BY DEF Max

(* A step that leaves the rows alone leaves the highest sequences alone.   *)
LEMMA SameRows ==
  ASSUME rows' = rows
  PROVE  \A c \in Community : /\ RowsOf(c)' = RowsOf(c)
                              /\ SeqsOf(c)' = SeqsOf(c)
                              /\ HighestSeq(c)' = HighestSeq(c)
BY DEF RowsOf, SeqsOf, HighestSeq

(* A community's committed sequences grow by exactly the next one when a   *)
(* statement inserts its row, and the other communities' do not change.    *)
LEMMA InsertedIsNext ==
  ASSUME IInv, NEW r \in Request, InsertAndCommit(r)
  PROVE  LET c == CommunityOf[r] IN
         /\ stmt[r].syncSeq = HighestSeq(c) + 1
         /\ SeqsOf(c)' = 1..(HighestSeq(c) + 1)
         /\ HighestSeq(c)' = HighestSeq(c) + 1
         /\ \A d \in Community \ {c} : /\ SeqsOf(d)' = SeqsOf(d)
                                       /\ HighestSeq(d)' = HighestSeq(d)
<1> DEFINE c == CommunityOf[r]
           h == HighestSeq(c)
           row == [cid |-> CidOf[r], community |-> c,
                   syncSeq |-> stmt[r].syncSeq,
                   receivedAt |-> stmt[r].receivedAt]
<1>1. c \in Community /\ h \in Nat /\ SeqsOf(c) = 1..h
  BY RequestAssumption DEF IInv, HighestIsNat, GapFree
<1>2. stmt[r].syncSeq \in 1..(h + 1) /\ stmt[r].syncSeq \notin 1..h
  BY <1>1 DEF IInv, CallBound, InsertAndCommit, SeqTaken
<1>3. stmt[r].syncSeq = h + 1
  BY <1>1, <1>2
<1>4. rows' = rows \cup {row}
  BY DEF InsertAndCommit
<1>5. RowsOf(c)' = RowsOf(c) \cup {row}
  BY <1>4 DEF RowsOf
<1>6. SeqsOf(c)' = SeqsOf(c) \cup {h + 1}
  <2>1. row.syncSeq = h + 1
    BY <1>3
  <2>2. SeqsOf(c)' = {x.syncSeq : x \in RowsOf(c)'}
    BY DEF SeqsOf
  <2> HIDE DEF row, h, c
  <2>3. {x.syncSeq : x \in RowsOf(c) \cup {row}} = SeqsOf(c) \cup {h + 1}
    BY <2>1 DEF SeqsOf
  <2> QED BY <1>5, <2>2, <2>3
<1>7. SeqsOf(c)' = 1..(h + 1)
  BY <1>1, <1>6
<1>8. HighestSeq(c)' = h + 1
  <2>1. SeqsOf(c)' # {}
    BY <1>6
  <2>2. Max(1..(h + 1)) = h + 1
    BY <1>1, MaxOfInterval
  <2> QED BY <2>1, <2>2, <1>7 DEF HighestSeq
<1>9. \A d \in Community \ {c} : /\ SeqsOf(d)' = SeqsOf(d)
                                 /\ HighestSeq(d)' = HighestSeq(d)
  <2>1. \A d \in Community \ {c} : RowsOf(d)' = RowsOf(d)
    BY <1>4 DEF RowsOf
  <2> QED BY <2>1 DEF SeqsOf, HighestSeq
<1> QED BY <1>3, <1>7, <1>8, <1>9

(* The empty tables satisfy the inductive invariant.                       *)
LEMMA InitIInv == Init => IInv
<1> SUFFICES ASSUME Init PROVE IInv
  OBVIOUS
<1>1. \A c \in Community : SeqsOf(c) = {} /\ HighestSeq(c) = 0
  BY DEF Init, SeqsOf, RowsOf, HighestSeq
<1>2. \A r \in Request : stmt[r] = Idle
  BY DEF Init
<1>3. TypeOK
  BY DEF Init, TypeOK, Call, Phase, Idle, Row
<1>4. HighestIsNat /\ GapFree
  <2>1. ASSUME NEW c \in Community PROVE SeqsOf(c) = 1..HighestSeq(c)
    <3>1. SeqsOf(c) = {} /\ HighestSeq(c) = 0
      BY <1>1
    <3>2. 1..0 = {}
      OBVIOUS
    <3> QED BY <3>1, <3>2, Zenon
  <2> QED BY <1>1, <2>1 DEF HighestIsNat, GapFree
<1>5. UniqueRows
  BY DEF Init, UniqueRows
<1>6. CounterBound
  <2>1. \A c \in Community : counter[c] = 0 /\ HighestSeq(c) = 0
    BY <1>1 DEF Init
  <2>2. 0 <= 0 + 1
    OBVIOUS
  <2> QED BY <2>1, <2>2, Zenon DEF CounterBound
<1>7. LockExclusive /\ CallBound /\ AllocatedIsNext /\ AnswerIsStored
  BY <1>2 DEF Idle, LockExclusive, CallBound, AllocatedIsNext, AnswerIsStored
<1> QED BY <1>3, <1>4, <1>5, <1>6, <1>7 DEF IInv

(* Every step keeps the types.                                             *)
LEMMA TypeStep == IInv /\ [Next]_vars => TypeOK'
<1> SUFFICES ASSUME IInv, [Next]_vars PROVE TypeOK'
  OBVIOUS
<1> USE DEF IInv, TypeOK, Call, Phase
<1>1. ASSUME NEW r \in Request, Receive(r) PROVE TypeOK'
  BY <1>1 DEF Receive, Idle
<1>2. ASSUME NEW r \in Request, BeginStatement(r) PROVE TypeOK'
  <2>1. HighestSeq(CommunityOf[r]) + 1 \in Nat
    BY RequestAssumption DEF HighestIsNat
  <2> QED BY <1>2, <2>1 DEF BeginStatement
<1>3. ASSUME NEW r \in Request, Allocate(r) PROVE TypeOK'
  <2>1. Greatest(counter[CommunityOf[r]], stmt[r].recovered) \in Nat
    BY RequestAssumption DEF Greatest
  <2> QED BY <1>3, <2>1 DEF Allocate
<1>4. ASSUME NEW r \in Request, InsertAndCommit(r)
      PROVE  /\ rows' \subseteq Row
             /\ counter' \in [Community -> Nat]
             /\ now' \in Nat /\ drifts' \in Nat
  BY <1>4, RequestAssumption DEF InsertAndCommit, Row
<1>5. ASSUME NEW r \in Request, Commit(r) PROVE TypeOK'
  BY <1>4, <1>5 DEF Commit
<1>6. ASSUME NEW r \in Request, CommitReplyLost(r) PROVE TypeOK'
  BY <1>4, <1>6 DEF CommitReplyLost
<1>7. ASSUME NEW r \in Request, DuplicateId(r) PROVE TypeOK'
  BY <1>7 DEF DuplicateId
<1>8. ASSUME NEW r \in Request, Abort(r) PROVE TypeOK'
  BY <1>8 DEF Abort
<1>9. ASSUME NEW r \in Request, ReadBack(r) PROVE TypeOK'
  <2>1. ASSUME NEW row \in rows,
               stmt' = [stmt EXCEPT ![r].pc = "stored",
                                    ![r].syncSeq = row.syncSeq,
                                    ![r].receivedAt = row.receivedAt]
        PROVE  TypeOK'
    <3>1. row.syncSeq \in Nat /\ row.receivedAt \in Nat
      BY DEF Row
    <3>2. UNCHANGED <<rows, counter, now, drifts>>
      BY <1>9 DEF ReadBack
    <3> QED BY <2>1, <3>1, <3>2
  <2>2. CASE stmt' = [stmt EXCEPT ![r].pc = "failed"]
    BY <1>9, <2>2 DEF ReadBack
  <2> QED BY <1>9, <2>1, <2>2 DEF ReadBack
<1>10. ASSUME NEW r \in Request, Return(r) PROVE TypeOK'
  BY <1>10 DEF Return, Idle
<1>11. ASSUME NEW c \in Community, LoseCounter(c) PROVE TypeOK'
  BY <1>11 DEF LoseCounter
<1>12. CASE Tick
  BY <1>12 DEF Tick
<1>13. CASE UNCHANGED vars
  BY <1>13 DEF vars
<1> QED
  BY <1>1, <1>2, <1>3, <1>5, <1>6, <1>7, <1>8, <1>9, <1>10, <1>11, <1>12,
     <1>13 DEF Next, AddLogEntry

(* Inserting a row keeps everything that is said of rows and counters.     *)
LEMMA InsertStep ==
  ASSUME IInv, NEW r \in Request, InsertAndCommit(r)
  PROVE  HighestIsNat' /\ GapFree' /\ UniqueRows' /\ CounterBound'
<1> DEFINE c == CommunityOf[r]
<1>1. /\ stmt[r].syncSeq = HighestSeq(c) + 1
      /\ SeqsOf(c)' = 1..(HighestSeq(c) + 1)
      /\ HighestSeq(c)' = HighestSeq(c) + 1
      /\ \A d \in Community \ {c} : /\ SeqsOf(d)' = SeqsOf(d)
                                    /\ HighestSeq(d)' = HighestSeq(d)
  BY InsertedIsNext
<1>2. c \in Community /\ \A d \in Community : HighestSeq(d) \in Nat
  BY RequestAssumption DEF IInv, HighestIsNat
<1> HIDE DEF c
<1>3. HighestIsNat'
  BY <1>1, <1>2 DEF HighestIsNat
<1>4. GapFree'
  BY <1>1, <1>2 DEF GapFree, IInv
<1>5. UniqueRows'
  <2>1. /\ \A row \in rows : row.cid # CidOf[r]
        /\ \A row \in rows : row.community = CommunityOf[r]
                               => row.syncSeq # stmt[r].syncSeq
    BY DEF InsertAndCommit, IsStored, SeqTaken, SeqsOf, RowsOf
  <2> QED BY <2>1 DEF InsertAndCommit, UniqueRows, IInv
<1>6. CounterBound'
  <2>1. /\ counter' = [counter EXCEPT ![c] = stmt[r].syncSeq + 1]
        /\ drifts' = drifts
    BY DEF InsertAndCommit, c
  <2> QED BY <1>1, <1>2, <2>1 DEF CounterBound, IInv, TypeOK
<1> QED BY <1>3, <1>4, <1>5, <1>6

(* What IInv says of the calls, as one formula.                            *)
CallsInv == LockExclusive /\ CallBound /\ AllocatedIsNext /\ AnswerIsStored

(* A step that leaves the rows alone and moves one call keeps CallsInv when*)
(* the call it moves ends in a state CallsInv allows.                      *)
LEMMA CallStep ==
  ASSUME IInv, rows' = rows, drifts' = drifts, NEW r \in Request,
         NEW new \in Call, stmt' = [stmt EXCEPT ![r] = new],
         new.pc = "running" =>
           new.recovered \in 1..(HighestSeq(CommunityOf[r]) + 1),
         new.pc = "allocated" =>
           /\ ~CounterLocked(CommunityOf[r])
           /\ new.syncSeq \in 1..(HighestSeq(CommunityOf[r]) + 1)
           /\ drifts = 0 => new.syncSeq = HighestSeq(CommunityOf[r]) + 1,
         new.pc = "stored" =>
           \E row \in rows : /\ row.cid = CidOf[r]
                             /\ row.syncSeq = new.syncSeq
                             /\ row.receivedAt = new.receivedAt
  PROVE  CallsInv'
<1>1. \A c \in Community : HighestSeq(c)' = HighestSeq(c)
  BY SameRows
<1>2. \A s \in Request : /\ HighestSeq(CommunityOf[s])' =
                              HighestSeq(CommunityOf[s])
                         /\ stmt'[s] = IF s = r THEN new ELSE stmt[s]
  BY <1>1, RequestAssumption DEF IInv, TypeOK
<1>3. LockExclusive'
  BY <1>2 DEF LockExclusive, CounterLocked, IInv
<1>4. CallBound'
  BY <1>2 DEF CallBound, IInv
<1>5. AllocatedIsNext'
  BY <1>2 DEF AllocatedIsNext, IInv
<1>6. AnswerIsStored'
  BY <1>2 DEF AnswerIsStored, IInv
<1> QED BY <1>3, <1>4, <1>5, <1>6 DEF CallsInv

(* Inserting a row advances no other call's claim on the counter: the      *)
(* inserting statement is the only one that holds it.                      *)
LEMMA InsertCalls ==
  ASSUME IInv, NEW r \in Request, InsertAndCommit(r), NEW new \in Call,
         stmt' = [stmt EXCEPT ![r] = new],
         \/ new = [stmt[r] EXCEPT !.pc = "stored"]
         \/ new.pc = "failed"
  PROVE  CallsInv'
<1> DEFINE c == CommunityOf[r]
<1>1. /\ HighestSeq(c)' = HighestSeq(c) + 1
      /\ \A d \in Community \ {c} : HighestSeq(d)' = HighestSeq(d)
  BY InsertedIsNext
<1>2. /\ c \in Community
      /\ \A d \in Community : HighestSeq(d) \in Nat
      /\ stmt[r].pc = "allocated" /\ drifts' = drifts
  BY RequestAssumption DEF IInv, HighestIsNat, InsertAndCommit
<1> HIDE DEF c
<1>3. \A s \in Request : /\ stmt'[s] = IF s = r THEN new ELSE stmt[s]
                         /\ CommunityOf[s] \in Community
  BY RequestAssumption DEF IInv, TypeOK
<1>4. new.pc \in {"stored", "failed"}
  BY DEF IInv, TypeOK, Call
<1>5. LockExclusive'
  BY <1>3, <1>4 DEF LockExclusive, IInv
<1>6. CallBound'
  <2> SUFFICES ASSUME NEW s \in Request, s # r
               PROVE  /\ stmt[s].pc = "running" => stmt[s].recovered \in
                           1..(HighestSeq(CommunityOf[s])' + 1)
                      /\ stmt[s].pc = "allocated" => stmt[s].syncSeq \in
                           1..(HighestSeq(CommunityOf[s])' + 1)
    BY <1>3, <1>4 DEF CallBound
  <2>1. /\ HighestSeq(CommunityOf[s])' \in Nat
        /\ HighestSeq(CommunityOf[s]) <= HighestSeq(CommunityOf[s])'
    BY <1>1, <1>2, <1>3
  <2>2. /\ stmt[s].pc = "running" => stmt[s].recovered \in
             1..(HighestSeq(CommunityOf[s]) + 1)
        /\ stmt[s].pc = "allocated" => stmt[s].syncSeq \in
             1..(HighestSeq(CommunityOf[s]) + 1)
    BY DEF IInv, CallBound
  <2>3. HighestSeq(CommunityOf[s]) \in Nat
    BY <1>2, <1>3
  <2> QED BY <2>1, <2>2, <2>3
<1>7. AllocatedIsNext'
  <2> SUFFICES ASSUME NEW s \in Request, s # r, drifts = 0,
                      stmt[s].pc = "allocated"
               PROVE  stmt[s].syncSeq = HighestSeq(CommunityOf[s])' + 1
    BY <1>2, <1>3, <1>4 DEF AllocatedIsNext
  <2>1. CommunityOf[s] # c
    BY <1>2 DEF LockExclusive, IInv, c
  <2>2. HighestSeq(CommunityOf[s])' = HighestSeq(CommunityOf[s])
    BY <1>1, <1>3, <2>1
  <2> QED BY <2>2 DEF AllocatedIsNext, IInv
<1>8. AnswerIsStored'
  <2> SUFFICES ASSUME NEW s \in Request, stmt'[s].pc = "stored"
               PROVE  \E row \in rows' :
                        /\ row.cid = CidOf[s]
                        /\ row.syncSeq = stmt'[s].syncSeq
                        /\ row.receivedAt = stmt'[s].receivedAt
    BY DEF AnswerIsStored
  <2>1. CASE s = r
    <3>1. new = [stmt[r] EXCEPT !.pc = "stored"]
      BY <1>3, <2>1
    <3>2. stmt[r] \in Call
      BY DEF IInv, TypeOK
    <3>3. new.syncSeq = stmt[r].syncSeq /\ new.receivedAt = stmt[r].receivedAt
      BY <3>1, <3>2 DEF Call
    <3> DEFINE row == [cid |-> CidOf[r], community |-> CommunityOf[r],
                       syncSeq |-> stmt[r].syncSeq,
                       receivedAt |-> stmt[r].receivedAt]
    <3>4. row \in rows'
      BY DEF InsertAndCommit
    <3>5. /\ row.cid = CidOf[s]
          /\ row.syncSeq = stmt'[s].syncSeq
          /\ row.receivedAt = stmt'[s].receivedAt
      BY <1>3, <2>1, <3>3
    <3> QED BY <3>4, <3>5
  <2>2. CASE s # r
    BY <1>3, <2>2 DEF AnswerIsStored, IInv, InsertAndCommit
  <2> QED BY <2>1, <2>2
<1> QED BY <1>5, <1>6, <1>7, <1>8 DEF CallsInv

(* What the calls hold and know stays true in every step of the store.     *)
LEMMA CallsStep == IInv /\ TypeOK' /\ [Next]_vars => CallsInv'
<1> SUFFICES ASSUME IInv, TypeOK', [Next]_vars PROVE CallsInv'
  OBVIOUS
<1>0. /\ stmt \in [Request -> Call] /\ stmt' \in [Request -> Call]
      /\ counter \in [Community -> Nat]
      /\ CommunityOf \in [Request -> Community]
      /\ \A c \in Community : HighestSeq(c) \in Nat
  BY RequestAssumption DEF IInv, TypeOK, HighestIsNat
<1>1. ASSUME NEW r \in Request, Receive(r) PROVE CallsInv'
  <2> DEFINE new == [Idle EXCEPT !.pc = "received", !.receivedAt = now]
  <2>1. /\ rows' = rows /\ drifts' = drifts
        /\ stmt' = [stmt EXCEPT ![r] = new]
    BY <1>1 DEF Receive
  <2>2. new \in Call /\ new.pc = "received"
    BY DEF IInv, TypeOK, Call, Phase, Idle
  <2> QED BY <2>1, <2>2, CallStep
<1>2. ASSUME NEW r \in Request, BeginStatement(r) PROVE CallsInv'
  <2> DEFINE next == HighestSeq(CommunityOf[r]) + 1
             new == [stmt[r] EXCEPT !.pc = "running", !.recovered = next]
  <2>1. /\ rows' = rows /\ drifts' = drifts
        /\ stmt' = [stmt EXCEPT ![r] = new]
    BY <1>0, <1>2 DEF BeginStatement
  <2>2. next \in Nat /\ next \in 1..next
    BY <1>0
  <2> HIDE DEF next
  <2>3. new \in Call /\ new.pc = "running" /\ new.recovered = next
    BY <1>0, <2>2 DEF Call, Phase
  <2> HIDE DEF new
  <2> QED BY <2>1, <2>2, <2>3, CallStep DEF next
<1>3. ASSUME NEW r \in Request, Allocate(r) PROVE CallsInv'
  <2> DEFINE c == CommunityOf[r]
             seq == Greatest(counter[c], stmt[r].recovered)
             new == [stmt[r] EXCEPT !.pc = "allocated", !.recovered = 0,
                                    !.syncSeq = seq]
  <2>1. /\ rows' = rows /\ drifts' = drifts
        /\ stmt' = [stmt EXCEPT ![r] = new]
        /\ stmt[r].pc = "running" /\ ~CounterLocked(c)
    BY <1>0, <1>3 DEF Allocate
  <2>2. /\ counter[c] \in Nat /\ HighestSeq(c) \in Nat
        /\ counter[c] <= HighestSeq(c) + 1
        /\ drifts = 0 => \/ counter[c] = HighestSeq(c) + 1
                         \/ counter[c] = 0 /\ HighestSeq(c) = 0
        /\ stmt[r].recovered \in 1..(HighestSeq(c) + 1)
    BY <1>0, <2>1 DEF IInv, CounterBound, CallBound
  <2>3. /\ seq \in 1..(HighestSeq(c) + 1)
        /\ drifts = 0 => seq = HighestSeq(c) + 1
    BY <2>2 DEF Greatest
  <2>4. seq \in Nat
    BY <2>2, <2>3
  <2> HIDE DEF seq
  <2>5. new \in Call /\ new.pc = "allocated" /\ new.syncSeq = seq
    BY <1>0, <2>4 DEF Call, Phase
  <2> HIDE DEF new
  <2> QED BY <2>1, <2>3, <2>5, CallStep
<1>4. ASSUME NEW r \in Request, Commit(r) PROVE CallsInv'
  <2> DEFINE new == [stmt[r] EXCEPT !.pc = "stored"]
  <2>1. stmt' = [stmt EXCEPT ![r] = new] /\ new \in Call
    BY <1>0, <1>4 DEF Commit, Call, Phase
  <2> QED BY <1>4, <2>1, InsertCalls DEF Commit
<1>5. ASSUME NEW r \in Request, CommitReplyLost(r) PROVE CallsInv'
  <2> DEFINE new == [stmt[r] EXCEPT !.pc = "failed", !.syncSeq = 0]
  <2>1. stmt' = [stmt EXCEPT ![r] = new] /\ new \in Call /\ new.pc = "failed"
    BY <1>0, <1>5 DEF CommitReplyLost, Call, Phase
  <2> QED BY <1>5, <2>1, InsertCalls DEF CommitReplyLost
<1>6. ASSUME NEW r \in Request, DuplicateId(r) PROVE CallsInv'
  <2> DEFINE new == [stmt[r] EXCEPT !.pc = "duplicate", !.syncSeq = 0]
  <2>1. /\ rows' = rows /\ drifts' = drifts
        /\ stmt' = [stmt EXCEPT ![r] = new]
        /\ new \in Call /\ new.pc = "duplicate"
    BY <1>0, <1>6 DEF DuplicateId, Call, Phase
  <2> QED BY <2>1, CallStep
<1>7. ASSUME NEW r \in Request, Abort(r) PROVE CallsInv'
  <2> DEFINE new == [stmt[r] EXCEPT !.pc = "failed", !.syncSeq = 0]
  <2>1. /\ rows' = rows /\ drifts' = drifts
        /\ stmt' = [stmt EXCEPT ![r] = new]
        /\ new \in Call /\ new.pc = "failed"
    BY <1>0, <1>7 DEF Abort, Call, Phase
  <2> QED BY <2>1, CallStep
<1>8. ASSUME NEW r \in Request, ReadBack(r) PROVE CallsInv'
  <2>1. ASSUME NEW row \in rows, row.cid = CidOf[r],
               stmt' = [stmt EXCEPT ![r].pc = "stored",
                                    ![r].syncSeq = row.syncSeq,
                                    ![r].receivedAt = row.receivedAt]
        PROVE  CallsInv'
    <3> DEFINE new == [stmt[r] EXCEPT !.pc = "stored",
                                      !.syncSeq = row.syncSeq,
                                      !.receivedAt = row.receivedAt]
    <3>1. row.syncSeq \in Nat /\ row.receivedAt \in Nat
      BY DEF IInv, TypeOK, Row
    <3>2. stmt' = [stmt EXCEPT ![r] = new]
      BY <1>0, <2>1
    <3>3. /\ new \in Call /\ new.pc = "stored"
          /\ new.syncSeq = row.syncSeq /\ new.receivedAt = row.receivedAt
      BY <1>0, <3>1 DEF Call, Phase
    <3>4. rows' = rows /\ drifts' = drifts
      BY <1>8 DEF ReadBack
    <3> HIDE DEF new
    <3> QED BY <2>1, <3>2, <3>3, <3>4, CallStep
  <2>2. CASE stmt' = [stmt EXCEPT ![r].pc = "failed"]
    <3> DEFINE new == [stmt[r] EXCEPT !.pc = "failed"]
    <3>1. /\ rows' = rows /\ drifts' = drifts
          /\ stmt' = [stmt EXCEPT ![r] = new]
          /\ new \in Call /\ new.pc = "failed"
      BY <1>0, <1>8, <2>2 DEF ReadBack, Call, Phase
    <3> QED BY <3>1, CallStep
  <2> QED BY <1>8, <2>1, <2>2 DEF ReadBack
<1>9. ASSUME NEW r \in Request, Return(r) PROVE CallsInv'
  <2>1. /\ rows' = rows /\ drifts' = drifts
        /\ stmt' = [stmt EXCEPT ![r] = Idle]
        /\ Idle \in Call /\ Idle.pc = "idle"
    BY <1>9 DEF Return, Idle, Call, Phase
  <2> QED BY <2>1, CallStep
<1>10. CASE stmt' = stmt /\ rows' = rows /\ drifts' >= drifts /\ drifts \in Nat
  <2>1. \A r \in Request : HighestSeq(CommunityOf[r])' =
                             HighestSeq(CommunityOf[r])
    BY <1>10, SameRows, RequestAssumption
  <2>2. drifts' = 0 => drifts = 0
    BY <1>10 DEF TypeOK
  <2> QED
    BY <1>10, <2>1, <2>2 DEF IInv, CallsInv, LockExclusive, CallBound,
                             AllocatedIsNext, AnswerIsStored
<1>11. (\E c \in Community : LoseCounter(c)) \/ Tick \/ UNCHANGED vars
         => stmt' = stmt /\ rows' = rows /\ drifts' >= drifts /\ drifts \in Nat
  BY DEF LoseCounter, Tick, vars, IInv, TypeOK
<1> QED
  BY <1>1, <1>2, <1>3, <1>4, <1>5, <1>6, <1>7, <1>8, <1>9, <1>10, <1>11
  DEF Next, AddLogEntry

(* Every step of the store keeps the inductive invariant.                  *)
LEMMA IInvStep == IInv /\ [Next]_vars => IInv'
<1> SUFFICES ASSUME IInv, [Next]_vars PROVE IInv'
  OBVIOUS
<1>1. TypeOK'
  BY TypeStep
<1>2. LockExclusive' /\ CallBound' /\ AllocatedIsNext' /\ AnswerIsStored'
  BY <1>1, CallsStep DEF CallsInv
<1>3. HighestIsNat' /\ GapFree' /\ UniqueRows' /\ CounterBound'
  <2>1. ASSUME NEW r \in Request, InsertAndCommit(r)
        PROVE  HighestIsNat' /\ GapFree' /\ UniqueRows' /\ CounterBound'
    BY <2>1, InsertStep
  <2>2. ASSUME rows' = rows
        PROVE  HighestIsNat' /\ GapFree' /\ UniqueRows'
    BY <2>2, SameRows DEF IInv, HighestIsNat, GapFree, UniqueRows
  <2>3. ASSUME rows' = rows, counter' = counter, drifts' = drifts
        PROVE  CounterBound'
    BY <2>3, SameRows DEF IInv, CounterBound
  <2>4. ASSUME NEW c \in Community, LoseCounter(c)
        PROVE  rows' = rows /\ CounterBound'
    <3>1. /\ rows' = rows /\ drifts' # 0
          /\ \A d \in Community : counter'[d] <= counter[d]
      BY <2>4 DEF LoseCounter, IInv, TypeOK
    <3>2. \A d \in Community : /\ counter[d] <= HighestSeq(d) + 1
                               /\ HighestSeq(d)' = HighestSeq(d)
                               /\ HighestSeq(d) \in Nat
                               /\ counter'[d] \in Nat /\ counter[d] \in Nat
      BY <1>1, <3>1, SameRows DEF IInv, TypeOK, CounterBound, HighestIsNat
    <3> QED BY <3>1, <3>2 DEF CounterBound
  <2>5. [Next]_vars =>
          \/ \E r \in Request : InsertAndCommit(r)
          \/ \E c \in Community : LoseCounter(c)
          \/ rows' = rows /\ counter' = counter /\ drifts' = drifts
    BY DEF Next, AddLogEntry, Receive, BeginStatement, Allocate, Commit,
           CommitReplyLost, DuplicateId, Abort, ReadBack, Return, Tick, vars
  <2> QED BY <2>1, <2>2, <2>3, <2>4, <2>5
<1> QED BY <1>1, <1>2, <1>3 DEF IInv

-----------------------------------------------------------------------------
(* Every reachable state of the store satisfies the inductive invariant.   *)
THEOREM Invariance == Spec => []IInv
<1>1. Init => IInv
  BY InitIInv
<1>2. IInv /\ [Next]_vars => IInv'
  BY IInvStep
<1> QED BY <1>1, <1>2, PTL DEF Spec

(* The store's variables keep their types.                                 *)
THEOREM TypeCorrect == Spec => []TypeOK
<1>1. IInv => TypeOK
  BY DEF IInv
<1> QED BY <1>1, Invariance, PTL

(* addLogEntry never gives one sequence to two entries of a community, nor *)
(* stores one entry twice, whatever concurrent calls and counter losses do.*)
THEOREM SequencesAreUnique == Spec => []UniqueRows
<1>1. IInv => UniqueRows
  BY DEF IInv
<1> QED BY <1>1, Invariance, PTL

(* The committed sequences of every community are 1..n.                    *)
THEOREM SequencesAreGapFree == Spec => []GapFree
<1>1. IInv => GapFree
  BY DEF IInv
<1> QED BY <1>1, Invariance, PTL

(* Without counter losses no insert can fail on a sequence already taken.  *)
THEOREM AllocationIsFresh == Spec => []AllocatedIsNext
<1>1. IInv => AllocatedIsNext
  BY DEF IInv
<1> QED BY <1>1, Invariance, PTL

(* What addLogEntry answers is the position of the row that is stored.     *)
THEOREM AnswersAreStored == Spec => []AnswerIsStored
<1>1. IInv => AnswerIsStored
  BY DEF IInv
<1> QED BY <1>1, Invariance, PTL

(* Commits of a community become visible in the order of their sequences:  *)
(* a reader that has seen sequence n will never find a later row below it. *)
THEOREM CommitOrder == Spec => CommitsInOrder
<1>1. IInv /\ [Next]_vars => [CommitStep]_vars
  <2> SUFFICES ASSUME IInv, [Next]_vars PROVE CommitStep
    OBVIOUS
  <2>1. ASSUME NEW r \in Request, InsertAndCommit(r) PROVE CommitStep
    <3>1. /\ stmt[r].syncSeq = HighestSeq(CommunityOf[r]) + 1
          /\ HighestSeq(CommunityOf[r]) \in Nat
      BY <2>1, InsertedIsNext, RequestAssumption DEF IInv, HighestIsNat
    <3> QED BY <2>1, <3>1 DEF CommitStep, InsertAndCommit
  <2>2. ASSUME rows' = rows PROVE CommitStep
    BY <2>2 DEF CommitStep
  <2> QED
    BY <2>1, <2>2 DEF Next, AddLogEntry, Receive, BeginStatement, Allocate,
       Commit, CommitReplyLost, DuplicateId, Abort, ReadBack, Return, Tick,
       LoseCounter, vars
<1> QED BY <1>1, Invariance, PTL DEF Spec, CommitsInOrder

-----------------------------------------------------------------------------
(* LogOf lists the rows of a community by their sequences.                 *)
LogListsRows ==
  \A c \in Community :
    /\ LogOf(c) \in Seq(Cid)
    /\ Len(LogOf(c)) = HighestSeq(c)
    /\ \A row \in RowsOf(c) : /\ row.syncSeq \in 1..HighestSeq(c)
                              /\ LogOf(c)[row.syncSeq] = row.cid
    /\ \A i \in 1..HighestSeq(c) : \E row \in RowsOf(c) : row.syncSeq = i

(* Gap free and unique positions make the log and the rows one thing.      *)
LEMMA LogOfRows == IInv => LogListsRows
<1> SUFFICES ASSUME IInv, NEW c \in Community
             PROVE  /\ LogOf(c) \in Seq(Cid)
                    /\ Len(LogOf(c)) = HighestSeq(c)
                    /\ \A row \in RowsOf(c) :
                         /\ row.syncSeq \in 1..HighestSeq(c)
                         /\ LogOf(c)[row.syncSeq] = row.cid
                    /\ \A i \in 1..HighestSeq(c) :
                         \E row \in RowsOf(c) : row.syncSeq = i
  BY DEF LogListsRows
<1> DEFINE h == HighestSeq(c)
<1>1. h \in Nat /\ SeqsOf(c) = 1..h
  BY DEF IInv, HighestIsNat, GapFree
<1>2. \A i \in 1..h : \E row \in RowsOf(c) : row.syncSeq = i
  BY <1>1 DEF SeqsOf
<1>3. \A row \in RowsOf(c) : row.syncSeq \in 1..h
  BY <1>1 DEF SeqsOf
<1>4. \A row, other \in RowsOf(c) :
        row.syncSeq = other.syncSeq => row = other
  BY DEF RowsOf, IInv, UniqueRows
<1>5. \A row \in RowsOf(c) : row.cid \in Cid
  BY DEF RowsOf, IInv, TypeOK, Row
<1>6. LogOf(c) = [i \in 1..h |-> (CHOOSE row \in RowsOf(c) : row.syncSeq = i).cid]
  BY DEF LogOf
<1> HIDE DEF h
<1>7. \A row \in RowsOf(c) : LogOf(c)[row.syncSeq] = row.cid
  BY <1>3, <1>4, <1>6
<1>8. LogOf(c) \in [1..h -> Cid]
  BY <1>2, <1>5, <1>6
<1>9. LogOf(c) \in Seq(Cid) /\ Len(LogOf(c)) = h
  BY <1>1, <1>8
<1> QED BY <1>2, <1>3, <1>7, <1>9 DEF h

(* A commit appends its entry to the log of its community.                 *)
LEMMA CommitAppends ==
  ASSUME IInv, IInv', NEW r \in Request, InsertAndCommit(r)
  PROVE  [c \in Community |-> LogOf(c)]' =
           [[c \in Community |-> LogOf(c)] EXCEPT
              ![CommunityOf[r]] = Append(@, CidOf[r])]
<1> DEFINE c == CommunityOf[r]
           h == HighestSeq(c)
           new == [cid |-> CidOf[r], community |-> c,
                   syncSeq |-> stmt[r].syncSeq,
                   receivedAt |-> stmt[r].receivedAt]
<1>1. c \in Community /\ h \in Nat /\ CidOf[r] \in Cid
  BY RequestAssumption DEF IInv, HighestIsNat
<1>2. /\ stmt[r].syncSeq = h + 1 /\ HighestSeq(c)' = h + 1
      /\ \A d \in Community \ {c} : HighestSeq(d)' = HighestSeq(d)
  BY InsertedIsNext
<1>3. /\ RowsOf(c)' = RowsOf(c) \cup {new}
      /\ \A d \in Community \ {c} : RowsOf(d)' = RowsOf(d)
  BY DEF InsertAndCommit, RowsOf
<1>4. \A d \in Community \ {c} : LogOf(d)' = LogOf(d)
  <2> SUFFICES ASSUME NEW d \in Community \ {c} PROVE LogOf(d)' = LogOf(d)
    OBVIOUS
  <2> DEFINE Listed(set, n) ==
               [i \in 1..n |-> (CHOOSE row \in set : row.syncSeq = i).cid]
  <2>1. /\ LogOf(d) = Listed(RowsOf(d), HighestSeq(d))
        /\ LogOf(d)' = Listed(RowsOf(d)', HighestSeq(d)')
    BY DEF LogOf
  <2>2. HighestSeq(d)' = HighestSeq(d) /\ RowsOf(d)' = RowsOf(d)
    BY <1>2, <1>3
  <2> HIDE DEF Listed
  <2> QED BY <2>1, <2>2
<1>5. LogOf(c)' = Append(LogOf(c), CidOf[r])
  <2>1. /\ LogOf(c) \in Seq(Cid) /\ Len(LogOf(c)) = h
        /\ \A row \in RowsOf(c) : LogOf(c)[row.syncSeq] = row.cid
        /\ \A i \in 1..h : \E row \in RowsOf(c) : row.syncSeq = i
    BY <1>1, LogOfRows DEF LogListsRows
  <2>2. /\ LogOf(c)' \in Seq(Cid) /\ Len(LogOf(c)') = h + 1
        /\ \A row \in RowsOf(c)' : LogOf(c)'[row.syncSeq] = row.cid
    <3>1. LogListsRows'
      BY LogOfRows, PTL
    <3> QED BY <1>1, <1>2, <3>1 DEF LogListsRows
  <2>3. new.cid = CidOf[r] /\ new.syncSeq = h + 1
    BY <1>2
  <2> HIDE DEF new, c, h
  <2>4. LogOf(c)'[h + 1] = CidOf[r]
    BY <1>3, <2>2, <2>3
  <2>5. \A i \in 1..h : LogOf(c)'[i] = LogOf(c)[i]
    BY <1>3, <2>1, <2>2
  <2>6. \A i \in 1..(h + 1) : LogOf(c)'[i] = Append(LogOf(c), CidOf[r])[i]
    BY <1>1, <2>1, <2>4, <2>5, AppendProperties
  <2>7. /\ Append(LogOf(c), CidOf[r]) \in Seq(Cid)
        /\ Len(Append(LogOf(c), CidOf[r])) = h + 1
    BY <1>1, <2>1, AppendProperties
  <2> QED BY <2>2, <2>6, <2>7, SeqEqual
<1> QED BY <1>1, <1>4, <1>5

(* Before the first commit every log is empty.                             *)
LEMMA InitEmpty ==
  ASSUME Init, NEW c \in Community
  PROVE  LogOf(c) = <<>>
<1>1. HighestSeq(c) = 0
  BY DEF Init, HighestSeq, SeqsOf, RowsOf
<1>2. LogOf(c) \in Seq(Cid) /\ Len(LogOf(c)) = 0
  BY <1>1, InitIInv, LogOfRows DEF LogListsRows
<1> QED BY <1>2

(* A commit appends to one log; every other step leaves the logs alone.    *)
LEMMA StoreStepAppends ==
  ASSUME IInv, IInv', [Next]_vars
  PROVE  \/ AbstractLog!LogNext
         \/ [c \in Community |-> LogOf(c)]' = [c \in Community |-> LogOf(c)]
<1> DEFINE Log == [c \in Community |-> LogOf(c)]
<1>1. ASSUME NEW r \in Request, InsertAndCommit(r)
      PROVE  AbstractLog!LogNext
  <2>1. Log' = [Log EXCEPT ![CommunityOf[r]] = Append(@, CidOf[r])]
    BY <1>1, CommitAppends
  <2>2. ~AbstractLog!Stored(CidOf[r])
    <3> SUFFICES ASSUME NEW c \in Community, NEW i \in DOMAIN LogOf(c),
                        LogOf(c)[i] = CidOf[r]
                 PROVE  FALSE
      BY DEF AbstractLog!Stored
    <3>1. PICK row \in RowsOf(c) : row.syncSeq = i
      BY LogOfRows DEF LogListsRows
    <3>2. row \in rows /\ row.cid = CidOf[r]
      BY <3>1, LogOfRows DEF LogListsRows, RowsOf
    <3> QED BY <1>1, <3>2 DEF InsertAndCommit, IsStored
  <2> QED
    BY <2>1, <2>2, RequestAssumption
       DEF AbstractLog!LogNext, AbstractLog!AppendEntry
<1>2. ASSUME rows' = rows PROVE Log' = Log
  BY <1>2 DEF LogOf, HighestSeq, SeqsOf, RowsOf
<1> QED
  BY <1>1, <1>2 DEF Next, AddLogEntry, Receive, BeginStatement, Allocate,
     Commit, CommitReplyLost, DuplicateId, Abort, ReadBack, Return, Tick,
     LoseCounter, vars

(* The store implements the append-only log: its initial state is the empty*)
(* log, a commit appends and every other step leaves the log alone.        *)
THEOREM StoreImplementsLog == Spec => ImplementsCommunityLog
<1> DEFINE Log == [c \in Community |-> LogOf(c)]
<1>1. Init => AbstractLog!LogInit
  BY InitEmpty DEF AbstractLog!LogInit
<1>2. IInv /\ IInv' /\ [Next]_vars => [AbstractLog!LogNext]_Log
  BY StoreStepAppends
<1> QED
  BY <1>1, <1>2, Invariance, PTL
     DEF Spec, ImplementsCommunityLog, AbstractLog!LogSpec

-----------------------------------------------------------------------------
(* Every non-empty set of numbers has a least one.  The library's induction*)
(* rules take a predicate, which the provers cannot instantiate; this one  *)
(* takes a set.                                                            *)
LEMMA LeastNumber ==
  ASSUME NEW S \in SUBSET Nat, S # {}
  PROVE  \E least \in S : \A n \in S : least <= n
<1> DEFINE R == {pair \in Nat \X Nat : pair[1] < pair[2]}
<1>1. IsWellFoundedOn(R, Nat)
  BY NatLessThanWellFounded, Zenon DEF OpToRel
<1>2. ASSUME NEW x \in Nat, NEW y \in Nat, ~(<<y, x>> \in R)
      PROVE  x <= y
  <2>1. ASSUME y < x PROVE <<y, x>> \in R
    <3>1. <<y, x>> \in Nat \X Nat /\ <<y, x>>[1] = y /\ <<y, x>>[2] = x
      OBVIOUS
    <3> QED BY <2>1, <3>1, Zenon
  <2> QED BY <1>2, <2>1
<1> HIDE DEF R
<1>3. \E x \in S : \A y \in S : ~(<<y, x>> \in R)
  BY <1>1, WFMin
<1> QED BY <1>2, <1>3

(* Induction over a set of numbers.                                        *)
LEMMA SetInduction ==
  ASSUME NEW S \in SUBSET Nat, 0 \in S, \A n \in S : n + 1 \in S
  PROVE  S = Nat
<1> SUFFICES ASSUME Nat \ S # {} PROVE FALSE
  OBVIOUS
<1>1. PICK m \in Nat \ S : \A n \in Nat \ S : m <= n
  BY LeastNumber
<1> QED BY <1>1

(* A bounded set of numbers that is not empty has its greatest as Max.     *)
LEMMA MaxOfBounded ==
  ASSUME NEW S \in SUBSET Nat, S # {}, NEW bound \in Nat,
         \A n \in S : n <= bound
  PROVE  Max(S) \in S /\ \A n \in S : n <= Max(S)
<1> DEFINE Above == {m \in Nat : \A n \in S : n <= m}
<1>1. PICK m \in Above : \A other \in Above : m <= other
  BY LeastNumber
<1>2. m \in S
  <2> SUFFICES ASSUME m \notin S PROVE FALSE
    OBVIOUS
  <2>1. \A n \in S : n < m
    OBVIOUS
  <2>2. PICK n \in S : n < m
    BY <2>1
  <2>3. m - 1 \in Nat /\ \A k \in S : k <= m - 1
    BY <2>1, <2>2
  <2> QED BY <1>1, <2>3
<1> QED BY <1>2 DEF Max

(* A finite set whose members have distinct places can be put in order.    *)
LEMMA SortingExists ==
  ASSUME NEW X, NEW place \in [X -> Nat],
         \A x, y \in X : place[x] = place[y] => x = y
  PROVE  \A S \in SUBSET X :
           IsFiniteSet(S) =>
             \E s \in [1..Cardinality(S) -> S] :
               \A i, j \in 1..Cardinality(S) : i < j => place[s[i]] < place[s[j]]
<1> DEFINE Sorts(s, n) == \A i, j \in 1..n : i < j => place[s[i]] < place[s[j]]
           Sortable(n) == \A S \in SUBSET X :
                            IsFiniteSet(S) /\ Cardinality(S) = n =>
                              \E s \in [1..n -> S] : Sorts(s, n)
           Good == {n \in Nat : Sortable(n)}
<1>1. 0 \in Good
  <2> SUFFICES ASSUME NEW S \in SUBSET X PROVE \E s \in [1..0 -> S] : Sorts(s, 0)
    OBVIOUS
  <2>1. [i \in 1..0 |-> i] \in [1..0 -> S]
    OBVIOUS
  <2>2. \A s : Sorts(s, 0)
    OBVIOUS
  <2> HIDE DEF Sorts
  <2> QED BY <2>1, <2>2
<1>2. ASSUME NEW n \in Good PROVE n + 1 \in Good
  <2> SUFFICES ASSUME NEW S \in SUBSET X, IsFiniteSet(S), Cardinality(S) = n + 1
               PROVE  \E s \in [1..(n + 1) -> S] : Sorts(s, n + 1)
    OBVIOUS
  <2>1. S # {}
    BY FS_EmptySet
  <2>2. PICK m \in S : \A x \in S : place[m] <= place[x]
    <3> DEFINE Places == {place[x] : x \in S}
    <3>1. Places \in SUBSET Nat /\ Places # {}
      BY <2>1
    <3>2. PICK least \in Places : \A k \in Places : least <= k
      BY <3>1, LeastNumber
    <3> QED BY <3>2
  <2>3. IsFiniteSet(S \ {m}) /\ Cardinality(S \ {m}) = n
    <3>1. n \in Nat
      OBVIOUS
    <3> HIDE DEF Good
    <3>2. /\ IsFiniteSet(S \ {m})
          /\ Cardinality(S \ {m}) = IF m \in S THEN Cardinality(S) - 1
                                                ELSE Cardinality(S)
      BY FS_RemoveElement, Zenon
    <3> QED BY <3>1, <3>2
  <2>4. PICK t \in [1..n -> S \ {m}] : Sorts(t, n)
    BY <2>3
  <2> DEFINE s == [i \in 1..(n + 1) |-> IF i = 1 THEN m ELSE t[i - 1]]
  <2>5. s \in [1..(n + 1) -> S]
    BY <2>4
  <2>6. \A x \in S \ {m} : place[m] < place[x]
    BY <2>2
  <2>7. Sorts(s, n + 1)
    <3> SUFFICES ASSUME NEW i \in 1..(n + 1), NEW j \in 1..(n + 1), i < j
                 PROVE  place[s[i]] < place[s[j]]
      OBVIOUS
    <3>1. j - 1 \in 1..n /\ s[j] = t[j - 1]
      OBVIOUS
    <3>2. CASE i = 1
      BY <2>4, <2>6, <3>1, <3>2
    <3>3. CASE i # 1
      <4>1. i - 1 \in 1..n /\ s[i] = t[i - 1] /\ i - 1 < j - 1
        BY <3>3
      <4> QED BY <2>4, <3>1, <4>1
    <3> QED BY <3>2, <3>3
  <2> QED BY <2>5, <2>7
<1> HIDE DEF Sorts
<1>3. Good = Nat
  BY <1>1, <1>2, SetInduction
<1> SUFFICES ASSUME NEW S \in SUBSET X, IsFiniteSet(S)
             PROVE  \E s \in [1..Cardinality(S) -> S] : Sorts(s, Cardinality(S))
  BY DEF Sorts
<1>4. Cardinality(S) \in Nat
  BY FS_CardinalityType
<1> QED BY <1>3, <1>4

-----------------------------------------------------------------------------
(* A log as CommunityLog keeps it: no entry stands in it twice.            *)
WellFormed(table) ==
  /\ table \in Seq(Cid)
  /\ \A i, j \in DOMAIN table : table[i] = table[j] => i = j

(* PositionOf, Rows and Matching of a given log and kind.                  *)
At(k, table, seq) == IF k = "sequence" THEN seq ELSE PlaceOf[table[seq]]

RowsIn(table, filter) == {seq \in DOMAIN table : table[seq] \in filter}

MatchingIn(k, table, filter, after, end) ==
  {seq \in RowsIn(table, filter) :
     /\ after < At(k, table, seq)
     /\ IF k = "sequence" THEN seq <= end ELSE StampOf[table[seq]] <= end}

Sorted(k, table, entries) ==
  \A i, j \in DOMAIN entries :
    i < j => At(k, table, entries[i]) < At(k, table, entries[j])

(* Items are the first rows of a set: those they leave stand after them.   *)
FirstRows(k, table, S, items) ==
  /\ items \in Seq(S)
  /\ Sorted(k, table, items)
  /\ \A seq \in S :
       \/ \E i \in DOMAIN items : items[i] = seq
       \/ \A i \in DOMAIN items : At(k, table, items[i]) < At(k, table, seq)

(* Positions are numbers, and no two rows share one.                       *)
LEMMA PositionsDiffer ==
  ASSUME NEW table, WellFormed(table), NEW k
  PROVE  /\ DOMAIN table \subseteq Nat \ {0}
         /\ \A seq \in DOMAIN table : At(k, table, seq) \in Nat \ {0}
         /\ \A seq, other \in DOMAIN table :
              At(k, table, seq) = At(k, table, other) => seq = other
BY PlaceAssumption DEF WellFormed, At

(* InOrder lists all of a set of rows, in the order of their positions.    *)
LEMMA InOrderSorts ==
  ASSUME NEW p \in Puller, WellFormed(Table(p)), NEW S \in SUBSET Rows(p)
  PROVE  /\ Cardinality(S) \in Nat
         /\ InOrder(p, S) \in [1..Cardinality(S) -> S]
         /\ Sorted(kind[p], Table(p), InOrder(p, S))
         /\ \A seq \in S : \E i \in 1..Cardinality(S) : InOrder(p, S)[i] = seq
<1> DEFINE X == DOMAIN Table(p)
           n == Cardinality(S)
           place == [seq \in X |-> At(kind[p], Table(p), seq)]
<1>1. IsFiniteSet(S) /\ S \subseteq X
  <2>1. Len(Table(p)) \in Nat /\ X = 1..Len(Table(p))
    BY DEF WellFormed
  <2>2. IsFiniteSet(1..Len(Table(p)))
    BY <2>1, FS_Interval
  <2>3. S \in SUBSET (1..Len(Table(p)))
    BY <2>1 DEF Rows
  <2> QED BY <2>1, <2>2, <2>3, FS_Subset
<1>2. n \in Nat
  BY <1>1, FS_CardinalityType
<1>3. place \in [X -> Nat] /\ \A x, y \in X : place[x] = place[y] => x = y
  BY PositionsDiffer
<1>4. PICK s \in [1..n -> S] :
        \A i, j \in 1..n : i < j => place[s[i]] < place[s[j]]
  <2> HIDE DEF place, X
  <2> QED BY <1>1, <1>3, SortingExists
<1>5. \A t \in [1..n -> S] :
        Ordered(p, t) <=> Sorted(kind[p], Table(p), t)
  BY DEF Ordered, Sorted, PositionOf, PlaceAt, At
<1>6. Sorted(kind[p], Table(p), s)
  BY <1>1, <1>4 DEF Sorted
<1>7. InOrder(p, S) \in [1..n -> S] /\ Ordered(p, InOrder(p, S))
  BY <1>5, <1>6 DEF InOrder
<1>8. Sorted(kind[p], Table(p), InOrder(p, S))
  BY <1>5, <1>7
<1>9. \A seq \in S : \E i \in 1..n : InOrder(p, S)[i] = seq
  <2> DEFINE t == InOrder(p, S)
  <2>1. \A i, j \in 1..n : t[i] = t[j] => i = j
    <3> SUFFICES ASSUME NEW i \in 1..n, NEW j \in 1..n, t[i] = t[j], i < j
                 PROVE  FALSE
      BY <1>2
    <3>1. place[t[i]] \in Nat /\ place[t[i]] < place[t[j]]
      BY <1>1, <1>3, <1>7, <1>8 DEF Sorted
    <3> QED BY <3>1
  <2>2. t \in Injection(1..n, S)
    BY <1>7, <2>1 DEF Injection, IsInjective
  <2>3. Cardinality(1..n) = Cardinality(S)
    BY <1>2, FS_Interval
  <2>4. t \in Surjection(1..n, S)
    BY <1>1, <2>2, <2>3, FS_Injection
  <2> QED BY <2>4 DEF Surjection
<1> QED BY <1>2, <1>7, <1>8, <1>9

(* The first items of a sequence.                                          *)
LEMMA PrefixProperties ==
  ASSUME NEW S, NEW s, NEW m \in Nat, \A i \in 1..m : s[i] \in S
  PROVE  /\ SubSeq(s, 1, m) \in Seq(S)
         /\ Len(SubSeq(s, 1, m)) = m
         /\ DOMAIN SubSeq(s, 1, m) = 1..m
         /\ \A i \in 1..m : SubSeq(s, 1, m)[i] = s[i]
<1>1. /\ SubSeq(s, 1, m) \in Seq(S)
      /\ Len(SubSeq(s, 1, m)) = IF 1 <= m THEN m - 1 + 1 ELSE 0
      /\ \A i \in 1..(m - 1 + 1) : SubSeq(s, 1, m)[i] = s[1 + i - 1]
  BY SubSeqProperties
<1> QED BY <1>1

(* A page holds the first rows of a set in order, up to its size, and the  *)
(* rows it leaves stand after all of them.                                 *)
LEMMA PageFacts ==
  ASSUME NEW p \in Puller, WellFormed(Table(p)), NEW S \in SUBSET Rows(p),
         NEW size \in Nat, NEW more
  PROVE  LET page == Page(p, S, size, more)
             items == page.items
         IN
         /\ page.hasNextPage = more
         /\ FirstRows(kind[p], Table(p), S, items) /\ Len(items) <= size
         /\ Cardinality(S) > size <=>
              \E seq \in S : \A i \in DOMAIN items : items[i] # seq
         /\ items = <<>> /\ size > 0 => S = {}
<1> DEFINE k == kind[p]
           table == Table(p)
           n == Cardinality(S)
           s == InOrder(p, S)
           m == Min({size, n})
           items == SubSeq(s, 1, m)
<1>1. /\ n \in Nat /\ s \in [1..n -> S] /\ Sorted(k, table, s)
      /\ \A seq \in S : \E i \in 1..n : s[i] = seq
  BY InOrderSorts
<1>2. /\ m \in Nat /\ m <= n /\ m <= size
      /\ n > size => m = size
      /\ ~(n > size) => m = n
  BY <1>1 DEF Min
<1> DEFINE page == Page(p, S, size, more)
<1>3. page.hasNextPage = more /\ page.items = items
  BY DEF Page
<1>4. \A i \in 1..n : At(k, table, s[i]) \in Nat
  BY <1>1, PositionsDiffer DEF Rows
<1> HIDE DEF k, table, n, s, m
<1>5. /\ items \in Seq(S) /\ Len(items) = m /\ DOMAIN items = 1..m
      /\ \A i \in 1..m : items[i] = s[i]
  <2>1. m \in Nat /\ \A i \in 1..m : s[i] \in S
    BY <1>1, <1>2
  <2> QED BY <1>2, <2>1, PrefixProperties
<1> HIDE DEF items, page
<1>6. m \in Nat /\ 1..m \subseteq 1..n /\ DOMAIN s = 1..n
  BY <1>1, <1>2
<1>7. Sorted(k, table, items)
  BY <1>1, <1>5, <1>6 DEF Sorted
<1>8. \A i, j \in 1..n : s[i] = s[j] => i = j
  <2> SUFFICES ASSUME NEW i \in 1..n, NEW j \in 1..n, s[i] = s[j], i < j
               PROVE  FALSE
    BY <1>1
  <2> QED BY <1>1, <1>4 DEF Sorted
<1>9. \A seq \in S :
        \/ \E i \in DOMAIN items : items[i] = seq
        \/ \A i \in DOMAIN items : At(k, table, items[i]) < At(k, table, seq)
  <2> SUFFICES ASSUME NEW seq \in S, \A i \in 1..m : s[i] # seq,
                      NEW i \in 1..m
               PROVE  At(k, table, s[i]) < At(k, table, seq)
    BY <1>5
  <2>1. PICK j \in 1..n : s[j] = seq
    BY <1>1
  <2>2. i < j /\ i \in 1..n
    BY <1>1, <1>6, <2>1
  <2> QED BY <1>1, <2>1, <2>2 DEF Sorted
<1>10. n > size <=> \E seq \in S : \A i \in DOMAIN items : items[i] # seq
  <2>1. ASSUME n > size
        PROVE  \E seq \in S : \A i \in DOMAIN items : items[i] # seq
    <3>1. m + 1 \in 1..n /\ s[m + 1] \in S
      BY <1>1, <1>2, <2>1
    <3>2. \A i \in 1..m : s[i] # s[m + 1]
      BY <1>1, <1>2, <1>8, <3>1
    <3> QED BY <1>5, <3>1, <3>2
  <2>2. ASSUME ~(n > size), NEW seq \in S PROVE \E i \in DOMAIN items : items[i] = seq
    BY <1>1, <1>2, <1>5, <2>2
  <2> QED BY <2>1, <2>2
<1>11. items = <<>> /\ size > 0 => S = {}
  BY <1>1, <1>2, <1>5
<1>12. Len(items) <= size
  BY <1>2, <1>5
<1>13. FirstRows(k, table, S, items)
  BY <1>5, <1>7, <1>9 DEF FirstRows
<1> QED BY <1>3, <1>10, <1>11, <1>12, <1>13 DEF k, table, n, page

-----------------------------------------------------------------------------
(* What a client holds after reading from one position up to another: rows *)
(* in order, the last of them at the end; a row of the stretch is missing  *)
(* only if one that was read stands after it and was committed before it.  *)
Listed(entries, seq) == \E i \in DOMAIN entries : entries[i] = seq

Overtaken(k, table, entries, seq) ==
  \E i \in DOMAIN entries : /\ At(k, table, entries[i]) > At(k, table, seq)
                            /\ entries[i] < seq

Trail(k, table, filter, entries, from, upto) ==
  /\ from \in Nat /\ upto \in Nat
  /\ entries \in Seq(RowsIn(table, filter))
  /\ \A i \in DOMAIN entries : /\ from < At(k, table, entries[i])
                                /\ At(k, table, entries[i]) <= upto
  /\ Sorted(k, table, entries)
  /\ entries = <<>> => upto = from
  /\ entries # <<>> => upto = At(k, table, entries[Len(entries)])
  /\ \A seq \in RowsIn(table, filter) :
       from < At(k, table, seq) /\ At(k, table, seq) <= upto
         => Listed(entries, seq) \/ Overtaken(k, table, entries, seq)

(* Who has received nothing stands where it began.                         *)
LEMMA TrailEmpty ==
  ASSUME NEW k, NEW table, WellFormed(table), NEW filter, NEW from \in Nat
  PROVE  Trail(k, table, filter, <<>>, from, from)
<1>1. \A seq \in RowsIn(table, filter) : At(k, table, seq) \in Nat
  BY PositionsDiffer DEF RowsIn
<1> QED BY <1>1 DEF Trail, Sorted

(* A commit extends the log and takes nothing from what was read: the new  *)
(* row is beyond it or overtaken by the last row of it.                    *)
LEMMA TrailGrows ==
  ASSUME NEW k, NEW table, WellFormed(table), NEW d \in Cid,
         WellFormed(Append(table, d)), NEW filter, NEW entries, NEW from, NEW upto,
         Trail(k, table, filter, entries, from, upto)
  PROVE  Trail(k, Append(table, d), filter, entries, from, upto)
<1> DEFINE longer == Append(table, d)
           n == Len(table)
<1>1. /\ n \in Nat /\ DOMAIN table = 1..n /\ DOMAIN longer = 1..(n + 1)
      /\ \A seq \in 1..n : longer[seq] = table[seq]
  BY AppendProperties DEF WellFormed
<1>2. \A seq \in 1..n : At(k, longer, seq) = At(k, table, seq)
  BY <1>1 DEF At
<1>3. /\ RowsIn(table, filter) \subseteq RowsIn(longer, filter)
      /\ RowsIn(table, filter) \subseteq 1..n
      /\ \A seq \in RowsIn(longer, filter) :
           seq \in RowsIn(table, filter) \/ seq = n + 1
  BY <1>1 DEF RowsIn
<1>4. /\ \A seq \in DOMAIN longer : At(k, longer, seq) \in Nat
      /\ \A seq, other \in DOMAIN longer :
           At(k, longer, seq) = At(k, longer, other) => seq = other
  BY PositionsDiffer
<1> HIDE DEF longer, n
<1>5. /\ from \in Nat /\ upto \in Nat
      /\ entries \in Seq(RowsIn(table, filter))
      /\ \A i \in DOMAIN entries : entries[i] \in 1..n
  BY <1>3 DEF Trail
<1>6. entries \in Seq(RowsIn(longer, filter))
  BY <1>3, <1>5, SeqMonotonic
<1>7. /\ \A i \in DOMAIN entries :
            At(k, longer, entries[i]) = At(k, table, entries[i])
      /\ entries # <<>> => Len(entries) \in DOMAIN entries
  BY <1>2, <1>5
<1>8. Sorted(k, longer, entries)
  BY <1>7 DEF Trail, Sorted
<1>9. ASSUME NEW seq \in RowsIn(longer, filter),
             from < At(k, longer, seq), At(k, longer, seq) <= upto
      PROVE  Listed(entries, seq) \/ Overtaken(k, longer, entries, seq)
  <2>1. CASE seq \in RowsIn(table, filter)
    <3>1. At(k, longer, seq) = At(k, table, seq)
      BY <1>2, <1>3, <2>1
    <3>2. Listed(entries, seq) \/ Overtaken(k, table, entries, seq)
      BY <1>9, <2>1, <3>1 DEF Trail
    <3> QED BY <1>7, <3>1, <3>2 DEF Overtaken
  <2>2. CASE seq = n + 1
    <3>1. seq \in DOMAIN longer /\ At(k, longer, seq) \in Nat
      BY <1>1, <1>4, <2>2
    <3>2. entries # <<>>
      BY <1>5, <1>9, <3>1 DEF Trail
    <3>3. PICK last \in DOMAIN entries : At(k, longer, entries[last]) = upto
      BY <1>7, <3>2 DEF Trail
    <3>4. entries[last] \in 1..n /\ entries[last] \in DOMAIN longer
      BY <1>1, <1>5
    <3>5. entries[last] < seq /\ At(k, longer, entries[last]) # At(k, longer, seq)
      BY <1>1, <1>4, <2>2, <3>1, <3>4
    <3>6. At(k, longer, entries[last]) > At(k, longer, seq)
      BY <1>5, <1>9, <3>1, <3>3, <3>5
    <3> QED BY <3>5, <3>6 DEF Overtaken
  <2> QED BY <1>3, <2>1, <2>2
<1>10. /\ \A i \in DOMAIN entries : /\ from < At(k, longer, entries[i])
                                    /\ At(k, longer, entries[i]) <= upto
       /\ entries = <<>> => upto = from
       /\ entries # <<>> => upto = At(k, longer, entries[Len(entries)])
  BY <1>7 DEF Trail
<1> QED BY <1>5, <1>6, <1>8, <1>9, <1>10 DEF Trail, longer

(* Reading on from where one left off.                                     *)
LEMMA TrailConcat ==
  ASSUME NEW k, NEW table, WellFormed(table), NEW filter, NEW first, NEW second,
         NEW from, NEW middle, NEW upto,
         Trail(k, table, filter, first, from, middle),
         Trail(k, table, filter, second, middle, upto)
  PROVE  Trail(k, table, filter, first \o second, from, upto)
<1> DEFINE all == first \o second
           m == Len(first)
           n == Len(second)
           R == RowsIn(table, filter)
<1>1. /\ first \in Seq(R) /\ second \in Seq(R)
      /\ from \in Nat /\ middle \in Nat /\ upto \in Nat
  BY DEF Trail
<1>2. /\ m \in Nat /\ n \in Nat
      /\ DOMAIN first = 1..m /\ DOMAIN second = 1..n
      /\ first = <<>> <=> m = 0
      /\ second = <<>> <=> n = 0
  BY <1>1
<1>3. /\ all \in Seq(R) /\ Len(all) = m + n /\ DOMAIN all = 1..(m + n)
      /\ \A i \in 1..m : all[i] = first[i]
      /\ \A i \in 1..n : all[m + i] = second[i]
  BY <1>1, <1>2, ConcatProperties
<1>4. \A seq \in R : At(k, table, seq) \in Nat
  BY PositionsDiffer DEF RowsIn
<1> HIDE DEF all, m, n, R
<1>5. \A i \in 1..(m + n) : i \in 1..m \/ \E j \in 1..n : i = m + j
  <2> SUFFICES ASSUME NEW i \in 1..(m + n), i \notin 1..m
               PROVE  i - m \in 1..n /\ i = m + (i - m)
    OBVIOUS
  <2> QED BY <1>2
<1>6. /\ \A i \in 1..m : /\ from < At(k, table, first[i])
                          /\ At(k, table, first[i]) <= middle
                          /\ At(k, table, first[i]) \in Nat
      /\ \A i \in 1..n : /\ middle < At(k, table, second[i])
                          /\ At(k, table, second[i]) <= upto
                          /\ At(k, table, second[i]) \in Nat
  <2>1. (\A i \in 1..m : first[i] \in R) /\ (\A i \in 1..n : second[i] \in R)
    BY <1>1, <1>2
  <2>2. \A i \in 1..m : /\ from < At(k, table, first[i])
                        /\ At(k, table, first[i]) <= middle
    BY <1>2 DEF Trail
  <2>3. \A i \in 1..n : /\ middle < At(k, table, second[i])
                        /\ At(k, table, second[i]) <= upto
    BY <1>2 DEF Trail
  <2> QED BY <1>4, <2>1, <2>2, <2>3
<1>7. from <= middle /\ middle <= upto
  <2>1. ASSUME m # 0 PROVE middle = At(k, table, first[m]) /\ m \in 1..m
    BY <1>2, <2>1 DEF Trail, m
  <2>2. ASSUME n # 0 PROVE upto = At(k, table, second[n]) /\ n \in 1..n
    BY <1>2, <2>2 DEF Trail, n
  <2>3. from <= middle
    BY <1>1, <1>2, <1>6, <2>1 DEF Trail
  <2>4. middle <= upto
    BY <1>1, <1>2, <1>6, <2>2 DEF Trail
  <2> QED BY <2>3, <2>4
<1>8. \A i \in 1..(m + n) : /\ from < At(k, table, all[i])
                            /\ At(k, table, all[i]) <= upto
  <2> SUFFICES ASSUME NEW i \in 1..(m + n)
               PROVE  from < At(k, table, all[i]) /\ At(k, table, all[i]) <= upto
    OBVIOUS
  <2>1. CASE i \in 1..m
    BY <1>1, <1>3, <1>6, <1>7, <2>1
  <2>2. CASE i \notin 1..m
    <3>1. PICK j \in 1..n : i = m + j
      BY <1>5, <2>2
    <3> QED BY <1>1, <1>3, <1>6, <1>7, <3>1
  <2> QED BY <2>1, <2>2
<1>9. Sorted(k, table, all)
  <2> SUFFICES ASSUME NEW i \in 1..(m + n), NEW j \in 1..(m + n), i < j
               PROVE  At(k, table, all[i]) < At(k, table, all[j])
    BY <1>3 DEF Sorted
  <2>1. CASE i \in 1..m /\ j \in 1..m
    BY <1>2, <1>3, <2>1 DEF Trail, Sorted
  <2>2. CASE i \in 1..m /\ j \notin 1..m
    BY <1>1, <1>3, <1>5, <1>6, <2>2
  <2>3. CASE i \notin 1..m
    <3>1. PICK a \in 1..n : i = m + a
      BY <1>5, <2>3
    <3>2. PICK b \in 1..n : j = m + b
      BY <1>2, <1>5, <2>3
    <3>3. a < b
      BY <1>2, <3>1, <3>2
    <3> QED BY <1>2, <1>3, <3>1, <3>2, <3>3 DEF Trail, Sorted
  <2> QED BY <2>1, <2>2, <2>3
<1>10. /\ all = <<>> => upto = from
       /\ all # <<>> => upto = At(k, table, all[Len(all)])
  <2>1. all = <<>> <=> m = 0 /\ n = 0
    BY <1>2, <1>3
  <2>2. CASE n = 0
    <3>1. upto = middle
      BY <1>2, <2>2 DEF Trail
    <3>2. m # 0 => m \in 1..m /\ middle = At(k, table, first[m])
      BY <1>2 DEF Trail, m
    <3> QED BY <1>2, <1>3, <2>1, <2>2, <3>1, <3>2 DEF Trail
  <2>3. CASE n # 0
    <3>1. n \in 1..n /\ upto = At(k, table, second[n])
      BY <1>2, <2>3 DEF Trail, n
    <3> QED BY <1>2, <1>3, <2>1, <2>3, <3>1
  <2> QED BY <2>2, <2>3
<1>11. ASSUME NEW seq \in R, from < At(k, table, seq), At(k, table, seq) <= upto
       PROVE  Listed(all, seq) \/ Overtaken(k, table, all, seq)
  <2>1. /\ \A i \in 1..m : i \in DOMAIN all
        /\ \A i \in 1..n : m + i \in DOMAIN all
    BY <1>2, <1>3
  <2>2. CASE At(k, table, seq) <= middle
    <3>1. Listed(first, seq) \/ Overtaken(k, table, first, seq)
      BY <1>11, <2>2 DEF Trail, R
    <3> QED BY <1>2, <1>3, <2>1, <3>1 DEF Listed, Overtaken
  <2>3. CASE ~(At(k, table, seq) <= middle)
    <3>1. middle < At(k, table, seq)
      BY <1>1, <1>4, <2>3
    <3>2. Listed(second, seq) \/ Overtaken(k, table, second, seq)
      BY <1>11, <3>1 DEF Trail, R
    <3> QED BY <1>2, <1>3, <2>1, <3>2 DEF Listed, Overtaken
  <2> QED BY <2>2, <2>3
<1> QED BY <1>1, <1>3, <1>8, <1>9, <1>10, <1>11 DEF Trail, all, R

(* Where the next page begins after the first m items of one.              *)
After(k, table, from, items, m) ==
  IF m = 0 THEN from ELSE At(k, table, items[m])

(* The first items of a page of matching rows.                             *)
LEMMA TrailPrefix ==
  ASSUME NEW k, NEW table, WellFormed(table), NEW filter, NEW from \in Nat,
         NEW end \in Nat, NEW items,
         FirstRows(k, table, MatchingIn(k, table, filter, from, end), items),
         NEW m \in 0..Len(items)
  PROVE  Trail(k, table, filter, SubSeq(items, 1, m), from,
               After(k, table, from, items, m))
<1> DEFINE R == RowsIn(table, filter)
           S == MatchingIn(k, table, filter, from, end)
           first == SubSeq(items, 1, m)
           upto == After(k, table, from, items, m)
<1>1. /\ Len(items) \in Nat /\ DOMAIN items = 1..Len(items)
      /\ m \in Nat /\ m <= Len(items)
      /\ \A i \in DOMAIN items : items[i] \in S
  BY DEF FirstRows
<1>2. /\ S \subseteq R
      /\ \A seq \in R : At(k, table, seq) \in Nat
      /\ \A seq \in S : from < At(k, table, seq)
  BY PositionsDiffer DEF MatchingIn, RowsIn
<1>3. ASSUME NEW seq \in R, NEW other \in S, from < At(k, table, seq),
             At(k, table, seq) <= At(k, table, other)
      PROVE  seq \in S
  <2>1. /\ DOMAIN table \subseteq Nat
        /\ \A n \in DOMAIN table : table[n] \in Cid
        /\ seq \in DOMAIN table /\ other \in DOMAIN table
    BY <1>2 DEF WellFormed, RowsIn
  <2>2. CASE k = "sequence"
    <3>1. seq <= end
      BY <1>3, <2>1, <2>2 DEF MatchingIn, At
    <3> QED BY <1>3, <2>2, <3>1 DEF MatchingIn
  <2>3. CASE k # "sequence"
    <3>1. PlaceOf[table[seq]] <= PlaceOf[table[other]]
      BY <1>3, <2>3 DEF At
    <3>2. /\ PlaceOf[table[seq]] \in Nat /\ PlaceOf[table[other]] \in Nat
          /\ StampOf[table[seq]] \in Nat /\ StampOf[table[other]] \in Nat
          /\ StampOf[table[other]] < StampOf[table[seq]]
               => PlaceOf[table[other]] < PlaceOf[table[seq]]
      BY <2>1, PlaceAssumption
    <3>3. StampOf[table[other]] <= end
      BY <2>3 DEF MatchingIn
    <3>4. StampOf[table[seq]] <= end
      BY <3>1, <3>2, <3>3
    <3> QED BY <1>3, <2>3, <3>4 DEF MatchingIn
  <2> QED BY <2>2, <2>3
<1> HIDE DEF R, S, first, upto
<1>4. /\ first \in Seq(R) /\ Len(first) = m /\ DOMAIN first = 1..m
      /\ \A i \in 1..m : first[i] = items[i]
  <2>1. \A i \in 1..m : items[i] \in R
    BY <1>1, <1>2
  <2> QED BY <1>1, <2>1, PrefixProperties DEF first
<1>5. \A i \in 1..m : /\ i \in DOMAIN items /\ items[i] \in S
                      /\ At(k, table, items[i]) \in Nat
  BY <1>1, <1>2
<1>6. /\ upto \in Nat
      /\ m = 0 => upto = from
      /\ m # 0 => m \in 1..m /\ upto = At(k, table, items[m])
  BY <1>1, <1>5 DEF upto, After
<1>7. \A i \in 1..m : /\ from < At(k, table, first[i])
                      /\ At(k, table, first[i]) <= upto
  <2> SUFFICES ASSUME NEW i \in 1..m
               PROVE  At(k, table, items[i]) <= At(k, table, items[m]) /\ m # 0
    BY <1>2, <1>4, <1>5, <1>6
  <2>1. i = m \/ i < m
    BY <1>1
  <2> QED BY <1>1, <1>5, <2>1 DEF FirstRows, Sorted
<1>8. Sorted(k, table, first)
  BY <1>4, <1>5 DEF FirstRows, Sorted
<1>9. ASSUME NEW seq \in R, from < At(k, table, seq), At(k, table, seq) <= upto
      PROVE  Listed(first, seq)
  <2>1. m # 0 /\ m \in 1..m
    BY <1>2, <1>6, <1>9
  <2>2. items[m] \in S /\ upto = At(k, table, items[m])
    BY <1>5, <1>6, <2>1
  <2>3. seq \in S
    BY <1>3, <1>9, <2>2
  <2>4. ~(\A i \in DOMAIN items : At(k, table, items[i]) < At(k, table, seq))
    BY <1>2, <1>5, <1>9, <2>1, <2>2
  <2>5. PICK i \in DOMAIN items : items[i] = seq
    BY <2>3, <2>4 DEF FirstRows, S
  <2>6. i <= m
    <3> SUFFICES ASSUME m < i PROVE FALSE
      BY <1>1, <2>5
    <3>1. At(k, table, items[m]) < At(k, table, seq)
      BY <1>1, <1>5, <2>1, <2>5 DEF FirstRows, Sorted
    <3> QED BY <1>2, <1>6, <1>9, <2>2, <3>1
  <2> QED BY <1>1, <1>4, <2>5, <2>6 DEF Listed
<1>10. first = <<>> <=> m = 0
  BY <1>1, <1>4
<1> QED BY <1>4, <1>6, <1>7, <1>8, <1>9, <1>10 DEF Trail, R, first, upto

-----------------------------------------------------------------------------
(* The inductive invariant.  The logs are well formed; a client holds the  *)
(* trail from where it began up to its cursor, and a handler has read the  *)
(* trail from there to where its next page begins, with room for another   *)
(* entry; what a response says of the rows still stands.                   *)
WithinBudget(table, entries) ==
  Len(entries) > 1 =>
    Total([i \in DOMAIN entries |-> SizeOf[table[entries[i]]]]) + MetaBytes
      <= MaxBytes

Room(limit, entries) ==
  limit # NoLimit => \/ Len(entries) < limit
                     \/ limit = 0 /\ entries = <<>>

HasRead(k, table, filter, upto, q) ==
  q.pc = "reading" => /\ Trail(k, table, filter, q.entries, upto, q.next)
                      /\ Room(q.limit, q.entries)
                      /\ WithinBudget(table, q.entries)

Answered(k, table, filter, got, upto, r) ==
  /\ r.entries \in Seq(DOMAIN table)
  /\ r.entries # <<>> => got # <<>>
  /\ WithinBudget(table, r.entries)
  /\ r.limit # NoLimit => Len(r.entries) <= r.limit
  /\ r.hasNextPage => /\ r.entries # <<>>
                      /\ MatchingIn(k, table, filter, upto, r.end) # {}

Client(k, table, filter, q, from, upto, got, r) ==
  /\ Trail(k, table, filter, got, from, upto)
  /\ HasRead(k, table, filter, upto, q)
  /\ Answered(k, table, filter, got, upto, r)

ClientInv(p) == Client(kind[p], Table(p), FilterOf[p], pull[p], base[p],
                       cursor[p], delivered[p], reply[p])

LogsWellFormed == \A c \in Community : WellFormed(log[c])

PullInv ==
  /\ PullTypeOK
  /\ LogsWellFormed
  /\ \A p \in Puller : ClientInv(p)

(* The log a client reads lists each entry once.                           *)
LEMMA TableWellFormed ==
  ASSUME PullInv, NEW p \in Puller
  PROVE  WellFormed(Table(p))
BY PullAssumption DEF PullInv, LogsWellFormed, Table

(* A client nothing happens to.                                            *)
LEMMA ClientUntouched ==
  ASSUME NEW p \in Puller, ClientInv(p), log' = log, kind' = kind,
         pull'[p] = pull[p], base'[p] = base[p], cursor'[p] = cursor[p],
         delivered'[p] = delivered[p], reply'[p] = reply[p]
  PROVE  ClientInv(p)'
BY DEF ClientInv, Table

(* The clients that have not pulled yet satisfy the inductive invariant.   *)
LEMMA PullInitInv == PullInit => PullInv
<1> SUFFICES ASSUME PullInit PROVE PullInv
  OBVIOUS
<1>1. LogsWellFormed /\ log \in [Community -> Seq(Cid)]
  BY DEF PullInit, PullersInit, LogInit, LogsWellFormed, WellFormed
<1>2. /\ base \in [Puller -> Nat] /\ cursor = base
      /\ kind \in [Puller -> {"sequence", "time"}]
  <2>1. {0} \cup {PlaceOf[d] : d \in Cid} \subseteq Nat
    BY PlaceAssumption
  <2> QED BY <2>1 DEF PullInit, PullersInit
<1>3. /\ Quiet \in PullState /\ NoReply \in Response
  BY DEF Quiet, NoReply, PullState, Response
<1>4. PullTypeOK
  BY <1>1, <1>2, <1>3, PullAssumption DEF PullInit, PullersInit, PullTypeOK
<1>5. ASSUME NEW p \in Puller PROVE ClientInv(p)
  <2>1. /\ pull[p] = Quiet /\ reply[p] = NoReply /\ delivered[p] = <<>>
        /\ base[p] \in Nat /\ cursor[p] = base[p]
    BY <1>2 DEF PullInit, PullersInit
  <2>2. WellFormed(Table(p))
    BY <1>1, PullAssumption DEF LogsWellFormed, Table
  <2>3. Trail(kind[p], Table(p), FilterOf[p], <<>>, base[p], base[p])
    BY <2>1, <2>2, TrailEmpty
  <2>4. HasRead(kind[p], Table(p), FilterOf[p], cursor[p], Quiet)
    BY DEF HasRead, Quiet
  <2>5. Answered(kind[p], Table(p), FilterOf[p], <<>>, cursor[p], NoReply)
    BY DEF Answered, NoReply, WithinBudget
  <2> QED BY <2>1, <2>3, <2>4, <2>5 DEF ClientInv, Client
<1> QED BY <1>1, <1>4, <1>5 DEF PullInv

(* A commit extends one log by a new entry.                                *)
LEMMA LogsGrow ==
  ASSUME log \in [Community -> Seq(Cid)], LogsWellFormed, LogNext
  PROVE  /\ log' \in [Community -> Seq(Cid)] /\ LogsWellFormed'
         /\ \A c \in Community :
              \/ log'[c] = log[c]
              \/ \E d \in Cid : /\ log'[c] = Append(log[c], d)
                               /\ WellFormed(Append(log[c], d))
<1>1. PICK c \in Community, d \in Cid : AppendEntry(c, d)
  BY DEF LogNext
<1>2. WellFormed(Append(log[c], d))
  <2>1. /\ log[c] \in Seq(Cid) /\ WellFormed(log[c])
        /\ \A i \in DOMAIN log[c] : log[c][i] # d
    BY <1>1 DEF LogsWellFormed, AppendEntry, Stored
  <2> DEFINE n == Len(log[c])
             longer == Append(log[c], d)
  <2>2. /\ n \in Nat /\ DOMAIN log[c] = 1..n /\ DOMAIN longer = 1..(n + 1)
        /\ longer \in Seq(Cid) /\ longer[n + 1] = d
        /\ \A i \in 1..n : longer[i] = log[c][i]
    BY <2>1, AppendProperties
  <2> HIDE DEF n, longer
  <2>3. ASSUME NEW i \in 1..(n + 1), NEW j \in 1..(n + 1), longer[i] = longer[j]
        PROVE  i = j
    <3>1. \A m \in 1..(n + 1) : m \in 1..n \/ m = n + 1
      BY <2>2
    <3> QED BY <2>1, <2>2, <2>3, <3>1 DEF WellFormed
  <2> QED BY <2>2, <2>3 DEF WellFormed, longer
<1>3. /\ log' \in [Community -> Seq(Cid)]
      /\ log'[c] = Append(log[c], d)
      /\ \A other \in Community : other # c => log'[other] = log[other]
  BY <1>1 DEF AppendEntry
<1>4. LogsWellFormed'
  BY <1>2, <1>3 DEF LogsWellFormed
<1> QED BY <1>2, <1>3, <1>4

(* What holds of a client holds of it after a commit.                      *)
LEMMA BudgetKept ==
  ASSUME NEW table, WellFormed(table), NEW d \in Cid,
         NEW entries \in Seq(DOMAIN table), WithinBudget(table, entries)
  PROVE  WithinBudget(Append(table, d), entries)
<1>1. \A seq \in DOMAIN table : Append(table, d)[seq] = table[seq]
  BY AppendProperties DEF WellFormed
<1>2. \A i \in DOMAIN entries : entries[i] \in DOMAIN table
  OBVIOUS
<1>3. [i \in DOMAIN entries |-> SizeOf[table[entries[i]]]]
        = [i \in DOMAIN entries |-> SizeOf[Append(table, d)[entries[i]]]]
  BY <1>1, <1>2, Zenon
<1> QED BY <1>3 DEF WithinBudget

(* A client stays right when an entry is committed, at whatever point of   *)
(* its loop: a row behind it can only be a late one.                       *)
LEMMA ClientAfterCommit ==
  ASSUME NEW k, NEW table, WellFormed(table), NEW d \in Cid,
         WellFormed(Append(table, d)), NEW filter, NEW q, NEW from, NEW upto,
         NEW got, NEW r, Client(k, table, filter, q, from, upto, got, r)
  PROVE  Client(k, Append(table, d), filter, q, from, upto, got, r)
<1> DEFINE longer == Append(table, d)
<1>1. Trail(k, longer, filter, got, from, upto)
  BY TrailGrows DEF Client
<1>2. /\ DOMAIN table \subseteq DOMAIN longer
      /\ \A seq \in DOMAIN table : longer[seq] = table[seq]
  BY AppendProperties DEF WellFormed
<1>3. HasRead(k, longer, filter, upto, q)
  <2> SUFFICES ASSUME q.pc = "reading"
               PROVE  /\ Trail(k, longer, filter, q.entries, upto, q.next)
                      /\ Room(q.limit, q.entries)
                      /\ WithinBudget(longer, q.entries)
    BY DEF HasRead
  <2>1. /\ Trail(k, table, filter, q.entries, upto, q.next)
        /\ Room(q.limit, q.entries) /\ WithinBudget(table, q.entries)
    BY DEF Client, HasRead
  <2>2. q.entries \in Seq(DOMAIN table)
    <3>1. q.entries \in Seq(RowsIn(table, filter))
      BY <2>1 DEF Trail
    <3> QED BY <3>1, SeqMonotonic DEF RowsIn
  <2> QED BY <2>1, <2>2, TrailGrows, BudgetKept
<1>4. Answered(k, longer, filter, got, upto, r)
  <2>1. /\ r.entries \in Seq(DOMAIN table) /\ WithinBudget(table, r.entries)
        /\ r.hasNextPage => MatchingIn(k, table, filter, upto, r.end) # {}
    BY DEF Client, Answered
  <2>2. r.entries \in Seq(DOMAIN longer) /\ WithinBudget(longer, r.entries)
    BY <1>2, <2>1, BudgetKept, SeqMonotonic
  <2>3. MatchingIn(k, table, filter, upto, r.end)
          \subseteq MatchingIn(k, longer, filter, upto, r.end)
    BY <1>2 DEF MatchingIn, RowsIn, At
  <2> QED BY <2>1, <2>2, <2>3 DEF Client, Answered
<1> QED BY <1>1, <1>3, <1>4 DEF Client

(* A commit keeps the inductive invariant of the pulls.                    *)
LEMMA RowCommitted ==
  ASSUME PullInv, LogNext, UNCHANGED pullVars
  PROVE  PullInv'
<1>1. /\ log' \in [Community -> Seq(Cid)] /\ LogsWellFormed'
      /\ \A c \in Community :
           \/ log'[c] = log[c]
           \/ \E d \in Cid : /\ log'[c] = Append(log[c], d)
                            /\ WellFormed(Append(log[c], d))
  BY LogsGrow DEF PullInv, PullTypeOK
<1>2. PullTypeOK'
  BY <1>1 DEF PullInv, PullTypeOK, pullVars
<1>3. ASSUME NEW p \in Puller PROVE ClientInv(p)'
  <2>1. WellFormed(Table(p)) /\ ClientInv(p)
    BY TableWellFormed DEF PullInv
  <2>2. CASE log'[CommunityAt[p]] = log[CommunityAt[p]]
    BY <2>1, <2>2 DEF ClientInv, Table, pullVars
  <2>3. CASE \E d \in Cid : /\ log'[CommunityAt[p]] = Append(Table(p), d)
                            /\ WellFormed(Append(Table(p), d))
    <3>1. PICK d \in Cid : /\ log'[CommunityAt[p]] = Append(Table(p), d)
                           /\ WellFormed(Append(Table(p), d))
      BY <2>3
    <3>2. Client(kind[p], Append(Table(p), d), FilterOf[p], pull[p], base[p],
                 cursor[p], delivered[p], reply[p])
      BY <2>1, <3>1, ClientAfterCommit DEF ClientInv
    <3>3. Table(p)' = Append(Table(p), d)
      BY <3>1 DEF Table
    <3> QED BY <3>2, <3>3 DEF ClientInv, pullVars
  <2> QED BY <1>1, <2>2, <2>3, PullAssumption DEF Table
<1> QED BY <1>1, <1>2, <1>3 DEF PullInv

(* A pull starts to read from a position with nothing read yet.            *)
LEMMA NothingRead ==
  ASSUME NEW k, NEW table, WellFormed(table), NEW filter, NEW upto \in Nat,
         NEW limit, limit # NoLimit => limit \in Nat, NEW end
  PROVE  HasRead(k, table, filter, upto, Asked(limit, end, upto))
<1>1. Trail(k, table, filter, <<>>, upto, upto)
  BY TrailEmpty
<1>2. Room(limit, <<>>) /\ WithinBudget(table, <<>>)
  BY DEF Room, WithinBudget
<1> QED BY <1>1, <1>2 DEF HasRead, Asked

(* A limit that is sent is a number.                                       *)
LEMMA LimitType == \A limit \in Limits \cup {NoLimit} : limit # NoLimit => limit \in Nat
BY PullAssumption

(* A request by sequence or by cursor begins where the client stands.      *)
LEMMA PullStarted ==
  ASSUME PullInv, NEW p \in Puller, StartPull(p)
  PROVE  PullInv'
<1>1. PICK limit \in Limits, end \in Ends : PullWith(p, limit, end)
  BY DEF StartPull
<1> DEFINE q == Asked(limit, end, cursor[p])
<1>2. /\ pull \in [Puller -> PullState] /\ cursor[p] \in Nat
      /\ limit # NoLimit => limit \in Nat
  BY LimitType DEF PullInv, PullTypeOK
<1>3. /\ pull' = [pull EXCEPT ![p] = q]
      /\ UNCHANGED <<log, kind, base, cursor, delivered, reply, losses>>
  BY <1>1 DEF PullWith
<1>4. PullTypeOK'
  <2>1. q \in PullState
    BY <1>2, PullAssumption DEF PullState, Asked
  <2> HIDE DEF q
  <2> QED BY <1>3, <2>1 DEF PullInv, PullTypeOK
<1>5. ASSUME NEW other \in Puller PROVE ClientInv(other)'
  <2>1. CASE other # p
    <3>1. pull'[other] = pull[other]
      BY <1>2, <1>3, <2>1
    <3> QED BY <1>3, <3>1, ClientUntouched DEF PullInv
  <2>2. CASE other = p
    <3>1. pull'[p] = q
      BY <1>2, <1>3
    <3>2. HasRead(kind[p], Table(p), FilterOf[p], cursor[p], q)
      BY <1>2, NothingRead, TableWellFormed
    <3>3. Table(p)' = Table(p)
      BY <1>3 DEF Table
    <3> QED BY <1>3, <2>2, <3>1, <3>2, <3>3 DEF PullInv, ClientInv, Client
  <2> QED BY <2>1, <2>2
<1>6. LogsWellFormed'
  BY <1>3 DEF PullInv, LogsWellFormed
<1> QED BY <1>4, <1>5, <1>6 DEF PullInv

(* What startTs resolves to is a position of the log, or 0.                *)
LEMMA ResolvedIsNat ==
  ASSUME PullInv, NEW p \in Puller, NEW time
  PROVE  ResolveSyncSeqForTimestamp(p, time) \in Nat
<1> DEFINE before == {seq \in DOMAIN Table(p) :
                        time > 0 /\ StampAt(p, seq) <= time}
           latest == {seq \in before : \A other \in before :
                                        StampAt(p, other) <= StampAt(p, seq)}
<1>1. Len(Table(p)) \in Nat /\ DOMAIN Table(p) = 1..Len(Table(p))
  BY TableWellFormed DEF WellFormed
<1>2. latest \subseteq DOMAIN Table(p)
  OBVIOUS
<1>3. ResolveSyncSeqForTimestamp(p, time) = Max({0} \cup latest)
  BY DEF ResolveSyncSeqForTimestamp
<1> HIDE DEF before, latest
<1>4. /\ {0} \cup latest \in SUBSET Nat /\ {0} \cup latest # {}
      /\ \A n \in {0} \cup latest : n <= Len(Table(p))
  BY <1>1, <1>2
<1>5. Max({0} \cup latest) \in {0} \cup latest
  <2> DEFINE S == {0} \cup latest
  <2> HIDE DEF S
  <2>1. S \in SUBSET Nat /\ S # {} /\ \A n \in S : n <= Len(Table(p))
    BY <1>4 DEF S
  <2>2. Max(S) \in S
    BY <1>1, <2>1, MaxOfBounded
  <2> QED BY <2>2 DEF S
<1> QED BY <1>3, <1>4, <1>5

(* A request by a time begins the client anew, at the place resolved.      *)
LEMMA PullStartedAtTimestamp ==
  ASSUME PullInv, NEW p \in Puller, StartPullAtTimestamp(p)
  PROVE  PullInv'
<1>1. PICK limit \in Limits, end \in Ends, start \in Nat :
        /\ pull' = [pull EXCEPT ![p] = Asked(limit, end, start)]
        /\ base' = [base EXCEPT ![p] = start]
        /\ cursor' = [cursor EXCEPT ![p] = start]
  BY ResolvedIsNat DEF StartPullAtTimestamp
<1> DEFINE q == Asked(limit, end, start)
<1>2. start \in Nat /\ (limit # NoLimit => limit \in Nat)
  BY LimitType
<1>3. /\ pull \in [Puller -> PullState] /\ base \in [Puller -> Nat]
      /\ cursor \in [Puller -> Nat]
  BY DEF PullInv, PullTypeOK
<1>4. /\ pull' = [pull EXCEPT ![p] = q]
      /\ base' = [base EXCEPT ![p] = start]
      /\ cursor' = [cursor EXCEPT ![p] = start]
      /\ UNCHANGED <<log, kind, delivered, reply, losses>>
  BY <1>1 DEF StartPullAtTimestamp
<1>5. PullTypeOK'
  <2>1. q \in PullState
    BY <1>2, PullAssumption DEF PullState, Asked
  <2> HIDE DEF q
  <2> QED BY <1>2, <1>4, <2>1 DEF PullInv, PullTypeOK
<1>6. ClientInv(p)'
  <2>1. WellFormed(Table(p)) /\ ClientInv(p)
    BY TableWellFormed DEF PullInv
  <2>2. delivered[p] = <<>>
    <3> SUFFICES ASSUME delivered[p] # <<>> PROVE FALSE
      OBVIOUS
    <3>1. /\ kind[p] = "sequence" /\ cursor[p] = 0
          /\ Trail(kind[p], Table(p), FilterOf[p], delivered[p], base[p], cursor[p])
      BY <2>1 DEF StartPullAtTimestamp, ClientInv, Client
    <3> DEFINE last == delivered[p][Len(delivered[p])]
    <3>2. last \in RowsIn(Table(p), FilterOf[p]) /\ cursor[p] = At(kind[p], Table(p), last)
      BY <3>1 DEF Trail
    <3>3. last \in DOMAIN Table(p)
      BY <3>2 DEF RowsIn
    <3> QED BY <2>1, <3>1, <3>2, <3>3, PositionsDiffer
  <2>3. HasRead(kind[p], Table(p), FilterOf[p], start, q)
    BY <1>2, <1>3, <2>1, NothingRead
  <2>4. Trail(kind[p], Table(p), FilterOf[p], delivered[p], start, start)
    BY <1>2, <2>1, <2>2, TrailEmpty
  <2>5. Answered(kind[p], Table(p), FilterOf[p], delivered[p], start, reply[p])
    BY <2>1, <2>2 DEF ClientInv, Client, Answered
  <2>6. /\ pull'[p] = q /\ base'[p] = start /\ cursor'[p] = start
        /\ Table(p)' = Table(p)
    <3> HIDE DEF q
    <3>1. pull'[p] = q
      BY <1>3, <1>4
    <3>2. base'[p] = start /\ cursor'[p] = start
      BY <1>2, <1>3, <1>4
    <3>3. Table(p)' = Table(p)
      BY <1>4 DEF Table
    <3> QED BY <3>1, <3>2, <3>3
  <2> QED BY <1>4, <2>3, <2>4, <2>5, <2>6 DEF ClientInv, Client
<1>7. ASSUME NEW other \in Puller, other # p PROVE ClientInv(other)'
  <2>1. /\ pull'[other] = pull[other] /\ base'[other] = base[other]
        /\ cursor'[other] = cursor[other]
    BY <1>3, <1>4, <1>7
  <2> QED BY <1>4, <2>1, ClientUntouched DEF PullInv
<1>8. LogsWellFormed'
  BY <1>4 DEF PullInv, LogsWellFormed
<1> QED BY <1>5, <1>6, <1>7, <1>8 DEF PullInv

(* A lost response leaves the client where it was.                         *)
LEMMA PullLost ==
  ASSUME PullInv, NEW p \in Puller, LosePull(p)
  PROVE  PullInv'
<1>1. /\ pull' = [pull EXCEPT ![p] = Quiet] /\ losses' = losses + 1
      /\ losses < MaxLosses
      /\ UNCHANGED <<log, kind, base, cursor, delivered, reply>>
  BY DEF LosePull
<1>2. pull \in [Puller -> PullState] /\ Quiet \in PullState
  BY DEF PullInv, PullTypeOK, PullState, Quiet
<1>3. PullTypeOK'
  BY <1>1, <1>2, PullAssumption DEF PullInv, PullTypeOK
<1>4. ASSUME NEW other \in Puller PROVE ClientInv(other)'
  <2>1. CASE other # p
    <3>1. pull'[other] = pull[other]
      BY <1>1, <1>2, <2>1
    <3> QED BY <1>1, <3>1, ClientUntouched DEF PullInv
  <2>2. CASE other = p
    <3>1. pull'[p] = Quiet /\ Table(p)' = Table(p)
      BY <1>1, <1>2 DEF Table
    <3>2. HasRead(kind[p], Table(p), FilterOf[p], cursor[p], Quiet)
      BY DEF HasRead, Quiet
    <3> QED BY <1>1, <2>2, <3>1, <3>2 DEF PullInv, ClientInv, Client
  <2> QED BY <2>1, <2>2
<1>5. LogsWellFormed'
  BY <1>1 DEF PullInv, LogsWellFormed
<1> QED BY <1>3, <1>4, <1>5 DEF PullInv

(* What is left to read after the first m items of a page: something, just *)
(* when the page has more items or leaves a row out.                       *)
LEMMA LeftToRead ==
  ASSUME NEW k, NEW table, WellFormed(table), NEW filter, NEW from \in Nat,
         NEW end \in Nat, NEW items,
         FirstRows(k, table, MatchingIn(k, table, filter, from, end), items),
         NEW m \in 0..Len(items)
  PROVE  MatchingIn(k, table, filter, After(k, table, from, items, m), end)
           # {} <=>
           \/ m < Len(items)
           \/ \E seq \in MatchingIn(k, table, filter, from, end) :
                \A i \in DOMAIN items : items[i] # seq
<1> DEFINE S == MatchingIn(k, table, filter, from, end)
           upto == After(k, table, from, items, m)
           left == MatchingIn(k, table, filter, upto, end)
<1>1. upto = IF m = 0 THEN from ELSE At(k, table, items[m])
  BY DEF After
<1>2. /\ Len(items) \in Nat /\ DOMAIN items = 1..Len(items)
      /\ m \in Nat /\ m <= Len(items)
      /\ \A i \in DOMAIN items : items[i] \in S
  BY DEF FirstRows
<1> HIDE DEF upto
<1>3. \A seq \in S : At(k, table, seq) \in Nat /\ from < At(k, table, seq)
  BY PositionsDiffer DEF MatchingIn, RowsIn
<1>4. \A seq \in S : upto < At(k, table, seq) => seq \in left
  BY DEF MatchingIn
<1>5. from <= upto
  BY <1>1, <1>2, <1>3
<1>6. \A seq \in left : seq \in S /\ upto < At(k, table, seq)
  <2> SUFFICES ASSUME NEW seq \in left
               PROVE  seq \in S /\ upto < At(k, table, seq)
    OBVIOUS
  <2>1. /\ upto < At(k, table, seq) /\ At(k, table, seq) \in Nat /\ upto \in Nat
    BY <1>1, <1>2, <1>3, PositionsDiffer DEF MatchingIn, RowsIn
  <2>2. from < At(k, table, seq)
    BY <1>5, <2>1
  <2> QED BY <2>1, <2>2 DEF MatchingIn
<1> HIDE DEF S, left
<1>7. ASSUME m < Len(items) PROVE left # {}
  <2>1. m + 1 \in DOMAIN items /\ items[m + 1] \in S
    BY <1>2, <1>7
  <2>2. upto < At(k, table, items[m + 1])
    <3>1. CASE m = 0
      BY <1>1, <1>3, <2>1, <3>1
    <3>2. CASE m # 0
      BY <1>1, <1>2, <2>1, <3>2 DEF FirstRows, Sorted
    <3> QED BY <3>1, <3>2
  <2> QED BY <1>4, <2>1, <2>2
<1>8. ASSUME NEW seq \in S, \A i \in DOMAIN items : items[i] # seq
      PROVE  left # {}
  <2>1. \A i \in DOMAIN items : At(k, table, items[i]) < At(k, table, seq)
    BY <1>8 DEF FirstRows, S
  <2>2. upto < At(k, table, seq)
    BY <1>1, <1>2, <1>3, <2>1
  <2> QED BY <1>4, <2>2
<1>9. ASSUME NEW seq \in left, ~(m < Len(items)), NEW i \in DOMAIN items,
             items[i] = seq
      PROVE  FALSE
  <2>1. m \in DOMAIN items /\ m # 0 /\ (i = m \/ i < m)
    BY <1>2, <1>9
  <2>2. /\ At(k, table, items[i]) \in Nat /\ At(k, table, items[m]) \in Nat
        /\ upto = At(k, table, items[m])
    BY <1>1, <1>2, <1>3, <2>1
  <2>3. i < m => At(k, table, items[i]) < At(k, table, items[m])
    BY <2>1 DEF FirstRows, Sorted
  <2>4. upto < At(k, table, items[i])
    BY <1>6, <1>9
  <2> QED BY <2>1, <2>2, <2>3, <2>4
<1> QED BY <1>6, <1>7, <1>8, <1>9 DEF S, left, upto

(* Items taken one by one are a prefix appended.                           *)
LEMMA TakenOneByOne ==
  ASSUME NEW s \in Seq(Nat), NEW items, NEW m \in Nat,
         \A i \in 1..m : items[i] \in Nat
  PROVE  LET all == s \o SubSeq(items, 1, m)
             before == s \o SubSeq(items, 1, m - 1)
         IN /\ all \in Seq(Nat) /\ Len(all) = Len(s) + m
            /\ m = 0 => all = s
            /\ m # 0 => /\ before \in Seq(Nat) /\ Len(before) = Len(s) + m - 1
                        /\ all = Append(before, items[m])
            /\ m = 1 => before = s
<1> DEFINE first == SubSeq(items, 1, m)
           shorter == SubSeq(items, 1, m - 1)
           all == s \o first
           before == s \o shorter
           n == Len(s)
<1>1. /\ first \in Seq(Nat) /\ Len(first) = m
      /\ \A i \in 1..m : first[i] = items[i]
  BY PrefixProperties
<1>2. n \in Nat /\ s \in Seq(Nat)
  OBVIOUS
<1>3. ASSUME m # 0
      PROVE  /\ shorter \in Seq(Nat) /\ Len(shorter) = m - 1
             /\ \A i \in 1..(m - 1) : shorter[i] = items[i]
  <2>1. m - 1 \in Nat /\ \A i \in 1..(m - 1) : items[i] \in Nat
    BY <1>3
  <2> QED BY <2>1, PrefixProperties
<1> HIDE DEF first, shorter
<1>4. /\ all \in Seq(Nat) /\ Len(all) = n + m
      /\ \A i \in 1..(n + m) : all[i] = IF i <= n THEN s[i] ELSE first[i - n]
  BY <1>1, ConcatProperties
<1>5. m = 0 => all = s
  <2>1. m = 0 => first = <<>>
    BY <1>1
  <2> QED BY <2>1, ConcatEmptySeq
<1>6. ASSUME m # 0
      PROVE  /\ before \in Seq(Nat) /\ Len(before) = n + m - 1
             /\ \A i \in 1..(n + m - 1) :
                   before[i] = IF i <= n THEN s[i] ELSE shorter[i - n]
  <2>1. shorter \in Seq(Nat) /\ Len(shorter) = m - 1
    BY <1>3, <1>6
  <2>2. /\ before \in Seq(Nat) /\ Len(before) = n + Len(shorter)
        /\ \A i \in 1..(n + Len(shorter)) :
              before[i] = IF i <= n THEN s[i] ELSE shorter[i - n]
    BY <2>1, ConcatProperties
  <2>3. n + Len(shorter) = n + m - 1
    BY <1>2, <2>1
  <2> QED BY <2>2, <2>3
<1>7. m = 1 => before = s
  <2>1. m = 1 => shorter = <<>>
    BY <1>3
  <2> QED BY <2>1, ConcatEmptySeq
<1> HIDE DEF all, before, n
<1>8. ASSUME m # 0 PROVE all = Append(before, items[m])
  <2> DEFINE whole == Append(before, items[m])
  <2>1. m \in 1..m /\ items[m] \in Nat /\ n + m - 1 \in Nat
    BY <1>2, <1>8
  <2>2. /\ whole \in Seq(Nat) /\ Len(whole) = n + m
        /\ \A i \in 1..(n + m - 1) : whole[i] = before[i]
        /\ whole[n + m] = items[m]
    <3>1. before \in Seq(Nat) /\ Len(before) = n + m - 1
      BY <1>6, <1>8
    <3>2. /\ whole \in Seq(Nat) /\ Len(whole) = Len(before) + 1
          /\ \A i \in 1..Len(before) : whole[i] = before[i]
          /\ whole[Len(before) + 1] = items[m]
      BY <2>1, <3>1, AppendProperties
    <3>3. Len(before) + 1 = n + m
      BY <1>2, <3>1
    <3> QED BY <3>1, <3>2, <3>3
  <2> HIDE DEF whole
  <2>3. ASSUME NEW i \in 1..(n + m) PROVE all[i] = whole[i]
    <3>1. CASE i <= n
      <4>1. i \in 1..(n + m - 1)
        BY <1>2, <2>1, <3>1
      <4> QED BY <1>4, <1>6, <1>8, <2>2, <3>1, <4>1
    <3>2. CASE ~(i <= n) /\ i # n + m
      <4>1. i \in 1..(n + m - 1) /\ i - n \in 1..(m - 1) /\ i - n \in 1..m
        BY <1>2, <2>1, <3>2
      <4>2. all[i] = items[i - n]
        BY <1>1, <1>4, <3>2, <4>1
      <4>3. before[i] = items[i - n]
        BY <1>3, <1>6, <1>8, <3>2, <4>1
      <4> QED BY <2>2, <4>1, <4>2, <4>3
    <3>3. CASE i = n + m
      <4>1. ~(i <= n) /\ i - n = m
        BY <1>2, <1>8, <3>3
      <4>2. all[i] = items[m]
        BY <1>1, <1>4, <2>1, <4>1
      <4> QED BY <2>2, <3>3, <4>2
    <3> QED BY <3>1, <3>2, <3>3
  <2> QED
    <3>1. whole \in Seq(Nat) /\ all \in Seq(Nat) /\ Len(all) = Len(whole)
          /\ \A i \in 1..Len(all) : all[i] = whole[i]
      BY <1>4, <2>2, <2>3
    <3>2. all = whole
      BY <3>1, SeqEqual
    <3> QED BY <3>2 DEF whole
<1> QED BY <1>4, <1>5, <1>6, <1>7, <1>8 DEF all, before, first, shorter, n

(* The page a handler reads: the rows that match from its next position.   *)
PageRead(p, page) ==
  LET q == pull[p]
      rest == MatchingIn(kind[p], Table(p), FilterOf[p], q.next, q.end)
      size == PageSizeFor(q.limit)
  IN page = Page(p, rest, size, Cardinality(rest) > size)

TakenFrom(p, page, taken) ==
  LET q == pull[p] IN
  /\ taken \in 0..Len(page.items)
  /\ \A i \in 1..taken : Joins(p, page, q.limit, q.entries, i)
  /\ taken < Len(page.items) =>
       ~Joins(p, page, q.limit, q.entries, taken + 1)

(* What a turn takes of its page: a trail that stays within the limits,    *)
(* with hasNextPage telling whether anything is left to read.              *)
LEMMA TurnTakes ==
  ASSUME PullInv, NEW p \in Puller, pull[p].pc = "reading", NEW page,
         PageRead(p, page), NEW taken, TakenFrom(p, page, taken)
  PROVE  LET q == pull[p]
             entries == q.entries \o SubSeq(page.items, 1, taken)
             hasNextPage == /\ page.items # <<>>
                            /\ taken < Len(page.items) \/ page.hasNextPage
         IN \E upto \in Nat :
              LET left == MatchingIn(kind[p], Table(p), FilterOf[p], upto, q.end) IN
              /\ Trail(kind[p], Table(p), FilterOf[p], entries, cursor[p], upto)
              /\ WithinBudget(Table(p), entries)
              /\ q.limit # NoLimit => Len(entries) <= q.limit
              /\ hasNextPage => entries # <<>> /\ left # {}
              /\ ~hasNextPage /\ q.limit # 0 => left = {}
<1> DEFINE k == kind[p]
           table == Table(p)
           filter == FilterOf[p]
           q == pull[p]
           items == page.items
           S == MatchingIn(k, table, filter, q.next, q.end)
           size == PageSizeFor(q.limit)
           first == SubSeq(items, 1, taken)
           entries == q.entries \o first
           upto == After(k, table, q.next, items, taken)
           left == MatchingIn(k, table, filter, upto, q.end)
           before == q.entries \o SubSeq(items, 1, taken - 1)
           more == items # <<>> /\ (taken < Len(items) \/ page.hasNextPage)
<1>1. /\ WellFormed(table) /\ S \in SUBSET Rows(p)
      /\ q.limit \in Limits \cup {NoLimit} /\ q.end \in Nat /\ q.next \in Nat
      /\ q.entries \in Seq(Nat)
  BY TableWellFormed
     DEF PullInv, PullTypeOK, PullState, MatchingIn, RowsIn, Rows
<1>2. /\ size \in Nat /\ PageSize \in Nat \ {0}
      /\ q.limit # NoLimit => q.limit \in Nat
      /\ q.limit # 0 => size > 0
      /\ q.limit = 0 /\ q.limit # NoLimit => size = 0
  BY <1>1, LimitType, PullAssumption DEF PageSizeFor
<1>3. /\ page.hasNextPage = (Cardinality(S) > size)
      /\ FirstRows(k, table, S, items) /\ Len(items) <= size
      /\ Cardinality(S) > size <=>
           \E seq \in S : \A i \in DOMAIN items : items[i] # seq
      /\ items = <<>> /\ size > 0 => S = {}
  <2>1. page = Page(p, S, size, Cardinality(S) > size)
    BY DEF PageRead
  <2> DEFINE runsOver == Cardinality(S) > size
  <2> HIDE DEF S, size, runsOver
  <2>2. /\ page.hasNextPage = runsOver
        /\ FirstRows(k, table, S, items) /\ Len(items) <= size
        /\ Cardinality(S) > size <=>
             \E seq \in S : \A i \in DOMAIN items : items[i] # seq
        /\ items = <<>> /\ size > 0 => S = {}
    BY <1>1, <1>2, <2>1, PageFacts DEF runsOver
  <2> QED BY <2>2 DEF runsOver
<1>4. /\ Trail(k, table, filter, q.entries, cursor[p], q.next)
      /\ Room(q.limit, q.entries) /\ WithinBudget(table, q.entries)
  BY DEF PullInv, ClientInv, Client, HasRead
<1>5. Trail(k, table, filter, entries, cursor[p], upto)
  <2>1. Trail(k, table, filter, first, q.next, upto)
    BY <1>1, <1>3, TrailPrefix DEF TakenFrom
  <2> HIDE DEF first, upto, k, table, filter
  <2> QED BY <1>1, <1>4, <2>1, TrailConcat
<1> HIDE DEF k, table, filter, S, size
<1>6. left # {} <=> taken < Len(items) \/ page.hasNextPage
  <2>1. taken \in 0..Len(items)
    BY DEF TakenFrom
  <2> HIDE DEF q, items
  <2>2. left # {} <=>
          \/ taken < Len(items)
          \/ \E seq \in S : \A i \in DOMAIN items : items[i] # seq
    BY <1>1, <1>3, <2>1, LeftToRead DEF S
  <2> QED BY <1>3, <2>2
<1>7. /\ Len(items) \in Nat /\ taken \in Nat /\ taken <= Len(items)
      /\ items = <<>> <=> Len(items) = 0
      /\ DOMAIN items = 1..Len(items) /\ \A i \in DOMAIN items : items[i] \in Nat
  <2>1. S \subseteq Nat
    BY <1>1, PositionsDiffer DEF S, MatchingIn, RowsIn
  <2>2. taken \in 0..Len(items)
    BY DEF TakenFrom
  <2> HIDE DEF items
  <2> QED BY <1>3, <2>1, <2>2 DEF FirstRows
<1>8. /\ entries \in Seq(Nat) /\ Len(entries) = Len(q.entries) + taken
      /\ Len(q.entries) \in Nat
      /\ taken = 0 => entries = q.entries
      /\ taken # 0 => /\ Len(before) = Len(q.entries) + taken - 1
                      /\ before \in Seq(Nat)
                      /\ entries = Append(before, items[taken])
      /\ taken = 1 => before = q.entries
  <2>1. taken \in Nat /\ \A i \in 1..taken : items[i] \in Nat
    BY <1>7
  <2>2. q.entries \in Seq(Nat) /\ Len(q.entries) \in Nat
    BY <1>1
  <2> DEFINE s == q.entries
  <2> HIDE DEF items, q, s
  <2>3. LET all == s \o SubSeq(items, 1, taken)
            less == s \o SubSeq(items, 1, taken - 1)
        IN /\ all \in Seq(Nat) /\ Len(all) = Len(s) + taken
           /\ taken = 0 => all = s
           /\ taken # 0 => /\ less \in Seq(Nat) /\ Len(less) = Len(s) + taken - 1
                           /\ all = Append(less, items[taken])
           /\ taken = 1 => less = s
    BY <2>1, <2>2, TakenOneByOne DEF s
  <2> QED BY <2>2, <2>3 DEF s
<1>9. ASSUME taken # 0
       PROVE  /\ ~Refused(p, before, items[taken])
              /\ taken > 1 => ~StopsAt(p, before, q.limit)
  <2>1. taken \in 1..taken
    BY <1>7, <1>9
  <2>2. Joins(p, page, q.limit, q.entries, taken)
    BY <2>1 DEF TakenFrom
  <2> HIDE DEF q
  <2> QED BY <2>2 DEF Joins
<1> HIDE DEF first, upto, before, entries
<1>10. WithinBudget(table, entries)
  <2>1. CASE taken = 0
    BY <1>4, <1>8, <2>1
  <2>2. CASE taken # 0
    <3>1. CASE before = <<>>
      <4>1. Len(entries) = 1
        BY <1>7, <1>8, <2>2, <3>1
      <4> QED BY <4>1 DEF WithinBudget
    <3>2. CASE before # <<>>
      <4>1. Fits(p, entries)
        BY <1>8, <1>9, <2>2, <3>2 DEF Refused
      <4> QED BY <4>1 DEF WithinBudget, Fits, Bytes, table
    <3> QED BY <3>1, <3>2
  <2> QED BY <2>1, <2>2
<1>11. ASSUME q.limit # NoLimit PROVE Len(entries) <= q.limit
  <2>1. CASE taken = 0
    BY <1>2, <1>4, <1>8, <1>11, <2>1 DEF Room
  <2>2. CASE taken = 1
    <3>1. q.limit # 0
      BY <1>2, <1>3, <1>7, <1>11, <2>2
    <3>2. Len(q.entries) < q.limit
      BY <1>4, <1>11, <3>1 DEF Room
    <3> QED BY <1>2, <1>8, <1>11, <2>2, <3>2
  <2>3. CASE taken > 1
    <3>1. ~StopsAt(p, before, q.limit) /\ Len(before) = Len(q.entries) + taken - 1
      BY <1>7, <1>8, <1>9, <2>3
    <3>2. ~(Len(before) >= q.limit)
      BY <1>11, <3>1 DEF StopsAt
    <3> QED BY <1>2, <1>7, <1>8, <1>11, <3>1, <3>2
  <2> QED BY <1>7, <2>1, <2>2, <2>3
<1>12. ASSUME more PROVE entries # <<>>
  <2>1. CASE taken = 0
    <3>1. taken < Len(items)
      BY <1>7, <1>12, <2>1
    <3>2. ~Joins(p, page, q.limit, q.entries, 1)
      BY <2>1, <3>1 DEF TakenFrom
    <3>3. q.entries \o SubSeq(items, 1, 1 - 1) = entries
      BY <2>1 DEF first, entries
    <3>4. Refused(p, q.entries \o SubSeq(items, 1, 1 - 1), items[1])
      <4> HIDE DEF q
      <4> QED BY <3>2 DEF Joins
    <3> QED BY <3>3, <3>4 DEF Refused
  <2>2. CASE taken # 0
    BY <1>7, <1>8, <2>2
  <2> QED BY <2>1, <2>2
<1>13. upto \in Nat
  BY <1>5 DEF Trail
<1>14. ASSUME q.limit # 0, ~more PROVE left = {}
  <2>1. CASE items = <<>>
    <3>1. S = {} /\ ~(taken < Len(items))
      BY <1>2, <1>3, <1>7, <1>14, <2>1
    <3>2. ~page.hasNextPage
      BY <1>3, <3>1
    <3> HIDE DEF items, left
    <3> QED BY <1>6, <3>1, <3>2
  <2>2. CASE items # <<>>
    <3> HIDE DEF items, left
    <3> QED BY <1>6, <1>14, <2>2
  <2> QED BY <2>1, <2>2
<1>15. more => left # {}
  BY <1>6
<1> HIDE DEF more, left, q, items
<1>16. /\ upto \in Nat
       /\ Trail(k, table, filter, entries, cursor[p], upto)
       /\ WithinBudget(table, entries)
       /\ q.limit # NoLimit => Len(entries) <= q.limit
       /\ more => entries # <<>> /\ left # {}
       /\ ~more /\ q.limit # 0 => left = {}
  BY <1>5, <1>10, <1>11, <1>12, <1>13, <1>14, <1>15
<1> QED
  BY <1>16, Zenon DEF entries, first, k, table, filter, q, items, left, more

(* What a turn does: it goes round again, or it responds.                  *)
GoesRound(p, entries, upto) ==
  /\ entries # <<>> /\ Room(pull[p].limit, entries)
  /\ pull' = [pull EXCEPT ![p].next = upto, ![p].entries = entries]
  /\ UNCHANGED <<delivered, cursor, reply>>

Responds(p, entries, upto, more) ==
  /\ pull' = [pull EXCEPT ![p] = Quiet]
  /\ delivered' = [delivered EXCEPT ![p] = @ \o entries]
  /\ cursor' = [cursor EXCEPT ![p] = upto]
  /\ reply' = [reply EXCEPT ![p] =
                 [entries |-> entries, hasNextPage |-> more,
                  limit |-> pull[p].limit, end |-> pull[p].end]]

ReadUpTo(p, entries, upto, more) ==
  LET left == MatchingIn(kind[p], Table(p), FilterOf[p], upto, pull[p].end) IN
  /\ Trail(kind[p], Table(p), FilterOf[p], entries, cursor[p], upto)
  /\ WithinBudget(Table(p), entries)
  /\ pull[p].limit # NoLimit => Len(entries) <= pull[p].limit
  /\ more \in BOOLEAN
  /\ more => entries # <<>> /\ left # {}
  /\ ~more /\ pull[p].limit # 0 => left = {}

(* What a turn of the loop has read is a trail up to the last row it took, *)
(* and either the loop goes round from there or the response says so.      *)
LEMMA TurnOutcome ==
  ASSUME PullInv, NEW p \in Puller, pull[p].pc = "reading", NEW page,
         PageRead(p, page), Turn(p, page)
  PROVE  /\ \E entries, upto, more :
              /\ ReadUpTo(p, entries, upto, more)
              /\ GoesRound(p, entries, upto) \/ Responds(p, entries, upto, more)
         /\ UNCHANGED <<log, kind, base, losses>>
<1> DEFINE q == pull[p]
           Entries(taken) == q.entries \o SubSeq(page.items, 1, taken)
           More(taken) == /\ page.items # <<>>
                          /\ taken < Len(page.items) \/ page.hasNextPage
           GoesOn(taken) == /\ More(taken) /\ taken = Len(page.items)
                            /\ ~StopsAt(p, Entries(taken), q.limit)
<1>1. PICK taken \in 0..Len(page.items) :
        /\ \A i \in 1..taken : Joins(p, page, q.limit, q.entries, i)
        /\ taken < Len(page.items) =>
             ~Joins(p, page, q.limit, q.entries, taken + 1)
        /\ IF GoesOn(taken)
           THEN /\ pull' = [pull EXCEPT ![p].next = PositionOf(p, Last(Entries(taken))),
                                        ![p].entries = Entries(taken)]
                /\ UNCHANGED <<delivered, cursor, reply>>
           ELSE Respond(p, Entries(taken), More(taken))
        /\ UNCHANGED <<log, kind, base, losses>>
  BY DEF Turn
<1> DEFINE entries == Entries(taken)
           more == More(taken)
<1>2. TakenFrom(p, page, taken)
  BY <1>1 DEF TakenFrom
<1>3. PICK upto \in Nat : ReadUpTo(p, entries, upto, more)
  <2> DEFINE left(upto) ==
               MatchingIn(kind[p], Table(p), FilterOf[p], upto, q.end)
  <2>1. more \in BOOLEAN
    OBVIOUS
  <2>2. \E upto \in Nat :
          /\ Trail(kind[p], Table(p), FilterOf[p], entries, cursor[p], upto)
          /\ WithinBudget(Table(p), entries)
          /\ q.limit # NoLimit => Len(entries) <= q.limit
          /\ more => entries # <<>> /\ left(upto) # {}
          /\ ~more /\ q.limit # 0 => left(upto) = {}
    BY <1>2, TurnTakes
  <2> HIDE DEF entries, more
  <2> QED BY <2>1, <2>2 DEF ReadUpTo
<1>4. /\ IF GoesOn(taken)
         THEN /\ pull' = [pull EXCEPT ![p].next = PositionOf(p, Last(entries)),
                                      ![p].entries = entries]
              /\ UNCHANGED <<delivered, cursor, reply>>
         ELSE Respond(p, entries, more)
      /\ UNCHANGED <<log, kind, base, losses>>
      /\ GoesOn(taken) => more /\ ~StopsAt(p, entries, q.limit)
  BY <1>1
<1> HIDE DEF entries, more, GoesOn, q
<1>5. IF entries = <<>> THEN cursor[p] = upto
                        ELSE PositionOf(p, Last(entries)) = upto
  BY <1>3 DEF ReadUpTo, Trail, PositionOf, PlaceAt, At, Last
<1>6. CASE GoesOn(taken)
  <2>1. entries # <<>> /\ ~StopsAt(p, entries, q.limit)
    BY <1>3, <1>4, <1>6 DEF ReadUpTo
  <2>2. Room(q.limit, entries)
    <3>1. q.limit # NoLimit => ~(Len(entries) >= q.limit) /\ q.limit \in Nat
      BY <2>1, LimitType DEF StopsAt, PullInv, PullTypeOK, PullState, q
    <3>2. Len(entries) \in Nat
      BY <1>3 DEF ReadUpTo, Trail
    <3> QED BY <3>1, <3>2 DEF Room
  <2>3. GoesRound(p, entries, upto)
    BY <1>4, <1>5, <1>6, <2>1, <2>2 DEF GoesRound, q
  <2> QED BY <1>3, <1>4, <2>3
<1>7. CASE ~GoesOn(taken)
  <2>1. Responds(p, entries, upto, more)
    <3>1. Respond(p, entries, more)
      BY <1>4, <1>7
    <3>2. cursor' = [cursor EXCEPT ![p] = upto]
      BY <1>5, <3>1 DEF Respond
    <3> QED BY <3>1, <3>2 DEF Respond, Responds
  <2> QED BY <1>3, <1>4, <2>1
<1> QED BY <1>6, <1>7

(* A trail is a sequence of rows between two positions.                    *)
LEMMA TrailTypes ==
  ASSUME NEW k, NEW table, WellFormed(table), NEW filter, NEW entries,
         NEW from, NEW upto, Trail(k, table, filter, entries, from, upto)
  PROVE  /\ entries \in Seq(Nat) /\ entries \in Seq(DOMAIN table)
         /\ Len(entries) \in Nat /\ from \in Nat /\ upto \in Nat
<1>1. entries \in Seq(RowsIn(table, filter)) /\ from \in Nat /\ upto \in Nat
  BY DEF Trail
<1>2. /\ RowsIn(table, filter) \subseteq DOMAIN table
      /\ DOMAIN table \subseteq Nat
  BY DEF RowsIn, WellFormed
<1>3. entries \in Seq(DOMAIN table)
  BY <1>1, <1>2, SeqMonotonic
<1>4. entries \in Seq(Nat)
  BY <1>2, <1>3, SeqMonotonic
<1> QED BY <1>1, <1>3, <1>4

(* A turn of either loop keeps the inductive invariant.                    *)
LEMMA PageTurned ==
  ASSUME PullInv, NEW p \in Puller, pull[p].pc = "reading", NEW page,
         PageRead(p, page), Turn(p, page)
  PROVE  PullInv'
<1>1. PICK entries, upto, more :
        /\ ReadUpTo(p, entries, upto, more)
        /\ GoesRound(p, entries, upto) \/ Responds(p, entries, upto, more)
  BY TurnOutcome
<1>2. UNCHANGED <<log, kind, base, losses>>
  BY TurnOutcome
<1> DEFINE k == kind[p]
           table == Table(p)
           filter == FilterOf[p]
           q == pull[p]
<1>3. /\ pull \in [Puller -> PullState] /\ cursor \in [Puller -> Nat]
      /\ delivered \in [Puller -> Seq(Nat)] /\ reply \in [Puller -> Response]
      /\ WellFormed(table) /\ Table(p)' = table
  BY <1>2, TableWellFormed DEF PullInv, PullTypeOK, Table
<1>4. q \in PullState /\ Quiet \in PullState
  BY <1>3 DEF PullState, Quiet
<1>5. /\ Trail(k, table, filter, entries, cursor[p], upto)
      /\ WithinBudget(table, entries)
      /\ q.limit # NoLimit => Len(entries) <= q.limit
      /\ more \in BOOLEAN
      /\ more => /\ entries # <<>>
                 /\ MatchingIn(k, table, filter, upto, q.end) # {}
  BY <1>1 DEF ReadUpTo
<1>6. /\ entries \in Seq(Nat) /\ entries \in Seq(DOMAIN table)
      /\ Len(entries) \in Nat /\ upto \in Nat
  BY <1>3, <1>5, TrailTypes
<1>7. /\ Trail(k, table, filter, delivered[p], base[p], cursor[p])
      /\ Answered(k, table, filter, delivered[p], cursor[p], reply[p])
  BY DEF PullInv, ClientInv, Client
<1>8. LogsWellFormed'
  BY <1>2 DEF PullInv, LogsWellFormed
<1> HIDE DEF k, table, filter
<1>9. CASE GoesRound(p, entries, upto)
  <2> DEFINE q2 == [q EXCEPT !.next = upto, !.entries = entries]
  <2>1. q2 \in PullState
    BY <1>4, <1>6 DEF PullState
  <2>2. /\ q2.next = upto /\ q2.entries = entries /\ q2.limit = q.limit
    BY <1>4 DEF PullState
  <2>3. /\ pull' = [pull EXCEPT ![p] = q2] /\ Room(q.limit, entries)
        /\ UNCHANGED <<delivered, cursor, reply>>
    <3>1. pull' = [pull EXCEPT ![p].next = upto, ![p].entries = entries]
      BY <1>9 DEF GoesRound
    <3>2. pull' = [pull EXCEPT ![p] = q2]
      BY <1>3, <3>1 DEF PullState
    <3> QED BY <1>9, <3>2 DEF GoesRound
  <2> HIDE DEF q2
  <2>4. pull' \in [Puller -> PullState] /\ pull'[p] = q2
        /\ \A other \in Puller : other # p => pull'[other] = pull[other]
    BY <1>3, <2>1, <2>3
  <2>5. PullTypeOK'
    BY <1>2, <2>3, <2>4 DEF PullInv, PullTypeOK
  <2>6. ClientInv(p)'
    <3>1. HasRead(k, table, filter, cursor[p], q2)
      BY <1>5, <2>2, <2>3 DEF HasRead
    <3>2. Client(k, table, filter, q2, base[p], cursor[p], delivered[p], reply[p])
      BY <1>7, <3>1 DEF Client
    <3> QED BY <1>2, <1>3, <2>3, <2>4, <3>2 DEF ClientInv, k, table, filter
  <2>7. ASSUME NEW other \in Puller, other # p PROVE ClientInv(other)'
    BY <1>2, <2>3, <2>4, <2>7, ClientUntouched DEF PullInv
  <2> QED BY <1>8, <2>5, <2>6, <2>7 DEF PullInv
<1>10. CASE Responds(p, entries, upto, more)
  <2> DEFINE r == [entries |-> entries, hasNextPage |-> more,
                   limit |-> q.limit, end |-> q.end]
             got == delivered[p] \o entries
  <2>1. r \in Response /\ got \in Seq(Nat)
    BY <1>3, <1>4, <1>5, <1>6 DEF Response, PullState
  <2>2. /\ pull' = [pull EXCEPT ![p] = Quiet]
        /\ delivered' = [delivered EXCEPT ![p] = got]
        /\ cursor' = [cursor EXCEPT ![p] = upto]
        /\ reply' = [reply EXCEPT ![p] = r]
    BY <1>10 DEF Responds
  <2>3. Answered(k, table, filter, got, upto, r)
    <3>1. entries # <<>> => got # <<>>
      BY <1>3, <1>6
    <3> QED BY <1>5, <1>6, <3>1 DEF Answered
  <2>4. Trail(k, table, filter, got, base[p], upto)
    BY <1>3, <1>5, <1>7, TrailConcat
  <2> HIDE DEF r, got
  <2>5. /\ pull' \in [Puller -> PullState] /\ pull'[p] = Quiet
        /\ \A other \in Puller : other # p => pull'[other] = pull[other]
    BY <1>3, <1>4, <2>2
  <2>6. /\ delivered' \in [Puller -> Seq(Nat)] /\ delivered'[p] = got
        /\ \A other \in Puller : other # p => delivered'[other] = delivered[other]
    BY <1>3, <2>1, <2>2
  <2>7. /\ cursor' \in [Puller -> Nat] /\ cursor'[p] = upto
        /\ \A other \in Puller : other # p => cursor'[other] = cursor[other]
    BY <1>3, <1>6, <2>2
  <2>8. /\ reply' \in [Puller -> Response] /\ reply'[p] = r
        /\ \A other \in Puller : other # p => reply'[other] = reply[other]
    BY <1>3, <2>1, <2>2
  <2>9. PullTypeOK'
    BY <1>2, <2>5, <2>6, <2>7, <2>8 DEF PullInv, PullTypeOK
  <2>10. ClientInv(p)'
    <3>1. HasRead(k, table, filter, upto, Quiet)
      BY DEF HasRead, Quiet
    <3>2. Client(k, table, filter, Quiet, base[p], upto, got, r)
      BY <2>3, <2>4, <3>1 DEF Client
    <3> QED BY <1>2, <1>3, <2>5, <2>6, <2>7, <2>8, <3>2
            DEF ClientInv, k, table, filter
  <2>11. ASSUME NEW other \in Puller, other # p PROVE ClientInv(other)'
    <3>1. ClientInv(other)
      BY DEF PullInv
    <3> QED BY <1>2, <2>5, <2>6, <2>7, <2>8, <2>11, <3>1, ClientUntouched
  <2> QED BY <1>8, <2>9, <2>10, <2>11 DEF PullInv
<1> QED BY <1>1, <1>9, <1>10

(* Both loops read the page of their kind.                                 *)
LEMMA LoopsReadPages ==
  ASSUME NEW p \in Puller, kind[p] \in {"sequence", "time"},
         ReadPage(p) \/ ReadPageByTime(p)
  PROVE  /\ pull[p].pc = "reading"
         /\ \E page : PageRead(p, page) /\ Turn(p, page)
<1> DEFINE q == pull[p]
           rest == MatchingIn(kind[p], Table(p), FilterOf[p], q.next, q.end)
<1>1. CASE ReadPage(p)
  <2>1. kind[p] = "sequence" /\ q.pc = "reading"
    BY <1>1 DEF ReadPage
  <2>2. MatchingBySeq(p, q.next, q.end) = rest
    BY <2>1 DEF MatchingBySeq, MatchingIn, Rows, RowsIn, At
  <2>3. Turn(p, PageOf(p, q.limit, q.next, q.end))
    BY <1>1 DEF ReadPage
  <2>4. PageRead(p, PageOf(p, q.limit, q.next, q.end))
    BY <2>2 DEF PageRead, PageOf
  <2> QED BY <2>1, <2>3, <2>4
<1>2. CASE ReadPageByTime(p)
  <2>1. kind[p] = "time" /\ q.pc = "reading"
    BY <1>2 DEF ReadPageByTime
  <2>2. MatchingByTime(p, q.next, q.end) = rest
    BY <2>1 DEF MatchingByTime, MatchingIn, Rows, RowsIn, At, PlaceAt, StampAt
  <2>3. Turn(p, PageByTime(p, q.limit, q.next, q.end))
    BY <1>2 DEF ReadPageByTime
  <2>4. PageRead(p, PageByTime(p, q.limit, q.next, q.end))
    BY <2>2 DEF PageRead, PageByTime
  <2> QED BY <2>1, <2>3, <2>4
<1> QED BY <1>1, <1>2

(* Every step of the log and of the clients keeps the inductive invariant. *)
LEMMA PullInvStep == PullInv /\ [PullNext]_pullSystem => PullInv'
<1> SUFFICES ASSUME PullInv, [PullNext]_pullSystem PROVE PullInv'
  OBVIOUS
<1>1. CASE LogNext /\ UNCHANGED pullVars
  BY <1>1, RowCommitted
<1>2. ASSUME NEW p \in Puller, StartPull(p) PROVE PullInv'
  BY <1>2, PullStarted
<1>3. ASSUME NEW p \in Puller, StartPullAtTimestamp(p) PROVE PullInv'
  BY <1>3, PullStartedAtTimestamp
<1>4. ASSUME NEW p \in Puller, ReadPage(p) \/ ReadPageByTime(p) PROVE PullInv'
  <2>1. kind[p] \in {"sequence", "time"}
    BY DEF PullInv, PullTypeOK
  <2> QED BY <1>4, <2>1, LoopsReadPages, PageTurned
<1>5. ASSUME NEW p \in Puller, LosePull(p) PROVE PullInv'
  BY <1>5, PullLost
<1>6. CASE UNCHANGED pullSystem
  <2>1. /\ log' = log /\ kind' = kind /\ pull' = pull /\ base' = base
        /\ cursor' = cursor /\ delivered' = delivered /\ reply' = reply
        /\ losses' = losses
    BY <1>6 DEF pullSystem, pullVars
  <2>2. \A p \in Puller : ClientInv(p)'
    BY <2>1, ClientUntouched DEF PullInv
  <2> QED BY <2>1, <2>2 DEF PullInv, PullTypeOK, LogsWellFormed
<1> QED BY <1>1, <1>2, <1>3, <1>4, <1>5, <1>6 DEF PullNext, PullStep

(* Every reachable state of the pulls satisfies their inductive invariant. *)
THEOREM PullInvariance == PullSpec => []PullInv
<1>1. PullInit => PullInv
  BY PullInitInv
<1>2. PullInv /\ [PullNext]_pullSystem => PullInv'
  BY PullInvStep
<1> QED BY <1>1, <1>2, PTL DEF PullSpec

(* Every variable of the pulls keeps its type.                             *)
THEOREM PullTypeCorrect == PullSpec => []PullTypeOK
<1>1. PullInv => PullTypeOK
  BY DEF PullInv
<1> QED BY <1>1, PullInvariance, PTL

(* LogPull states its rows and positions for a client, the proofs above    *)
(* for a log and a kind.                                                   *)
LEMMA SameWords ==
  ASSUME NEW p \in Puller
  PROVE  /\ Rows(p) = RowsIn(Table(p), FilterOf[p])
         /\ \A seq : PositionOf(p, seq) = At(kind[p], Table(p), seq)
         /\ \A entries : Ordered(p, entries) <=> Sorted(kind[p], Table(p), entries)
         /\ \A entries : WithinBudget(Table(p), entries)
                            <=> (Len(entries) > 1 => Fits(p, entries))
<1>1. Rows(p) = RowsIn(Table(p), FilterOf[p])
  BY DEF Rows, RowsIn
<1>2. \A seq : PositionOf(p, seq) = At(kind[p], Table(p), seq)
  BY DEF PositionOf, PlaceAt, At
<1>3. \A entries : Ordered(p, entries) <=> Sorted(kind[p], Table(p), entries)
  BY <1>2 DEF Ordered, Sorted
<1>4. \A entries : WithinBudget(Table(p), entries)
                      <=> (Len(entries) > 1 => Fits(p, entries))
  BY DEF WithinBudget, Fits, Bytes
<1> QED BY <1>1, <1>2, <1>3, <1>4

(* What matches for a client is what matches in its log, for its kind.     *)
LEMMA SameMatching ==
  ASSUME PullTypeOK, NEW p \in Puller, NEW after, NEW end
  PROVE  Matching(p, after, end)
           = MatchingIn(kind[p], Table(p), FilterOf[p], after, end)
<1>1. CASE kind[p] = "sequence"
  BY <1>1 DEF Matching, MatchingBySeq, MatchingIn, Rows, RowsIn, At
<1>2. CASE kind[p] # "sequence"
  BY <1>2 DEF Matching, MatchingByTime, MatchingIn, Rows, RowsIn, At, PlaceAt,
              StampAt
<1> QED BY <1>1, <1>2

(* Over any number of pulls, with rows committed between and during them   *)
(* and responses lost, a client holds what matches from where it began up  *)
(* to its cursor, in order and each row once, but for rows overtaken by    *)
(* one it holds.                                                           *)
THEOREM PullsMissOnlyTheLate == PullSpec => []OnlyTheLateAreMissed
<1>1. PullInv => OnlyTheLateAreMissed
  <2> SUFFICES ASSUME PullInv, NEW p \in Puller
               PROVE  LET range == {seq \in Rows(p) :
                                      /\ base[p] < PositionOf(p, seq)
                                      /\ PositionOf(p, seq) <= cursor[p]}
                          got == ToSet(delivered[p])
                      IN /\ got \subseteq range
                         /\ Ordered(p, delivered[p])
                         /\ \A seq \in range \ got :
                              \E other \in got :
                                /\ PositionOf(p, other) > PositionOf(p, seq)
                                /\ other < seq
    BY DEF OnlyTheLateAreMissed
  <2> DEFINE k == kind[p]
             table == Table(p)
             entries == delivered[p]
             R == RowsIn(table, FilterOf[p])
             range == {seq \in R : /\ base[p] < At(k, table, seq)
                                   /\ At(k, table, seq) <= cursor[p]}
             got == ToSet(entries)
  <2>1. Trail(k, table, FilterOf[p], entries, base[p], cursor[p])
    BY DEF PullInv, ClientInv, Client
  <2>2. \A seq : seq \in got <=> Listed(entries, seq)
    BY DEF ToSet, Listed
  <2> HIDE DEF k, table, entries, got
  <2>3. got \subseteq range
    BY <2>1, <2>2 DEF Trail, Listed
  <2>4. Sorted(k, table, entries)
    BY <2>1 DEF Trail
  <2>5. ASSUME NEW seq \in range \ got
        PROVE  \E other \in got : /\ At(k, table, other) > At(k, table, seq)
                                 /\ other < seq
    <3>1. Overtaken(k, table, entries, seq)
      BY <2>1, <2>2, <2>5 DEF Trail
    <3> QED BY <2>2, <3>1 DEF Overtaken, Listed
  <2> QED BY <2>3, <2>4, <2>5, SameWords DEF k, table, entries, got
<1> QED BY <1>1, PullInvariance, PTL

(* hasNextPage = true is kept: the response moved the cursor and a matching*)
(* row follows it, also after later commits.                               *)
THEOREM MoreIsAlwaysReal == PullSpec => []MoreIsReal
<1>1. PullInv => MoreIsReal
  <2> SUFFICES ASSUME PullInv, NEW p \in Puller, reply[p].hasNextPage
               PROVE  /\ reply[p].entries # <<>>
                      /\ Matching(p, cursor[p], reply[p].end) # {}
    BY DEF MoreIsReal
  <2>1. Answered(kind[p], Table(p), FilterOf[p], delivered[p], cursor[p], reply[p])
    BY DEF PullInv, ClientInv, Client
  <2>2. PullTypeOK
    BY DEF PullInv
  <2> QED BY <2>1, <2>2, SameMatching DEF Answered
<1> QED BY <1>1, PullInvariance, PTL

(* Every response keeps to the byte budget and the client's limit.         *)
THEOREM ResponsesFit == PullSpec => []ResponseFits
<1>1. PullInv => ResponseFits
  <2> SUFFICES ASSUME PullInv, NEW p \in Puller
               PROVE  /\ Len(reply[p].entries) > 1 => Fits(p, reply[p].entries)
                      /\ reply[p].limit # NoLimit
                           => Len(reply[p].entries) <= reply[p].limit
    BY DEF ResponseFits
  <2>1. Answered(kind[p], Table(p), FilterOf[p], delivered[p], cursor[p], reply[p])
    BY DEF PullInv, ClientInv, Client
  <2> QED BY <2>1, SameWords DEF Answered
<1> QED BY <1>1, PullInvariance, PTL

(* A response that says there is no more leaves nothing that matched when  *)
(* its last page was read.                                                 *)
THEOREM NoMoreMeansCaughtUp == PullSpec => DoneMeansCaughtUp
<1>1. PullInv /\ [PullNext]_pullSystem => DoneStep
  <2> SUFFICES ASSUME PullInv, [PullNext]_pullSystem, NEW p \in Puller,
                      pull[p].pc = "reading", pull'[p].pc = "quiet",
                      pull[p].limit # 0, losses' = losses, ~reply'[p].hasNextPage
               PROVE  Matching(p, cursor'[p], pull[p].end) = {}
    BY DEF DoneStep
  <2>1. /\ pull \in [Puller -> PullState] /\ cursor \in [Puller -> Nat]
        /\ reply \in [Puller -> Response] /\ losses \in Nat /\ PullTypeOK
    BY PullAssumption DEF PullInv, PullTypeOK
  <2>2. PICK other \in Puller : ReadPage(other) \/ ReadPageByTime(other)
    <3>1. pull'[p] # pull[p]
      OBVIOUS
    <3>2. ASSUME NEW other \in Puller, StartPull(other) PROVE FALSE
      BY <2>1, <3>2 DEF StartPull, PullWith, Asked
    <3>3. ASSUME NEW other \in Puller, StartPullAtTimestamp(other) PROVE FALSE
      BY <2>1, <3>3 DEF StartPullAtTimestamp, Asked
    <3>4. ASSUME NEW other \in Puller, LosePull(other) PROVE FALSE
      BY <2>1, <3>4 DEF LosePull
    <3> QED BY <3>1, <3>2, <3>3, <3>4 DEF PullNext, PullStep, pullSystem, pullVars
  <2>3. PICK page : PageRead(other, page) /\ Turn(other, page)
    BY <2>1, <2>2, LoopsReadPages DEF PullTypeOK
  <2>4. pull[other].pc = "reading"
    BY <2>1, <2>2, LoopsReadPages DEF PullTypeOK
  <2>5. PICK entries, upto, more :
          /\ ReadUpTo(other, entries, upto, more)
          /\ GoesRound(other, entries, upto) \/ Responds(other, entries, upto, more)
    BY <2>3, <2>4, TurnOutcome
  <2>6. Responds(p, entries, upto, more) /\ other = p
    <3>1. ~GoesRound(other, entries, upto)
      BY <2>1, <2>4 DEF GoesRound, PullState
    <3>2. other = p
      BY <2>1, <2>5, <3>1 DEF Responds
    <3> QED BY <2>5, <3>1, <3>2
  <2>7. cursor'[p] = upto /\ reply'[p].hasNextPage = more
    BY <2>1, <2>6 DEF Responds
  <2>8. MatchingIn(kind[p], Table(p), FilterOf[p], upto, pull[p].end) = {}
    BY <2>5, <2>6, <2>7 DEF ReadUpTo
  <2> QED BY <2>1, <2>7, <2>8, SameMatching
<1> QED BY <1>1, PullInvariance, PTL DEF PullSpec, DoneMeansCaughtUp

-----------------------------------------------------------------------------
(* The pulls over the store are the pulls over an append-only log: the     *)
(* composition keeps both specifications.                                  *)
LogIsStored == log = StoredLog

(* No step of a client changes the log.                                    *)
LEMMA ReadersKeepLog == PullStep => log' = log
<1> SUFFICES ASSUME NEW p \in Puller,
                    \/ StartPull(p) \/ StartPullAtTimestamp(p)
                    \/ ReadPage(p) \/ ReadPageByTime(p) \/ LosePull(p)
             PROVE  log' = log
  BY DEF PullStep
<1>1. ASSUME NEW page, Turn(p, page) PROVE log' = log
  BY <1>1 DEF Turn
<1>2. ReadPage(p) \/ ReadPageByTime(p) => \E page : Turn(p, page)
  BY DEF ReadPage, ReadPageByTime
<1>3. StartPull(p) \/ StartPullAtTimestamp(p) \/ LosePull(p) => log' = log
  BY DEF StartPull, PullWith, StartPullAtTimestamp, LosePull
<1> QED BY <1>1, <1>2, <1>3

(* The statements of the store and the loops of the pulls, run together,   *)
(* behave as each does alone, and what the pulls read as the log is the    *)
(* committed rows in the order of their positions.                         *)
THEOREM StoredPullsRefine == StoredSpec => Spec /\ PullSpec /\ []LogIsStored
<1>1. StoredInit => Init /\ PullInit /\ LogIsStored
  BY InitEmpty DEF StoredInit, PullInit, LogInit, LogIsStored, StoredLog
<1>2. [StoredNext]_storedSystem => [Next]_vars
  BY DEF StoredNext, StoreStep, ReaderStep, storedSystem
<1>3. LogIsStored /\ [StoredNext]_storedSystem => LogIsStored'
  <2> SUFFICES ASSUME LogIsStored, [StoredNext]_storedSystem
               PROVE  LogIsStored'
    OBVIOUS
  <2>1. CASE StoreStep
    BY <2>1 DEF StoreStep, LogIsStored
  <2>2. CASE UNCHANGED <<vars, log>>
    BY <2>2 DEF LogIsStored, StoredLog, LogOf, HighestSeq, SeqsOf, RowsOf, vars
  <2>3. ReaderStep => UNCHANGED <<vars, log>>
    BY ReadersKeepLog DEF ReaderStep
  <2> QED BY <2>1, <2>2, <2>3 DEF StoredNext, storedSystem
<1>4. /\ IInv /\ IInv' /\ LogIsStored /\ LogIsStored'
      /\ [StoredNext]_storedSystem
      => [PullNext]_pullSystem
  <2> SUFFICES ASSUME IInv, IInv', LogIsStored, LogIsStored',
                      [StoredNext]_storedSystem
               PROVE  [PullNext]_pullSystem
    OBVIOUS
  <2>1. CASE StoreStep
    <3>1. \/ AbstractLog!LogNext
          \/ [c \in Community |-> LogOf(c)]' = [c \in Community |-> LogOf(c)]
      BY <2>1, StoreStepAppends DEF StoreStep
    <3>2. /\ log = [c \in Community |-> LogOf(c)]
          /\ log' = [c \in Community |-> LogOf(c)]'
      BY DEF LogIsStored, StoredLog
    <3>3. ASSUME AbstractLog!LogNext PROVE LogNext
      <4>1. PICK c \in Community, d \in Cid : AbstractLog!AppendEntry(c, d)
        BY <3>3 DEF AbstractLog!LogNext
      <4>2. ~Stored(d)
        BY <3>2, <4>1 DEF AbstractLog!AppendEntry, AbstractLog!Stored, Stored
      <4>3. log' = [log EXCEPT ![c] = Append(@, d)]
        BY <3>2, <4>1 DEF AbstractLog!AppendEntry
      <4> QED BY <4>2, <4>3 DEF LogNext, AppendEntry
    <3> QED BY <2>1, <3>1, <3>2, <3>3 DEF StoreStep, PullNext, pullSystem
  <2>2. CASE ReaderStep
    BY <2>2 DEF ReaderStep, PullNext
  <2>3. CASE UNCHANGED storedSystem
    BY <2>3 DEF storedSystem, pullSystem
  <2> QED BY <2>1, <2>2, <2>3 DEF StoredNext
<1>5. StoredSpec => Spec
  BY <1>1, <1>2, PTL DEF StoredSpec, Spec
<1>6. StoredSpec => []LogIsStored
  BY <1>1, <1>3, PTL DEF StoredSpec
<1>7. StoredSpec => PullSpec
  BY <1>1, <1>4, <1>5, <1>6, Invariance, PTL DEF StoredSpec, PullSpec
<1> QED BY <1>5, <1>6, <1>7

(* A row of the store is a row of the log.                                 *)
LEMMA RowIsListed ==
  ASSUME IInv, LogIsStored, NEW p \in Puller
  PROVE  /\ \A row \in RowsOf(CommunityAt[p]) :
              /\ row.syncSeq \in DOMAIN Table(p)
              /\ Table(p)[row.syncSeq] = row.cid
         /\ \A seq \in DOMAIN Table(p) :
              \E row \in RowsOf(CommunityAt[p]) : row.syncSeq = seq
<1> DEFINE c == CommunityAt[p]
<1>1. c \in Community
  BY PullAssumption
<1>2. Table(p) = LogOf(c)
  BY <1>1 DEF Table, LogIsStored, StoredLog
<1> HIDE DEF c
<1>3. /\ LogOf(c) \in Seq(Cid) /\ Len(LogOf(c)) = HighestSeq(c)
      /\ \A row \in RowsOf(c) : /\ row.syncSeq \in 1..HighestSeq(c)
                                /\ LogOf(c)[row.syncSeq] = row.cid
      /\ \A i \in 1..HighestSeq(c) : \E row \in RowsOf(c) : row.syncSeq = i
  BY <1>1, LogOfRows DEF LogListsRows
<1>4. DOMAIN LogOf(c) = 1..HighestSeq(c)
  BY <1>3
<1> QED BY <1>2, <1>3, <1>4 DEF c

(* A client by sequence misses no committed row of its range.              *)
THEOREM NoStoredRowIsMissed == StoredSpec => []NoRowPassedBy
<1>1. IInv /\ LogIsStored /\ PullInv /\ OnlyTheLateAreMissed => NoRowPassedBy
  <2> SUFFICES ASSUME IInv, LogIsStored, PullInv, OnlyTheLateAreMissed,
                      NEW p \in Puller, NEW row \in RowsOf(CommunityAt[p]),
                      kind[p] = "sequence", row.cid \in FilterOf[p],
                      base[p] < row.syncSeq, row.syncSeq <= cursor[p],
                      ~Contains(delivered[p], row.syncSeq)
               PROVE  FALSE
    BY DEF NoRowPassedBy
  <2> DEFINE seq == row.syncSeq
             got == ToSet(delivered[p])
  <2>1. seq \in Rows(p)
    BY RowIsListed DEF Rows
  <2>2. \A other : PositionOf(p, other) = other
    BY DEF PositionOf
  <2>3. seq \notin got
    BY DEF ToSet, Contains
  <2>4. got \subseteq Rows(p)
    BY DEF OnlyTheLateAreMissed
  <2>5. PICK other \in got : PositionOf(p, other) > PositionOf(p, seq) /\ other < seq
    BY <2>1, <2>2, <2>3 DEF OnlyTheLateAreMissed
  <2>6. seq \in Nat /\ other \in Nat
    BY <2>1, <2>4, TableWellFormed DEF Rows, WellFormed
  <2> QED BY <2>2, <2>5, <2>6
<1> QED BY <1>1, StoredPullsRefine, Invariance, PullInvariance,
           PullsMissOnlyTheLate, PTL

(* A client never holds what is not committed.                             *)
THEOREM OnlyCommittedIsDelivered == StoredSpec => []DeliveredIsCommitted
<1>1. IInv /\ LogIsStored /\ OnlyTheLateAreMissed => DeliveredIsCommitted
  <2> SUFFICES ASSUME IInv, LogIsStored, OnlyTheLateAreMissed,
                      NEW p \in Puller, NEW seq \in ToSet(delivered[p])
               PROVE  \E row \in RowsOf(CommunityAt[p]) :
                        row.syncSeq = seq /\ row.cid \in FilterOf[p]
    BY DEF DeliveredIsCommitted
  <2>1. seq \in Rows(p)
    BY DEF OnlyTheLateAreMissed
  <2>2. seq \in DOMAIN Table(p) /\ Table(p)[seq] \in FilterOf[p]
    BY <2>1 DEF Rows
  <2> QED BY <2>2, RowIsListed
<1> QED BY <1>1, StoredPullsRefine, Invariance, PullsMissOnlyTheLate, PTL
=============================================================================

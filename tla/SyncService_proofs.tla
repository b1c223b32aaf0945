------------------------- MODULE SyncService_proofs -------------------------
(***************************************************************************)
(* Proofs about SyncService: for any members and entries, a member that    *)
(* has caught up misses nothing between its pulls and the fan-out, it      *)
(* holds the log up to its cursor, and it is sent nothing that is not      *)
(* committed.                                                              *)
(*                                                                         *)
(* The argument for NothingMissed: an answer that says it reached the end  *)
(* may arrive after more entries were committed, so what must be           *)
(* preserved is that those after the answer reach the member another way   *)
(* (AnswerLeavesNothing).  They do because a member with an answer on its  *)
(* way, or that has caught up, is in the room when the entry is fanned out *)
(* (RoomIsJoined, OnlyTheJoinedPull).                                      *)
(***************************************************************************)
EXTENDS SyncService, TLAPS

RoomIsJoined == room = {m \in Member : session[m] = "joined"}

OnlyTheJoinedPull ==
  \A m \in Member : caughtUp[m] \/ answer[m] # NoPull => session[m] = "joined"

StoredIsCommitted == \A e \in Entry : call[e] = "stored" => e \in Committed

AnswerIsOfLog ==
  \A m \in Member : answer[m].pc = "sent" =>
                      /\ cursor[m] <= answer[m].upTo
                      /\ answer[m].upTo <= Len(log)

AnswerLeavesNothing ==
  \A m \in Member :
    answer[m].pc = "sent" /\ answer[m].done =>
      \A i \in (answer[m].upTo + 1)..Len(log) : Reached(m, log[i])

IInv ==
  /\ TypeOK /\ RoomIsJoined /\ OnlyTheJoinedPull /\ StoredIsCommitted
  /\ CursorIsCovered /\ FannedOutIsDurable /\ AnswerIsOfLog
  /\ AnswerLeavesNothing /\ NothingMissed

-----------------------------------------------------------------------------
(* An answer is none, asked for, or sent with its fields.                  *)
LEMMA AnswerFields ==
  ASSUME TypeOK, NEW m \in Member
  PROVE  /\ answer[m].pc = "sent" =>
              answer[m].upTo \in Nat /\ answer[m].done \in BOOLEAN
         /\ answer[m].pc \in {"none", "asked", "sent"}
         /\ answer[m] = NoPull <=> answer[m].pc = "none"
BY DEF TypeOK, PullState, NoPull

(* The log grows at its end, and by the entry appended to it.              *)
LEMMA Appended ==
  ASSUME log \in Seq(Entry), NEW e \in Entry, log' = Append(log, e)
  PROVE  /\ log' \in Seq(Entry)
         /\ Len(log') = Len(log) + 1
         /\ \A i \in 1..Len(log) : log'[i] = log[i]
         /\ log'[Len(log) + 1] = e
         /\ Committed' = Committed \cup {e}
<1>1. /\ log' \in Seq(Entry) /\ Len(log') = Len(log) + 1
      /\ \A i \in 1..Len(log) : log'[i] = log[i]
      /\ log'[Len(log) + 1] = e
  OBVIOUS
<1>2. DOMAIN log' = DOMAIN log \cup {Len(log) + 1} /\ DOMAIN log = 1..Len(log)
  BY <1>1
<1>3. QED  BY <1>1, <1>2 DEF Committed

LEMMA InitIInv == ASSUME Init PROVE IInv
<1>1. TypeOK
  BY DEF Init, TypeOK, PullState, NoPull
<1>2. Len(log) = 0 /\ Committed = {}
  BY DEF Init, Committed
<1>3. RoomIsJoined /\ OnlyTheJoinedPull /\ StoredIsCommitted /\ AnswerIsOfLog
      /\ AnswerLeavesNothing
  BY DEF Init, RoomIsJoined, OnlyTheJoinedPull, StoredIsCommitted,
         AnswerIsOfLog, AnswerLeavesNothing, NoPull
<1>4. CursorIsCovered /\ FannedOutIsDurable /\ NothingMissed
  BY <1>2 DEF Init, CursorIsCovered, FannedOutIsDurable, NothingMissed
<1>5. QED  BY <1>1, <1>3, <1>4 DEF IInv

-----------------------------------------------------------------------------
(* Signing in and joining.                                                 *)
LEMMA SignInIInv ==
  ASSUME IInv, NEW m \in Member, SignIn(m) \/ Join(m) PROVE IInv'
<1>1. /\ TypeOK' /\ RoomIsJoined'
      /\ \A n \in Member : session[n] = "joined" => session'[n] = "joined"
  BY DEF IInv, TypeOK, RoomIsJoined, SignIn, Join
<1>2. Committed' = Committed
      /\ UNCHANGED <<log, call, unheard, inbox, answer, has, cursor, caughtUp>>
  BY DEF SignIn, Join, Committed
<1>3. OnlyTheJoinedPull' /\ StoredIsCommitted' /\ AnswerIsOfLog'
  BY <1>1, <1>2 DEF IInv, OnlyTheJoinedPull, StoredIsCommitted, AnswerIsOfLog,
                    NoPull
<1>4. CursorIsCovered' /\ FannedOutIsDurable'
  BY <1>2 DEF IInv, CursorIsCovered, FannedOutIsDurable
<1>5. AnswerLeavesNothing' /\ NothingMissed'
  BY <1>2 DEF IInv, AnswerLeavesNothing, NothingMissed, Reached, Knows
<1>6. QED  BY <1>1, <1>3, <1>4, <1>5 DEF IInv

(* Members leave, one by itself or all with the server.  What else a       *)
(* restart does is to the calls.                                           *)
LEMMA LeaveIInv ==
  ASSUME IInv, NEW gone \in SUBSET Member, Leave(gone),
         UNCHANGED <<log, unheard, has, cursor>>,
         call' \in [Entry -> {"idle", "writing", "orphaned", "stored"}],
         \A e \in Entry : call'[e] = "stored" => call[e] = "stored",
         gone = Member \/ UNCHANGED call
  PROVE  IInv'
<1>1. Committed' = Committed
  BY DEF Committed
<1>2. TypeOK'
  BY DEF IInv, TypeOK, Leave, PullState
<1>3. RoomIsJoined' /\ OnlyTheJoinedPull' /\ StoredIsCommitted'
  BY <1>1 DEF IInv, TypeOK, Leave, RoomIsJoined, OnlyTheJoinedPull,
              StoredIsCommitted, NoPull
<1>4. CursorIsCovered' /\ FannedOutIsDurable' /\ AnswerIsOfLog'
  BY <1>1 DEF IInv, TypeOK, Leave, CursorIsCovered, FannedOutIsDurable,
              AnswerIsOfLog, NoPull
<1>5. ASSUME NEW n \in Member, n \notin gone
      PROVE  /\ answer'[n] = answer[n] /\ caughtUp'[n] = caughtUp[n]
             /\ \A e \in Entry : Reached(n, e) => Reached(n, e)'
  BY <1>5 DEF IInv, TypeOK, Leave, Reached, Knows
<1>6. \A n \in gone : answer'[n].pc = "none" /\ ~caughtUp'[n]
  BY DEF IInv, TypeOK, Leave, NoPull
<1>7. NothingMissed'
  <2>1. Committed \subseteq Entry
    BY DEF IInv, TypeOK, Committed
  <2>2. QED  BY <1>1, <1>5, <1>6, <2>1 DEF IInv, NothingMissed
<1>8. AnswerLeavesNothing'
  <2> SUFFICES ASSUME NEW n \in Member,
                      answer'[n].pc = "sent", answer'[n].done,
                      NEW i \in (answer'[n].upTo + 1)..Len(log')
               PROVE  Reached(n, log[i])'
    BY DEF AnswerLeavesNothing
  <2>1. n \notin gone /\ answer'[n] = answer[n]
    BY <1>5, <1>6
  <2>2. Reached(n, log[i])
    BY <2>1 DEF IInv, AnswerLeavesNothing
  <2>3. log[i] \in Entry
    BY <2>1, AnswerFields DEF IInv, TypeOK
  <2>4. QED  BY <1>5, <2>1, <2>2, <2>3
<1>9. QED  BY <1>2, <1>3, <1>4, <1>7, <1>8 DEF IInv

LEMMA DropIInv == ASSUME IInv, NEW m \in Member, Drop(m) PROVE IInv'
BY LeaveIInv DEF Drop, IInv, TypeOK

LEMMA RestartIInv == ASSUME IInv, Restart PROVE IInv'
<1>1. /\ call' \in [Entry -> {"idle", "writing", "orphaned", "stored"}]
      /\ \A e \in Entry : call'[e] = "stored" => call[e] = "stored"
  BY DEF IInv, TypeOK, Restart
<1>2. QED  BY <1>1, LeaveIInv DEF Restart

-----------------------------------------------------------------------------
(* A write begins.                                                         *)
LEMMA SendIInv == ASSUME IInv, NEW e \in Entry, Send(e) PROVE IInv'
<1>1. Committed' = Committed
      /\ UNCHANGED <<session, room, log, unheard, inbox, answer, has, cursor,
                     caughtUp>>
  BY DEF Send, Committed
<1>2. TypeOK' /\ \A d \in Entry : call'[d] = "stored" <=> call[d] = "stored"
  BY DEF IInv, TypeOK, Send
<1>3. RoomIsJoined' /\ OnlyTheJoinedPull' /\ StoredIsCommitted'
      /\ CursorIsCovered' /\ FannedOutIsDurable' /\ AnswerIsOfLog'
  BY <1>1, <1>2 DEF IInv, RoomIsJoined, OnlyTheJoinedPull, StoredIsCommitted,
       CursorIsCovered, FannedOutIsDurable, AnswerIsOfLog, NoPull
<1>4. \A m \in Member, d \in Entry : Reached(m, d) => Reached(m, d)'
  BY <1>1, <1>2 DEF Reached, Knows
<1>5. Committed \subseteq Entry
      /\ \A i \in 1..Len(log) : log[i] \in Entry
  BY DEF IInv, TypeOK, Committed
<1>6. NothingMissed'
  BY <1>1, <1>4, <1>5 DEF IInv, NothingMissed
<1>7. AnswerLeavesNothing'
  BY <1>1, <1>4, <1>5, AnswerFields DEF IInv, AnswerLeavesNothing
<1>8. QED  BY <1>2, <1>3, <1>6, <1>7 DEF IInv

(* A write returns: the entry is committed, if it is, with a fan-out to    *)
(* come or with its author told that it failed.                            *)
LEMMA ReturnIInv ==
  ASSUME IInv, NEW e \in Entry, Write(e) \/ WriteFails(e) PROVE IInv'
<1>1. UNCHANGED <<session, room, inbox, answer, has, cursor, caughtUp>>
  BY DEF Write, WriteFails
<1>2. /\ call' \in [Entry -> {"idle", "writing", "orphaned", "stored"}]
      /\ unheard' \in SUBSET Entry /\ unheard \subseteq unheard'
      /\ \A d \in Entry : call[d] = "stored" => call'[d] = "stored"
      /\ \A d \in Entry \ {e} : call'[d] = call[d]
  BY DEF Write, WriteFails, IInv, TypeOK
<1>3. \/ log' = log /\ (call'[e] = "stored" => e \in Committed)
      \/ log' = Append(log, e) /\ (call'[e] = "stored" \/ e \in unheard')
  BY DEF Write, WriteFails, IInv, TypeOK
<1>4. /\ log' \in Seq(Entry) /\ Len(log) <= Len(log')
      /\ \A i \in 1..Len(log) : log'[i] = log[i]
      /\ Committed \subseteq Committed' /\ Committed' \subseteq Entry
      /\ \A i \in (Len(log) + 1)..Len(log') : log'[i] = e
      /\ \A d \in Committed' : d \in Committed \/ d = e
      /\ log' # log => call'[e] = "stored" \/ e \in unheard'
      /\ call'[e] = "stored" => e \in Committed'
  <2>1. Committed \subseteq Entry /\ log \in Seq(Entry)
    BY DEF IInv, TypeOK, Committed
  <2>2. CASE log' = log
    BY <1>3, <2>1, <2>2 DEF Committed
  <2>3. CASE log' = Append(log, e)
    <3>1. /\ log' \in Seq(Entry) /\ Len(log') = Len(log) + 1
          /\ \A i \in 1..Len(log) : log'[i] = log[i]
          /\ log'[Len(log) + 1] = e
          /\ Committed' = Committed \cup {e}
      BY <2>1, <2>3, Appended
    <3>2. \A i \in (Len(log) + 1)..Len(log') : log'[i] = e
      BY <2>1, <3>1
    <3>3. log' # log
      BY <2>1, <3>1
    <3>4. call'[e] = "stored" \/ e \in unheard'
      BY <1>3, <3>3
    <3>5. QED  BY <2>1, <3>1, <3>2, <3>4
  <2>4. QED  BY <1>3, <2>2, <2>3
<1>5. TypeOK'
  BY <1>1, <1>2, <1>4 DEF IInv, TypeOK
<1>6. RoomIsJoined' /\ OnlyTheJoinedPull' /\ StoredIsCommitted'
  BY <1>1, <1>2, <1>4 DEF IInv, RoomIsJoined, OnlyTheJoinedPull,
       StoredIsCommitted, NoPull
<1>7. CursorIsCovered'
  <2> SUFFICES ASSUME NEW m \in Member
               PROVE  /\ cursor[m] <= Len(log')
                      /\ \A i \in 1..cursor[m] : log'[i] \in has[m]
    BY <1>1 DEF CursorIsCovered
  <2>1. /\ cursor[m] \in Nat /\ Len(log) \in Nat /\ Len(log') \in Nat
        /\ cursor[m] <= Len(log)
        /\ \A i \in 1..cursor[m] : log[i] \in has[m]
    BY <1>4 DEF IInv, TypeOK, CursorIsCovered
  <2>2. QED  BY <1>4, <2>1
<1>8. FannedOutIsDurable'
  BY <1>1, <1>4 DEF IInv, FannedOutIsDurable
<1>9. AnswerIsOfLog'
  BY <1>1, <1>4, AnswerFields DEF IInv, TypeOK, AnswerIsOfLog
<1>10. \A m \in Member, d \in Entry : Reached(m, d) => Reached(m, d)'
  BY <1>1, <1>2 DEF Reached, Knows
<1>11. log' # log => \A m \in Member : Reached(m, e)'
  BY <1>4 DEF Reached
<1>12. NothingMissed'
  <2> SUFFICES ASSUME NEW m \in Member, NEW d \in Committed', caughtUp[m]
               PROVE  Reached(m, d)'
    BY <1>1 DEF NothingMissed
  <2>1. CASE d \in Committed
    BY <1>4, <1>10, <2>1 DEF IInv, NothingMissed
  <2>2. CASE d \notin Committed
    BY <1>4, <1>11, <2>2 DEF Committed
  <2>3. QED  BY <2>1, <2>2
<1>13. AnswerLeavesNothing'
  <2> SUFFICES ASSUME NEW m \in Member, answer[m].pc = "sent", answer[m].done,
                      NEW i \in (answer[m].upTo + 1)..Len(log')
               PROVE  Reached(m, log[i])'
    BY <1>1 DEF AnswerLeavesNothing
  <2>1. answer[m].upTo \in Nat /\ log \in Seq(Entry)
    BY AnswerFields DEF IInv, TypeOK
  <2>2. CASE i <= Len(log)
    <3>1. Reached(m, log[i]) /\ log[i] \in Entry /\ log'[i] = log[i]
      BY <1>4, <2>1, <2>2 DEF IInv, AnswerLeavesNothing
    <3>2. QED  BY <1>10, <3>1
  <2>3. CASE ~(i <= Len(log))
    BY <1>4, <1>11, <2>1, <2>3
  <2>4. QED  BY <2>2, <2>3
<1>14. QED  BY <1>5, <1>6, <1>7, <1>8, <1>9, <1>12, <1>13 DEF IInv

(* The fan-out: a member that has caught up, or waits for its answer, is in*)
(* the room.                                                               *)
LEMMA FanOutIInv == ASSUME IInv, NEW e \in Entry, FanOut(e) PROVE IInv'
<1>1. /\ UNCHANGED <<session, room, log, answer, has, cursor, caughtUp>>
      /\ Committed' = Committed /\ Committed \subseteq Entry
      /\ log \in Seq(Entry)
  BY DEF FanOut, Committed, IInv, TypeOK
<1>2. /\ TypeOK' /\ e \in Committed
      /\ \A d \in Entry : call'[d] = "stored" <=> call[d] = "stored" /\ d # e
  BY DEF IInv, TypeOK, FanOut, StoredIsCommitted
<1>3. RoomIsJoined' /\ OnlyTheJoinedPull' /\ StoredIsCommitted'
      /\ CursorIsCovered' /\ AnswerIsOfLog'
  BY <1>1, <1>2 DEF IInv, RoomIsJoined, OnlyTheJoinedPull, StoredIsCommitted,
       CursorIsCovered, AnswerIsOfLog, NoPull
<1>4. \A m \in Member : inbox[m] \subseteq inbox'[m]
                        /\ inbox'[m] \subseteq inbox[m] \cup {e}
  BY DEF IInv, TypeOK, FanOut
<1>5. FannedOutIsDurable'
  BY <1>1, <1>2, <1>4 DEF IInv, FannedOutIsDurable
<1>6. ASSUME NEW m \in Member, session[m] = "joined",
             NEW d \in Entry, Reached(m, d)
      PROVE  Reached(m, d)'
  <2>1. m \in room
    BY <1>6 DEF IInv, RoomIsJoined
  <2>2. CASE d = e
    BY <2>1, <2>2 DEF FanOut, Reached, Knows
  <2>3. CASE d # e
    BY <1>1, <1>2, <1>4, <1>6, <2>3 DEF FanOut, Reached, Knows
  <2>4. QED  BY <2>2, <2>3
<1>7. NothingMissed'
  BY <1>1, <1>6 DEF IInv, NothingMissed, OnlyTheJoinedPull
<1>8. AnswerLeavesNothing'
  <2> SUFFICES ASSUME NEW m \in Member, answer[m].pc = "sent", answer[m].done,
                      NEW i \in (answer[m].upTo + 1)..Len(log)
               PROVE  Reached(m, log[i])'
    BY <1>1 DEF AnswerLeavesNothing
  <2>1. Reached(m, log[i]) /\ session[m] = "joined"
    BY AnswerFields DEF IInv, AnswerLeavesNothing, OnlyTheJoinedPull, NoPull
  <2>2. log[i] \in Entry /\ log'[i] = log[i]
    BY <1>1, AnswerFields DEF IInv
  <2>3. QED  BY <1>1, <1>6, <2>1, <2>2
<1>9. QED  BY <1>2, <1>3, <1>5, <1>7, <1>8 DEF IInv

(* A fanned out entry arrives.                                             *)
LEMMA ReceiveIInv ==
  ASSUME IInv, NEW n \in Member, NEW e \in Entry, Receive(n, e) PROVE IInv'
<1>1. /\ UNCHANGED <<session, room, log, call, unheard, answer, cursor, caughtUp>>
      /\ Committed' = Committed /\ Committed \subseteq Entry
      /\ log \in Seq(Entry)
  BY DEF Receive, Committed, IInv, TypeOK
<1>2. TypeOK'
  BY DEF IInv, TypeOK, Receive
<1>3. \A m \in Member : /\ has[m] \subseteq has'[m]
                        /\ inbox'[m] \cup has'[m] = inbox[m] \cup has[m]
  BY DEF IInv, TypeOK, Receive
<1>4. RoomIsJoined' /\ OnlyTheJoinedPull' /\ StoredIsCommitted'
      /\ AnswerIsOfLog'
  BY <1>1 DEF IInv, RoomIsJoined, OnlyTheJoinedPull, StoredIsCommitted,
       AnswerIsOfLog, NoPull
<1>5. CursorIsCovered' /\ FannedOutIsDurable'
  BY <1>1, <1>3 DEF IInv, CursorIsCovered, FannedOutIsDurable
<1>6. \A m \in Member, d \in Entry : Reached(m, d) => Reached(m, d)'
  BY <1>1, <1>3 DEF Reached, Knows
<1>7. NothingMissed'
  BY <1>1, <1>6 DEF IInv, NothingMissed
<1>8. AnswerLeavesNothing'
  <2>1. \A m \in Member : answer[m].pc = "sent" =>
          \A i \in (answer[m].upTo + 1)..Len(log) : log[i] \in Entry
    BY <1>1, AnswerFields DEF IInv
  <2>2. QED  BY <1>1, <1>6, <2>1 DEF IInv, AnswerLeavesNothing
<1>9. QED  BY <1>2, <1>4, <1>5, <1>7, <1>8 DEF IInv

-----------------------------------------------------------------------------
(* A pull is asked for, or its answer read.                                *)
LEMMA AnswerIInv ==
  ASSUME IInv, NEW n \in Member, Pull(n) \/ ReadLog(n) PROVE IInv'
<1>1. /\ UNCHANGED <<session, room, log, call, unheard, inbox, has, cursor,
                     caughtUp>>
      /\ Committed' = Committed
      /\ \A m \in Member : \A d : Reached(m, d)' <=> Reached(m, d)
  BY DEF Pull, ReadLog, Committed, Reached, Knows
<1>2. answer' \in [Member -> PullState]
      /\ \A m \in Member \ {n} : answer'[m] = answer[m]
  <2>1. CASE Pull(n)
    BY <2>1 DEF IInv, TypeOK, Pull, PullState
  <2>2. CASE ReadLog(n)
    <3>1. PICK upTo \in cursor[n]..Len(log) :
            answer' = [answer EXCEPT ![n] =
                         [pc |-> "sent", upTo |-> upTo, done |-> upTo = Len(log)]]
      BY <2>2 DEF ReadLog
    <3>2. upTo \in Nat /\ (upTo = Len(log)) \in BOOLEAN
      BY DEF IInv, TypeOK
    <3>3. [pc |-> "sent", upTo |-> upTo, done |-> upTo = Len(log)] \in PullState
      BY <3>2 DEF PullState
    <3>4. QED  BY <3>1, <3>3 DEF IInv, TypeOK
  <2>3. QED  BY <2>1, <2>2
<1>3. session[n] = "joined"
  BY AnswerFields DEF IInv, Pull, ReadLog, OnlyTheJoinedPull, NoPull
<1>4. answer'[n].pc = "sent" =>
        /\ cursor[n] <= answer'[n].upTo /\ answer'[n].upTo <= Len(log)
        /\ answer'[n].done => answer'[n].upTo = Len(log)
  <2>1. CASE Pull(n)
    BY <2>1 DEF IInv, TypeOK, Pull
  <2>2. CASE ReadLog(n)
    <3>1. PICK upTo \in cursor[n]..Len(log) :
            answer' = [answer EXCEPT ![n] =
                         [pc |-> "sent", upTo |-> upTo, done |-> upTo = Len(log)]]
      BY <2>2 DEF ReadLog
    <3>2. /\ answer'[n].upTo = upTo
          /\ answer'[n].done <=> upTo = Len(log)
      BY <3>1 DEF IInv, TypeOK
    <3>3. cursor[n] <= upTo /\ upTo <= Len(log)
      BY DEF IInv, TypeOK
    <3>4. QED  BY <3>2, <3>3
  <2>3. QED  BY <2>1, <2>2
<1>5. TypeOK' /\ RoomIsJoined' /\ OnlyTheJoinedPull' /\ StoredIsCommitted'
  BY <1>1, <1>2, <1>3 DEF IInv, TypeOK, RoomIsJoined, OnlyTheJoinedPull,
       StoredIsCommitted
<1>6. CursorIsCovered' /\ FannedOutIsDurable' /\ AnswerIsOfLog'
  BY <1>1, <1>2, <1>4 DEF IInv, CursorIsCovered, FannedOutIsDurable,
       AnswerIsOfLog
<1>7. NothingMissed'
  BY <1>1 DEF IInv, NothingMissed
<1>8. AnswerLeavesNothing'
  <2> SUFFICES ASSUME NEW m \in Member, answer'[m].pc = "sent", answer'[m].done,
                      NEW i \in (answer'[m].upTo + 1)..Len(log)
               PROVE  Reached(m, log[i])
    BY <1>1 DEF AnswerLeavesNothing, Reached, Knows
  <2>1. CASE m = n
    BY <1>4, <2>1 DEF IInv, TypeOK
  <2>2. CASE m # n
    BY <1>2, <2>2 DEF IInv, AnswerLeavesNothing
  <2>3. QED  BY <2>1, <2>2
<1>9. QED  BY <1>5, <1>6, <1>7, <1>8 DEF IInv

(* The answer arrives: what it did not bring reaches the member another    *)
(* way.                                                                    *)
LEMMA ReceivePullIInv ==
  ASSUME IInv, NEW n \in Member, ReceivePull(n) PROVE IInv'
<1>1. /\ UNCHANGED <<session, room, log, call, unheard, inbox>>
      /\ Committed' = Committed /\ Committed \subseteq Entry
      /\ log \in Seq(Entry) /\ Len(log) \in Nat
      /\ Committed = {log[i] : i \in 1..Len(log)}
  BY DEF ReceivePull, Committed, IInv, TypeOK
<1>2. /\ answer[n].pc = "sent" /\ answer[n].upTo \in Nat
      /\ answer[n].done \in BOOLEAN /\ session[n] = "joined"
      /\ cursor[n] \in Nat /\ cursor[n] <= answer[n].upTo
      /\ answer[n].upTo <= Len(log)
  BY AnswerFields
     DEF ReceivePull, IInv, TypeOK, AnswerIsOfLog, OnlyTheJoinedPull, NoPull
<1>3. /\ has'[n] = has[n] \cup
                     {log[i] : i \in (cursor[n] + 1)..answer[n].upTo}
      /\ cursor'[n] = answer[n].upTo /\ answer'[n] = NoPull
      /\ caughtUp'[n] = (caughtUp[n] \/ answer[n].done)
  BY DEF ReceivePull, IInv, TypeOK
<1>4. \A m \in Member \ {n} :
        /\ has'[m] = has[m] /\ cursor'[m] = cursor[m]
        /\ answer'[m] = answer[m] /\ caughtUp'[m] = caughtUp[m]
  BY DEF ReceivePull, IInv, TypeOK
<1>5. \A i \in (cursor[n] + 1)..answer[n].upTo : log[i] \in Committed
  BY <1>1, <1>2
<1>6. TypeOK'
  <2>1. has'[n] \subseteq Entry
    BY <1>1, <1>3, <1>5 DEF IInv, TypeOK
  <2>2. has' \in [Member -> SUBSET Entry]
    BY <2>1 DEF ReceivePull, IInv, TypeOK
  <2>3. answer' \in [Member -> PullState] /\ cursor' \in [Member -> Nat]
        /\ caughtUp' \in [Member -> BOOLEAN]
    BY <1>2 DEF ReceivePull, IInv, TypeOK, PullState
  <2>4. QED  BY <1>1, <2>2, <2>3 DEF IInv, TypeOK
<1>7. RoomIsJoined' /\ OnlyTheJoinedPull' /\ StoredIsCommitted'
  BY <1>1, <1>2, <1>3, <1>4 DEF IInv, RoomIsJoined, OnlyTheJoinedPull,
       StoredIsCommitted
<1>8. CursorIsCovered'
  <2>1. \A i \in 1..answer[n].upTo : log[i] \in has'[n]
    BY <1>2, <1>3 DEF IInv, CursorIsCovered
  <2>2. QED  BY <1>1, <1>2, <1>3, <1>4, <2>1 DEF IInv, CursorIsCovered
<1>9. FannedOutIsDurable'
  BY <1>1, <1>3, <1>4, <1>5 DEF IInv, FannedOutIsDurable
<1>10. AnswerIsOfLog'
  BY <1>1, <1>3, <1>4 DEF IInv, AnswerIsOfLog, NoPull
<1>11. \A m \in Member, d \in Entry : Reached(m, d) => Reached(m, d)'
  BY <1>1, <1>3, <1>4 DEF Reached, Knows
<1>12. NothingMissed'
  <2> SUFFICES ASSUME NEW m \in Member, NEW d \in Committed, caughtUp'[m]
               PROVE  Reached(m, d)'
    BY <1>1 DEF NothingMissed
  <2>1. CASE caughtUp[m]
    BY <1>1, <1>11, <2>1 DEF IInv, NothingMissed
  <2>2. CASE ~caughtUp[m]
    <3>1. m = n /\ answer[n].done
      BY <1>3, <1>4, <2>2
    <3>2. PICK i \in 1..Len(log) : d = log[i]
      BY <1>1
    <3>3. CASE i <= cursor[n]
      BY <1>2, <1>3, <3>1, <3>2, <3>3
         DEF IInv, CursorIsCovered, Reached, Knows
    <3>4. CASE cursor[n] < i /\ i <= answer[n].upTo
      BY <1>2, <1>3, <3>1, <3>2, <3>4 DEF Reached, Knows
    <3>5. CASE answer[n].upTo < i
      BY <1>1, <1>2, <1>11, <3>1, <3>2, <3>5 DEF IInv, AnswerLeavesNothing
    <3>6. QED  BY <1>2, <3>3, <3>4, <3>5
  <2>3. QED  BY <2>1, <2>2
<1>13. AnswerLeavesNothing'
  <2> SUFFICES ASSUME NEW m \in Member, answer'[m].pc = "sent", answer'[m].done,
                      NEW i \in (answer'[m].upTo + 1)..Len(log)
               PROVE  Reached(m, log[i])'
    BY <1>1 DEF AnswerLeavesNothing
  <2>1. m # n /\ answer'[m] = answer[m]
    BY <1>3, <1>4 DEF NoPull
  <2>2. Reached(m, log[i]) /\ log[i] \in Entry
    BY <1>1, <2>1, AnswerFields DEF IInv, AnswerLeavesNothing
  <2>3. QED  BY <1>1, <1>11, <2>2
<1>14. QED
  BY <1>6, <1>7, <1>8, <1>9, <1>10, <1>12, <1>13 DEF IInv

-----------------------------------------------------------------------------
LEMMA StepIInv == ASSUME IInv, [Next]_vars PROVE IInv'
<1>1. CASE UNCHANGED vars
  BY <1>1 DEF vars, IInv, TypeOK, RoomIsJoined, OnlyTheJoinedPull,
       StoredIsCommitted, CursorIsCovered, FannedOutIsDurable, AnswerIsOfLog,
       AnswerLeavesNothing, NothingMissed, Committed, Reached, Knows
<1>2. ASSUME NEW m \in Member,
             \/ SignIn(m) \/ Join(m) \/ Drop(m)
             \/ Pull(m) \/ ReadLog(m) \/ ReceivePull(m)
      PROVE  IInv'
  BY <1>2, SignInIInv, DropIInv, AnswerIInv, ReceivePullIInv
<1>3. ASSUME NEW m \in Member, NEW e \in Entry, Receive(m, e) PROVE IInv'
  BY <1>3, ReceiveIInv
<1>4. ASSUME NEW e \in Entry,
             Send(e) \/ Write(e) \/ WriteFails(e) \/ FanOut(e)
      PROVE  IInv'
  BY <1>4, SendIInv, ReturnIInv, FanOutIInv
<1>5. QED  BY <1>1, <1>2, <1>3, <1>4, RestartIInv DEF Next

LEMMA AlwaysIInv == Spec => []IInv
BY InitIInv, StepIInv, PTL DEF Spec

(* Every variable holds a value of its type, for any members and entries.  *)
THEOREM TypeCorrect == Spec => []TypeOK
<1>1. IInv => TypeOK
  BY DEF IInv
<1>2. QED  BY <1>1, AlwaysIInv, PTL

(* A member that has caught up misses no committed entry whose author was  *)
(* not told that it failed: it has reached the member, is on its way or    *)
(* about to be fanned out, however pulls, writes, drops and restarts fall. *)
THEOREM NothingIsMissed == Spec => []NothingMissed
<1>1. IInv => NothingMissed
  BY DEF IInv
<1>2. QED  BY <1>1, AlwaysIInv, PTL

(* A member holds the log up to its cursor, in every state.                *)
THEOREM CursorsAreCovered == Spec => []CursorIsCovered
<1>1. IInv => CursorIsCovered
  BY DEF IInv
<1>2. QED  BY <1>1, AlwaysIInv, PTL

(* Nothing reaches a member, or is on its way to it, before it is durable. *)
THEOREM FanOutIsOfTheDurable == Spec => []FannedOutIsDurable
<1>1. IInv => FannedOutIsDurable
  BY DEF IInv
<1>2. QED  BY <1>1, AlwaysIInv, PTL
=============================================================================

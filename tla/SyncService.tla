----------------------------- MODULE SyncService -----------------------------
(***************************************************************************)
(* One community as its members see it: handleLogEntrySync writes an entry *)
(* and fans it out to the room, handleLogEntryPull reads the log, and      *)
(* members sign in, drop and come back, while calls to the database fail   *)
(* and the server restarts.                                                *)
(*                                                                         *)
(* The parts are used by what their own modules establish.  The log is the *)
(* append-only log of CommunityLog.  A pull returns the entries after the  *)
(* client's cursor up to some point, and says whether it reached the end   *)
(* (LogPull).  A member that passes _validateSyncPermission is in the room *)
(* (AdmittedIsReached of AuthSessions), because the status and the room    *)
(* change in one step of AuthConnection.                                   *)
(***************************************************************************)
EXTENDS Naturals, Sequences

CONSTANTS
  Member,
  Entry,
  AuthorOf         \* the member that creates and sends each entry

ASSUME SyncAssumption == AuthorOf \in [Entry -> Member]

VARIABLES
  session,         \* session[m]: "away", "joining" or "joined"
  room,            \* the members whose socket is in the team's room
  log,             \* the committed entries, in sync_seq order
  call,            \* call[e]: the handler that is writing e
  unheard,         \* entries committed by a call whose reply was lost
  inbox,           \* inbox[m]: the fanned out entries on their way to m
  answer,          \* answer[m]: the pull m is waiting for
  has,             \* has[m]: the entries m received
  cursor,          \* cursor[m]: the highestSyncSeq m received
  caughtUp         \* m was told hasNextPage = false since it signed in

vars == <<session, room, log, call, unheard, inbox, answer, has, cursor,
          caughtUp>>

NoPull == [pc |-> "none"]

PullState == {NoPull, [pc |-> "asked"]} \cup
             [pc : {"sent"}, upTo : Nat, done : BOOLEAN]

Committed == {log[i] : i \in DOMAIN log}

Init ==
  /\ session = [m \in Member |-> "away"]
  /\ room = {}
  /\ log = <<>>
  /\ call = [e \in Entry |-> "idle"]
  /\ unheard = {}
  /\ inbox = [m \in Member |-> {}]
  /\ answer = [m \in Member |-> NoPull]
  /\ has = [m \in Member |-> {}]
  /\ cursor = [m \in Member |-> 0]
  /\ caughtUp = [m \in Member |-> FALSE]

-----------------------------------------------------------------------------
SignIn(m) ==
  /\ session[m] = "away"
  /\ session' = [session EXCEPT ![m] = "joining"]
  /\ UNCHANGED <<room, log, call, unheard, inbox, answer, has, cursor,
                 caughtUp>>

(* AuthConnection's 'connected' handler.                                   *)
Join(m) ==
  /\ session[m] = "joining"
  /\ session' = [session EXCEPT ![m] = "joined"]
  /\ room' = room \cup {m}
  /\ UNCHANGED <<log, call, unheard, inbox, answer, has, cursor, caughtUp>>

Leave(gone) ==
  /\ session' = [m \in Member |-> IF m \in gone THEN "away" ELSE session[m]]
  /\ room' = room \ gone
  /\ inbox' = [m \in Member |-> IF m \in gone THEN {} ELSE inbox[m]]
  /\ answer' = [m \in Member |-> IF m \in gone THEN NoPull ELSE answer[m]]
  /\ caughtUp' = [m \in Member |-> caughtUp[m] /\ m \notin gone]

(* The member's socket drops, with whatever was on its way to it.          *)
Drop(m) ==
  /\ session[m] # "away"
  /\ Leave({m})
  /\ UNCHANGED <<log, call, unheard, has, cursor>>

(* The server goes down.  Writes that had reached the database go on there *)
(* with nobody waiting for them; writes that were done are not fanned out. *)
Restart ==
  /\ Leave(Member)
  /\ call' = [e \in Entry |-> IF call[e] \in {"writing", "orphaned"}
                              THEN "orphaned" ELSE "idle"]
  /\ UNCHANGED <<log, unheard, has, cursor>>

-----------------------------------------------------------------------------
(* A sync message passes the permission check and its write begins.  The   *)
(* author sends an entry again when it got no answer.                      *)
Send(e) ==
  /\ session[AuthorOf[e]] = "joined"
  /\ call[e] = "idle"
  /\ call' = [call EXCEPT ![e] = "writing"]
  /\ UNCHANGED <<session, room, log, unheard, inbox, answer, has, cursor,
                 caughtUp>>

(* addLogEntry commits the row, or finds the entry stored already.         *)
Write(e) ==
  /\ call[e] = "writing"
  /\ log' = IF e \in Committed THEN log ELSE Append(log, e)
  /\ call' = [call EXCEPT ![e] = "stored"]
  /\ UNCHANGED <<session, room, unheard, inbox, answer, has, cursor,
                 caughtUp>>

(* addLogEntry returns undefined, with the row committed or not: the       *)
(* handler answers with an error and fans nothing out.                     *)
WriteFails(e) ==
  /\ call[e] \in {"writing", "orphaned"}
  /\ call' = [call EXCEPT ![e] = "idle"]
  /\ \/ UNCHANGED <<log, unheard>>
     \/ /\ e \notin Committed
        /\ log' = Append(log, e)
        /\ unheard' = unheard \cup {e}
  /\ UNCHANGED <<session, room, inbox, answer, has, cursor, caughtUp>>

(* Mutant: the entry is fanned out before the write has returned.          *)
FanOut_BeforeWrite(e) ==
  /\ call[e] = "writing"
  /\ call' = [call EXCEPT ![e] = "stored"]
  /\ inbox' = [m \in Member |-> IF m \in room \ {AuthorOf[e]}
                                THEN inbox[m] \cup {e} ELSE inbox[m]]
  /\ UNCHANGED <<session, room, log, unheard, answer, has, cursor, caughtUp>>

(* The handler emits to the room, except to the sender's socket, and       *)
(* acknowledges.                                                           *)
FanOut(e) ==
  /\ call[e] = "stored"
  /\ call' = [call EXCEPT ![e] = "idle"]
  /\ inbox' = [m \in Member |-> IF m \in room \ {AuthorOf[e]}
                                THEN inbox[m] \cup {e} ELSE inbox[m]]
  /\ unheard' = unheard \ {e}
  /\ UNCHANGED <<session, room, log, answer, has, cursor, caughtUp>>

(* A fanned out entry arrives.                                             *)
Receive(m, e) ==
  /\ e \in inbox[m]
  /\ inbox' = [inbox EXCEPT ![m] = @ \ {e}]
  /\ has' = [has EXCEPT ![m] = @ \cup {e}]
  /\ UNCHANGED <<session, room, log, call, unheard, answer, cursor, caughtUp>>

(* Mutant: a pull is admitted while the authentication is pending.         *)
Pull_Pending(m) ==
  /\ session[m] # "away"
  /\ answer[m] = NoPull
  /\ answer' = [answer EXCEPT ![m] = [pc |-> "asked"]]
  /\ UNCHANGED <<session, room, log, call, unheard, inbox, has, cursor,
                 caughtUp>>

(* A pull message passes the permission check.                             *)
Pull(m) ==
  /\ session[m] = "joined"
  /\ answer[m] = NoPull
  /\ answer' = [answer EXCEPT ![m] = [pc |-> "asked"]]
  /\ UNCHANGED <<session, room, log, call, unheard, inbox, has, cursor,
                 caughtUp>>

(* The log is read, from the cursor to some point past it or to the end.   *)
ReadLog(m) ==
  /\ answer[m].pc = "asked"
  /\ \E upTo \in cursor[m]..Len(log) :
       /\ upTo = cursor[m] => upTo = Len(log)
       /\ answer' = [answer EXCEPT ![m] =
                       [pc |-> "sent", upTo |-> upTo, done |-> upTo = Len(log)]]
  /\ UNCHANGED <<session, room, log, call, unheard, inbox, has, cursor,
                 caughtUp>>

(* Mutant: the cursor moves to the end of the log.                         *)
ReceivePull_ToEnd(m) ==
  /\ answer[m].pc = "sent"
  /\ has' = [has EXCEPT ![m] =
               @ \cup {log[i] : i \in (cursor[m] + 1)..answer[m].upTo}]
  /\ cursor' = [cursor EXCEPT ![m] = Len(log)]
  /\ caughtUp' = [caughtUp EXCEPT ![m] = @ \/ answer[m].done]
  /\ answer' = [answer EXCEPT ![m] = NoPull]
  /\ UNCHANGED <<session, room, log, call, unheard, inbox>>

ReceivePull(m) ==
  LET a == answer[m] IN
  /\ a.pc = "sent"
  /\ has' = [has EXCEPT ![m] =
               @ \cup {log[i] : i \in (cursor[m] + 1)..a.upTo}]
  /\ cursor' = [cursor EXCEPT ![m] = a.upTo]
  /\ caughtUp' = [caughtUp EXCEPT ![m] = @ \/ a.done]
  /\ answer' = [answer EXCEPT ![m] = NoPull]
  /\ UNCHANGED <<session, room, log, call, unheard, inbox>>

Next ==
  \/ \E m \in Member : \/ SignIn(m) \/ Join(m) \/ Drop(m)
                       \/ Pull(m) \/ ReadLog(m) \/ ReceivePull(m)
  \/ \E m \in Member, e \in Entry : Receive(m, e)
  \/ \E e \in Entry : Send(e) \/ Write(e) \/ WriteFails(e) \/ FanOut(e)
  \/ Restart

Spec == Init /\ [][Next]_vars

(***************************************************************************)
(* Messages on a live socket arrive, handlers go on, and a client that has *)
(* not caught up since it signed in pulls until it has.                    *)
(***************************************************************************)
CatchUp(m) == \/ ~caughtUp[m] /\ Pull(m)
              \/ ReadLog(m)
              \/ ReceivePull(m)

FairSpec ==
  /\ Spec
  /\ \A m \in Member : WF_vars(CatchUp(m))
  /\ \A e \in Entry : /\ WF_vars(FanOut(e))
                      /\ \A m \in Member \ {AuthorOf[e]} :
                           WF_vars(Receive(m, e))

-----------------------------------------------------------------------------
(* Every variable holds a value of its type.                               *)
TypeOK ==
  /\ session \in [Member -> {"away", "joining", "joined"}]
  /\ room \subseteq Member
  /\ log \in Seq(Entry)
  /\ call \in [Entry -> {"idle", "writing", "orphaned", "stored"}]
  /\ unheard \subseteq Entry
  /\ inbox \in [Member -> SUBSET Entry]
  /\ answer \in [Member -> PullState]
  /\ has \in [Member -> SUBSET Entry]
  /\ cursor \in [Member -> Nat]
  /\ caughtUp \in [Member -> BOOLEAN]

Knows(m, e) == e \in has[m] \/ AuthorOf[e] = m

(* The entry reached the member, is on its way, is about to be fanned out, *)
(* or is one whose author was told that it failed.                         *)
Reached(m, e) ==
  Knows(m, e) \/ e \in inbox[m] \/ call[e] = "stored" \/ e \in unheard

(* Between its pulls and the fan-out a member that has caught up misses no *)
(* entry that was committed and whose author was not told that it failed.  *)
NothingMissed ==
  \A m \in Member, e \in Committed : caughtUp[m] => Reached(m, e)

(* What a member holds up to its cursor is the log up to its cursor.       *)
CursorIsCovered ==
  \A m \in Member : /\ cursor[m] <= Len(log)
                    /\ \A i \in 1..cursor[m] : log[i] \in has[m]

(* An entry on its way to a member, or in its hands, is committed: nothing *)
(* is fanned out before it is durable.                                     *)
FannedOutIsDurable ==
  \A m \in Member : inbox[m] \cup has[m] \subseteq Committed

(* A member that stays gets every entry, except one whose author was told  *)
(* that it failed and did not send it again.                               *)
MembersConverge ==
  \A e \in Entry : \A m \in Member \ {AuthorOf[e]} :
    <>[](session[m] = "joined" /\ e \notin unheard)
      => (e \in Committed ~> e \in has[m])
=============================================================================

------------------------------ MODULE LogPull ------------------------------
(***************************************************************************)
(* handleLogEntryPull and its two paging loops, by sync sequence and, for  *)
(* older clients, by receivedAt and id.  Every page is its own query, so   *)
(* entries are committed between the pages of one response and between     *)
(* responses.  The client resumes from the highestSyncSeq, or the cursor,  *)
(* it was given.                                                           *)
(*                                                                         *)
(* The table is the append-only log of CommunityLog, which LogEntryStore   *)
(* implements: an entry's sync_seq is its index in its community's log.    *)
(* Its receivedAt was read before its transaction, so any order of stamps  *)
(* is possible in a log.                                                   *)
(***************************************************************************)
EXTENDS CommunityLog, SequencesExt

CONSTANTS
  Puller,         \* clients that pull; one pull at a time each
  CommunityAt,    \* the community each pulls from
  FilterOf,       \* the entries its hash and hashedDbId filters let through
  SizeOf,         \* the bytes of each entry
  MetaBytes,      \* the bytes of the response's metadata
  MaxBytes,       \* the response budget (800000 in the code)
  PageSize,       \* the most rows one query returns (200 in the code)
  Limits,         \* the limits clients send, NoLimit when they send none
  NoLimit,
  Ends,           \* the endSeq or endTs clients send, a large number for none
  StampOf,        \* the receivedAt of each entry
  PlaceOf,        \* its place in the order of receivedAt, then id
  Starts,         \* the startTs clients send
  MaxLosses       \* bound on lost responses

ASSUME PullAssumption ==
  /\ CommunityAt \in [Puller -> Community]
  /\ PageSize \in Nat \ {0}
  /\ Limits \ {NoLimit} \subseteq Nat
  /\ Ends \subseteq Nat
  /\ MaxLosses \in Nat

(* The order by receivedAt and id is total and agrees with the stamps.     *)
ASSUME PlaceAssumption ==
  \A d, e \in Cid :
    /\ PlaceOf[d] \in Nat \ {0} /\ StampOf[d] \in Nat
    /\ PlaceOf[d] = PlaceOf[e] => d = e
    /\ StampOf[d] < StampOf[e] => PlaceOf[d] < PlaceOf[e]

VARIABLES
  kind,           \* whether each client pulls by "sequence" or by "time"
  pull,           \* the loop each puller's handler is in
  base,           \* the position the client first began from
  cursor,         \* the highestSyncSeq or cursor the client last received
  delivered,      \* the entries the client received, in order
  reply,          \* its last response, with the limit and end it asked for
  losses

pullVars == <<kind, pull, base, cursor, delivered, reply, losses>>

Quiet == [pc |-> "quiet", limit |-> NoLimit, end |-> 0, next |-> 0,
          entries |-> <<>>]

Asked(limit, end, next) ==
  [pc |-> "reading", limit |-> limit, end |-> end, next |-> next,
   entries |-> <<>>]

NoReply == [entries |-> <<>>, hasNextPage |-> FALSE, limit |-> NoLimit,
            end |-> 0]

(* The entries received at the time or later are those after the place.    *)
StartsAfter(place, time) ==
  \A d \in Cid : PlaceOf[d] <= place <=> StampOf[d] < time

PullersInit ==
  /\ kind \in [Puller -> {"sequence", "time"}]
  /\ pull = [p \in Puller |-> Quiet]
  /\ base \in [Puller -> {0} \cup {PlaceOf[d] : d \in Cid}]
  /\ \A p \in Puller :
       IF kind[p] = "sequence" THEN base[p] = 0
       ELSE \E time \in Starts : StartsAfter(base[p], time)
  /\ cursor = base
  /\ delivered = [p \in Puller |-> <<>>]
  /\ reply = [p \in Puller |-> NoReply]
  /\ losses = 0

PullInit == LogInit /\ PullersInit

Table(p) == log[CommunityAt[p]]

(* The rows p's filters let through, by their sync_seq.                    *)
Rows(p) == {seq \in DOMAIN Table(p) : Table(p)[seq] \in FilterOf[p]}

StampAt(p, seq) == StampOf[Table(p)[seq]]

PlaceAt(p, seq) == PlaceOf[Table(p)[seq]]

MatchingBySeq(p, after, end) ==
  {seq \in Rows(p) : after < seq /\ seq <= end}

(* Mutant: a page begins after the cursor's receivedAt, without the id.    *)
MatchingByTime_NoTieBreak(p, after, end) ==
  LET Passed(time) == \E d \in Cid : PlaceOf[d] = after /\ time <= StampOf[d] IN
  {seq \in Rows(p) : ~Passed(StampAt(p, seq)) /\ StampAt(p, seq) <= end}

(* getPaginatedLogEntries: the cursor names a place, the end a time.       *)
MatchingByTime(p, after, end) ==
  {seq \in Rows(p) : after < PlaceAt(p, seq) /\ StampAt(p, seq) <= end}

(* What a client asks for, and where a row stands in the order of its kind.*)
Matching(p, after, end) ==
  IF kind[p] = "sequence" THEN MatchingBySeq(p, after, end)
                          ELSE MatchingByTime(p, after, end)

PositionOf(p, seq) == IF kind[p] = "sequence" THEN seq ELSE PlaceAt(p, seq)

Ordered(p, entries) ==
  \A i, j \in DOMAIN entries :
    i < j => PositionOf(p, entries[i]) < PositionOf(p, entries[j])

(* ORDER BY: the rows in the order of their positions.                     *)
InOrder(p, rowset) ==
  CHOOSE entries \in [1..Cardinality(rowset) -> rowset] : Ordered(p, entries)

(* The query asks for one row more than the page, which is not returned.   *)
PageSizeFor(limit) ==
  IF limit = NoLimit \/ limit > PageSize THEN PageSize ELSE limit

Page(p, rowset, size, hasNextPage) ==
  [items |-> SubSeq(InOrder(p, rowset), 1, Min({size, Cardinality(rowset)})),
   hasNextPage |-> hasNextPage]

(* Mutants: a full page counts as one with a next; no extra row is asked   *)
(* for.                                                                    *)
PageOf_FullMeansMore(p, limit, after, end) ==
  LET rest == MatchingBySeq(p, after, end)
      size == PageSizeFor(limit)
  IN Page(p, rest, size, Cardinality(rest) >= size)

PageOf_NoExtraRow(p, limit, after, end) ==
  Page(p, MatchingBySeq(p, after, end), PageSizeFor(limit), FALSE)

(* getPaginatedLogEntriesBySyncSeq.                                        *)
PageOf(p, limit, after, end) ==
  LET rest == MatchingBySeq(p, after, end)
      size == PageSizeFor(limit)
  IN Page(p, rest, size, Cardinality(rest) > size)

(* The page findByCursor makes of getPaginatedLogEntries' filters.         *)
PageByTime(p, limit, after, end) ==
  LET rest == MatchingByTime(p, after, end)
      size == PageSizeFor(limit)
  IN Page(p, rest, size, Cardinality(rest) > size)

(***************************************************************************)
(* The loop over one page's items.  An item is refused when the response   *)
(* already holds an entry and the budget would be exceeded; after an item  *)
(* the loop stops when the budget is used up or the limit reached.         *)
(***************************************************************************)
Total(sizes) == FoldLeft(LAMBDA sum, size : sum + size, 0, sizes)

Bytes(p, entries) ==
  Total([i \in DOMAIN entries |-> SizeOf[Table(p)[entries[i]]]])

Fits(p, entries) == Bytes(p, entries) + MetaBytes <= MaxBytes

(* Mutant: the budget is compared without the item at hand.                *)
Refused_WithoutItem(p, entries, seq) == entries # <<>> /\ ~Fits(p, entries)

Refused(p, entries, seq) ==
  entries # <<>> /\ ~Fits(p, Append(entries, seq))

StopsAt(p, entries, limit) ==
  \/ Bytes(p, entries) + MetaBytes >= MaxBytes
  \/ limit # NoLimit /\ Len(entries) >= limit

(* The page's i-th item joins the entries, after those before it.          *)
Joins(p, page, limit, entries, i) ==
  LET before == entries \o SubSeq(page.items, 1, i - 1) IN
  /\ ~Refused(p, before, page.items[i])
  /\ i > 1 => ~StopsAt(p, before, limit)

-----------------------------------------------------------------------------
(* A pull request reaches its handler, with startSeq or, from a client by  *)
(* time, startTs and its cursor.  What the ORM makes of a page of 0 is not *)
(* in this repository, so the clients by time do not ask for it.           *)
PullWith(p, limit, end) ==
  /\ pull[p].pc = "quiet"
  /\ kind[p] = "time" => limit # 0
  /\ pull' = [pull EXCEPT ![p] = Asked(limit, end, cursor[p])]
  /\ UNCHANGED <<log, kind, base, cursor, delivered, reply, losses>>

StartPull(p) == \E limit \in Limits, end \in Ends : PullWith(p, limit, end)

(* The sync_seq of the row received last up to the time.                   *)
ResolveSyncSeqForTimestamp(p, time) ==
  LET before == {seq \in DOMAIN Table(p) : time > 0 /\ StampAt(p, seq) <= time}
      latest == {seq \in before : \A other \in before :
                                   StampAt(p, other) <= StampAt(p, seq)}
  IN Max({0} \cup latest)

(* A client without a sequence sends startTs and endSeq: it begins where   *)
(* the time resolves to, which the response names as resolvedStartSeq.     *)
StartPullAtTimestamp(p) ==
  /\ pull[p].pc = "quiet" /\ kind[p] = "sequence"
  /\ cursor[p] = 0
  /\ \E limit \in Limits, end \in Ends, time \in Starts :
       LET start == ResolveSyncSeqForTimestamp(p, time) IN
       /\ pull' = [pull EXCEPT ![p] = Asked(limit, end, start)]
       /\ base' = [base EXCEPT ![p] = start]
       /\ cursor' = [cursor EXCEPT ![p] = start]
  /\ UNCHANGED <<log, kind, delivered, reply, losses>>

(* Mutants: an empty response resets the cursor; the cursor goes to the    *)
(* end of the log instead of the last entry of the response.               *)
Respond_Resets(p, entries, hasNextPage) ==
  /\ pull' = [pull EXCEPT ![p] = Quiet]
  /\ delivered' = [delivered EXCEPT ![p] = @ \o entries]
  /\ cursor' = [cursor EXCEPT ![p] =
                  IF entries = <<>> THEN -1 ELSE PositionOf(p, Last(entries))]
  /\ UNCHANGED reply

Respond_SkipsToEnd(p, entries, hasNextPage) ==
  /\ pull' = [pull EXCEPT ![p] = Quiet]
  /\ delivered' = [delivered EXCEPT ![p] = @ \o entries]
  /\ cursor' = [cursor EXCEPT ![p] = Len(Table(p))]
  /\ UNCHANGED reply

Respond(p, entries, hasNextPage) ==
  /\ pull' = [pull EXCEPT ![p] = Quiet]
  /\ delivered' = [delivered EXCEPT ![p] = @ \o entries]
  /\ cursor' = [cursor EXCEPT ![p] =
                  IF entries = <<>> THEN @ ELSE PositionOf(p, Last(entries))]
  /\ reply' = [reply EXCEPT ![p] =
                 [entries |-> entries, hasNextPage |-> hasNextPage,
                  limit |-> pull[p].limit, end |-> pull[p].end]]

(* One turn of a while loop: take what fits of a page, then respond or go  *)
(* round again.                                                            *)
Turn(p, page) ==
  \E taken \in 0..Len(page.items) :
    LET q == pull[p]
        entries == q.entries \o SubSeq(page.items, 1, taken)
        hasNextPage == /\ page.items # <<>>
                       /\ taken < Len(page.items) \/ page.hasNextPage
        goesOn == /\ hasNextPage /\ taken = Len(page.items)
                  /\ ~StopsAt(p, entries, q.limit)
    IN
    /\ \A i \in 1..taken : Joins(p, page, q.limit, q.entries, i)
    /\ taken < Len(page.items) =>
         ~Joins(p, page, q.limit, q.entries, taken + 1)
    /\ IF goesOn
       THEN /\ pull' = [pull EXCEPT ![p].next = PositionOf(p, Last(entries)),
                                    ![p].entries = entries]
            /\ UNCHANGED <<delivered, cursor, reply>>
       ELSE Respond(p, entries, hasNextPage)
    /\ UNCHANGED <<log, kind, base, losses>>

(* The turns of _getPaginatedLogEntriesBySyncSeq.                          *)
ReadPage(p) ==
  /\ pull[p].pc = "reading" /\ kind[p] = "sequence"
  /\ \E page \in {PageOf(p, pull[p].limit, pull[p].next, pull[p].end)} :
       Turn(p, page)

(* Mutant: the next page begins where the response did.                    *)
ReadPageByTime_FirstAgain(p) ==
  /\ pull[p].pc = "reading" /\ kind[p] = "time"
  /\ \E page \in {PageByTime(p, pull[p].limit, cursor[p], pull[p].end)} :
       Turn(p, page)

(* The turns of _getPaginatedLogEntriesByCursor.                           *)
ReadPageByTime(p) ==
  /\ pull[p].pc = "reading" /\ kind[p] = "time"
  /\ \E page \in {PageByTime(p, pull[p].limit, pull[p].next, pull[p].end)} :
       Turn(p, page)

(* The query fails, or the socket drops before the acknowledgement.        *)
LosePull(p) ==
  /\ pull[p].pc = "reading"
  /\ losses < MaxLosses
  /\ losses' = losses + 1
  /\ pull' = [pull EXCEPT ![p] = Quiet]
  /\ UNCHANGED <<log, kind, base, cursor, delivered, reply>>

PullStep ==
  \E p \in Puller :
    \/ StartPull(p) \/ StartPullAtTimestamp(p)
    \/ ReadPage(p) \/ ReadPageByTime(p) \/ LosePull(p)

PullNext ==
  \/ LogNext /\ UNCHANGED pullVars
  \/ PullStep

pullSystem == <<log, pullVars>>

PullSpec == PullInit /\ [][PullNext]_pullSystem

(***************************************************************************)
(* Among the pulls of a client there is always another one with a positive *)
(* limit and without an endSeq, and a handler that started goes on with    *)
(* its loop.                                                               *)
(***************************************************************************)
FollowUp(p) == \E limit \in Limits \ {0} : PullWith(p, limit, Max(Ends))

FairPullSpec ==
  /\ PullSpec
  /\ \A p \in Puller :
       /\ SF_pullSystem(FollowUp(p))
       /\ WF_pullSystem(ReadPage(p) \/ ReadPageByTime(p))

-----------------------------------------------------------------------------
PullState == [pc : {"quiet", "reading"}, limit : Limits \cup {NoLimit},
              end : Nat, next : Nat, entries : Seq(Nat)]

Response == [entries : Seq(Nat), hasNextPage : BOOLEAN,
             limit : Limits \cup {NoLimit}, end : Nat]

(* Every variable holds a value of its type.                               *)
PullTypeOK ==
  /\ log \in [Community -> Seq(Cid)]
  /\ kind \in [Puller -> {"sequence", "time"}]
  /\ pull \in [Puller -> PullState]
  /\ base \in [Puller -> Nat] /\ cursor \in [Puller -> Nat]
  /\ delivered \in [Puller -> Seq(Nat)]
  /\ reply \in [Puller -> Response]
  /\ losses \in 0..MaxLosses

(* Over any number of responses a client has received matching entries of  *)
(* the range it began from up to its cursor, each once and in its order,   *)
(* although rows were committed between and during its pulls and responses *)
(* were lost.  An entry of that range is missing only if one the client    *)
(* received stands after it and was committed before it: a client by       *)
(* sequence misses nothing, one by time only entries committed out of the  *)
(* order of their stamps.                                                  *)
OnlyTheLateAreMissed ==
  \A p \in Puller :
    LET range == {seq \in Rows(p) : /\ base[p] < PositionOf(p, seq)
                                    /\ PositionOf(p, seq) <= cursor[p]}
        got == ToSet(delivered[p])
    IN /\ got \subseteq range
       /\ Ordered(p, delivered[p])
       /\ \A seq \in range \ got :
            \E other \in got : /\ PositionOf(p, other) > PositionOf(p, seq)
                               /\ other < seq

(* hasNextPage = true is never a false promise: the response moved the     *)
(* cursor and an entry does follow it, so a client that follows hasNextPage*)
(* always ends.                                                            *)
MoreIsReal ==
  \A p \in Puller :
    reply[p].hasNextPage => /\ reply[p].entries # <<>>
                            /\ Matching(p, cursor[p], reply[p].end) # {}

(* hasNextPage = false is given only when the client holds every matching  *)
(* entry up to its endSeq that was committed when the last page was read.  *)
(* A limit of 0 is left out: it is answered with nothing and false.        *)
DoneStep ==
  \A p \in Puller :
    /\ pull[p].pc = "reading" /\ pull'[p].pc = "quiet"
    /\ pull[p].limit # 0
    /\ losses' = losses
    /\ ~reply'[p].hasNextPage
    => Matching(p, cursor'[p], pull[p].end) = {}

DoneMeansCaughtUp == [][DoneStep]_pullSystem

(* A response stays within its byte budget unless a single entry alone     *)
(* exceeds it, and never holds more entries than the client's limit.       *)
ResponseFits ==
  \A p \in Puller :
    LET r == reply[p] IN
    /\ Len(r.entries) > 1 => Fits(p, r.entries)
    /\ r.limit # NoLimit => Len(r.entries) <= r.limit

(* Every committed entry that matches reaches every client by sequence that*)
(* keeps pulling, whatever other pulls it sends and loses; a client by time*)
(* is owed those it has not gone past.                                     *)
Owed(p, d) ==
  \E seq \in Rows(p) :
    /\ Table(p)[seq] = d
    /\ PositionOf(p, seq) >
         IF kind[p] = "sequence" THEN base[p] ELSE cursor[p]
    /\ ~Contains(delivered[p], seq)

EveryEntryDelivered ==
  \A p \in Puller, d \in Cid : Owed(p, d) ~> ~Owed(p, d)
=============================================================================

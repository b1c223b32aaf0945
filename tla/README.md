# TLA+ verification of quiet-storage-service

The quiet-storage-service (QSS) keeps, for each community ("team") of Quiet
users, the encrypted log entries its members write and the signature chain that
says who the members are. Members connect over socket.io; the server checks
them against the chain, stores what they send in Postgres, gives every entry a
sync sequence number, fans it out to the members that are connected and serves
the rest when they pull.

This directory holds TLA+ modules of that behaviour, the TLC configurations
that check them on small instances, and TLAPS proofs of what matters most.
Paths below are relative to `src/app/src/nest/`.

## The system's parts

| Part | State it keeps | Operations | Where it is hard |
|---|---|---|---|
| Log entry storage (`communities/storage/log-entry-sync.storage.service.ts`) | table `log_entry_sync`, counter table | `addLogEntry` (one SQL statement), `resolveSyncSeqForTimestamp`, paged queries | statements of one community interleave; snapshots are stale; counters drift; ids are sent again; replies are lost |
| Log entry sync service (`communities/sync/log-entry-sync.service.ts`) | none | permission check, write, paging loops | entries are committed between pages; byte budget, limit and end of page coincide |
| Sync and pull handlers (`websocket/handlers/log-entry-sync.handler.ts`) | socket.io rooms | write, then fan out, then acknowledge; pull | crash or error between commit and fan-out; fan-out races with pulls |
| Communities manager (`communities/communities-manager.service.ts`) | map of loaded communities, each with its auth connections and expiry | `get`, `create`, `update`, `startAuthSyncConnection`, disconnect handler, eviction timer | handlers wait on storage in the middle; events of replaced connections; expiry against sign-in |
| Auth connection (`communities/auth/auth.connection.ts`) | status, room membership of its socket | `start`, `stop`, handlers of the LFA events | events come from the peer, the socket and the server |
| Sigchain persistence (`communities/auth/sigchain.ts`, `communities/storage/communities.storage.service.ts`) | `communities` table | load, save on update | several instances of one chain, unordered saves |
| Server keys and secrets (`encryption/`, `utils/aws/aws-secrets.service.ts`) | secrets manager, the key in memory, a TTL cache | create, get, check-then-create | two processes or handlers create at once |
| Community creation, captcha (`websocket/handlers/`) | flags on the socket | verify captcha, generate keys, create | several stores written one after another |
| Gateway (`websocket/ws.gateway.ts`, `websocket/ws-rate-limit.ts`) | connection times per IP, sockets per IP | connect, disconnect, prune | window boundaries, a timer that prunes at any time, what is counted against what is open |
| NSE authentication (`nse/`) | challenges | issue, verify, read log | expiry, single use; devices are removed while requests wait, and not every chain object knows |
| Push notifications (`qps/`) | the signing key in the secrets manager and in memory | create the key, register, send, send batch | processes create the key at once; members leave while a batch is checked; FCM answers for some tokens only |
| Lifecycle, serializer, loggers, configuration, database clients, CLI client | none shared with the other parts | start, close, convert, format | not modelled (below) |

## Modules

| Module | Models | State and actions |
|---|---|---|
| `LogEntries` | what the store and its readers share | the constants `Community` and `Cid` |
| `CommunityLog` | the abstract log: append-only, one position per entry, no duplicates | `log`; `AppendEntry` |
| `LogEntryStore` | `addLogEntry` as Postgres runs it at READ COMMITTED | `rows` and `counter` are the tables, `stmt[r]` the call that message `r` is in. One action per point where another session can intervene: `Receive` (stamp `receivedAt`), `BeginStatement` (the snapshot the CTE `recovered` reads), `Allocate` (the upsert, which takes the row lock of the counter), `Commit`, `CommitReplyLost`, `DuplicateId` then `ReadBack`, `Abort`, `Return` |
| `LogPull` | `handleLogEntryPull`, its paging loops by sync sequence and by timestamp cursor, and `resolveSyncSeqForTimestamp`, over `CommunityLog` | `kind[p]` says how client `p` pulls, `pull[p]` is the loop; `StartPull` and `StartPullAtTimestamp` are a request, `ReadPage` and `ReadPageByTime` one turn of a loop: query, take what fits (`Joins`), respond or go round (`Turn`). Rows are the positions of the log; `MatchingBySeq`, `MatchingByTime` are the queries' filters and `InOrder` their ORDER BY |
| `StoredPulls` | `LogPull` over the table of `LogEntryStore` instead of an abstract log | the variables of both; a `StoreStep` is a step of the store, after which `log` is what the queries find; a `ReaderStep` is one of `LogPull` |
| `AuthSessions` | the manager's memory, the auth connections and the sockets | what a handler does between two waits is one action. `StartAuth` is `startAuthSyncConnection`; `BeginLoad`/`FinishLoad`/`FailLoad` are a cache miss in `get`; `BeginCreate`/`StoreCreated`/`FinishCreate` are `create`; `SocketDisconnect`, `LfaConnected`, `LfaDisconnected` are the event handlers; `ClearUnused` the timer |
| `SyncService` | the handlers for sync and pull as the members see them | composes the results of the three modules above (see its header): `Send`, `Write`, `WriteFails`, `FanOut` are a sync; `Pull`, `ReadLog`, `ReceivePull` a pull; `Join`, `Drop`, `Restart` change who is in the room |
| `CommunityCreation` | the server encryption key, the server and team keyrings, the captcha flags and the community row, for several processes | the stored secrets and rows, `encKey[p]` in the memory of a process, `op[r]` the handler of a message. One action per call of the secrets manager or the database, since each is a wait: `FetchKey`, `StoreKey` (the key), `ReadServerRing`, `StoreServerRing`, `Refuse` (`getServerKeys`), `StoreTeamRing`, `InsertRow` (`create`), `ReadTeamRing`, `FinishLoad` (a load); a call may fail or lose its answer; `Restart` empties the memory of a process |
| `NseAuth` | challenges and tokens of the notification service extension | `challenges` and `tokens`; `op[r]` is a token request that waits for the sigchain or for the signature of its token: `RequestToken`, `CheckProof` and `IssueToken` are `verifyAndIssueToken` between its waits, `Refuse` its ends without a token, `GetLogEntries` the guard of the query; `lastRead` remembers the last query that was admitted. `OnTeam` is what a sigchain with given links says of a device |
| `NseAccess` | `NseAuth` over the `SigChain` objects of `ChainPersistence` | the variables of both, with token requests as further callers of `get`: `AskMemory` is answered by the object in memory; `AskStorage`, `ReadStorage`, `AskLoaded` (or `FailToLoad`) are the request's own load, whose object answers and takes the place of the one in memory; `ChainStep` is what users and saves do to the chains; `ProcessEnds` loses the memory of both. A removal is a link like any other; `settled` remembers when it came to be on every chain that is stored, in use, being loaded or being saved |
| `PushDelivery` | the push service with its signing key, in several processes | `secret` is the stored key and `proc[p]` what a process has; `Boot` and `StoreKey` are `initializeKeypair` on the two sides of its wait; `op[s]` is the handler of a message of socket `s`: `RegisterDevice`, `IssueUcan` a registration; `SendPush`, `SendBatchPush`, `Check` (one UCAN), `Dispatch`, `CallFcm` (one platform), `Finish` a push; `RefuseBatch` a batch that is too long; sockets and the life of tokens are external; `auth[s]` also tells whether a membership that is over ended before the socket's last push |
| `ChainPersistence` | the sigchain of one community: the `SigChain` objects of a process, the copies of the members, the row | `chain[i]` is an object with what it holds and loaded, `cached` the one in the map, `conn[m]` the one that a member's connection works on, `saves` the calls of `update` under way. `AddCommunity`, `FinishCreate` are a creation; `BeginLoad`, `ReadRow`, `FinishLoad`, `FailLoad` a cache miss in `get`; `Receive` is the `updated` event, which starts a save; `CommitSave` commits any of them; `FailSave` ends the process, because nobody catches its rejection. `Send`, `Receive` are LFA's merging, external but for the save |
| `ConnectionLimits` | the gateway's counting of connections per address | `connectionRates` and `socketIps` are the two maps; `RefuseConcurrent` and `RecordAttempt` are `handleConnection`, `Disconnect` is `handleDisconnect`, `PruneRates` the timer |
| `Gateway` | `ConnectionLimits` with the secret that a connected socket's captcha needs | `calls[s]` is a call of `getSecretEnvVar` between its waits: `UseCached`, `BeginFetch`, `AwsReads`, `AwsFails` (with the retries), `Receive`, `Return`; `Replace` is an operator who changes the secret |
| `LogEntries_proofs` | the proofs about `LogEntryStore`, `LogPull` and `StoredPulls` | |
| `SyncService_proofs`, `AuthSessions_proofs`, `ChainPersistence_proofs`, `CommunityCreation_proofs`, `NseAuth_proofs`, `PushDelivery_proofs`, `Gateway_proofs` | the proofs about these modules | |
| `MC...` | instances for TLC | |

The definitions named `Name_Variant` and commented "Mutant" are what a plausible
bug would make of `Name`; no specification uses them. They serve to confirm that
each property is able to fail: with `Name` replaced by the variant, the property
is violated.

## Runs

| Configuration | Checks | Instance |
|---|---|---|
| `StoreSafety` | `GapFree`, `AllocatedIsNext`, `AnswerIsStored`, `CommitsInOrder`, `ImplementsCommunityLog`, `CallsReturn` | three messages: two entries for one community, one of them also for another; two clock values, a counter row lost or set back once |
| `PullSafety` | `PullTypeOK`, `OnlyTheLateAreMissed`, `MoreIsReal`, `ResponseFits`, `DoneMeansCaughtUp`, `EveryEntryDelivered` | a client of either kind; four entries of which one is filtered out, one is larger than the budget and two have one time stamp; pages of two, limits none/0/1/3, an end, two start times, a lost response |
| `AuthSafety` | `RegisteredIsOpen`, `ExpiryMeansIdle`, `DisconnectStops`, `AdmittedIsReached`, `IdleIsEvicted` | two users, two sockets, three connections, one community that is created in the run |
| `AuthStaleDisconnect` | `ExpiryMeansNoneOpen`: **violated** | one user, two sockets |
| `AuthLateSignIn` | `RegisteredIsLive`: **violated** | one user, two sockets |
| `SyncMembers` | `NothingMissed`, `CursorIsCovered`, `FannedOutIsDurable`, `MembersConverge` | two members, each with an entry |
| `CreationSafety` | `KeyInMemoryIsStored`, `RowMatchesKeyrings`, `LoadFindsKeys`, `AnsweredKeysAreStored` | five messages over two sockets on two processes, one team, secrets that are never replaced |
| `NseSafety` | `OneTokenPerChallenge`, `TokenIsProven`, `RemovedLosesAccess`, `ExpiredChallengesGo` | two devices, two challenges, two requests, one user of the chain, two chain objects between restarts, a clock of four values; either the chain is at rest, or it changes and one device asks once |
| `PushSafety` | `UcansStayValid`, `PushesStayInTeam`, `AnswersAreTrue` | two processes, a socket that registers devices and one that also sends, a device of each platform, two UCANs and a forged one, batches of up to two |
| `ChainSafety` | `EveryUpdateIsWritten`, `RowLosesOnlyToOthers`, `ConnectedIsWritten` | two members, two links, two chain objects between restarts |
| `ChainSplit` | `MembersMeet`: **violated** | the same |
| `GatewaySafety` | `WindowIsBounded`, `OpenIsBounded`, `RefusedAtTheLimit`, `AnswersAreFresh`, `CallsEnd` | four connections of two addresses, a window of one tick, limits of one, a clock to two; either all connect, or two connect and ask for a secret of two possible values with two attempts and a TTL of one |

The type invariants, `UniqueRows` and `InvalidAreDead` are proved for every instance
(below), so no run repeats them, but for `PullTypeOK`: it holds only because a cursor
is never set from an empty response. `StoredPulls` has no run: its two halves are
checked by `StoreSafety` and `PullSafety`, and what it adds, that they compose, is
proved (below).

Why the bounds are enough. In the store, the counter lock and the unique indexes
are per community, so two messages that may be sent again have every way in which
a holder, a waiter and a statement with a stale snapshot meet; entry IDs are
unique across communities, so the third sends one of theirs to another community.
For pulls, one puller suffices because
pulls do not interact; sizes are such that a loop ends at the end of a page, in
the middle of one, at the budget, at the limit, at an oversized entry and at the
end of the log; the stamps disagree with any order of the commits, and one of them
is shared, so a cursor by time stands between two entries of one millisecond. For sessions, a replaced connection needs a user with two
sockets, and a community that stays in use needs a second user; connections are
objects that are never reused, and three allow one user a replacement while
the other is connected, or two replacements (the proofs have any number). For
the sync service, a writer and a reader (each member is both) that can drop,
pull and receive are the pair whose races matter, and two entries allow reordering. For the
creation, five messages allow two sockets to verify and one of generate, create
and load each to follow, or two of one of them to race; teams do not interact.
For the NSE, two requests can answer one challenge at once or one each, and the
clock passes the end of a challenge (one tick) and of a token (two); what two
requests do to each other, by their challenges, and what chain objects do to one
request, by what they know, are apart (`MCNseAccess`), and the proofs have all of
it at once. One user suffices there: it brings a removal to one object and then
connects to another; that a chain tells a second user of it, `Send`, is in
`ChainSafety`. For
pushes, two processes can create a key at once; a batch of two has both platforms
or one twice, and mixes valid with forged; sends do not interact, so one sender
suffices. For the chain, two objects are what one save can lose to another, and
two links make two saves of one object that may be committed in either order; a
restart makes the objects new, so there is no bound on how many there are over
time. At the gateway the limits are reached by a second connection, and a clock
to two has both ends of a window of one and an attempt beyond it; two callers
overlap in the cache while entries expire, and what they ask of the secrets
manager does not depend on who else connects, which is why those runs are apart.

## Fairness

`LogEntryStore!FairSpec`: a started call runs on (`RunsOn`, weakly fair), because
the database and the event loop go on; `Allocate` is strongly fair, because
Postgres queues the waiters on a row lock. `LogPull!FairPullSpec`: handlers go on,
(`ReadPage`, `ReadPageByTime`), and among the pulls of a client there is always
another one with a positive limit and no end; it may pull in other ways, and lose responses, in between. `AuthSessions!FairSpec`: the interval timer and the
clock. `NseAccess!FairSpec`: the interval timer. `SyncService!FairSpec`: messages on a live socket arrive, handlers go on,
and a client that has not caught up since it signed in pulls.
`ChainPersistence!FairSpec`: LFA exchanges what the two ends of an open connection
lack, and some transaction under way is committed. `Gateway!Fairness`: the secrets
manager answers or fails, and the handler runs on. Nothing is fair about sign-ins, sends, failures, drops and restarts.

## What the runs show

Entries: however statements interleave, whatever the counter's fate, positions
are unique, without gaps and committed in order, so a reader that remembers a
position misses nothing; retried messages are answered with the committed
position. A client that follows `highestSyncSeq` gets each entry that matches its
filters once, in order, `hasNextPage` is never wrong for a positive limit, and a
response respects its budget. An older client that follows the cursor of
`receivedAt` and ID gets each entry at most once, in the order of stamps, and the
page boundary may fall within a millisecond; but an entry is stamped before
its transaction begins, so one that is committed after the client has received
another with a later stamp is behind the cursor and never pulled. The property
`OnlyTheLateAreMissed` says that this is the only loss. The same stamps decide
where a start by timestamp begins (`resolveSyncSeqForTimestamp`). Between pulls and fan-out a member that has caught
up misses nothing, except what was committed by a call that failed, until its
author sends it again. Whether an author may sync is asked once, before the write:
an entry is committed although its author has left by then, and no property
says otherwise, since no source does.

Creation: where secrets are created and never replaced, several processes agree
on one server encryption key although any of them may generate it; a stored
community always has the team keyring of its creation and a server keyring; no
load misses them or finds them sealed with another key; and of several clients
that ask for the keys of one team, only the one whose keyring was stored is
answered. A creation whose insertion failed leaves its team keyring behind, so it
cannot be repeated for that team: no source promises that it can.

NSE: however many requests answer a challenge at once, it gives one token, whose
device has signed that challenge and not merely some other; and challenges that
nobody answers leave memory. The signing secret is configuration, so tokens
outlive a restart and challenges do not. The log query looks at the token alone, so
a device that was removed may still read, but no longer than a token lasts after
its removal has *settled*: the row has it, every save under way has it, and so do
the chain in memory, those that connections work on and those being loaded or
created. From then on nothing takes it back, however many objects are loaded and
saved and however often the process ends. Before that nothing bounds the access,
and `RemovedLosesAccess` says nothing: a request asks one object, which may not be
the one that received the removal; the save of the removal ends with the process;
and the save of another object, or an older one, removes it from the row again
(`RowLosesOnlyToOthers` has these losses). Neither "the removal was received" nor
"the row has it" is enough, and a removal that is never saved never settles.

Pushes: whichever process creates the signing key, and wherever creations
overlap, fail or lose their answer, a UCAN that was given out stays valid at every
process that is up; whoever is pushed to was registered by a member of the team,
who may have left since, for a socket that was in the team at some moment between
the arrival of its message and the hand-over to FCM: a membership that ended before
the message does not count, one that ends in the middle of a batch does, since each
UCAN is checked once and the batch is sent after the last check; and a client
is told of a success, and of dead tokens, exactly as FCM said, whichever platform
fails. A batch whose call succeeded but lost its answer is reported as failed.
This is with the secrets of AWS: a local environment keeps them in Redis, where
a second creation replaces what a first one stored.

Sigchains: a chain that was loaded loses no link that a member brought to it: each
is loaded, committed or in a save under way, and it is committed in the end while the
connection lasts. The stored chain does lose links: to an older save of the same
object that is committed late, and to a save of another object that a second,
overlapping load made. Nothing else takes links from it. The chain that `create`
puts in memory has no listener and writes nothing; it is the members that bring
its links to the next object.

Gateway: in no stretch as long as the window, both ends included, are more
connections of an address let in than the limit; no more are open at once than
the other; and a connection is refused only when its address is at a limit, so
neither the pruning timer nor a refused socket's disconnect spoils a count. What a
caller of `getSecretEnvVar` is given was current during a fetch that ended less
than a TTL ago, although fetches overlap and a late one overwrites the entry of
another. A secret that is missing or cannot be parsed is replaced by the environment
variable, which the comment "No fallback" of the NSE's JWT options does not
contradict for other secrets; a call that fails for good throws instead.

Three properties that comments or tests state do not hold:

* `ExpiryMeansNoneOpen` - the `AuthDisconnected` handler deletes by user ID, so
  the disconnect of a replaced connection's socket removes the connection that
  replaced it and starts the expiry while that one is open.
* `RegisteredIsLive` - a sign-in that waited for storage while its socket
  disconnected registers a connection whose disconnect listener never runs.
* `MembersMeet` - two loads that overlap make two chain objects; the members that
  signed in through the first stay connected to it and never see what the others
  add, where a test of the communities says that a new member's join updates the
  chain "for QSS and the original user".

## What is proved

`LogEntries_proofs` is about the store, the pulls, and both together.

The store. For every set of communities, entries and messages, and any number of
counter losses: `TypeCorrect`, `SequencesAreUnique`, `SequencesAreGapFree`,
`AllocationIsFresh`, `AnswersAreStored`, `CommitOrder` and `StoreImplementsLog`.
The only assumptions are those on the constants in `LogEntryStore`.
The invariants are not inductive alone. `IInv` adds that rows are finite, that
at most one call per community holds the counter lock, that a snapshot's
`recovered` is positive and at most one past the highest committed position, and that a
counter is at most one past it too. The heart is the lemma `InsertedIsNext`: a call that holds the lock
allocated at most one past the highest position, and its insert passes the
unique index only if the number is above every committed one; so it commits
exactly the next position. `StoreImplementsLog` is the refinement of `CommunityLog`:
`LogOfRows` shows that the rows of a community, in the order of their
positions, are a sequence of its entries, and `StoreStepAppends` that a commit
appends to exactly one of them while every other step leaves all of them alone.

The pulls. For any clients, communities, filters, sizes, budgets, page sizes,
limits, ends, stamps and number of losses: `PullTypeCorrect`,
`PullsMissOnlyTheLate`, `MoreIsAlwaysReal`, `ResponsesFit` and
`NoMoreMeansCaughtUp`. `PullAssumption` says that there is a positive page size and
that the numbers sent are numbers; `PlaceAssumption` that the order by stamp and
ID is a strict order of the entries that agrees with their stamps. Nothing is
assumed of the sizes of entries: no proof looks inside the sum of bytes, since
the loop compares that sum for exactly the entries the response then holds.

`PullInv` follows a client through its loop. Its main part is `Trail`: what was read
from one position up to another is in order, ends at the latter, and leaves out
only what was `Overtaken`, committed after a row that stands behind it in the
order. The client's own trail runs from `base` to `cursor`, and the loop's from
`cursor` to `next` (`HasRead`), so that the two join when the response arrives
(`TrailConcat`), the part of a page that fits is a trail too (`TrailPrefix`), and a
commit in between keeps both (`TrailGrows`), since a new row is the last in
the log. `Answered` keeps what the last response said true under later
commits. `TurnTakes` and `TurnOutcome` do the loop: what it takes of a page fits, and it
stops with `hasNextPage = false` only with nothing left (`LeftToRead`).

That the rows can be put in order at all (`SortingExists`), which the CHOOSE of
`InOrder` needs, takes an induction over their number, and the library's induction
rules take a predicate, which the provers cannot instantiate. It goes by
induction over a set instead: `LeastNumber`, from the library's well-founded `<`,
gives `SetInduction`, applied to the set of the numbers for which the fact holds.
The rest needs no induction: the greatest of a bounded set is its `Max`
(`MaxOfBounded`), and the last item taken of a page was appended to those before it
(`TakenOneByOne`).

Both. `StoredPulls` runs the statements of the store and the loops of the pulls
together. `StoredPullsRefine` shows that each of the two specifications holds
of the composition and that the log the pulls read is the committed rows, so all of
the above holds of it; from that `NoStoredRowIsMissed` and
`OnlyCommittedIsDelivered` follow, which relate the table to what the clients hold:
whatever statements are under way, counters lost, writes failed and
responses lost, a client by sequence holds every committed row of its community
that its filters let through, from where it began to its cursor, and nothing
else. In `StoredPulls` the stamp of an entry is a constant, `StampOf`, and the
steps considered are those that store entries with it (`Stamped`). That loses
nothing: an entry is stored at most once, so for each behaviour of the
store there is a `StampOf` with the stamps it gives.

`AuthSessions_proofs` proves for any users, sockets, teams and connections:
`TypeCorrect`, `MapHoldsOpenConnections`, `ExpiryOnlyWhenIdle`,
`DisconnectStopsConnections` and `AdmittedAreReached`. `IInv` is the conjunction
of these invariants and `JoinedIsReached`: a joined connection's socket is up and
in the room of its team. It is needed because a socket that is in the room today
may only be there because of a connection that joined; that the socket's
disconnect stops every open connection (`DisconnectStops`) in turn needs that
the listeners of a connection outlive its replacement. The steps fall into
three shapes with a lemma each: `StartAuthStep` (a sign-in stops the old
connection and registers a new one), `DisconnectStep` (a set of connections
closes, by whatever event) and `QuietStep` (no connection changes).

`CommunityCreation_proofs` assumes `Local = FALSE`, an environment whose secrets
manager refuses to replace a secret, and proves for any requests, sockets,
processes and teams: `TypeCorrect`, `OneServerKey`, `RowHasItsKeyrings`,
`LoadsFindKeys` and `AnsweredKeysStay`. The argument is that what is stored only
grows (`Grows`), so that what a handler learned of it before a wait is still true
after it (`OthersKeep`). `IInv` says what a handler knows at each wait (`OpInv`:
the key it found is the stored one, the keyring it found is the stored one, the
keyring it stored is its own), that keys in memory and keyrings agree with the
stored key (`KeyInv`), and that a row has its keyrings (`RowInv`). Without the
assumption the key that a process has in memory may be replaced.

`NseAuth_proofs` is about `NseAuth` and `NseAccess`, and proves for any devices, users,
teams, challenges, requests, chain objects and lifetimes: `TypeCorrect`,
`AccessImplementsChains`, `ChallengesAreSpent`, `TokensAreProven` and
`RemovalEndsAccess`. `AccessImplementsChains` says that the chains of `NseAccess`
behave as `ChainPersistence` says, with the token requests among its members; so
its theorems hold here, of which `TypeCorrect` and the lemma of `SettledLinksStay`
are used. `Held` is the invariant of the service: a challenge has one holder
(`OneHolder`), it is stored, or in one request under way, or in one token; whatever
waits for its signature was proven (`Proven`); every expiry lies at most one life of a
token ahead (`Within`); and no token or waiting request of a device whose removal has
settled expires later than that moment plus the life of a token (`Capped`). A new one
cannot be given out, because the chain that answers is in memory or in the
request's own load, and so has the removal; and what existed when the removal
settled expires no later than `Within` says. `IInv` adds that what was settled is
settled.

`PushDelivery_proofs` proves for any processes, sockets, teams, tokens, platforms
and batches: `TypeCorrect`, `UcansAreNeverLost`, `PushesAreForTheTeam`,
`AnswersAreWhatFcmSaid` and `LiveTokensAreNotInvalid`. As for the creation, what
handlers rely on changes in one direction only (`Grows`): a stored key and the
UCANs given out stay, dead tokens stay dead, who has joined has joined, and who was
in a team since it sent a push was so until it sends another (`Stays`). `IInv`
adds that a process that is up holds the stored key (`ProcInv`), that a UCAN is
signed by it (`IssuedInv`), and what a handler knows at each wait (`OpInv`): what
it kept of a batch was given out and authorized (`KeptInv`), what it counted is
what it heard from FCM (`Gathered`). That a valid UCAN was given out
(`ValidIsIssued`) rests on the assumption that no client has the key of a process.

`SyncService_proofs` proves for any members and entries: `TypeCorrect`,
`NothingIsMissed`, `CursorsAreCovered` and `FanOutIsOfTheDurable`. An answer that
says it reached the end may arrive after more was committed, so `NothingMissed`
is not inductive: `IInv` adds `AnswerLeavesNothing`, that whatever was committed
after such an answer was read reaches the member another way; it does because a
member that pulls or has caught up is in the room (`RoomIsJoined`,
`OnlyTheJoinedPull`) when an entry is fanned out, which is after its commit
(`StoredIsCommitted`).

`ChainPersistence_proofs` proves for any members, links and objects: `TypeCorrect`,
`UpdatesAreWritten`, `LossesAreToOthers` and `SettledLinksStay`. For the first, `Covered` follows each
link through load, save and commit. For the second, what one object saves is
nested, because its chain only grows (`Nested`), so of two of its saves the
older is contained in the other; and until a process has committed a save, all it
works on was read from the row as it is (`FromRow`). `SettledLinksStay` says that a
link is never lost once the row and everything that may come to be saved has it: a
new chain is made of what a handler has, a save of what a chain has, and a row of
what a save has. It needs nothing of when a community may be evicted, so it
holds as well of the early evictions of `AuthSessions`, which `ChainPersistence`
leaves out.

`Gateway_proofs` proves for any addresses, connections, limits, window, TTL and
clock: `TypeCorrect`, `AdmissionIsBounded`, `ConcurrencyIsBounded`,
`RefusalsAreDue` and `SecretsAreFresh`. `IInv` says that what is remembered of an
address lies between its recent attempts and all of them (`Remembered`), whatever
the timer pruned, that the sockets counted are those that are open (`Counted`), and
that what a fetch was answered, or the cache holds, was current at some time of the
fetch (`SecretInv`). The attempts of the last window then bound those of
every earlier stretch, because the last one admitted in a stretch was counted with
the others of that stretch.

Left to TLC is liveness, which the provers do not do under fairness: `CallsReturn`,
`EveryEntryDelivered`, `IdleIsEvicted`, `MembersConverge`, `ExpiredChallengesGo`,
`ConnectedIsWritten` and `CallsEnd`. Every invariant and action property of the passing
runs is a theorem.

## Plan

The modules of the plan are written, and the safety properties of their runs proved.
What would extend them, in this order:

1. `SyncService` on top of `LogPull`: its `ReadLog`, one step there, shown to be what a
   loop of pages delivers, from `PullsMissOnlyTheLate`.
2. `AuthSessions` and `ChainPersistence` composed, so that the evictions of the
   first, too early ones included, decide when the second loads again.
3. `SyncService` with clients by time, whose loss `OnlyTheLateAreMissed` bounds.

## Not modelled

Encryption and signatures, the LFA protocol and Postgres are external and appear
by what the code relies on. The serializer, the log sanitizer, loggers,
configuration and the health endpoint have no state the other parts share. The
lifecycle runs its steps once, in sequence; a restart is an action of
`SyncService`, `CommunityCreation`, `NseAccess`, `PushDelivery` and
`ChainPersistence`, and at the gateway, whose counts and cache are memory of the
process, it leads to an initial state. The database clients wrap libraries. The CLI
client is a tool for manual tests.

Of the modelled parts: pulls by time in the direction backward, which nothing in
the repository sends, and with a limit of 0, whose meaning is the ORM's;
`updateAndFindCommunity`, `hasCommunity` and `clearRepository`, which only tests
call; that `create` of a secret fills the cache, from which nobody reads what it
creates; the eviction of a community whose connections are open, in
`ChainPersistence` (it is in `AuthSessions`); and what the NSE's query reads, a
page as in `LogPull` without a budget.

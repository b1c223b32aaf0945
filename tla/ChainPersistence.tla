-------------------------- MODULE ChainPersistence --------------------------
(***************************************************************************)
(* The signature chain of one community: the SigChain objects a server     *)
(* makes of it, the copy of each member, and the row of the communities    *)
(* table.  A chain is the set of its links.                                *)
(*                                                                         *)
(* A SigChain that a load made saves itself whenever an auth connection    *)
(* has merged links into it: it is serialized at the event, and update()   *)
(* then writes it in a transaction of its own, beside those of earlier     *)
(* events.  One that create() made has no listener for the event.  The     *)
(* merging is LFA's and external; who may connect is in AuthSessions.      *)
(***************************************************************************)
EXTENDS FiniteSets

CONSTANTS
  Member,
  Founder,
  Link,            \* the changes that members may make to the chain
  Chain,           \* the SigChain objects that a process may make
  NoChain

ASSUME ChainAssumption ==
  /\ Founder \in Member
  /\ NoChain \notin Chain

VARIABLES
  known,           \* known[m]: the links in the copy of member m
  stored,          \* whether the community has a row
  row,             \* the links in the stored chain
  chain,           \* the SigChain objects of the process
  cached,          \* the one in the communities map
  conn,            \* conn[m]: the one m's open auth connection works on
  handler,         \* the create() or get() of m's socket that is waiting
  saves,           \* the calls of update() under way
  rowOf,           \* history: the chain object that saved the row
  written          \* history: the links each object has had committed

table == <<stored, row>>

history == <<rowOf, written>>

vars == <<known, table, chain, cached, conn, handler, saves, history>>

Unused == [links |-> {}, loaded |-> {}, saving |-> FALSE, used |-> FALSE]

Idle == [pc |-> "idle", signIn |-> FALSE, links |-> {}]

(* What a process starts with.                                             *)
NoChains == [i \in Chain |-> Unused]

NoConns == [m \in Member |-> NoChain]

NoHandlers == [m \in Member |-> Idle]

NoneWritten == [i \in Chain |-> {}]

Init ==
  /\ known = [m \in Member |-> {}]
  /\ stored \in BOOLEAN
  /\ row = {}
  /\ chain = NoChains
  /\ cached = NoChain
  /\ conn = NoConns
  /\ handler = NoHandlers
  /\ saves = {}
  /\ rowOf = NoChain
  /\ written = NoneWritten

(* new SigChain: i takes the place of whatever is in memory.               *)
NewChain(i, links, saving) ==
  /\ ~chain[i].used
  /\ chain' = [chain EXCEPT ![i] = [links |-> links, loaded |-> links,
                                    saving |-> saving, used |-> TRUE]]
  /\ cached' = i

-----------------------------------------------------------------------------
(* create(): the founder's chain is inserted, then comes to memory.  The   *)
(* insertion may fail, or lose its answer, which ends the creation.        *)
AddCommunity ==
  /\ ~stored
  /\ handler[Founder] = Idle
  /\ stored' = TRUE
  /\ row' = known[Founder]
  /\ \/ handler' = [handler EXCEPT ![Founder] =
                      [pc |-> "created", signIn |-> TRUE,
                       links |-> known[Founder]]]
     \/ UNCHANGED handler
  /\ UNCHANGED <<known, chain, cached, conn, saves, history>>

FinishCreate ==
  /\ handler[Founder].pc = "created"
  /\ \E i \in Chain :
       /\ NewChain(i, handler[Founder].links, FALSE)
       /\ conn' = [conn EXCEPT ![Founder] = i]
  /\ handler' = [handler EXCEPT ![Founder] = Idle]
  /\ UNCHANGED <<known, table, saves, history>>

(* A sign-in to the community in memory connects to the chain found there, *)
(* unless it is a second one on a socket whose connection goes on.         *)
SignIn(m) ==
  /\ handler[m] = Idle
  /\ cached # NoChain
  /\ conn' = [conn EXCEPT ![m] = cached]
  /\ UNCHANGED <<known, table, chain, cached, handler, saves, history>>

(* get() finds nothing in memory: for a sign-in, or for a message that     *)
(* connects nobody.                                                        *)
BeginLoad(m) ==
  /\ handler[m] = Idle
  /\ cached = NoChain
  /\ stored
  /\ \E signIn \in BOOLEAN :
       handler' = [handler EXCEPT ![m] =
                     [Idle EXCEPT !.pc = "reading", !.signIn = signIn]]
  /\ UNCHANGED <<known, table, chain, cached, conn, saves, history>>

ReadRow(m) ==
  /\ handler[m].pc = "reading"
  /\ handler' = [handler EXCEPT ![m].pc = "keys", ![m].links = row]
  /\ UNCHANGED <<known, table, chain, cached, conn, saves, history>>

(* The keys have arrived: a chain is made of the row as it was read, with  *)
(* a listener that saves it, whatever is in memory by now.                 *)
FinishLoad(m) ==
  /\ handler[m].pc = "keys"
  /\ \E i \in Chain :
       /\ NewChain(i, handler[m].links, TRUE)
       /\ conn' = IF handler[m].signIn THEN [conn EXCEPT ![m] = i] ELSE conn
  /\ handler' = [handler EXCEPT ![m] = Idle]
  /\ UNCHANGED <<known, table, saves, history>>

(* The row or the keys cannot be read: get() returns undefined, or throws. *)
FailLoad(m) ==
  /\ handler[m].pc \in {"reading", "keys"}
  /\ handler' = [handler EXCEPT ![m] = Idle]
  /\ UNCHANGED <<known, table, chain, cached, conn, saves, history>>

Disconnect(m) ==
  /\ conn[m] # NoChain
  /\ conn' = [conn EXCEPT ![m] = NoChain]
  /\ UNCHANGED <<known, table, chain, cached, handler, saves, history>>

(* _clearUnusedCommunitiesFromMemory, once nobody has been connected for   *)
(* a while.  AuthSessions has the ways to evict a community too early, or  *)
(* never; they are left out here.                                          *)
Evict ==
  /\ cached # NoChain
  /\ \A m \in Member : conn[m] = NoChain
  /\ cached' = NoChain
  /\ UNCHANGED <<known, table, chain, conn, handler, saves, history>>

-----------------------------------------------------------------------------
(* The members and LFA.                                                    *)
MakeLink(m, l) ==
  /\ \A n \in Member : l \notin known[n]
  /\ known' = [known EXCEPT ![m] = @ \cup {l}]
  /\ UNCHANGED <<table, chain, cached, conn, handler, saves, history>>

Send(m) ==
  /\ conn[m] # NoChain
  /\ ~(chain[conn[m]].links \subseteq known[m])
  /\ known' = [known EXCEPT ![m] = @ \cup chain[conn[m]].links]
  /\ UNCHANGED <<table, chain, cached, conn, handler, saves, history>>

Merged(i, links) ==
  chain' = [chain EXCEPT ![i].links = @ \cup links]

(* Mutant: the chain is serialized before the links are merged.            *)
Receive_SavesBefore(m) ==
  LET i == conn[m] IN
  /\ i # NoChain
  /\ ~(known[m] \subseteq chain[i].links)
  /\ Merged(i, known[m])
  /\ saves' = IF chain[i].saving
              THEN saves \cup {[by |-> i, links |-> chain[i].links]}
              ELSE saves
  /\ UNCHANGED <<known, table, cached, conn, handler, history>>

(* Mutant: only what was received is saved.                                *)
Receive_SavesReceived(m) ==
  LET i == conn[m] IN
  /\ i # NoChain
  /\ ~(known[m] \subseteq chain[i].links)
  /\ Merged(i, known[m])
  /\ saves' = IF chain[i].saving
              THEN saves \cup {[by |-> i,
                                links |-> known[m] \ chain[i].links]}
              ELSE saves
  /\ UNCHANGED <<known, table, cached, conn, handler, history>>

(* 'updated': the links of m are merged, and the chain's listener calls    *)
(* update() with the chain as it is now.                                   *)
Receive(m) ==
  LET i == conn[m] IN
  /\ i # NoChain
  /\ ~(known[m] \subseteq chain[i].links)
  /\ Merged(i, known[m])
  /\ saves' = IF chain[i].saving
              THEN saves \cup {[by |-> i,
                                links |-> chain[i].links \cup known[m]]}
              ELSE saves
  /\ UNCHANGED <<known, table, cached, conn, handler, history>>

-----------------------------------------------------------------------------
(* Mutant: a save that finds the row changed by another is skipped.        *)
Commit_Skipped(w) ==
  /\ saves' = saves \ {w}
  /\ UNCHANGED <<row, history>>

Commit(w) ==
  /\ saves' = saves \ {w}
  /\ row' = w.links
  /\ rowOf' = w.by
  /\ written' = [written EXCEPT ![w.by] = @ \cup w.links]

(* The transactions of the saves under way are committed in any order.     *)
CommitSave(w) ==
  /\ w \in saves
  /\ Commit(w)
  /\ UNCHANGED <<known, stored, chain, cached, conn, handler>>

(* The process ends, its saves with it, and another starts.                *)
Fresh ==
  /\ chain' = NoChains
  /\ cached' = NoChain
  /\ conn' = NoConns
  /\ handler' = NoHandlers
  /\ saves' = {}
  /\ rowOf' = NoChain
  /\ written' = NoneWritten

Restart ==
  /\ Fresh
  /\ UNCHANGED <<known, table>>

(* update() throws when its transaction fails, or commits and loses its    *)
(* answer.  It is called by the listener, which nobody waits for: the      *)
(* rejection is unhandled and ends the process.                            *)
FailSave(w) ==
  /\ w \in saves
  /\ \/ row' = w.links
     \/ UNCHANGED row
  /\ Fresh
  /\ UNCHANGED <<known, stored>>

Next ==
  \/ AddCommunity \/ FinishCreate \/ Evict \/ Restart
  \/ \E m \in Member : \/ SignIn(m) \/ BeginLoad(m) \/ ReadRow(m)
                       \/ FinishLoad(m) \/ FailLoad(m) \/ Disconnect(m)
                       \/ Send(m) \/ Receive(m)
                       \/ \E l \in Link : MakeLink(m, l)
  \/ \E w \in saves : CommitSave(w) \/ FailSave(w)

Spec == Init /\ [][Next]_vars

(* LFA exchanges what two ends of an open connection lack, and a           *)
(* transaction ends.                                                       *)
FairSpec ==
  /\ Spec
  /\ \A m \in Member : WF_vars(Send(m)) /\ WF_vars(Receive(m))
  /\ WF_vars(\E w \in saves : CommitSave(w))

-----------------------------------------------------------------------------
(* Every variable holds a value of its type.                               *)
TypeOK ==
  /\ known \in [Member -> SUBSET Link]
  /\ stored \in BOOLEAN /\ row \subseteq Link
  /\ chain \in [Chain -> [links : SUBSET Link, loaded : SUBSET Link,
                          saving : BOOLEAN, used : BOOLEAN]]
  /\ cached \in Chain \cup {NoChain}
  /\ conn \in [Member -> Chain \cup {NoChain}]
  /\ handler \in [Member -> [pc : {"idle", "created", "reading", "keys"},
                             signIn : BOOLEAN, links : SUBSET Link]]
  /\ saves \subseteq [by : Chain, links : SUBSET Link]
  /\ rowOf \in Chain \cup {NoChain}
  /\ written \in [Chain -> SUBSET Link]

(* No chain that is stored, in use, being loaded or created, or about to   *)
(* be saved is without the link l.                                         *)
Settled(l) ==
  /\ stored /\ l \in row
  /\ \A w \in saves : l \in w.links
  /\ cached # NoChain => l \in chain[cached].links
  /\ \A m \in Member :
       /\ conn[m] # NoChain => l \in chain[conn[m]].links
       /\ handler[m].pc \in {"created", "keys"} => l \in handler[m].links

Pending(i) == UNION {w.links : w \in {v \in saves : v.by = i}}

(* A chain that a load made never holds a link that it neither loaded, nor *)
(* had committed, nor is committing, as long as the process runs: although *)
(* saves overlap, other objects of the chain save too, and no save is      *)
(* tried twice.                                                            *)
EveryUpdateIsWritten ==
  \A i \in Chain :
    chain[i].saving =>
      chain[i].links \subseteq chain[i].loaded \cup written[i] \cup Pending(i)

(* The stored chain loses a link only when a save of another object is     *)
(* committed over it, or a save that is older than the one it replaces.    *)
(* With one object and its saves in order it only grows.                   *)
LossStep ==
  ~(row \subseteq row') =>
    \/ rowOf' # rowOf
    \/ row' \subseteq row

RowLosesOnlyToOthers == [][LossStep]_vars

(* What a member brings over a connection to a chain that a load made is   *)
(* committed in the end, unless the connection ends.                       *)
Unwritten(m, i) ==
  /\ conn[m] = i
  /\ chain[i].saving
  /\ ~(known[m] \subseteq chain[i].loaded \cup written[i])

ConnectedIsWritten ==
  \A m \in Member, i \in Chain : Unwritten(m, i) ~> ~Unwritten(m, i)

(* What one connected member has added to the chain reaches every other    *)
(* connected member, unless one of them disconnects: a new member's join   *)
(* updates the chain "for QSS and the original user" (a test of the        *)
(* communities).                                                           *)
Apart(m, n) ==
  /\ conn[m] # NoChain /\ conn[n] # NoChain
  /\ ~(known[m] \subseteq known[n])

MembersMeet == \A m, n \in Member : Apart(m, n) ~> ~Apart(m, n)
=============================================================================

-------------------------- MODULE ConnectionLimits --------------------------
(***************************************************************************)
(* How the websocket gateway of one process limits the connections of a    *)
(* client address: how many may be open, and how many attempts it may make *)
(* in a sliding window.  A process starts with nothing counted.            *)
(*                                                                         *)
(* The list of timestamps of an address is a set of attempts here, each    *)
(* with its socket, for two attempts may have the same time.               *)
(***************************************************************************)
EXTENDS Integers, FiniteSets

CONSTANTS
  Ip,
  Socket,          \* the connections, each with an ID of its own
  AddressOf,       \* the address each connection comes from
  Window,          \* windowMs
  MaxAttempts,     \* maxAttemptsInWindow
  MaxConcurrent,   \* maxConcurrentPerIp
  MaxTime          \* bound of the clock

ASSUME LimitsAssumption ==
  /\ IsFiniteSet(Socket)
  /\ AddressOf \in [Socket -> Ip]
  /\ Window \in Nat \ {0}
  /\ MaxAttempts \in Nat \ {0}
  /\ MaxConcurrent \in Nat \ {0}
  /\ MaxTime \in Nat

VARIABLES
  now,
  sockets,          \* what the transport has of each connection
  connectionRates,  \* the attempts remembered of each address
  socketIps,        \* the sockets counted as connected
  attempts,         \* history: all attempts that were recorded
  admitted          \* history: those that were let in

limitVars == <<sockets, connectionRates, socketIps, attempts, admitted>>

Attempt == [socket : Socket, at : Nat]

(* Some connections come, the others never do.                             *)
LimitsInit ==
  /\ now = 0
  /\ sockets \in [Socket -> {"new", "closed"}]
  /\ connectionRates = [ip \in Ip |-> {}]
  /\ socketIps = {}
  /\ attempts = {}
  /\ admitted = {}

(* Mutant: an attempt that is exactly a window old is forgotten.           *)
Recent_Exclusive(as) == {a \in as : a.at > now - Window}

Recent(as) == {a \in as : a.at >= now - Window}

Pruned == [ip \in Ip |-> Recent(connectionRates[ip])]

Concurrent(ip) == Cardinality({s \in socketIps : AddressOf[s] = ip})

(* Mutant: one connection more than allowed.                               *)
TooMany_OffByOne(ip) == Concurrent(ip) > MaxConcurrent

TooMany(ip) == Concurrent(ip) >= MaxConcurrent

(* handleConnection of a connection beyond the concurrent limit: the       *)
(* attempt is not recorded.                                                *)
RefuseConcurrent(s) ==
  /\ sockets[s] = "new"
  /\ TooMany(AddressOf[s])
  /\ connectionRates' = Pruned
  /\ sockets' = [sockets EXCEPT ![s] = "refused"]
  /\ UNCHANGED <<now, socketIps, attempts, admitted>>

(* handleConnection of any other: it is recorded, whether it is let in or  *)
(* comes too soon.                                                         *)
RecordAttempt(s) ==
  LET ip == AddressOf[s]
      mine == [socket |-> s, at |-> now]
      recent == Recent(connectionRates[ip]) \cup {mine}
  IN /\ sockets[s] = "new"
     /\ ~TooMany(ip)
     /\ connectionRates' = [Pruned EXCEPT ![ip] = recent]
     /\ attempts' = attempts \cup {mine}
     /\ IF Cardinality(recent) > MaxAttempts
        THEN /\ sockets' = [sockets EXCEPT ![s] = "refused"]
             /\ UNCHANGED <<socketIps, admitted>>
        ELSE /\ sockets' = [sockets EXCEPT ![s] = "open"]
             /\ socketIps' = socketIps \cup {s}
             /\ admitted' = admitted \cup {mine}
     /\ UNCHANGED now

(* Mutant: the socket stays counted.                                       *)
Disconnect_Counted(s) ==
  /\ sockets[s] = "open"
  /\ sockets' = [sockets EXCEPT ![s] = "closed"]
  /\ UNCHANGED <<now, connectionRates, socketIps, attempts, admitted>>

(* handleDisconnect.  That of a refused socket finds nothing to delete.    *)
Disconnect(s) ==
  /\ sockets[s] = "open"
  /\ sockets' = [sockets EXCEPT ![s] = "closed"]
  /\ socketIps' = socketIps \ {s}
  /\ UNCHANGED <<now, connectionRates, attempts, admitted>>

(* The timer of afterInit, whatever its interval.                          *)
PruneRates ==
  /\ connectionRates' = Pruned
  /\ UNCHANGED <<now, sockets, socketIps, attempts, admitted>>

LimitsNext ==
  \/ PruneRates
  \/ \E s \in Socket : RefuseConcurrent(s) \/ RecordAttempt(s) \/ Disconnect(s)

Tick ==
  /\ now < MaxTime
  /\ now' = now + 1

-----------------------------------------------------------------------------
LimitsTypeOK ==
  /\ now \in Nat
  /\ sockets \in [Socket -> {"new", "open", "refused", "closed"}]
  /\ connectionRates \in [Ip -> SUBSET Attempt]
  /\ socketIps \subseteq Socket
  /\ attempts \subseteq Attempt
  /\ admitted \subseteq Attempt

From(ip, as) == {a \in as : AddressOf[a.socket] = ip}

Within(as, first, last) == {a \in as : first <= a.at /\ a.at <= last}

(* In no stretch of time as long as the window are more connections of an  *)
(* address let in than maxAttemptsInWindow: whenever the timer prunes, and *)
(* with attempts at the very ends of the stretch.                          *)
WindowIsBounded ==
  \A ip \in Ip : \A first \in From(ip, admitted) :
    Cardinality(Within(From(ip, admitted), first.at, first.at + Window))
      <= MaxAttempts

OpenOf(ip) == {s \in Socket : sockets[s] = "open" /\ AddressOf[s] = ip}

(* No address has more connections open than maxConcurrentPerIp.           *)
OpenIsBounded == \A ip \in Ip : Cardinality(OpenOf(ip)) <= MaxConcurrent

(* A connection is refused only when its address really is at a limit: it  *)
(* has as many connections open, or has made as many recorded attempts in  *)
(* the last window.  No attempt or socket is counted longer than it should *)
(* be, and those of other addresses never are.                             *)
RefusalStep ==
  \A s \in Socket : sockets[s] = "new" /\ sockets'[s] = "refused" =>
    LET ip == AddressOf[s] IN
    \/ Cardinality(OpenOf(ip)) >= MaxConcurrent
    \/ Cardinality(Within(From(ip, attempts), now - Window, now)) >= MaxAttempts

RefusedAtTheLimit == [][RefusalStep]_<<now, limitVars>>
=============================================================================

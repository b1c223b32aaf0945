---------------------------- MODULE AuthSessions ----------------------------
(***************************************************************************)
(* CommunitiesManagerService's in-memory communities, the auth connections *)
(* registered in them, and the sockets the connections run over.           *)
(*                                                                         *)
(* Node runs one handler at a time, so what a handler does between two     *)
(* waits for the database or the secrets manager is one action.  A sign-in *)
(* to a community that is in memory is one action; a sign-in to one that   *)
(* is not loads it first, and sockets connect, disconnect and sign in while*)
(* it does.  The LFA connection is an external library: it is modelled by  *)
(* the events AuthConnection handles and by stop().                        *)
(***************************************************************************)
EXTENDS Naturals, FiniteSets

CONSTANTS
  User,
  Socket,          \* one per websocket connection, never reused
  Team,
  Conn,            \* the AuthConnection objects that may be made
  NoConn,
  Stored0          \* the communities already in the database at start

ASSUME AuthAssumption == NoConn \notin Conn /\ Stored0 \subseteq Team

VARIABLES
  socket,          \* "new", "up" or "down"
  room,            \* room[s]: the teams whose room the socket has joined
  conn,            \* the AuthConnection objects
  loaded,          \* the communities in memory
  registered,      \* registered[t][u]: the authConnections map of t
  expiry,          \* expiryMs of t: "none", "pending", or "due" once past
  stored,          \* the communities in the database
  op               \* the handler each socket has waiting on storage

vars == <<socket, room, conn, loaded, registered, expiry, stored, op>>

Unused == [status |-> "unused"]

(* late: the connection was started after its socket had disconnected, so  *)
(* that its disconnect listener never runs.                                *)
ConnRecord ==
  [status : {"joining", "joined", "closed"}, user : User, team : Team,
   socket : Socket, late : BOOLEAN]

NoOp == [kind |-> "none"]

OpRecord == [kind : {"signIn", "sync", "create", "created"},
             user : User, team : Team]

Open(c) == conn[c].status \in {"joining", "joined"}

Used(c) == conn[c].status # "unused"

RegisteredIn(t) == {registered[t][u] : u \in User} \ {NoConn}

NoConns == [u \in User |-> NoConn]

Init ==
  /\ socket = [s \in Socket |-> "new"]
  /\ room = [s \in Socket |-> {}]
  /\ conn = [c \in Conn |-> Unused]
  /\ loaded = {}
  /\ registered = [t \in Team |-> NoConns]
  /\ expiry = [t \in Team |-> "none"]
  /\ stored = Stored0
  /\ op = [s \in Socket |-> NoOp]

-----------------------------------------------------------------------------
(* The AuthDisconnected handler, run for every connection in stopping: it  *)
(* looks the community up again and deletes by user ID, whichever          *)
(* connection is registered there, and starts the expiry clock of a        *)
(* community in memory that has none left.                                 *)
Hit(stopping, t) ==
  {conn[c].user : c \in {d \in stopping : Used(d) /\ conn[d].team = t}}

(* Mutant: the handler does not delete the connection.                     *)
AfterDisconnect_Keeps(stopping) == registered

AfterDisconnect(stopping) ==
  [t \in Team |->
     IF t \in loaded
     THEN [u \in User |-> IF u \in Hit(stopping, t) THEN NoConn
                                                    ELSE registered[t][u]]
     ELSE registered[t]]

(* Mutant: the clock starts whether or not connections are left.           *)
Disconnected_Always(stopping) ==
  /\ registered' = AfterDisconnect(stopping)
  /\ expiry' = [t \in Team |->
                  IF t \in loaded /\ Hit(stopping, t) # {}
                  THEN "pending" ELSE expiry[t]]

Disconnected(stopping) ==
  /\ registered' = AfterDisconnect(stopping)
  /\ expiry' = [t \in Team |->
                  IF /\ t \in loaded
                     /\ Hit(stopping, t) # {}
                     /\ AfterDisconnect(stopping)[t] = NoConns
                  THEN "pending" ELSE expiry[t]]

(* Mutant: a connection is not stopped.                                    *)
Closed_Never(stopping) == conn

Closed(stopping) ==
  [c \in Conn |-> IF c \in stopping /\ Used(c)
                  THEN [conn[c] EXCEPT !.status = "closed"] ELSE conn[c]]

(* startAuthSyncConnection for a team that is in memory, with the map it   *)
(* has: a connection of this socket that is not closed is kept; any other  *)
(* one of this user is stopped and replaced; the expiry is cleared.        *)
StartAuth(s, u, t, regs) ==
  LET old == regs[t][u] IN
  IF old # NoConn /\ conn[old].socket = s /\ Open(old)
  THEN /\ registered' = regs
       /\ UNCHANGED <<conn, expiry>>
  ELSE \E c \in Conn :
         /\ ~Used(c)
         /\ conn' = [Closed({old} \ {NoConn}) EXCEPT ![c] =
                       [status |-> "joining", user |-> u, team |-> t,
                        socket |-> s, late |-> socket[s] = "down"]]
         /\ registered' = [regs EXCEPT ![t][u] = c]
         /\ expiry' = [expiry EXCEPT ![t] = "none"]

-----------------------------------------------------------------------------
Connect(s) ==
  /\ socket[s] = "new"
  /\ socket' = [socket EXCEPT ![s] = "up"]
  /\ UNCHANGED <<room, conn, loaded, registered, expiry, stored, op>>

(* handleSignInToCommunity when get() finds the community in memory.       *)
SignIn(s, u, t) ==
  /\ socket[s] = "up" /\ op[s] = NoOp
  /\ t \in loaded
  /\ StartAuth(s, u, t, registered)
  /\ UNCHANGED <<socket, room, loaded, stored, op>>

(* get() misses and reads the community from storage: for a sign-in, or    *)
(* for a sync, pull or auth-sync message, which registers nothing.         *)
BeginLoad(s, u, t) ==
  /\ socket[s] = "up" /\ op[s] = NoOp
  /\ t \in stored \ loaded
  /\ \E kind \in {"signIn", "sync"} :
       op' = [op EXCEPT ![s] = [kind |-> kind, user |-> u, team |-> t]]
  /\ UNCHANGED <<socket, room, conn, loaded, registered, expiry, stored>>

(* _processCommunityToManagedCommunity, once the keys have arrived, merges *)
(* with whatever is in memory by now; the sign-in goes on at once.         *)
FinishLoad(s) ==
  LET t == op[s].team IN
  /\ op[s].kind \in {"signIn", "sync"}
  /\ loaded' = loaded \cup {t}
  /\ op' = [op EXCEPT ![s] = NoOp]
  /\ IF op[s].kind = "signIn"
     THEN StartAuth(s, op[s].user, t, registered)
     ELSE UNCHANGED <<conn, registered, expiry>>
  /\ UNCHANGED <<socket, room, stored>>

(* The keys cannot be fetched: get() returns undefined.                    *)
FailLoad(s) ==
  /\ op[s].kind \in {"signIn", "sync"}
  /\ op' = [op EXCEPT ![s] = NoOp]
  /\ UNCHANGED <<socket, room, conn, loaded, registered, expiry, stored>>

(* create() waits for the keys, then for the row to be committed.          *)
BeginCreate(s, u, t) ==
  /\ socket[s] = "up" /\ op[s] = NoOp
  /\ op' = [op EXCEPT ![s] = [kind |-> "create", user |-> u, team |-> t]]
  /\ UNCHANGED <<socket, room, conn, loaded, registered, expiry, stored>>

(* addCommunity inserts the row, or fails because there is one.            *)
StoreCreated(s) ==
  LET t == op[s].team IN
  /\ op[s].kind = "create"
  /\ IF t \in stored
     THEN op' = [op EXCEPT ![s] = NoOp] /\ UNCHANGED stored
     ELSE /\ op' = [op EXCEPT ![s].kind = "created"]
          /\ stored' = stored \cup {t}
  /\ UNCHANGED <<socket, room, conn, loaded, registered, expiry>>

(* create() goes on: a fresh entry replaces what is in memory, the creator *)
(* is connected and joins the room.                                        *)
FinishCreate(s) ==
  LET t == op[s].team IN
  /\ op[s].kind = "created"
  /\ loaded' = loaded \cup {t}
  /\ StartAuth(s, op[s].user, t, [registered EXCEPT ![t] = NoConns])
  /\ room' = [room EXCEPT ![s] = @ \cup {t}]
  /\ op' = [op EXCEPT ![s] = NoOp]
  /\ UNCHANGED <<socket, stored>>

(* Mutant: the socket does not join the room.                              *)
LfaConnected_NoRoom(c) ==
  /\ conn[c].status = "joining"
  /\ socket[conn[c].socket] = "up"
  /\ conn' = [conn EXCEPT ![c].status = "joined"]
  /\ UNCHANGED <<socket, room, loaded, registered, expiry, stored, op>>

(* The LFA handshake succeeds: 'connected'.                                *)
LfaConnected(c) ==
  /\ conn[c].status = "joining"
  /\ socket[conn[c].socket] = "up"
  /\ conn' = [conn EXCEPT ![c].status = "joined"]
  /\ room' = [room EXCEPT ![conn[c].socket] = @ \cup {conn[c].team}]
  /\ UNCHANGED <<socket, loaded, registered, expiry, stored, op>>

(* The LFA connection ends, rejected or closed by the peer: 'disconnected'.*)
LfaDisconnected(c) ==
  /\ Open(c)
  /\ conn' = Closed({c})
  /\ Disconnected({c})
  /\ UNCHANGED <<socket, room, loaded, stored, op>>

(* The socket disconnects: every connection started on it while it was up  *)
(* is stopped, even one that was stopped before, and each emits            *)
(* AuthDisconnected.                                                       *)
SocketDisconnect(s) ==
  LET stopping == {c \in Conn : Used(c) /\ conn[c].socket = s} IN
  /\ socket[s] = "up"
  /\ socket' = [socket EXCEPT ![s] = "down"]
  /\ room' = [room EXCEPT ![s] = {}]
  /\ conn' = Closed(stopping)
  /\ Disconnected(stopping)
  /\ UNCHANGED <<loaded, stored, op>>

(* MANAGED_COMMUNITY_TTL_MS go by.                                         *)
PassTTL(t) ==
  /\ expiry[t] = "pending"
  /\ expiry' = [expiry EXCEPT ![t] = "due"]
  /\ UNCHANGED <<socket, room, conn, loaded, registered, stored, op>>

(* _clearUnusedCommunitiesFromMemory, once a minute.                       *)
Busy == {t \in loaded : RegisteredIn(t) # {}}

(* Mutant: communities whose clock never started are evicted instead.      *)
Evicted_Unmarked == {t \in loaded \ Busy : expiry[t] = "none"}

Evicted == {t \in loaded \ Busy : expiry[t] = "due"}

ClearUnused ==
  /\ loaded' = loaded \ Evicted
  /\ registered' = [t \in Team |-> IF t \in Evicted THEN NoConns
                                                    ELSE registered[t]]
  /\ expiry' = [t \in Team |-> IF t \in Evicted \cup Busy THEN "none"
                                                          ELSE expiry[t]]
  /\ UNCHANGED <<socket, room, conn, stored, op>>

Next ==
  \/ \E s \in Socket : \/ Connect(s) \/ SocketDisconnect(s)
                       \/ FinishLoad(s) \/ FailLoad(s)
                       \/ StoreCreated(s) \/ FinishCreate(s)
  \/ \E s \in Socket, u \in User, t \in Team :
       SignIn(s, u, t) \/ BeginLoad(s, u, t) \/ BeginCreate(s, u, t)
  \/ \E c \in Conn : LfaConnected(c) \/ LfaDisconnected(c)
  \/ \E t \in Team : PassTTL(t)
  \/ ClearUnused

Spec == Init /\ [][Next]_vars

(* The interval timer and the clock go on.                                 *)
FairSpec ==
  /\ Spec
  /\ WF_vars(ClearUnused)
  /\ \A t \in Team : WF_vars(PassTTL(t))

-----------------------------------------------------------------------------
(* _validateSyncPermission: u may sync and pull on t over s.               *)
MaySync(s, u, t) ==
  LET c == registered[t][u] IN
  t \in loaded /\ c # NoConn /\ conn[c].socket = s /\ conn[c].status = "joined"

(* Every variable holds a value of its type.                               *)
TypeOK ==
  /\ socket \in [Socket -> {"new", "up", "down"}]
  /\ room \in [Socket -> SUBSET Team]
  /\ conn \in [Conn -> ConnRecord \cup {Unused}]
  /\ loaded \subseteq Team /\ stored \subseteq Team
  /\ registered \in [Team -> [User -> Conn \cup {NoConn}]]
  /\ expiry \in [Team -> {"none", "pending", "due"}]
  /\ op \in [Socket -> OpRecord \cup {NoOp}]

(* The connection registered for a user of a team is that user's, for that *)
(* team, and is open: a connection that was replaced, rejected or stopped  *)
(* never comes back into the map, whatever loads, creations and evictions  *)
(* were under way, and a community not in memory has none.                 *)
RegisteredIsOpen ==
  \A t \in Team, u \in User :
    LET c == registered[t][u] IN
    c # NoConn => /\ t \in loaded
                  /\ Open(c) /\ conn[c].user = u /\ conn[c].team = t

(* A community with a registered connection has no expiry running: every   *)
(* path that registers one clears the clock that an earlier disconnect     *)
(* started.                                                                *)
ExpiryMeansIdle ==
  \A t \in Team : expiry[t] # "none" => t \in loaded /\ RegisteredIn(t) = {}

(* Once a socket is gone, every connection started on it while it was up   *)
(* has been stopped.                                                       *)
DisconnectStops ==
  \A c \in Conn :
    Used(c) /\ socket[conn[c].socket] = "down" /\ ~conn[c].late => ~Open(c)

(* Whoever the permission check admits is on a live socket that has joined *)
(* the team's room, and so receives the entries that others sync.          *)
AdmittedIsReached ==
  \A s \in Socket, u \in User, t \in Team :
    MaySync(s, u, t) => socket[s] = "up" /\ t \in room[s]

(* A community whose expiry is running leaves memory in the end, unless    *)
(* somebody signs in to it.                                                *)
IdleIsEvicted ==
  \A t \in Team :
    expiry[t] # "none" ~> (t \notin loaded \/ RegisteredIn(t) # {})

(* The expiry clock runs only when no auth connection of the community is  *)
(* open, as the comments on the AuthDisconnected handler and on the TTL    *)
(* say.                                                                    *)
ExpiryMeansNoneOpen ==
  \A t \in Team :
    expiry[t] # "none" => \A c \in Conn : ~(Open(c) /\ conn[c].team = t)

(* A websocket disconnect stops the auth sync connection: no connection is *)
(* registered for a socket that is gone.                                   *)
RegisteredIsLive ==
  \A t \in Team : \A c \in RegisteredIn(t) : socket[conn[c].socket] = "up"
=============================================================================

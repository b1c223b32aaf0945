------------------------ MODULE AuthSessions_proofs ------------------------
(***************************************************************************)
(* Proofs about AuthSessions: the invariants hold for any users, sockets,  *)
(* teams and connections.  Two helpers carry the steps: StartAuth, which   *)
(* registers a connection (lemma StartAuthStep), and the AuthDisconnected  *)
(* handler run for a set of connections (lemma DisconnectStep).            *)
(***************************************************************************)
EXTENDS AuthSessions, TLAPS

Connection == ConnRecord \cup {Unused}

Registry == [Team -> [User -> Conn \cup {NoConn}]]

Clock == [Team -> {"none", "pending", "due"}]

(* A joined connection runs over a live socket that is in its team's room. *)
JoinedIsReached ==
  \A c \in Conn :
    conn[c].status = "joined" =>
      socket[conn[c].socket] = "up" /\ conn[c].team \in room[conn[c].socket]

(* ExpiryMeansIdle, with the map empty entry by entry.                     *)
ExpiryMeansEmpty ==
  \A t \in Team :
    expiry[t] # "none" =>
      t \in loaded /\ \A u \in User : registered[t][u] = NoConn

IInv ==
  /\ TypeOK
  /\ RegisteredIsOpen
  /\ ExpiryMeansEmpty
  /\ DisconnectStops
  /\ JoinedIsReached

-----------------------------------------------------------------------------
(* A connection is unused or has all the fields of a used one.             *)
LEMMA UsedConnection ==
  ASSUME TypeOK, NEW c \in Conn
  PROVE  /\ Used(c) => conn[c] \in ConnRecord
         /\ Open(c) => Used(c)
         /\ ~Used(c) => conn[c] = Unused
         /\ conn[c] \in Connection
<1>1. conn[c] \in Connection
  BY DEF TypeOK, Connection
<1>2. Used(c) => conn[c] \in ConnRecord
  BY <1>1 DEF Used, Connection, Unused
<1>3. Open(c) => Used(c)
  BY DEF Used, Open
<1>4. ~Used(c) => conn[c] = Unused
  BY <1>1 DEF Used, Connection, ConnRecord
<1> QED BY <1>1, <1>2, <1>3, <1>4

(* Closing a connection, or joining it, changes its status alone.          *)
LEMMA ClosedRecord ==
  ASSUME NEW r \in ConnRecord
  PROVE  /\ [r EXCEPT !.status = "closed"] \in ConnRecord
         /\ [r EXCEPT !.status = "closed"].status = "closed"
         /\ [r EXCEPT !.status = "closed"].user = r.user
         /\ [r EXCEPT !.status = "closed"].team = r.team
         /\ [r EXCEPT !.status = "closed"].socket = r.socket
         /\ [r EXCEPT !.status = "closed"].late = r.late
BY DEF ConnRecord

LEMMA JoinedRecord ==
  ASSUME NEW r \in ConnRecord
  PROVE  /\ [r EXCEPT !.status = "joined"] \in ConnRecord
         /\ [r EXCEPT !.status = "joined"].status = "joined"
         /\ [r EXCEPT !.status = "joined"].user = r.user
         /\ [r EXCEPT !.status = "joined"].team = r.team
         /\ [r EXCEPT !.status = "joined"].socket = r.socket
         /\ [r EXCEPT !.status = "joined"].late = r.late
BY DEF ConnRecord

(* Closed marks the given connections that are in use, and only those.     *)
LEMMA ClosedIs ==
  ASSUME TypeOK, NEW S
  PROVE  /\ Closed(S) \in [Conn -> Connection]
         /\ \A c \in Conn :
              IF c \in S /\ Used(c)
              THEN /\ Closed(S)[c] \in ConnRecord
                   /\ Closed(S)[c].status = "closed"
                   /\ Closed(S)[c].user = conn[c].user
                   /\ Closed(S)[c].team = conn[c].team
                   /\ Closed(S)[c].socket = conn[c].socket
                   /\ Closed(S)[c].late = conn[c].late
              ELSE Closed(S)[c] = conn[c]
<1>1. ASSUME NEW c \in Conn
      PROVE  Closed(S)[c] = IF c \in S /\ Used(c)
                            THEN [conn[c] EXCEPT !.status = "closed"]
                            ELSE conn[c]
  BY DEF Closed
<1>2. ASSUME NEW c \in Conn
      PROVE  IF c \in S /\ Used(c)
              THEN /\ Closed(S)[c] \in ConnRecord
                   /\ Closed(S)[c].status = "closed"
                   /\ Closed(S)[c].user = conn[c].user
                   /\ Closed(S)[c].team = conn[c].team
                   /\ Closed(S)[c].socket = conn[c].socket
                   /\ Closed(S)[c].late = conn[c].late
              ELSE Closed(S)[c] = conn[c]
  <2>1. CASE c \in S /\ Used(c)
    <3>1. conn[c] \in ConnRecord
      BY <2>1, UsedConnection
    <3>2. Closed(S)[c] = [conn[c] EXCEPT !.status = "closed"]
      BY <1>1, <2>1
    <3> QED BY ONLY <2>1, <3>1, <3>2, ClosedRecord, Zenon
  <2>2. CASE ~(c \in S /\ Used(c))
    BY <1>1, <2>2
  <2> QED BY <2>1, <2>2
<1>3. ASSUME NEW c \in Conn
      PROVE  Closed(S)[c] \in Connection
  BY <1>2, UsedConnection DEF Connection
<1>4. Closed(S) = [c \in Conn |-> Closed(S)[c]]
  BY Zenon DEF Closed
<1> QED BY <1>2, <1>3, <1>4, Zenon

(* Both forms of the expiry invariant say the same.                        *)
LEMMA EmptyIsIdle == ExpiryMeansEmpty => ExpiryMeansIdle
BY DEF ExpiryMeansEmpty, ExpiryMeansIdle, RegisteredIn

-----------------------------------------------------------------------------
(* What a step that runs startAuthSyncConnection leaves true: the          *)
(* connection it replaces was registered nowhere else, and the one it      *)
(* registers was not in use.                                               *)
LEMMA StartAuthStep ==
  ASSUME IInv, NEW s \in Socket, NEW u \in User, NEW t \in Team,
         NEW regs \in Registry,
         \A x \in Team, v \in User : regs[x][v] \in {registered[x][v], NoConn},
         StartAuth(s, u, t, regs),
         loaded' = loaded \cup {t},
         socket' = socket,
         \A z \in Socket : room[z] \subseteq room'[z]
  PROVE  /\ conn' \in [Conn -> Connection]
         /\ registered' \in Registry
         /\ expiry' \in Clock
         /\ RegisteredIsOpen'
         /\ ExpiryMeansEmpty'
         /\ DisconnectStops'
         /\ JoinedIsReached'
<1> DEFINE old == regs[t][u]
<1>0. TypeOK /\ RegisteredIsOpen /\ ExpiryMeansEmpty /\ DisconnectStops
        /\ JoinedIsReached
  BY DEF IInv
<1>1. /\ socket \in [Socket -> {"new", "up", "down"}]
      /\ conn \in [Conn -> Connection]
      /\ loaded \subseteq Team
      /\ registered \in Registry
      /\ expiry \in Clock
  BY <1>0 DEF TypeOK, Connection, Registry, Clock
<1>2. CASE old # NoConn /\ conn[old].socket = s /\ Open(old)
  <2>1. registered' = regs /\ conn' = conn /\ expiry' = expiry
    BY <1>2 DEF StartAuth
  <2>2. RegisteredIsOpen'
    BY <2>1, <1>0 DEF RegisteredIsOpen, Open
  <2>3. ExpiryMeansEmpty'
    BY <2>1, <1>0 DEF ExpiryMeansEmpty
  <2>4. DisconnectStops'
    BY <2>1, <1>0 DEF DisconnectStops, Used, Open
  <2>5. JoinedIsReached'
    <3> SUFFICES ASSUME NEW c \in Conn, conn[c].status = "joined"
                 PROVE  /\ socket[conn[c].socket] = "up"
                        /\ conn[c].team \in room'[conn[c].socket]
      BY <2>1 DEF JoinedIsReached
    <3>1. conn[c].socket \in Socket
      BY UsedConnection, <1>0 DEF Used, ConnRecord
    <3> QED BY <3>1, <1>0 DEF JoinedIsReached
  <2> QED BY <2>1, <2>2, <2>3, <2>4, <2>5, <1>1
<1>3. CASE ~(old # NoConn /\ conn[old].socket = s /\ Open(old))
  <2> DEFINE new == [status |-> "joining", user |-> u, team |-> t,
                     socket |-> s, late |-> socket[s] = "down"]
             gone == {old} \ {NoConn}
  <2>1. PICK c \in Conn : /\ ~Used(c)
                         /\ conn' = [Closed(gone) EXCEPT ![c] = new]
                         /\ registered' = [regs EXCEPT ![t][u] = c]
                         /\ expiry' = [expiry EXCEPT ![t] = "none"]
    BY <1>3, Zenon DEF StartAuth
  <2> HIDE DEF gone, new
  <2>2. /\ new \in ConnRecord
        /\ new.status = "joining" /\ new.user = u /\ new.team = t
        /\ new.socket = s /\ (new.late <=> socket[s] = "down")
    BY DEF new, ConnRecord
  <2>3. /\ conn'[c] = new
        /\ \A d \in Conn : d # c => conn'[d] = Closed(gone)[d]
        /\ conn' \in [Conn -> Connection]
    <3>1. Closed(gone) \in [Conn -> Connection]
      BY ClosedIs, <1>0
    <3> QED BY <3>1, <2>1, <2>2 DEF Connection
  <2>4. /\ registered'[t][u] = c
        /\ \A x \in Team, v \in User :
             x # t \/ v # u => registered'[x][v] = regs[x][v]
        /\ registered' \in Registry
    BY <2>1 DEF Registry
  <2>5. expiry' \in Clock /\ expiry'[t] = "none"
        /\ \A x \in Team : x # t => expiry'[x] = expiry[x]
    BY <2>1, <1>1 DEF Clock
  <2>6. ASSUME NEW d \in Conn, d # c
        PROVE  \/ conn'[d] = conn[d]
               \/ /\ Used(d) /\ d = old /\ conn'[d].status = "closed"
                  /\ conn'[d] \in ConnRecord
                  /\ conn'[d].socket = conn[d].socket
                  /\ conn'[d].late = conn[d].late
    BY <2>6, <2>3, ClosedIs, <1>0 DEF gone
  <2>7. RegisteredIsOpen'
    <3> SUFFICES ASSUME NEW x \in Team, NEW v \in User,
                        registered'[x][v] # NoConn
                 PROVE  LET d == registered'[x][v] IN
                        /\ x \in loaded'
                        /\ conn'[d].status \in {"joining", "joined"}
                        /\ conn'[d].user = v /\ conn'[d].team = x
      BY DEF RegisteredIsOpen, Open
    <3>1. CASE x = t /\ v = u
      BY <3>1, <2>4, <2>3, <2>2
    <3>2. CASE x # t \/ v # u
      <4> DEFINE d == registered'[x][v]
      <4>1. d = registered[x][v] /\ d \in Conn
        BY <3>2, <2>4, <1>1 DEF Registry
      <4>2. x \in loaded /\ Open(d) /\ conn[d].user = v /\ conn[d].team = x
        BY <4>1, <1>0 DEF RegisteredIsOpen
      <4>3. d # c
        BY <4>2, <2>1 DEF Open, Used
      <4>4. d # old
        <5> SUFFICES ASSUME d = old PROVE FALSE
          OBVIOUS
        <5>1. old = registered[t][u] /\ old # NoConn
          OBVIOUS
        <5>2. conn[old].user = u /\ conn[old].team = t
          BY <5>1, <1>0 DEF RegisteredIsOpen
        <5> QED BY <5>2, <4>2, <3>2
      <4>5. conn'[d] = conn[d]
        BY <4>1, <4>3, <4>4, <2>6
      <4> QED BY <4>2, <4>5 DEF Open
    <3> QED BY <3>1, <3>2
  <2>8. ExpiryMeansEmpty'
    BY <2>4, <2>5, <1>0 DEF ExpiryMeansEmpty
  <2>9. DisconnectStops'
    <3> SUFFICES ASSUME NEW d \in Conn, conn'[d].status # "unused",
                        socket[conn'[d].socket] = "down", ~conn'[d].late
                 PROVE  conn'[d].status \notin {"joining", "joined"}
      BY DEF DisconnectStops, Used, Open
    <3>1. d # c
      BY <2>2, <2>3
    <3> QED BY <3>1, <2>6, <1>0 DEF DisconnectStops, Used, Open
  <2>10. JoinedIsReached'
    <3> SUFFICES ASSUME NEW d \in Conn, conn'[d].status = "joined"
                 PROVE  /\ socket[conn'[d].socket] = "up"
                        /\ conn'[d].team \in room'[conn'[d].socket]
      BY DEF JoinedIsReached
    <3>1. conn'[d] = conn[d]
      BY <2>2, <2>3, <2>6
    <3>2. conn[d].socket \in Socket
      BY <3>1, UsedConnection, <1>0 DEF Used, ConnRecord
    <3> QED BY <3>1, <3>2, <1>0 DEF JoinedIsReached
  <2> QED BY <2>3, <2>4, <2>5, <2>7, <2>8, <2>9, <2>10
<1> QED BY <1>2, <1>3

(* What a step that stops connections leaves true: the AuthDisconnected    *)
(* handler deletes by user ID, so no closed connection stays in the map.   *)
LEMMA DisconnectStep ==
  ASSUME IInv, NEW S \in SUBSET Conn,
         conn' = Closed(S), Disconnected(S), loaded' = loaded
  PROVE  /\ conn' \in [Conn -> Connection]
         /\ registered' \in Registry
         /\ expiry' \in Clock
         /\ RegisteredIsOpen'
         /\ ExpiryMeansEmpty'
<1>0. TypeOK /\ RegisteredIsOpen /\ ExpiryMeansEmpty
  BY DEF IInv
<1>1. registered \in Registry /\ expiry \in Clock
  BY <1>0 DEF TypeOK, Registry, Clock
<1>2. conn' \in [Conn -> Connection]
  BY <1>0, ClosedIs
<1>3. /\ registered' \in Registry
      /\ \A t \in Team, u \in User :
           /\ registered'[t][u] \in {registered[t][u], NoConn}
           /\ t \in loaded /\ u \in Hit(S, t) => registered'[t][u] = NoConn
  <2>1. registered' = [t \in Team |->
           IF t \in loaded
           THEN [u \in User |-> IF u \in Hit(S, t) THEN NoConn
                                                    ELSE registered[t][u]]
           ELSE registered[t]]
    BY DEF Disconnected, AfterDisconnect
  <2>2. ASSUME NEW t \in Team
        PROVE  registered'[t] \in [User -> Conn \cup {NoConn}]
    BY <2>1, <1>1 DEF Registry
  <2> QED BY <2>1, <2>2 DEF Registry
<1>4. /\ expiry' \in Clock
      /\ \A t \in Team :
           \/ expiry'[t] = expiry[t]
           \/ t \in loaded /\ registered'[t] = NoConns
  BY <1>1 DEF Disconnected, Clock
<1>5. RegisteredIsOpen'
  <2> SUFFICES ASSUME NEW t \in Team, NEW u \in User,
                      registered'[t][u] # NoConn
               PROVE  LET c == registered'[t][u] IN
                      /\ t \in loaded
                      /\ conn'[c].status \in {"joining", "joined"}
                      /\ conn'[c].user = u /\ conn'[c].team = t
    BY DEF RegisteredIsOpen, Open
  <2> DEFINE c == registered'[t][u]
  <2>1. c = registered[t][u] /\ c \in Conn
    BY <1>1, <1>3 DEF Registry
  <2>2. t \in loaded /\ Open(c) /\ conn[c].user = u /\ conn[c].team = t
    BY <2>1, <1>0 DEF RegisteredIsOpen
  <2>3. c \notin S
    BY <2>1, <2>2, <1>3, UsedConnection, <1>0 DEF Hit
  <2>4. conn'[c] = conn[c]
    BY <2>1, <2>3, <1>0, ClosedIs
  <2> QED BY <2>2, <2>4 DEF Open
<1>6. ExpiryMeansEmpty'
  <2> SUFFICES ASSUME NEW t \in Team, expiry'[t] # "none"
               PROVE  t \in loaded /\ \A u \in User : registered'[t][u] = NoConn
    BY DEF ExpiryMeansEmpty
  <2>1. CASE expiry'[t] = expiry[t]
    BY <2>1, <1>0, <1>3 DEF ExpiryMeansEmpty
  <2>2. CASE t \in loaded /\ registered'[t] = NoConns
    BY <2>2 DEF NoConns
  <2> QED BY <2>1, <2>2, <1>4
<1> QED BY <1>2, <1>3, <1>4, <1>5, <1>6

-----------------------------------------------------------------------------
(* A step that leaves the connections, their map and the rooms alone, and  *)
(* at most connects a socket, keeps what is said of them.                  *)
LEMMA QuietStep ==
  ASSUME IInv, conn' = conn, registered' = registered, room' = room,
         loaded \subseteq loaded',
         \A t \in Team : expiry'[t] # "none" => expiry[t] # "none",
         \A z \in Socket :
           \/ socket'[z] = socket[z]
           \/ socket[z] = "new" /\ socket'[z] = "up"
  PROVE  /\ RegisteredIsOpen' /\ ExpiryMeansEmpty'
         /\ DisconnectStops' /\ JoinedIsReached'
<1>0. /\ TypeOK /\ RegisteredIsOpen /\ ExpiryMeansEmpty
      /\ DisconnectStops /\ JoinedIsReached
  BY DEF IInv
<1>1. RegisteredIsOpen'
  BY <1>0 DEF RegisteredIsOpen, Open
<1>2. ExpiryMeansEmpty'
  BY <1>0 DEF ExpiryMeansEmpty
<1>3. \A c \in Conn : Used(c) => conn[c].socket \in Socket
  BY <1>0, UsedConnection DEF ConnRecord
<1>4. DisconnectStops'
  BY <1>0, <1>3 DEF DisconnectStops, Used, Open
<1>5. JoinedIsReached'
  BY <1>0, <1>3 DEF JoinedIsReached, Used
<1> QED BY <1>1, <1>2, <1>4, <1>5

(* A waiting handler has a user and a team; moving it on keeps them.       *)
LEMMA CreatedRecord ==
  ASSUME NEW r \in OpRecord
  PROVE  [r EXCEPT !.kind = "created"] \in OpRecord
BY DEF OpRecord

LEMMA InitIInv == Init => IInv
<1> SUFFICES ASSUME Init PROVE IInv
  OBVIOUS
<1> USE DEF Init
<1>1. TypeOK
  BY AuthAssumption DEF TypeOK, NoConns
<1>2. RegisteredIsOpen /\ ExpiryMeansEmpty
  BY DEF RegisteredIsOpen, ExpiryMeansEmpty, NoConns
<1>3. DisconnectStops /\ JoinedIsReached
  BY DEF DisconnectStops, JoinedIsReached, Used, Open, Unused
<1> QED BY <1>1, <1>2, <1>3 DEF IInv

(* The invariant is inductive: one step per action, with StartAuthStep for *)
(* the three that register a connection and DisconnectStep for the two     *)
(* that stop some.                                                         *)
LEMMA NextIInv == IInv /\ [Next]_vars => IInv'
<1> SUFFICES ASSUME IInv, [Next]_vars PROVE IInv'
  OBVIOUS
<1>0. /\ TypeOK /\ RegisteredIsOpen /\ ExpiryMeansEmpty
      /\ DisconnectStops /\ JoinedIsReached
  BY DEF IInv
<1>t. /\ socket \in [Socket -> {"new", "up", "down"}]
      /\ room \in [Socket -> SUBSET Team]
      /\ conn \in [Conn -> Connection]
      /\ loaded \subseteq Team /\ stored \subseteq Team
      /\ registered \in Registry
      /\ expiry \in Clock
      /\ op \in [Socket -> OpRecord \cup {NoOp}]
  BY <1>0 DEF TypeOK, Connection, Registry, Clock
<1>i. ASSUME socket' \in [Socket -> {"new", "up", "down"}],
             room' \in [Socket -> SUBSET Team],
             conn' \in [Conn -> Connection],
             loaded' \subseteq Team, stored' \subseteq Team,
             registered' \in Registry,
             expiry' \in Clock,
             op' \in [Socket -> OpRecord \cup {NoOp}],
             RegisteredIsOpen', ExpiryMeansEmpty',
             DisconnectStops', JoinedIsReached'
      PROVE  IInv'
  BY <1>i DEF IInv, TypeOK, Connection, Registry, Clock
<1>w. ASSUME NEW s \in Socket, op[s] # NoOp
      PROVE  /\ op[s] \in OpRecord
             /\ op[s].user \in User /\ op[s].team \in Team
  BY <1>w, <1>t DEF OpRecord
<1>n. NoOp.kind = "none"
  BY DEF NoOp
<1>1. ASSUME NEW s \in Socket, Connect(s) PROVE IInv'
  <2>1. /\ RegisteredIsOpen' /\ ExpiryMeansEmpty'
        /\ DisconnectStops' /\ JoinedIsReached'
    BY <1>1, <1>t, QuietStep DEF Connect
  <2> QED BY <1>1, <1>t, <1>i, <2>1 DEF Connect
<1>2. ASSUME NEW s \in Socket, NEW u \in User, NEW t \in Team, SignIn(s, u, t)
      PROVE  IInv'
  <2>1. /\ StartAuth(s, u, t, registered) /\ loaded' = loaded \cup {t}
        /\ socket' = socket /\ room' = room /\ op' = op /\ stored' = stored
    BY <1>2 DEF SignIn
  <2>2. /\ conn' \in [Conn -> Connection]
        /\ registered' \in Registry /\ expiry' \in Clock
        /\ RegisteredIsOpen' /\ ExpiryMeansEmpty'
        /\ DisconnectStops' /\ JoinedIsReached'
    BY <2>1, <1>t, StartAuthStep
  <2> QED BY <2>1, <2>2, <1>t, <1>i
<1>3. ASSUME NEW s \in Socket, NEW u \in User, NEW t \in Team, BeginLoad(s, u, t)
      PROVE  IInv'
  <2>1. op' \in [Socket -> OpRecord \cup {NoOp}]
    BY <1>3, <1>t DEF BeginLoad, OpRecord
  <2>2. /\ RegisteredIsOpen' /\ ExpiryMeansEmpty'
        /\ DisconnectStops' /\ JoinedIsReached'
    BY <1>3, QuietStep DEF BeginLoad
  <2> QED BY <1>3, <1>t, <1>i, <2>1, <2>2 DEF BeginLoad
<1>4. ASSUME NEW s \in Socket, FinishLoad(s) PROVE IInv'
  <2> DEFINE u == op[s].user  t == op[s].team
  <2>1. op[s] # NoOp
    BY <1>4, <1>n DEF FinishLoad
  <2>2. u \in User /\ t \in Team
    BY <2>1, <1>w
  <2>3. /\ loaded' = loaded \cup {t} /\ op' = [op EXCEPT ![s] = NoOp]
        /\ socket' = socket /\ room' = room /\ stored' = stored
        /\ \/ StartAuth(s, u, t, registered)
           \/ UNCHANGED <<conn, registered, expiry>>
    BY <1>4 DEF FinishLoad
  <2> HIDE DEF u, t
  <2>4. CASE StartAuth(s, u, t, registered)
    <3>1. /\ conn' \in [Conn -> Connection]
          /\ registered' \in Registry /\ expiry' \in Clock
          /\ RegisteredIsOpen' /\ ExpiryMeansEmpty'
          /\ DisconnectStops' /\ JoinedIsReached'
      BY <2>2, <2>3, <2>4, <1>t, StartAuthStep
    <3> QED BY <2>2, <2>3, <3>1, <1>t, <1>i
  <2>5. CASE UNCHANGED <<conn, registered, expiry>>
    <3>1. /\ RegisteredIsOpen' /\ ExpiryMeansEmpty'
          /\ DisconnectStops' /\ JoinedIsReached'
      BY <2>3, <2>5, QuietStep
    <3> QED BY <2>2, <2>3, <2>5, <3>1, <1>t, <1>i
  <2> QED BY <2>3, <2>4, <2>5
<1>5. ASSUME NEW s \in Socket, FailLoad(s) PROVE IInv'
  <2>1. /\ RegisteredIsOpen' /\ ExpiryMeansEmpty'
        /\ DisconnectStops' /\ JoinedIsReached'
    BY <1>5, QuietStep DEF FailLoad
  <2> QED BY <1>5, <1>t, <1>i, <2>1 DEF FailLoad
<1>6. ASSUME NEW s \in Socket, NEW u \in User, NEW t \in Team, BeginCreate(s, u, t)
      PROVE  IInv'
  <2>1. op' \in [Socket -> OpRecord \cup {NoOp}]
    BY <1>6, <1>t DEF BeginCreate, OpRecord
  <2>2. /\ RegisteredIsOpen' /\ ExpiryMeansEmpty'
        /\ DisconnectStops' /\ JoinedIsReached'
    BY <1>6, QuietStep DEF BeginCreate
  <2> QED BY <1>6, <1>t, <1>i, <2>1, <2>2 DEF BeginCreate
<1>7. ASSUME NEW s \in Socket, StoreCreated(s) PROVE IInv'
  <2>1. op[s] \in OpRecord /\ op[s].team \in Team
    BY <1>7, <1>n, <1>w DEF StoreCreated
  <2>2. op' \in [Socket -> OpRecord \cup {NoOp}] /\ stored' \subseteq Team
    <3>1. CASE op[s].team \in stored
      BY <3>1, <1>7, <1>t DEF StoreCreated
    <3>2. CASE op[s].team \notin stored
      <4>1. op' = [op EXCEPT ![s] = [op[s] EXCEPT !.kind = "created"]]
        BY <3>2, <1>7, Zenon DEF StoreCreated
      <4>2. [op[s] EXCEPT !.kind = "created"] \in OpRecord
        BY <2>1, CreatedRecord, Zenon
      <4>3. op' \in [Socket -> OpRecord \cup {NoOp}]
        BY ONLY <4>1, <4>2, <1>t, Zenon
      <4> QED BY <4>3, <3>2, <1>7, <1>t, <2>1 DEF StoreCreated
    <3> QED BY <3>1, <3>2
  <2>3. /\ RegisteredIsOpen' /\ ExpiryMeansEmpty'
        /\ DisconnectStops' /\ JoinedIsReached'
    BY <1>7, QuietStep DEF StoreCreated
  <2> QED BY <1>7, <1>t, <1>i, <2>2, <2>3 DEF StoreCreated
<1>8. ASSUME NEW s \in Socket, FinishCreate(s) PROVE IInv'
  <2> DEFINE u == op[s].user  t == op[s].team
             fresh == [registered EXCEPT ![t] = NoConns]
  <2>1. u \in User /\ t \in Team
    BY <1>8, <1>n, <1>w DEF FinishCreate
  <2>2. /\ loaded' = loaded \cup {t} /\ op' = [op EXCEPT ![s] = NoOp]
        /\ socket' = socket /\ room' = [room EXCEPT ![s] = @ \cup {t}]
        /\ stored' = stored /\ StartAuth(s, u, t, fresh)
    BY <1>8 DEF FinishCreate
  <2>3. /\ fresh \in Registry
        /\ \A x \in Team, v \in User : fresh[x][v] \in {registered[x][v], NoConn}
    BY <2>1, <1>t DEF Registry, NoConns
  <2>4. /\ room' \in [Socket -> SUBSET Team]
        /\ \A z \in Socket : room[z] \subseteq room'[z]
    BY <2>1, <2>2, <1>t
  <2> HIDE DEF u, t, fresh
  <2>5. /\ conn' \in [Conn -> Connection]
        /\ registered' \in Registry /\ expiry' \in Clock
        /\ RegisteredIsOpen' /\ ExpiryMeansEmpty'
        /\ DisconnectStops' /\ JoinedIsReached'
    BY <2>1, <2>2, <2>3, <2>4, StartAuthStep
  <2> QED BY <2>1, <2>2, <2>4, <2>5, <1>t, <1>i
<1>9. ASSUME NEW c \in Conn, LfaConnected(c) PROVE IInv'
  <2> DEFINE r == [conn[c] EXCEPT !.status = "joined"]
  <2>1. conn[c] \in ConnRecord
    BY <1>9, <1>0, UsedConnection DEF LfaConnected, Used
  <2>2. /\ r \in ConnRecord /\ r.status = "joined" /\ r.user = conn[c].user
        /\ r.team = conn[c].team /\ r.socket = conn[c].socket
        /\ r.late = conn[c].late
    BY ONLY <2>1, JoinedRecord, Zenon
  <2>3. conn' = [conn EXCEPT ![c] = r]
    BY <1>9, Zenon DEF LfaConnected
  <2> HIDE DEF r
  <2>4. /\ conn[c].status = "joining" /\ socket[conn[c].socket] = "up"
        /\ room' = [room EXCEPT ![conn[c].socket] = @ \cup {conn[c].team}]
        /\ UNCHANGED <<socket, loaded, registered, expiry, stored, op>>
    BY <1>9 DEF LfaConnected
  <2>5. conn' \in [Conn -> Connection] /\ conn'[c] = r
        /\ \A d \in Conn : d # c => conn'[d] = conn[d]
    BY <2>2, <2>3, <1>t DEF Connection
  <2>6. /\ room' \in [Socket -> SUBSET Team]
        /\ \A z \in Socket : room[z] \subseteq room'[z]
        /\ conn[c].team \in room'[conn[c].socket]
    <3>1. conn[c].team \in Team /\ conn[c].socket \in Socket
      BY <2>1 DEF ConnRecord
    <3> QED BY <3>1, <2>4, <1>t
  <2>7. RegisteredIsOpen'
    BY <2>2, <2>4, <2>5, <1>0, <1>t DEF RegisteredIsOpen, Open, Registry
  <2>8. ExpiryMeansEmpty'
    BY <2>4, <1>0 DEF ExpiryMeansEmpty
  <2>9. DisconnectStops'
    BY <2>2, <2>4, <2>5, <1>0 DEF DisconnectStops, Used, Open
  <2>10. JoinedIsReached'
    <3> SUFFICES ASSUME NEW d \in Conn, d # c, conn[d].status = "joined"
                 PROVE  /\ socket[conn[d].socket] = "up"
                        /\ conn[d].team \in room'[conn[d].socket]
      BY <2>2, <2>4, <2>5, <2>6 DEF JoinedIsReached
    <3>1. conn[d].socket \in Socket
      BY UsedConnection, <1>0 DEF Used, ConnRecord
    <3> QED BY <3>1, <2>6, <1>0 DEF JoinedIsReached
  <2> QED BY <2>4, <2>5, <2>6, <2>7, <2>8, <2>9, <2>10, <1>t, <1>i
<1>10. ASSUME NEW c \in Conn, LfaDisconnected(c) PROVE IInv'
  <2>1. /\ conn' = Closed({c}) /\ Disconnected({c})
        /\ UNCHANGED <<socket, room, loaded, stored, op>>
    BY <1>10 DEF LfaDisconnected
  <2>2. /\ conn' \in [Conn -> Connection]
        /\ registered' \in Registry /\ expiry' \in Clock
        /\ RegisteredIsOpen' /\ ExpiryMeansEmpty'
    BY <2>1, DisconnectStep
  <2>3. ASSUME NEW d \in Conn
        PROVE  \/ conn'[d] = conn[d]
               \/ conn'[d].status = "closed"
    BY <2>1, <1>0, ClosedIs
  <2>4. DisconnectStops'
    BY <2>1, <2>3, <1>0 DEF DisconnectStops, Used, Open
  <2>5. JoinedIsReached'
    BY <2>1, <2>3, <1>0 DEF JoinedIsReached
  <2> QED BY <2>1, <2>2, <2>4, <2>5, <1>t, <1>i
<1>11. ASSUME NEW s \in Socket, SocketDisconnect(s) PROVE IInv'
  <2> DEFINE stopping == {c \in Conn : Used(c) /\ conn[c].socket = s}
  <2>1. /\ conn' = Closed(stopping) /\ Disconnected(stopping)
        /\ socket' = [socket EXCEPT ![s] = "down"]
        /\ room' = [room EXCEPT ![s] = {}]
        /\ UNCHANGED <<loaded, stored, op>>
    BY <1>11 DEF SocketDisconnect
  <2>2. /\ conn' \in [Conn -> Connection]
        /\ registered' \in Registry /\ expiry' \in Clock
        /\ RegisteredIsOpen' /\ ExpiryMeansEmpty'
    BY <2>1, DisconnectStep
  <2>3. ASSUME NEW d \in Conn
        PROVE  \/ conn'[d].status = "closed"
               \/ conn'[d] = conn[d] /\ (Used(d) => conn[d].socket # s)
    BY <2>1, <1>0, ClosedIs
  <2>4. ASSUME NEW d \in Conn, Used(d)
        PROVE  conn[d].socket \in Socket
    BY <2>4, <1>0, UsedConnection DEF ConnRecord
  <2>5. DisconnectStops'
    BY <2>1, <2>3, <2>4, <1>0, <1>t DEF DisconnectStops, Used, Open
  <2>6. JoinedIsReached'
    BY <2>1, <2>3, <2>4, <1>0, <1>t DEF JoinedIsReached, Used
  <2> QED BY <2>1, <2>2, <2>5, <2>6, <1>t, <1>i
<1>12. ASSUME NEW t \in Team, PassTTL(t) PROVE IInv'
  <2>1. /\ RegisteredIsOpen' /\ ExpiryMeansEmpty'
        /\ DisconnectStops' /\ JoinedIsReached'
    BY <1>12, <1>t, QuietStep DEF PassTTL, Clock
  <2>2. expiry' \in Clock
    BY <1>12, <1>t DEF PassTTL, Clock
  <2> QED BY <1>12, <1>t, <1>i, <2>1, <2>2 DEF PassTTL
<1>13. ASSUME ClearUnused PROVE IInv'
  <2>1. /\ loaded' = loaded \ Evicted
        /\ registered' = [t \in Team |-> IF t \in Evicted THEN NoConns
                                                          ELSE registered[t]]
        /\ expiry' = [t \in Team |-> IF t \in Evicted \cup Busy THEN "none"
                                                              ELSE expiry[t]]
        /\ UNCHANGED <<socket, room, conn, stored, op>>
    BY <1>13 DEF ClearUnused
  <2>2. registered' \in Registry /\ expiry' \in Clock
    BY <2>1, <1>t DEF Registry, Clock, NoConns
  <2>3. RegisteredIsOpen'
    BY <2>1, <1>0 DEF RegisteredIsOpen, Open, NoConns
  <2>4. ExpiryMeansEmpty'
    BY <2>1, <1>0 DEF ExpiryMeansEmpty
  <2>5. DisconnectStops' /\ JoinedIsReached'
    BY <2>1, <1>0 DEF DisconnectStops, JoinedIsReached, Used, Open
  <2> QED BY <2>1, <2>2, <2>3, <2>4, <2>5, <1>t, <1>i
<1>14. ASSUME UNCHANGED vars PROVE IInv'
  <2>1. /\ RegisteredIsOpen' /\ ExpiryMeansEmpty'
        /\ DisconnectStops' /\ JoinedIsReached'
    BY <1>14, QuietStep DEF vars
  <2> QED BY <1>14, <1>t, <1>i, <2>1 DEF vars
<1> QED
  BY <1>1, <1>2, <1>3, <1>4, <1>5, <1>6, <1>7, <1>8, <1>9, <1>10, <1>11,
     <1>12, <1>13, <1>14 DEF Next

LEMMA AlwaysIInv == Spec => []IInv
BY InitIInv, NextIInv, PTL DEF Spec

-----------------------------------------------------------------------------
(* Every variable of the auth sessions holds a value of its type.          *)
THEOREM TypeCorrect == Spec => []TypeOK
<1>1. IInv => TypeOK
  BY DEF IInv
<1> QED BY <1>1, AlwaysIInv, PTL

(* The authConnections map holds only open connections of the user and the *)
(* team they are registered for, and only for communities in memory.       *)
THEOREM MapHoldsOpenConnections == Spec => []RegisteredIsOpen
<1>1. IInv => RegisteredIsOpen
  BY DEF IInv
<1> QED BY <1>1, AlwaysIInv, PTL

(* No community with a registered connection has its expiry running, so    *)
(* that the cleaner never evicts one that a member is signed in to.        *)
THEOREM ExpiryOnlyWhenIdle == Spec => []ExpiryMeansIdle
<1>1. IInv => ExpiryMeansIdle
  BY EmptyIsIdle DEF IInv
<1> QED BY <1>1, AlwaysIInv, PTL

(* A disconnected socket leaves no open connection that was started while  *)
(* it was up.                                                              *)
THEOREM DisconnectStopsConnections == Spec => []DisconnectStops
<1>1. IInv => DisconnectStops
  BY DEF IInv
<1> QED BY <1>1, AlwaysIInv, PTL

(* Whoever _validateSyncPermission admits is on a live socket in the room  *)
(* that new log entries are sent to.                                       *)
THEOREM AdmittedAreReached == Spec => []AdmittedIsReached
<1>1. IInv => AdmittedIsReached
  <2> SUFFICES ASSUME IInv, NEW s \in Socket, NEW u \in User, NEW t \in Team,
                      MaySync(s, u, t)
               PROVE  socket[s] = "up" /\ t \in room[s]
    BY DEF AdmittedIsReached
  <2> DEFINE c == registered[t][u]
  <2>1. c \in Conn /\ conn[c].socket = s /\ conn[c].status = "joined"
    BY DEF MaySync, IInv, TypeOK
  <2>2. conn[c].team = t
    BY DEF MaySync, IInv, RegisteredIsOpen
  <2> QED BY <2>1, <2>2 DEF IInv, JoinedIsReached
<1> QED BY <1>1, AlwaysIInv, PTL
=============================================================================

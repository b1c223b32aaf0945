------------------------ MODULE PushDelivery_proofs ------------------------
(***************************************************************************)
(* Proofs about PushDelivery: for any processes, sockets, teams, tokens    *)
(* and batches, UCANs stay valid, pushes stay in their team, and answers   *)
(* are what FCM said.                                                      *)
(*                                                                         *)
(* What handlers rely on only grows or shrinks in one direction: a stored  *)
(* key stays, UCANs that were given out stay, dead tokens stay dead, who   *)
(* has joined a team has joined it (Grows), and who was in a team since it *)
(* sent a push was so until it sends another (Stays).  So what the handler *)
(* of one socket knows is not disturbed by the others (OthersKeep).        *)
(***************************************************************************)
EXTENDS PushDelivery, FiniteSetTheorems, TLAPS

Up(p) == proc[p].pc = "up"

Was(s, t) == auth[s][t] # "never"

(* At some moment since its last push.                                     *)
Since(s, t) == auth[s][t] \in {"now", "past"}

ProcInv(p) == Up(p) => secret # NoKey /\ proc[p].key = secret

IssuedInv(g) ==
  /\ secret # NoKey /\ g.ucan.key = secret
  /\ Was(g.by, g.ucan.team)

KeptInv(s, us) ==
  \A i \in 1 .. Len(us) :
    /\ \E g \in issued : g.ucan = us[i]
    /\ Since(s, us[i].team)

AllKnown(us) == \A i \in 1 .. Len(us) : us[i] \in Known

(* What a handler has gathered is what FCM said.                           *)
Gathered(o) ==
  /\ o.count > 0 <=> \E x \in Token : <<x, "ok">> \in o.heard
  /\ o.invalid = {x \in Token : <<x, "dead">> \in o.heard}
  /\ o.invalid \cap alive = {}

BuildingInv(s, o) ==
  /\ o \in Building /\ Up(o.proc)
  /\ secret # NoKey /\ o.ucan.key = secret
  /\ Was(s, o.ucan.team)

SendingInv(s, o) ==
  /\ o \in Sending /\ Up(o.proc)
  /\ AllKnown(o.todo)
  /\ KeptInv(s, o.kept)
  /\ Gathered(o)

OpInv(s) == op[s] = Idle \/ BuildingInv(s, op[s]) \/ SendingInv(s, op[s])

IInv ==
  /\ TypeOK
  /\ \A p \in Proc : ProcInv(p)
  /\ \A s \in Socket : at[s] # Nowhere => Up(at[s])
  /\ \A s \in Socket : OpInv(s)
  /\ \A g \in issued : IssuedInv(g)
  /\ AnswersAreTrue
  /\ InvalidAreDead

Grows ==
  /\ secret # NoKey => secret' = secret
  /\ issued \subseteq issued'
  /\ alive' \subseteq alive
  /\ \A s \in Socket, t \in Team : Was(s, t) => Was(s, t)'

Stays(s) == \A t \in Team : Since(s, t) => Since(s, t)'

-----------------------------------------------------------------------------
LEMMA InitIInv == Init => IInv
<1> SUFFICES ASSUME Init PROVE IInv
  OBVIOUS
<1>1. TypeOK
  BY DEF Init, TypeOK, Membership, Down, ProcState, NoAnswer, Answer
<1>2. \A p \in Proc : ProcInv(p)
  BY DEF Init, ProcInv, Up, Down
<1>3. /\ \A s \in Socket : at[s] = Nowhere /\ OpInv(s)
      /\ issued = {}
  BY DEF Init, OpInv
<1>4. AnswersAreTrue /\ InvalidAreDead
  BY DEF Init, AnswersAreTrue, InvalidAreDead, NoAnswer
<1> QED BY <1>1, <1>2, <1>3, <1>4 DEF IInv

LEMMA SendingHandler ==
  ASSUME NEW s, NEW o, op'[s] = o, SendingInv(s, o)'
  PROVE  OpInv(s)'
<1>1. op'[s] \in Sending /\ Up(op[s].proc)'
  BY DEF SendingInv, Up
<1>2. AllKnown(op[s].todo)'
  BY DEF SendingInv, AllKnown, Known
<1>3. KeptInv(s, op[s].kept)'
  BY DEF SendingInv, KeptInv, Since
<1>4. Gathered(op[s])'
  BY DEF SendingInv, Gathered
<1> QED BY <1>1, <1>2, <1>3, <1>4 DEF OpInv, SendingInv

LEMMA BuildingHandler ==
  ASSUME NEW s, NEW o, op'[s] = o, BuildingInv(s, o)'
  PROVE  OpInv(s)'
  BY DEF OpInv, BuildingInv, Up, Was

(* A handler of which no step is taken still knows what it knew.           *)
LEMMA OthersKeep ==
  ASSUME IInv, Grows, NEW s \in Socket, Stays(s), op'[s] = op[s],
         op[s] # Idle => Up(op[s].proc)'
  PROVE  OpInv(s)'
<1>0. PICK o : o = op[s]
  OBVIOUS
<1>1. CASE o = Idle
  BY <1>0, <1>1 DEF OpInv
<1>2. CASE BuildingInv(s, o)
  <2>1. o \in Building /\ o.ucan.team \in Team /\ o # Idle
    BY <1>2 DEF BuildingInv, Building, Ucan, Idle
  <2>2. BuildingInv(s, o)'
    BY <1>0, <1>2, <2>1 DEF BuildingInv, Grows
  <2> QED BY <1>0, <2>2, BuildingHandler
<1>3. CASE SendingInv(s, o)
  <2>1. o \in Sending /\ o # Idle
    BY <1>3 DEF SendingInv, Sending, Idle
  <2>2. \A i \in 1 .. Len(o.kept) : o.kept[i] \in Ucan /\ o.kept[i].team \in Team
    <3>1. o.kept \in Seq(Ucan)
      BY <2>1 DEF Sending
    <3>2. \A i \in 1 .. Len(o.kept) : o.kept[i] \in Ucan
      BY <3>1
    <3> QED BY <3>2 DEF Ucan
  <2>3. KeptInv(s, o.kept)'
    BY <1>0, <1>3, <2>2 DEF SendingInv, KeptInv, Grows, Stays, Since
  <2>4. AllKnown(o.todo)'
    BY <1>0, <1>3 DEF SendingInv, AllKnown, Known, Grows
  <2>5. Gathered(o)'
    BY <1>0, <1>3 DEF SendingInv, Gathered, Grows
  <2>6. Up(o.proc)'
    BY <2>1, <1>0
  <2>7. SendingInv(s, o)'
    BY <2>1, <2>3, <2>4, <2>5, <2>6 DEF SendingInv
  <2>8. op'[s] = o
    BY <1>0
  <2> QED BY <2>7, <2>8, SendingHandler
<1>4. o = Idle \/ BuildingInv(s, o) \/ SendingInv(s, o)
  BY <1>0 DEF IInv, OpInv
<1> QED BY <1>1, <1>2, <1>3, <1>4

LEMMA IssuedKeep ==
  ASSUME IInv, Grows, NEW g \in issued
  PROVE  IssuedInv(g)'
<1>1. g.by \in Socket /\ g.ucan.team \in Team
  BY DEF IInv, TypeOK, Ucan
<1> QED BY <1>1 DEF IInv, IssuedInv, Grows

(* A step of the handler of one socket.                                    *)
LEMMA HandlerSteps ==
  ASSUME IInv, NEW s \in Socket, NEW o, op' = [op EXCEPT ![s] = o],
         UNCHANGED <<secret, proc, at, alive>>,
         auth' \in [Socket -> [Team -> Membership]],
         \A r \in Socket, t \in Team : Was(r, t) => Was(r, t)',
         \A r \in Socket : r # s => Stays(r),
         o = Idle \/ BuildingInv(s, o)' \/ SendingInv(s, o)',
         issued \subseteq issued',
         issued' \subseteq [by : Socket, ucan : Ucan],
         \A g \in issued' \ issued : IssuedInv(g)',
         answer' \in Answer, AnswersAreTrue', InvalidAreDead'
  PROVE  IInv'
<1>1. Grows
  BY DEF Grows
<1>2. op'[s] = o /\ \A r \in Socket : r # s => op'[r] = op[r]
  BY DEF IInv, TypeOK
<1>3. OpInv(s)'
  <2>1. CASE o = Idle
    BY <1>2, <2>1 DEF OpInv
  <2>2. CASE BuildingInv(s, o)'
    BY <1>2, <2>2, BuildingHandler
  <2>3. CASE SendingInv(s, o)'
    BY <1>2, <2>3, SendingHandler
  <2> QED BY <2>1, <2>2, <2>3
<1>4. ASSUME NEW r \in Socket, r # s PROVE OpInv(r)'
  <2>1. op[r] # Idle => Up(op[r].proc)
    BY DEF IInv, OpInv, BuildingInv, SendingInv
  <2> QED BY <1>1, <1>2, <1>4, <2>1, OthersKeep DEF Up
<1>5. o \in Building \cup Sending \cup {Idle}
  BY DEF BuildingInv, SendingInv
<1>6. TypeOK'
  BY <1>5 DEF IInv, TypeOK
<1>7. \A g \in issued' : IssuedInv(g)'
  BY <1>1, IssuedKeep
<1>8. \A p \in Proc : ProcInv(p)'
  BY DEF IInv, ProcInv, Up
<1>9. \A r \in Socket : (at[r] # Nowhere => Up(at[r]))'
  BY DEF IInv, Up
<1> QED BY <1>3, <1>4, <1>6, <1>7, <1>8, <1>9 DEF IInv

LEMMA HandlerKeeps ==
  ASSUME IInv, NEW s \in Socket, NEW o, op' = [op EXCEPT ![s] = o],
         UNCHANGED <<secret, proc, at, auth, alive>>,
         issued \subseteq issued',
         issued' \subseteq [by : Socket, ucan : Ucan],
         \A g \in issued' \ issued : IssuedInv(g)',
         o = Idle \/ BuildingInv(s, o) \/ SendingInv(s, o),
         answer' \in Answer, AnswersAreTrue', InvalidAreDead'
  PROVE  IInv'
<1>1. CASE o = Idle
  BY <1>1, HandlerSteps DEF IInv, TypeOK, Was, Stays, Since
<1>2. CASE BuildingInv(s, o)
  <2>1. BuildingInv(s, o)'
    BY <1>2 DEF BuildingInv, Up, Was
  <2> QED BY <2>1, HandlerSteps DEF IInv, TypeOK, Was, Stays, Since
<1>3. CASE SendingInv(s, o)
  <2>1. KeptInv(s, o.kept)'
    BY <1>3 DEF SendingInv, KeptInv, Since
  <2>2. AllKnown(o.todo)'
    BY <1>3 DEF SendingInv, AllKnown, Known
  <2>3. SendingInv(s, o)'
    BY <1>3, <2>1, <2>2 DEF SendingInv, Gathered, Up
  <2> QED BY <2>3, HandlerSteps DEF IInv, TypeOK, Was, Stays, Since
<1> QED BY <1>1, <1>2, <1>3

-----------------------------------------------------------------------------
(* Steps of a process, of a socket, and of the world, that no handler      *)
(* takes: those of a process that stops end.                               *)
LEMMA OutsideKeeps ==
  ASSUME IInv, Grows, TypeOK', UNCHANGED <<issued, answer>>,
         \A s \in Socket : Stays(s),
         \A p \in Proc : ProcInv(p)',
         \A s \in Socket : (at[s] # Nowhere => Up(at[s]))',
         \A s \in Socket : \/ op'[s] = Idle
                           \/ op'[s] = op[s] /\ (op[s] # Idle => Up(op[s].proc)')
  PROVE  IInv'
<1>1. ASSUME NEW s \in Socket PROVE OpInv(s)'
  <2>1. CASE op'[s] = Idle
    BY <2>1 DEF OpInv
  <2> QED BY <2>1, OthersKeep
<1>2. \A g \in issued' : IssuedInv(g)'
  BY IssuedKeep
<1>3. AnswersAreTrue' /\ InvalidAreDead'
  BY DEF IInv, AnswersAreTrue, InvalidAreDead, Grows
<1> QED BY <1>1, <1>2, <1>3 DEF IInv

LEMMA HandlersRun ==
  ASSUME IInv, NEW s \in Socket, op[s] # Idle
  PROVE  op[s].proc \in Proc /\ Up(op[s].proc)
  BY DEF IInv, OpInv, BuildingInv, SendingInv, Building, Sending

LEMMA BootKeeps ==
  ASSUME IInv, NEW p \in Proc, Boot(p)
  PROVE  IInv'
<1>1. /\ proc[p].pc = "down"
      /\ UNCHANGED <<secret, at, auth, op, issued, alive, answer>>
  BY DEF Boot
<1>a. PICK new \in ProcState :
        /\ proc' = [proc EXCEPT ![p] = new]
        /\ \/ new.pc = "creating"
           \/ new.pc = "up" /\ secret # NoKey /\ new.key = secret
  <2>1. CASE secret = NoKey
    <3>1. proc' = [proc EXCEPT ![p] = [proc[p] EXCEPT !.pc = "creating"]]
      BY <2>1 DEF Boot
    <3>2. [proc[p] EXCEPT !.pc = "creating"] \in ProcState
      BY DEF IInv, TypeOK, ProcState
    <3>3. [proc[p] EXCEPT !.pc = "creating"].pc = "creating"
      BY DEF IInv, TypeOK, ProcState
    <3> QED BY <3>1, <3>2, <3>3
  <2>2. CASE secret # NoKey
    BY <2>2 DEF Boot, IInv, TypeOK, ProcState
  <2> QED BY <2>1, <2>2
<1>2. /\ \A q \in Proc : q # p => proc'[q] = proc[q]
      /\ ProcInv(p)' /\ TypeOK'
  BY <1>1, <1>a DEF IInv, TypeOK, ProcInv, Up
<1>3. \A q \in Proc : Up(q) => Up(q)'
  BY <1>1, <1>2 DEF Up
<1>4. \A q \in Proc : ProcInv(q)'
  BY <1>1, <1>2 DEF IInv, ProcInv, Up
<1>5. \A s \in Socket : (at[s] # Nowhere => Up(at[s]))'
  BY <1>1, <1>3 DEF IInv, TypeOK, Up
<1>6. \A s \in Socket : op'[s] = op[s] /\ (op[s] # Idle => Up(op[s].proc)')
  BY <1>1, <1>3, HandlersRun DEF Up
<1>7. Grows /\ \A s \in Socket : Stays(s)
  BY <1>1 DEF Grows, Was, Stays, Since
<1> QED BY <1>1, <1>2, <1>4, <1>5, <1>6, <1>7, OutsideKeeps

LEMMA StoreKeyKeeps ==
  ASSUME IInv, NEW p \in Proc, StoreKey(p)
  PROVE  IInv'
<1>1. /\ proc[p].pc = "creating"
      /\ UNCHANGED <<at, auth, op, issued, alive, answer>>
      /\ secret # NoKey => secret' = secret
      /\ secret' = secret \/ secret' = p
  BY DEF StoreKey
<1>a. PICK new \in {Down, [pc |-> "up", key |-> p]} :
        /\ proc' = [proc EXCEPT ![p] = new]
        /\ new = Down \/ secret' = p
  BY DEF StoreKey
<1>2. /\ \A q \in Proc : q # p => proc'[q] = proc[q]
      /\ ProcInv(p)' /\ TypeOK'
  <2>1. new \in ProcState /\ proc'[p] = new /\ secret' \in Proc \cup {NoKey}
    BY <1>1, <1>a DEF IInv, TypeOK, ProcState, Down
  <2>2. ProcInv(p)'
    BY <1>a, <2>1, PushAssumption DEF ProcInv, Up, Down
  <2>3. TypeOK'
    BY <1>1, <1>a, <2>1 DEF IInv, TypeOK
  <2>4. \A q \in Proc : q # p => proc'[q] = proc[q]
    BY <1>a DEF IInv, TypeOK
  <2> QED BY <2>2, <2>3, <2>4
<1>3. \A q \in Proc : Up(q) => Up(q)'
  BY <1>1, <1>2 DEF Up
<1>4. \A q \in Proc : ProcInv(q)'
  BY <1>1, <1>2 DEF IInv, ProcInv, Up
<1>5. \A s \in Socket : (at[s] # Nowhere => Up(at[s]))'
  BY <1>1, <1>3 DEF IInv, TypeOK, Up
<1>6. \A s \in Socket : op'[s] = op[s] /\ (op[s] # Idle => Up(op[s].proc)')
  BY <1>1, <1>3, HandlersRun DEF Up
<1>7. Grows /\ \A s \in Socket : Stays(s)
  BY <1>1 DEF Grows, Was, Stays, Since
<1> QED BY <1>1, <1>2, <1>4, <1>5, <1>6, <1>7, OutsideKeeps

LEMMA StopKeeps ==
  ASSUME IInv, NEW p \in Proc, Stop(p)
  PROVE  IInv'
<1>1. /\ proc' = [proc EXCEPT ![p] = Down]
      /\ UNCHANGED <<secret, issued, alive, answer>>
      /\ at' = [s \in Socket |-> IF at[s] = p THEN Nowhere ELSE at[s]]
      /\ op' = [s \in Socket |->
                  IF op[s] # Idle /\ op[s].proc = p THEN Idle ELSE op[s]]
      /\ auth' = [s \in Socket |->
                    IF at[s] = p THEN [t \in Team |-> Left(auth[s][t])]
                                 ELSE auth[s]]
  BY DEF Stop, IInv, TypeOK
<1>2. /\ \A s \in Socket, t \in Team : auth'[s][t] \in {auth[s][t], Left(auth[s][t])}
      /\ \A s \in Socket : auth'[s] \in [Team -> Membership]
  BY <1>1 DEF IInv, TypeOK, Membership, Left
<1>3. TypeOK'
  BY <1>1, <1>2 DEF IInv, TypeOK, Down, ProcState
<1>4. Grows /\ \A s \in Socket : Stays(s)
  BY <1>1, <1>2 DEF Grows, Was, Stays, Since, Left
<1>5. \A q \in Proc : q # p /\ Up(q) => Up(q)'
  BY <1>1 DEF Up, IInv, TypeOK
<1>6. \A q \in Proc : ProcInv(q)'
  BY <1>1 DEF IInv, TypeOK, ProcInv, Up, Down
<1>7. \A s \in Socket : (at[s] # Nowhere => Up(at[s]))'
  BY <1>1, <1>5 DEF IInv, TypeOK, Up
<1>8. \A s \in Socket : \/ op'[s] = Idle
                        \/ op'[s] = op[s] /\ (op[s] # Idle => Up(op[s].proc)')
  <2> TAKE s \in Socket
  <2>1. CASE op[s] # Idle /\ op[s].proc = p
    BY <1>1, <2>1
  <2>2. CASE op[s] # Idle /\ op[s].proc # p
    <3>1. op[s].proc \in Proc /\ Up(op[s].proc)
      BY <2>2, HandlersRun
    <3>2. Up(op[s].proc)'
      BY <1>1, <2>2, <3>1 DEF Up, IInv, TypeOK
    <3> QED BY <1>1, <2>2, <3>2
  <2>3. CASE op[s] = Idle
    BY <1>1, <2>3
  <2> QED BY <2>1, <2>2, <2>3
<1> QED BY <1>1, <1>3, <1>4, <1>6, <1>7, <1>8, OutsideKeeps

(* Sockets connect, join and leave, and tokens die.                        *)
LEMMA SocketsKeep ==
  ASSUME IInv, UNCHANGED <<secret, proc, op, issued, answer>>,
         at' \in [Socket -> Proc \cup {Nowhere}],
         \A s \in Socket : at'[s] # Nowhere => Up(at'[s]),
         auth' \in [Socket -> [Team -> Membership]],
         \A s \in Socket, t \in Team : Was(s, t) => Was(s, t)',
         \A s \in Socket : Stays(s),
         alive' \subseteq alive
  PROVE  IInv'
<1>1. TypeOK' /\ Grows
  BY DEF IInv, TypeOK, Grows
<1>2. \A q \in Proc : ProcInv(q)' /\ (Up(q) => Up(q)')
  BY DEF IInv, ProcInv, Up
<1>3. \A s \in Socket : op'[s] = op[s] /\ (op[s] # Idle => Up(op[s].proc)')
  BY <1>2, HandlersRun DEF Up
<1>4. \A s \in Socket : (at[s] # Nowhere => Up(at[s]))'
  BY DEF Up
<1> QED BY <1>1, <1>2, <1>3, <1>4, OutsideKeeps

LEMMA ConnectKeeps ==
  ASSUME IInv, NEW s \in Socket, NEW p \in Proc, Connect(s, p)
  PROVE  IInv'
<1>1. /\ Up(p) /\ at' = [at EXCEPT ![s] = p]
      /\ UNCHANGED <<secret, proc, auth, op, issued, alive, answer>>
  BY DEF Connect, Up
<1>2. /\ at' \in [Socket -> Proc \cup {Nowhere}]
      /\ \A r \in Socket : at'[r] # Nowhere => Up(at'[r])
  BY <1>1 DEF IInv, TypeOK
<1>3. /\ auth' \in [Socket -> [Team -> Membership]]
      /\ \A r \in Socket, t \in Team : Was(r, t) => Was(r, t)'
      /\ \A r \in Socket : Stays(r)
  BY <1>1 DEF IInv, TypeOK, Membership, Was, Stays, Since
<1> QED BY <1>1, <1>2, <1>3, SocketsKeep

LEMMA JoinKeeps ==
  ASSUME IInv, NEW s \in Socket, NEW t \in Team, Join(s, t)
  PROVE  IInv'
<1>1. /\ auth' = [auth EXCEPT ![s][t] = "now"]
      /\ UNCHANGED <<secret, proc, at, op, issued, alive, answer>>
  BY DEF Join
<1>2. /\ auth' \in [Socket -> [Team -> Membership]]
      /\ \A r \in Socket, u \in Team : Was(r, u) => Was(r, u)'
      /\ \A r \in Socket : Stays(r)
  BY <1>1 DEF IInv, TypeOK, Membership, Was, Stays, Since
<1> QED BY <1>1, <1>2, SocketsKeep DEF IInv, TypeOK

LEMMA LeaveKeeps ==
  ASSUME IInv, NEW s \in Socket, NEW t \in Team, Leave(s, t)
  PROVE  IInv'
<1>1. /\ auth' = [auth EXCEPT ![s][t] = Left(auth[s][t])]
      /\ UNCHANGED <<secret, proc, at, op, issued, alive, answer>>
  BY DEF Leave
<1>2. /\ auth' \in [Socket -> [Team -> Membership]]
      /\ \A r \in Socket, u \in Team : Was(r, u) => Was(r, u)'
      /\ \A r \in Socket : Stays(r)
  BY <1>1 DEF IInv, TypeOK, Membership, Was, Stays, Since, Left
<1> QED BY <1>1, <1>2, SocketsKeep DEF IInv, TypeOK

LEMMA DisconnectKeeps ==
  ASSUME IInv, NEW s \in Socket, Disconnect(s)
  PROVE  IInv'
<1>1. /\ at' = [at EXCEPT ![s] = Nowhere]
      /\ auth' = [auth EXCEPT ![s] = [t \in Team |-> Left(auth[s][t])]]
      /\ UNCHANGED <<secret, proc, op, issued, alive, answer>>
  BY DEF Disconnect
<1>2. /\ at' \in [Socket -> Proc \cup {Nowhere}]
      /\ \A r \in Socket : at'[r] # Nowhere => Up(at'[r])
  BY <1>1 DEF IInv, TypeOK
<1>3. /\ auth' \in [Socket -> [Team -> Membership]]
      /\ \A r \in Socket, t \in Team : Was(r, t) => Was(r, t)'
      /\ \A r \in Socket : Stays(r)
  BY <1>1 DEF IInv, TypeOK, Membership, Was, Stays, Since, Left
<1> QED BY <1>1, <1>2, <1>3, SocketsKeep

LEMMA TokenDiesKeeps ==
  ASSUME IInv, NEW x \in Token, TokenDies(x)
  PROVE  IInv'
<1>1. /\ alive' \subseteq alive
      /\ UNCHANGED <<secret, proc, at, auth, op, issued, answer>>
  BY DEF TokenDies
<1> QED BY <1>1, SocketsKeep DEF IInv, TypeOK, Was, Stays, Since

-----------------------------------------------------------------------------
LEMMA KeyOfSocket ==
  ASSUME IInv, NEW s \in Socket, at[s] # Nowhere
  PROVE  /\ at[s] \in Proc /\ Up(at[s])
         /\ secret \in Proc /\ secret # NoKey /\ proc[at[s]].key = secret
  BY DEF IInv, TypeOK, ProcInv

LEMMA RegisterDeviceKeeps ==
  ASSUME IInv, NEW s \in Socket, NEW x \in Token, NEW t \in Team,
         RegisterDevice(s, x, t)
  PROVE  IInv'
<1>1. /\ at[s] # Nowhere /\ Was(s, t)
      /\ UNCHANGED <<secret, proc, at, auth, issued, alive, answer>>
  BY DEF RegisterDevice, Free, Joined, Was
<1>2. PICK u : u = [key |-> proc[at[s]].key, token |-> x,
                    platform |-> PlatformOf[x], team |-> t]
  OBVIOUS
<1>3. PICK o : o = [pc |-> "building", proc |-> at[s], ucan |-> u]
  OBVIOUS
<1>4. op' = [op EXCEPT ![s] = o]
  BY <1>2, <1>3 DEF RegisterDevice
<1>5. u \in Ucan /\ u.key = secret /\ u.team = t
  BY <1>1, <1>2, KeyOfSocket, PushAssumption DEF Ucan
<1>6. BuildingInv(s, o)
  BY <1>1, <1>3, <1>5, KeyOfSocket DEF BuildingInv, Building
<1>7. answer' \in Answer /\ AnswersAreTrue' /\ InvalidAreDead'
  BY <1>1 DEF IInv, TypeOK, AnswersAreTrue, InvalidAreDead
<1> QED BY <1>1, <1>4, <1>6, <1>7, HandlerKeeps DEF IInv, TypeOK

LEMMA IssueUcanKeeps ==
  ASSUME IInv, NEW s \in Socket, IssueUcan(s)
  PROVE  IInv'
<1>1. /\ op[s] # Idle /\ op[s].pc = "building"
      /\ op' = [op EXCEPT ![s] = Idle]
      /\ issued' = issued \cup {[by |-> s, ucan |-> op[s].ucan]}
      /\ UNCHANGED <<secret, proc, at, auth, alive, answer>>
  BY DEF IssueUcan
<1>2. BuildingInv(s, op[s])
  BY <1>1 DEF IInv, OpInv, SendingInv, Sending
<1>3. PICK g : g = [by |-> s, ucan |-> op[s].ucan]
  OBVIOUS
<1>4. /\ g \in [by : Socket, ucan : Ucan]
      /\ secret # NoKey /\ g.ucan.key = secret /\ Was(g.by, g.ucan.team)
  BY <1>2, <1>3 DEF BuildingInv, Building
<1>5. IssuedInv(g)'
  BY <1>1, <1>4 DEF IssuedInv, Was
<1>6. /\ issued \subseteq issued'
      /\ issued' \subseteq [by : Socket, ucan : Ucan]
      /\ \A h \in issued' \ issued : IssuedInv(h)'
  BY <1>1, <1>3, <1>4, <1>5 DEF IInv, TypeOK
<1>7. answer' \in Answer /\ AnswersAreTrue' /\ InvalidAreDead'
  BY <1>1 DEF IInv, TypeOK, AnswersAreTrue, InvalidAreDead
<1> QED BY <1>1, <1>6, <1>7, HandlerKeeps

LEMMA NothingHeard ==
  ASSUME NEW status \in {"none", "success", "error", "not found", "unauthorized"},
         status # "success",
         answer' = [status |-> status, invalid |-> {}, heard |-> {}]
  PROVE  answer' \in Answer /\ AnswersAreTrue' /\ InvalidAreDead'
  BY DEF Answer, AnswersAreTrue, InvalidAreDead

LEMMA KnownIsUcan == IInv => Known \subseteq Ucan
  BY PushAssumption DEF IInv, TypeOK, Known, Ucan

LEMMA SendKeeps ==
  ASSUME IInv, NEW s \in Socket, NEW kind \in {"push", "batch"},
         NEW us \in Seq(Known), Send(s, kind, us)
  PROVE  IInv'
<1>1. /\ at[s] # Nowhere /\ answer' = NoAnswer
      /\ auth' = [auth EXCEPT ![s] = [t \in Team |-> Earlier(auth[s][t])]]
      /\ UNCHANGED <<secret, proc, at, issued, alive>>
  BY DEF Send, Free
<1>2. PICK o : o = [pc |-> "checking", proc |-> at[s], kind |-> kind, todo |-> us,
                    kept |-> <<>>, pending |-> {}, count |-> 0, invalid |-> {},
                    heard |-> {}]
  OBVIOUS
<1>3. op' = [op EXCEPT ![s] = o]
  BY <1>2 DEF Send
<1>4. us \in Seq(Ucan) /\ \A i \in 1 .. Len(us) : us[i] \in Known
  BY KnownIsUcan
<1>5. o \in Sending /\ Up(o.proc)
  BY <1>1, <1>2, <1>4, KeyOfSocket DEF Sending
<1>6. AllKnown(o.todo)' /\ KeptInv(s, o.kept)' /\ Gathered(o)'
  BY <1>1, <1>2, <1>4 DEF AllKnown, Known, KeptInv, Gathered
<1>7. SendingInv(s, o)'
  BY <1>1, <1>5, <1>6 DEF SendingInv, Up
<1>8. answer' \in Answer /\ AnswersAreTrue' /\ InvalidAreDead'
  BY <1>1, NothingHeard DEF NoAnswer
<1>9. /\ auth' \in [Socket -> [Team -> Membership]]
      /\ \A r \in Socket, t \in Team : Was(r, t) => Was(r, t)'
      /\ \A r \in Socket : r # s => Stays(r)
  BY <1>1 DEF IInv, TypeOK, Membership, Was, Stays, Since, Earlier
<1>10. /\ issued' \subseteq [by : Socket, ucan : Ucan]
       /\ issued \subseteq issued' /\ issued' \ issued = {}
  BY <1>1 DEF IInv, TypeOK
<1> QED BY <1>1, <1>3, <1>7, <1>8, <1>9, <1>10, HandlerSteps

LEMMA SendPushKeeps ==
  ASSUME IInv, NEW s \in Socket, SendPush(s)
  PROVE  IInv'
<1>1. PICK u \in Known : Send(s, "push", <<u>>)
  BY DEF SendPush
<1>2. <<u>> \in Seq(Known)
  OBVIOUS
<1>3. "push" \in {"push", "batch"}
  OBVIOUS
<1> QED BY <1>1, <1>2, <1>3, SendKeeps

LEMMA SendBatchPushKeeps ==
  ASSUME IInv, NEW s \in Socket, SendBatchPush(s)
  PROVE  IInv'
<1>1. PICK n \in 0 .. MaxBatch : \E us \in [1 .. n -> Known] : Send(s, "batch", us)
  BY DEF SendBatchPush
<1>2. PICK us \in [1 .. n -> Known] : Send(s, "batch", us)
  BY <1>1
<1>3. us \in Seq(Known)
  BY <1>1, <1>2, PushAssumption
<1> QED BY <1>2, <1>3, SendKeeps

LEMMA RefuseBatchKeeps ==
  ASSUME IInv, NEW s \in Socket, RefuseBatch(s)
  PROVE  IInv'
<1>1. /\ UNCHANGED <<secret, proc, at, auth, op, issued, alive>>
      /\ answer' = [status |-> "error", invalid |-> {}, heard |-> {}]
  BY DEF RefuseBatch, Replied
<1>2. answer' \in Answer /\ AnswersAreTrue' /\ InvalidAreDead'
  BY <1>1, NothingHeard
<1>3. PICK o : o = op[s]
  OBVIOUS
<1>4. op' = [op EXCEPT ![s] = o]
  BY <1>1, <1>3 DEF IInv, TypeOK
<1>5. o = Idle \/ BuildingInv(s, o) \/ SendingInv(s, o)
  BY <1>3 DEF IInv, OpInv
<1> QED BY <1>1, <1>2, <1>4, <1>5, HandlerKeeps DEF IInv, TypeOK

-----------------------------------------------------------------------------
LEMMA HandlerSends ==
  ASSUME IInv, NEW s \in Socket, op[s] # Idle, op[s].pc \in {"checking", "sending"}
  PROVE  SendingInv(s, op[s])
  BY DEF IInv, OpInv, BuildingInv, Building

LEMMA AnswerStays ==
  ASSUME IInv, UNCHANGED <<alive, answer>>
  PROVE  answer' \in Answer /\ AnswersAreTrue' /\ InvalidAreDead'
  BY DEF IInv, TypeOK, AnswersAreTrue, InvalidAreDead

(* A UCAN that is signed by the key of a process was given out.            *)
LEMMA ValidIsIssued ==
  ASSUME IInv, NEW p \in Proc, Up(p), NEW u \in Known, Valid(p, u)
  PROVE  \E g \in issued : g.ucan = u
<1>1. proc[p].key = secret /\ secret \in Proc
  BY DEF IInv, TypeOK, ProcInv
<1>2. u.key \in Proc
  BY <1>1 DEF Valid
<1>3. u \notin Forged
  BY <1>2, PushAssumption
<1> QED BY <1>3 DEF Known

LEMMA CheckKeeps ==
  ASSUME IInv, NEW s \in Socket, Check(s)
  PROVE  IInv'
<1>1. /\ op[s] # Idle /\ op[s].pc = "checking" /\ op[s].todo # <<>>
      /\ UNCHANGED <<secret, proc, at, auth, issued, alive, answer>>
  BY DEF Check
<1>2. PICK before : before = op[s]
  OBVIOUS
<1>3. SendingInv(s, before)
  BY <1>1, <1>2, HandlerSends
<1>4. PICK u : u = Head(before.todo)
  OBVIOUS
<1>5. PICK kept : kept = IF Authorized(s, u) THEN Append(before.kept, u)
                                             ELSE before.kept
  OBVIOUS
<1>6. PICK o : o = [before EXCEPT !.todo = Tail(before.todo), !.kept = kept]
  OBVIOUS
<1>7. op' = [op EXCEPT ![s] = o]
  BY <1>2, <1>4, <1>5, <1>6 DEF Check
<1>8. /\ before.todo \in Seq(Ucan) /\ before.kept \in Seq(Ucan)
      /\ before.todo # <<>> /\ before.proc \in Proc /\ Up(before.proc)
  BY <1>1, <1>2, <1>3 DEF SendingInv, Sending
<1>9. u \in Ucan /\ u \in Known
  BY <1>3, <1>4, <1>8 DEF SendingInv, AllKnown
<1>10. /\ Tail(before.todo) \in Seq(Ucan)
       /\ AllKnown(Tail(before.todo))
  BY <1>3, <1>8 DEF SendingInv, AllKnown
<1>11. Authorized(s, u) => /\ \E g \in issued : g.ucan = u
                           /\ Since(s, u.team)
  BY <1>2, <1>8, <1>9, ValidIsIssued DEF Authorized, Joined, Since
<1>12. kept \in Seq(Ucan) /\ KeptInv(s, kept)
  <2>1. CASE Authorized(s, u)
    <3>1. kept = Append(before.kept, u)
      BY <1>5, <2>1
    <3>2. /\ kept \in Seq(Ucan) /\ Len(kept) = Len(before.kept) + 1
          /\ \A i \in 1 .. Len(before.kept) : kept[i] = before.kept[i]
          /\ kept[Len(kept)] = u
      BY <1>8, <1>9, <3>1
    <3>3. ASSUME NEW i \in 1 .. Len(kept)
          PROVE  (\E g \in issued : g.ucan = kept[i]) /\ Since(s, kept[i].team)
      <4>1. CASE i = Len(kept)
        BY <1>11, <2>1, <3>2, <4>1
      <4>2. CASE i # Len(kept)
        <5>1. i \in 1 .. Len(before.kept)
          BY <1>8, <3>2, <4>2
        <5> QED BY <1>3, <3>2, <5>1 DEF SendingInv, KeptInv
      <4> QED BY <4>1, <4>2
    <3> QED BY <3>2, <3>3 DEF KeptInv
  <2>2. CASE ~Authorized(s, u)
    BY <1>3, <1>5, <1>8, <2>2 DEF SendingInv
  <2> QED BY <2>1, <2>2
<1>13. /\ o \in Sending /\ o.proc = before.proc
       /\ o.todo = Tail(before.todo) /\ o.kept = kept
       /\ o.count = before.count /\ o.invalid = before.invalid
       /\ o.heard = before.heard
  BY <1>3, <1>6, <1>10, <1>12 DEF SendingInv, Sending
<1>14. SendingInv(s, o)
  BY <1>3, <1>10, <1>12, <1>13 DEF SendingInv, Gathered
<1> QED BY <1>1, <1>7, <1>14, AnswerStays, HandlerKeeps DEF IInv, TypeOK

LEMMA DispatchKeeps ==
  ASSUME IInv, NEW s \in Socket, Dispatch(s)
  PROVE  IInv'
<1>1. /\ op[s] # Idle /\ op[s].pc = "checking"
      /\ UNCHANGED <<secret, proc, at, auth, issued, alive>>
  BY DEF Dispatch
<1>2. PICK before : before = op[s]
  OBVIOUS
<1>3. SendingInv(s, before)
  BY <1>1, <1>2, HandlerSends
<1>4. CASE before.kept = <<>>
  <2>1. /\ op' = [op EXCEPT ![s] = Idle]
        /\ answer' = [status |-> "unauthorized", invalid |-> {}, heard |-> {}]
    BY <1>2, <1>4 DEF Dispatch, Replied
  <2>2. answer' \in Answer /\ AnswersAreTrue' /\ InvalidAreDead'
    BY <2>1, NothingHeard
  <2> QED BY <1>1, <2>1, <2>2, HandlerKeeps DEF IInv, TypeOK
<1>5. CASE before.kept # <<>>
  <2>1. PICK pending : pending = {pl \in Platform : Bucket(before.kept, pl) # {}}
    OBVIOUS
  <2>2. PICK o : o = [before EXCEPT !.pc = "sending", !.pending = pending]
    OBVIOUS
  <2>3. op' = [op EXCEPT ![s] = o] /\ UNCHANGED answer
    BY <1>2, <1>5, <2>1, <2>2 DEF Dispatch
  <2>4. /\ o \in Sending /\ o.proc = before.proc
        /\ o.todo = before.todo /\ o.kept = before.kept
        /\ o.count = before.count /\ o.invalid = before.invalid
        /\ o.heard = before.heard
    BY <1>3, <2>1, <2>2 DEF SendingInv, Sending
  <2>5. SendingInv(s, o)
    BY <1>3, <2>4 DEF SendingInv, Gathered
  <2> QED BY <1>1, <2>3, <2>5, AnswerStays, HandlerKeeps DEF IInv, TypeOK
<1> QED BY <1>4, <1>5

(* What a handler has gathered, with the responses of FCM for a platform.  *)
LEMMA RespondedIsGathered ==
  ASSUME NEW us \in Seq(Ucan), NEW pl \in Platform,
         NEW f \in Responses(us, Bucket(us, pl)),
         NEW o \in Sending, Gathered(o)
  PROVE  LET count   == o.count + Delivered(f)
             invalid == o.invalid \cup InvalidTokens(us, f)
             heard   == o.heard \cup Heard(us, f)
         IN  /\ count \in Nat /\ invalid \subseteq Token
             /\ heard \subseteq Token \X Outcome
             /\ count > 0 <=> \E x \in Token : <<x, "ok">> \in heard
             /\ invalid = {x \in Token : <<x, "dead">> \in heard}
             /\ invalid \cap alive = {}
<1> DEFINE b  == Bucket(us, pl)
           ok == {i \in b : f[i] = "ok"}
           count   == o.count + Delivered(f)
           invalid == o.invalid \cup InvalidTokens(us, f)
           heard   == o.heard \cup Heard(us, f)
<1>1. b \subseteq 1 .. Len(us)
  BY DEF Bucket
<1>2. \A i \in b : us[i].token \in Token
  <2>1. \A i \in b : us[i] \in Ucan
    BY <1>1
  <2> QED BY <2>1 DEF Ucan
<1>3. /\ f \in [b -> Outcome]
      /\ \A i \in b : f[i] = "dead" => us[i].token \notin alive
  BY DEF Responses
<1>4. /\ Delivered(f) = Cardinality(ok)
      /\ InvalidTokens(us, f) = {us[i].token : i \in {i \in b : f[i] = "dead"}}
      /\ Heard(us, f) = {<<us[i].token, f[i]>> : i \in b}
  BY <1>3 DEF Delivered, InvalidTokens, Heard
<1>5. /\ o.count \in Nat /\ o.invalid \subseteq Token
      /\ o.heard \subseteq Token \X Outcome
  BY DEF Sending
<1>6. IsFiniteSet(ok) /\ Cardinality(ok) \in Nat
  <2>1. Len(us) \in Int /\ 1 \in Int
    OBVIOUS
  <2>2. IsFiniteSet(1 .. Len(us))
    BY <2>1, FS_Interval
  <2>3. ok \subseteq 1 .. Len(us)
    BY <1>1
  <2>4. IsFiniteSet(ok)
    BY <2>2, <2>3, FS_Subset
  <2> QED BY <2>4, FS_CardinalityType
<1>7. Cardinality(ok) > 0 <=> ok # {}
  <2> HIDE DEF ok
  <2>1. Cardinality(ok) = 0 <=> ok = {}
    BY <1>6, FS_EmptySet
  <2> QED BY <1>6, <2>1
<1>8. count \in Nat /\ (count > 0 <=> o.count > 0 \/ ok # {})
  BY <1>4, <1>5, <1>6, <1>7
<1>9. heard \subseteq Token \X Outcome
  BY <1>2, <1>3, <1>4, <1>5
<1>10. \A x, r : <<x, r>> \in heard <=> \/ <<x, r>> \in o.heard
                                      \/ \E i \in b : us[i].token = x /\ f[i] = r
  BY <1>4
<1>11. count > 0 <=> \E x \in Token : <<x, "ok">> \in heard
  <2>1. \A x : <<x, "ok">> \in heard <=> \/ <<x, "ok">> \in o.heard
                                        \/ \E i \in b : us[i].token = x /\ f[i] = "ok"
    BY <1>10
  <2>2. o.count > 0 <=> \E x \in Token : <<x, "ok">> \in o.heard
    BY DEF Gathered
  <2>3. ok # {} <=> \E x \in Token : \E i \in b : us[i].token = x /\ f[i] = "ok"
    BY <1>2
  <2> QED BY <1>8, <2>1, <2>2, <2>3
<1>12. /\ invalid \subseteq Token
       /\ invalid = {x \in Token : <<x, "dead">> \in heard}
  BY <1>2, <1>4, <1>5, <1>10 DEF Gathered
<1>13. invalid \cap alive = {}
  BY <1>3, <1>4 DEF Gathered
<1> QED BY <1>8, <1>9, <1>11, <1>12, <1>13

LEMMA CallFcmKeeps ==
  ASSUME IInv, NEW s \in Socket, NEW pl \in Platform, CallFcm(s, pl)
  PROVE  IInv'
<1>1. /\ op[s] # Idle /\ op[s].pc = "sending"
      /\ UNCHANGED <<secret, proc, at, auth, issued, alive, answer>>
  BY DEF CallFcm
<1>2. PICK before : before = op[s]
  OBVIOUS
<1>3. SendingInv(s, before)
  BY <1>1, <1>2, HandlerSends
<1>4. PICK us : us = before.kept
  OBVIOUS
<1>5. PICK pending : pending = before.pending \ {pl}
  OBVIOUS
<1>6. /\ before \in Sending /\ us \in Seq(Ucan) /\ Gathered(before)
  BY <1>3, <1>4 DEF SendingInv, Sending
<1>7. ASSUME NEW f \in Responses(us, Bucket(us, pl)),
             op' = [op EXCEPT ![s].pending = @ \ {pl},
                              ![s].count = @ + Delivered(f),
                              ![s].invalid = @ \cup InvalidTokens(us, f),
                              ![s].heard = @ \cup Heard(us, f)]
      PROVE  IInv'
  <2>1. PICK count : count = before.count + Delivered(f)
    OBVIOUS
  <2>2. PICK invalid : invalid = before.invalid \cup InvalidTokens(us, f)
    OBVIOUS
  <2>3. PICK heard : heard = before.heard \cup Heard(us, f)
    OBVIOUS
  <2>4. PICK o : o = [before EXCEPT !.pending = pending, !.count = count,
                                    !.invalid = invalid, !.heard = heard]
    OBVIOUS
  <2>5. op' = [op EXCEPT ![s] = o]
    BY <1>2, <1>5, <1>7, <2>1, <2>2, <2>3, <2>4
  <2>6. /\ count \in Nat /\ invalid \subseteq Token
        /\ heard \subseteq Token \X Outcome
        /\ count > 0 <=> \E x \in Token : <<x, "ok">> \in heard
        /\ invalid = {x \in Token : <<x, "dead">> \in heard}
        /\ invalid \cap alive = {}
    <3>1. /\ before.count + Delivered(f) \in Nat
          /\ before.invalid \cup InvalidTokens(us, f) \subseteq Token
          /\ before.heard \cup Heard(us, f) \subseteq Token \X Outcome
      BY <1>6, RespondedIsGathered
    <3>2. (before.count + Delivered(f) > 0) <=>
            \E x \in Token : <<x, "ok">> \in before.heard \cup Heard(us, f)
      BY <1>6, RespondedIsGathered
    <3>3. before.invalid \cup InvalidTokens(us, f) =
            {x \in Token : <<x, "dead">> \in before.heard \cup Heard(us, f)}
      BY <1>6, RespondedIsGathered
    <3>4. (before.invalid \cup InvalidTokens(us, f)) \cap alive = {}
      BY <1>6, RespondedIsGathered
    <3> QED BY <2>1, <2>2, <2>3, <3>1, <3>2, <3>3, <3>4
  <2>7. /\ o \in Sending /\ o.proc = before.proc
        /\ o.todo = before.todo /\ o.kept = before.kept
        /\ o.count = count /\ o.invalid = invalid /\ o.heard = heard
    BY <1>5, <1>6, <2>4, <2>6 DEF Sending
  <2>8. SendingInv(s, o)
    BY <1>3, <2>6, <2>7 DEF SendingInv, Gathered
  <2> QED BY <1>1, <2>5, <2>8, AnswerStays, HandlerKeeps DEF IInv, TypeOK
<1>8. ASSUME op' = [op EXCEPT ![s].pending = @ \ {pl}]
      PROVE  IInv'
  <2>1. PICK o : o = [before EXCEPT !.pending = pending]
    OBVIOUS
  <2>2. op' = [op EXCEPT ![s] = o]
    BY <1>2, <1>5, <1>8, <2>1
  <2>3. /\ o \in Sending /\ o.proc = before.proc
        /\ o.todo = before.todo /\ o.kept = before.kept
        /\ o.count = before.count /\ o.invalid = before.invalid
        /\ o.heard = before.heard
    BY <1>3, <1>5, <2>1 DEF SendingInv, Sending
  <2>4. SendingInv(s, o)
    BY <1>3, <2>3 DEF SendingInv, Gathered
  <2> QED BY <1>1, <2>2, <2>4, AnswerStays, HandlerKeeps DEF IInv, TypeOK
<1>9. us = op[s].kept
  BY <1>2, <1>4
<1> QED BY <1>7, <1>8, <1>9 DEF CallFcm

LEMMA FinishKeeps ==
  ASSUME IInv, NEW s \in Socket, Finish(s)
  PROVE  IInv'
<1>1. /\ op[s] # Idle /\ op[s].pc = "sending"
      /\ op' = [op EXCEPT ![s] = Idle]
      /\ answer' = [status |-> Status(op[s]), invalid |-> op[s].invalid,
                    heard |-> op[s].heard]
      /\ UNCHANGED <<secret, proc, at, auth, issued, alive>>
  BY DEF Finish, Replied
<1>2. op[s] \in Sending /\ Gathered(op[s])
  BY <1>1, HandlerSends DEF SendingInv
<1>3. /\ Status(op[s]) \in {"success", "error", "not found"}
      /\ Status(op[s]) = "success" <=> op[s].count > 0
  BY DEF Status
<1>4. answer' \in Answer
  BY <1>1, <1>2, <1>3 DEF Answer, Sending
<1>5. AnswersAreTrue' /\ InvalidAreDead'
  BY <1>1, <1>2, <1>3 DEF Gathered, AnswersAreTrue, InvalidAreDead
<1> QED BY <1>1, <1>4, <1>5, HandlerKeeps DEF IInv, TypeOK

-----------------------------------------------------------------------------
LEMMA StutterKeeps == IInv /\ UNCHANGED vars => IInv'
<1> SUFFICES ASSUME IInv, UNCHANGED vars PROVE IInv'
  OBVIOUS
<1>1. UNCHANGED <<secret, proc, at, auth, op, issued, alive, answer>>
  BY DEF vars
<1>2. /\ at' \in [Socket -> Proc \cup {Nowhere}]
      /\ \A s \in Socket : at'[s] # Nowhere => Up(at'[s])
  BY <1>1 DEF IInv, TypeOK
<1>3. /\ auth' \in [Socket -> [Team -> Membership]]
      /\ \A s \in Socket, t \in Team : Was(s, t) => Was(s, t)'
      /\ \A s \in Socket : Stays(s)
  BY <1>1 DEF IInv, TypeOK, Membership, Was, Stays, Since
<1> QED BY <1>1, <1>2, <1>3, SocketsKeep

LEMMA NextKeepsIInv == IInv /\ [Next]_vars => IInv'
<1> SUFFICES ASSUME IInv, [Next]_vars PROVE IInv'
  OBVIOUS
<1>1. ASSUME NEW p \in Proc, Boot(p) \/ StoreKey(p) \/ Stop(p) PROVE IInv'
  BY <1>1, BootKeeps, StoreKeyKeeps, StopKeeps
<1>2. ASSUME NEW s \in Socket, NEW p \in Proc, Connect(s, p) PROVE IInv'
  BY <1>2, ConnectKeeps
<1>3. ASSUME NEW s \in Socket, NEW t \in Team, Join(s, t) \/ Leave(s, t) PROVE IInv'
  BY <1>3, JoinKeeps, LeaveKeeps
<1>4. ASSUME NEW s \in Socket, NEW x \in Token, NEW t \in Team, RegisterDevice(s, x, t)
      PROVE  IInv'
  BY <1>4, RegisterDeviceKeeps
<1>5. ASSUME NEW s \in Socket, SendPush(s) \/ SendBatchPush(s) \/ RefuseBatch(s)
      PROVE  IInv'
  BY <1>5, SendPushKeeps, SendBatchPushKeeps, RefuseBatchKeeps
<1>6. ASSUME NEW s \in Socket,
             IssueUcan(s) \/ Check(s) \/ Dispatch(s) \/ Finish(s) \/ Disconnect(s)
      PROVE  IInv'
  BY <1>6, IssueUcanKeeps, CheckKeeps, DispatchKeeps, FinishKeeps, DisconnectKeeps
<1>7. ASSUME NEW s \in Socket, NEW pl \in Platform, CallFcm(s, pl) PROVE IInv'
  BY <1>7, CallFcmKeeps
<1>8. ASSUME NEW x \in Token, TokenDies(x) PROVE IInv'
  BY <1>8, TokenDiesKeeps
<1> QED BY <1>1, <1>2, <1>3, <1>4, <1>5, <1>6, <1>7, <1>8, StutterKeeps DEF Next

LEMMA Invariant == Spec => []IInv
  BY InitIInv, NextKeepsIInv, PTL DEF Spec

(* Every variable of the push service keeps its type.                      *)
THEOREM TypeCorrect == Spec => []TypeOK
<1>1. IInv => TypeOK
  BY DEF IInv
<1> QED BY <1>1, Invariant, PTL

(* Whatever processes create a signing key, and however their creations    *)
(* interleave, fail and lose their answers: every UCAN that was given out  *)
(* is valid at every process that is up.                                   *)
THEOREM UcansAreNeverLost == Spec => []UcansStayValid
<1>1. IInv => UcansStayValid
  BY DEF IInv, UcansStayValid, IssuedInv, ProcInv, Up, Valid
<1> QED BY <1>1, Invariant, PTL

(* A push is handed to FCM only for devices that a member of the team      *)
(* registered, and for a socket that was in the team at some moment since  *)
(* it sent the push.                                                       *)
THEOREM PushesAreForTheTeam == Spec => []PushesStayInTeam
<1>1. ASSUME IInv PROVE PushesStayInTeam
  <2> SUFFICES ASSUME NEW s \in Socket, op[s] # Idle, op[s].pc = "sending",
                      NEW i \in 1 .. Len(op[s].kept)
               PROVE  \E g \in issued :
                        /\ g.ucan = op[s].kept[i]
                        /\ auth[g.by][g.ucan.team] # "never"
                        /\ auth[s][g.ucan.team] \in {"now", "past"}
    BY DEF PushesStayInTeam
  <2>1. KeptInv(s, op[s].kept)
    BY <1>1, HandlerSends DEF SendingInv
  <2>2. PICK g \in issued : g.ucan = op[s].kept[i]
    BY <2>1 DEF KeptInv
  <2>3. Since(s, g.ucan.team)
    BY <2>1, <2>2 DEF KeptInv
  <2>4. Was(g.by, g.ucan.team)
    BY <1>1 DEF IInv, IssuedInv
  <2> QED BY <2>2, <2>3, <2>4 DEF Was, Since
<1> QED BY <1>1, Invariant, PTL

(* The answer to a push is a success exactly when FCM took one of its      *)
(* messages, and names exactly the tokens that FCM knows no more.          *)
THEOREM AnswersAreWhatFcmSaid == Spec => []AnswersAreTrue
<1>1. IInv => AnswersAreTrue
  BY DEF IInv
<1> QED BY <1>1, Invariant, PTL

(* No token is reported as invalid that a device still has.                *)
THEOREM LiveTokensAreNotInvalid == Spec => []InvalidAreDead
<1>1. IInv => InvalidAreDead
  BY DEF IInv
<1> QED BY <1>1, Invariant, PTL
=============================================================================

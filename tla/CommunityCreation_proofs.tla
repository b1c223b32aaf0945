---------------------- MODULE CommunityCreation_proofs ----------------------
(***************************************************************************)
(* Proofs about CommunityCreation in an environment that never replaces a  *)
(* secret: for any requests, sockets, processes and teams the key in       *)
(* memory is the stored one, a stored community has its keyrings, a load   *)
(* finds them, and the keys a client was given are stored.                 *)
(*                                                                         *)
(* The argument: what is stored only grows (Grows), so what a handler knows*)
(* of it (OpInv) stays true while others run (lemma OthersKeep).           *)
(***************************************************************************)
EXTENDS CommunityCreation, TLAPS

(* The keys and keyrings that are stored, and the memory of the processes. *)
KeyInv ==
  /\ \A p \in Server : encKey[p] # None => encKey[p] = storedKey
  /\ \A t \in Team :
       /\ serverRing[t] # None =>
            storedKey # None /\ serverRing[t].key = storedKey
       /\ teamRing[t] # None =>
            storedKey # None /\ teamRing[t].key = storedKey

RowInv ==
  \A t \in Team :
    row[t] # None =>
      serverRing[t] # None /\ teamRing[t] # None /\ teamRing[t].by = row[t]

(* What the handler of a request knows at each of its waits.               *)
OpInv(r) ==
  LET t == op[r].team
      found == op[r].found
  IN
  op[r] # Idle =>
    /\ op[r].pc # "missing"
    /\ op[r].pc = "keyed" => found = None \/ found = storedKey
    /\ op[r].pc \in {"ring", "teamRing", "teamStored"} => encKey[Proc(r)] # None
    /\ op[r].pc = "ring" => found = None \/ found = serverRing[t]
    /\ op[r].pc = "ring" /\ op[r].kind = "load" => found # None
    /\ op[r].pc = "teamRing" =>
         op[r].kind = "load" /\ found # None /\ found = teamRing[t]
    /\ op[r].pc \notin Ended /\ op[r].kind = "load" => row[t] # None
    /\ op[r].pc \in {"stored", "done"} /\ op[r].kind = "generate" =>
         serverRing[t] # None /\ serverRing[t].by = r
    /\ op[r].pc = "teamStored" =>
         /\ serverRing[t] # None
         /\ teamRing[t] # None /\ teamRing[t].by = r
    /\ op[r].pc = "captcha" => op[r].kind = "verify"
    /\ op[r].pc \in {"teamStored", "inserted"} => op[r].kind = "create"

IInv ==
  /\ TypeOK
  /\ KeyInv
  /\ RowInv
  /\ \A r \in Request : OpInv(r)

Pcs == {"captcha", "key", "keyed", "ring", "teamRing", "stored",
        "teamStored", "inserted"} \cup Ended

Answers == Request \cup Ring \cup {None}

(* What is stored stays, and a process that has the key keeps it.          *)
Grows ==
  /\ storedKey # None => storedKey' = storedKey
  /\ \A t \in Team :
       /\ serverRing[t] # None => serverRing'[t] = serverRing[t]
       /\ teamRing[t] # None => teamRing'[t] = teamRing[t]
       /\ row[t] # None => row'[t] = row[t]
  /\ \A p \in Server : encKey[p] # None => encKey'[p] = encKey[p]

-----------------------------------------------------------------------------
(* A handler that is not idle has all its fields, and a process.           *)
LEMMA OpFields ==
  ASSUME TypeOK, NEW r \in Request, op[r] # Idle
  PROVE  op[r] \in Op /\ op[r].team \in Team /\ Proc(r) \in Server
<1>1. op[r] \in Op
  BY DEF TypeOK
<1>2. op[r].team \in Team /\ op[r].socket \in Socket
  BY <1>1 DEF Op
<1> QED BY <1>1, <1>2, CreationAssumption DEF Proc

(* Moving a handler on changes where it waits and what it found.           *)
LEMMA MovedIs ==
  ASSUME TypeOK, NEW r \in Request, op[r] # Idle,
         NEW pc \in Pcs, NEW found \in Answers, Receive(r, pc, found)
  PROVE  /\ Moved(op[r], pc, found) \in Op
         /\ op' = [op EXCEPT ![r] = Moved(op[r], pc, found)]
         /\ op'[r].kind = op[r].kind
         /\ op'[r].pc = pc
         /\ op'[r].team = op[r].team
         /\ op'[r].found = found
         /\ Proc(r)' = Proc(r)
         /\ op'[r] # Idle
<1>1. op[r] \in Op
  BY OpFields
<1>2. op'[r] = Moved(op[r], pc, found)
  BY DEF TypeOK, Receive
<1>3. /\ op[r].kind \in {"verify", "generate", "create", "load"}
      /\ op[r].socket \in Socket /\ op[r].team \in Team
  BY <1>1 DEF Op
<1>4. Moved(op[r], pc, found) \in Op
  BY <1>3 DEF Moved, Op, Pcs, Answers
<1>5. /\ op'[r].kind = op[r].kind /\ op'[r].pc = pc
      /\ op'[r].socket = op[r].socket /\ op'[r].team = op[r].team
      /\ op'[r].found = found
  BY <1>2 DEF Moved
<1>6. op'[r] # Idle
  BY <1>3, <1>5 DEF Idle
<1> QED BY <1>4, <1>5, <1>6 DEF Proc, Receive

(* The step of another request, or of another process, leaves what a       *)
(* handler knows true.                                                     *)
LEMMA OthersKeep ==
  ASSUME IInv, Grows, NEW q \in Request, op'[q] = op[q]
  PROVE  OpInv(q)'
<1>1. CASE op[q] = Idle
  BY <1>1 DEF OpInv
<1>2. CASE op[q] # Idle
  <2>1. op[q].team \in Team /\ Proc(q) \in Server
    BY <1>2, OpFields DEF IInv
  <2>2. OpInv(q)
    BY DEF IInv
  <2>3. Proc(q)' = Proc(q)
    BY DEF Proc
  <2>4. \A t \in Team : serverRing[t] # None => storedKey # None
    BY DEF IInv, KeyInv
  <2> QED BY <1>2, <2>1, <2>2, <2>3, <2>4 DEF OpInv, Grows
<1> QED BY <1>1, <1>2

(* A step of one handler: what it stores grows, and it knows what it       *)
(* should.                                                                 *)
LEMMA StepKeeps ==
  ASSUME IInv, NEW r \in Request, NEW o \in Op, op' = [op EXCEPT ![r] = o],
         Grows,
         storedKey' \in Request \cup {None},
         encKey' \in [Server -> Request \cup {None}],
         serverRing' \in [Team -> Ring \cup {None}],
         teamRing' \in [Team -> Ring \cup {None}],
         row' \in [Team -> Request \cup {None}],
         verified' \subseteq Socket, usedKeys' \subseteq Socket,
         usedCreate' \subseteq Socket,
         KeyInv', RowInv', OpInv(r)'
  PROVE  IInv'
<1>1. op \in [Request -> Op \cup {Idle}]
  BY DEF IInv, TypeOK
<1>2. op' \in [Request -> Op \cup {Idle}]
  BY <1>1
<1>3. TypeOK'
  BY <1>2 DEF TypeOK
<1>4. ASSUME NEW q \in Request
      PROVE  OpInv(q)'
  <2>1. CASE q = r
    BY <2>1
  <2>2. CASE q # r
    <3>1. op'[q] = op[q]
      BY <2>2, <1>1
    <3> QED BY <3>1, OthersKeep
  <2> QED BY <2>1, <2>2
<1> QED BY <1>3, <1>4 DEF IInv

(* A step of one handler that leaves the storage and the memory alone.     *)
LEMMA QuietStep ==
  ASSUME IInv, NEW r \in Request, NEW o \in Op, op' = [op EXCEPT ![r] = o],
         UNCHANGED <<secrets, encKey, row>>,
         verified' \subseteq Socket, usedKeys' \subseteq Socket,
         usedCreate' \subseteq Socket,
         OpInv(r)'
  PROVE  IInv'
<1>1. UNCHANGED <<storedKey, serverRing, teamRing, encKey, row>>
  BY DEF secrets
<1>2. Grows
  BY <1>1 DEF Grows
<1>3. KeyInv' /\ RowInv'
  BY <1>1 DEF IInv, KeyInv, RowInv
<1> QED BY <1>1, <1>2, <1>3, StepKeeps DEF IInv, TypeOK

(* A handler that fails, or is done and is not generating keys, knows      *)
(* nothing that could be wrong.                                            *)
LEMMA EndedKnows ==
  ASSUME TypeOK, NEW r \in Request, op[r] # Idle,
         NEW pc \in {"failed", "done"}, pc = "failed" \/ op[r].kind # "generate",
         GoTo(r, pc)
  PROVE  /\ OpInv(r)' /\ Moved(op[r], pc, op[r].found) \in Op
         /\ op' = [op EXCEPT ![r] = Moved(op[r], pc, op[r].found)]
<1>1. op[r].found \in Answers /\ pc \in Pcs
  BY OpFields DEF Op, Answers, Pcs, Ended
<1>2. Receive(r, pc, op[r].found)
  BY DEF GoTo, Receive
<1>3. /\ op'[r].pc = pc /\ op'[r].kind = op[r].kind
      /\ Moved(op[r], pc, op[r].found) \in Op
      /\ op' = [op EXCEPT ![r] = Moved(op[r], pc, op[r].found)]
  BY <1>1, <1>2, MovedIs
<1> QED BY <1>3 DEF OpInv, Ended

(* A handler that fails, leaving storage and memory alone.                 *)
LEMMA FailKeeps ==
  ASSUME IInv, NEW r \in Request, op[r] # Idle, GoTo(r, "failed"),
         UNCHANGED <<secrets, encKey, row, flags>>
  PROVE  IInv'
<1>1. /\ OpInv(r)' /\ Moved(op[r], "failed", op[r].found) \in Op
      /\ op' = [op EXCEPT ![r] = Moved(op[r], "failed", op[r].found)]
  BY EndedKnows DEF IInv
<1>2. /\ UNCHANGED <<secrets, encKey, row>>
      /\ verified' \subseteq Socket /\ usedKeys' \subseteq Socket
      /\ usedCreate' \subseteq Socket
  BY DEF flags, IInv, TypeOK
<1> QED BY <1>1, <1>2, QuietStep

LEMMA InitIInv == Init => IInv
<1> SUFFICES ASSUME Init PROVE IInv
  OBVIOUS
<1>1. TypeOK
  BY DEF Init, TypeOK
<1> QED BY <1>1 DEF Init, IInv, KeyInv, RowInv, OpInv

-----------------------------------------------------------------------------
(* A handler starts.                                                       *)
LEMMA StartKeeps ==
  ASSUME IInv, NEW r \in Request, NEW s \in Socket, NEW t \in Team,
         NEW kind \in {"verify", "generate", "create", "load"},
         NEW pc \in {"captcha", "key"}, pc = "captcha" => kind = "verify",
         kind = "load" => row[t] # None,
         Start(r, kind, pc, s, t)
  PROVE  IInv'
<1> DEFINE o == [kind |-> kind, pc |-> pc, socket |-> s, team |-> t,
                 found |-> None]
<1>1. o \in Op /\ o.kind = kind /\ o.pc = pc /\ o.team = t
  BY DEF Op
<1>2. op' = [op EXCEPT ![r] = o] /\ UNCHANGED <<secrets, encKey, row, flags>>
  BY DEF Start
<1> HIDE DEF o
<1>3. op'[r] = o
  BY <1>2 DEF IInv, TypeOK
<1>4. UNCHANGED <<storedKey, serverRing, teamRing, encKey, row>>
  BY <1>2 DEF secrets
<1>5. OpInv(r)'
  BY <1>1, <1>3, <1>4 DEF OpInv, Ended
<1>6. /\ UNCHANGED <<secrets, encKey, row>>
      /\ verified' \subseteq Socket /\ usedKeys' \subseteq Socket
      /\ usedCreate' \subseteq Socket
  BY <1>2 DEF flags, IInv, TypeOK
<1> QED BY <1>1, <1>2, <1>5, <1>6, QuietStep

(* A handler takes in the answer of a get.                                 *)
LEMMA ReceiveKeeps ==
  ASSUME IInv, NEW r \in Request, op[r] # Idle,
         NEW pc \in {"keyed", "teamRing"}, NEW found \in Answers,
         op[r].pc \notin Ended,
         pc = "keyed" => found = None \/ found = storedKey,
         pc = "teamRing" =>
           /\ op[r].kind = "load" /\ encKey[Proc(r)] # None
           /\ found # None /\ found = teamRing[op[r].team],
         Receive(r, pc, found), UNCHANGED <<secrets, encKey, row, flags>>
  PROVE  IInv'
<1>1. pc \in Pcs
  BY DEF Pcs
<1>2. /\ Moved(op[r], pc, found) \in Op
      /\ op' = [op EXCEPT ![r] = Moved(op[r], pc, found)]
      /\ op'[r].kind = op[r].kind /\ op'[r].pc = pc
      /\ op'[r].team = op[r].team /\ op'[r].found = found
      /\ Proc(r)' = Proc(r)
  BY <1>1, MovedIs DEF IInv
<1>3. UNCHANGED <<storedKey, serverRing, teamRing, encKey, row>>
  BY DEF secrets
<1>4. op[r].kind = "load" => row[op[r].team] # None
  BY DEF IInv, OpInv
<1>5. OpInv(r)'
  BY <1>2, <1>3, <1>4 DEF OpInv, Ended
<1>6. /\ UNCHANGED <<secrets, encKey, row>>
      /\ verified' \subseteq Socket /\ usedKeys' \subseteq Socket
      /\ usedCreate' \subseteq Socket
  BY DEF flags, IInv, TypeOK
<1> QED BY <1>2, <1>5, <1>6, QuietStep

-----------------------------------------------------------------------------
(* The steps that write to the storage, in an environment that never       *)
(* replaces a secret.                                                      *)

LEMMA StoreKeyKeeps ==
  ASSUME Local = FALSE, IInv, NEW r \in Request, StoreKey(r)
  PROVE  IInv'
<1>1. /\ op[r] # Idle /\ op[r].pc = "keyed"
      /\ UNCHANGED <<serverRing, teamRing, encKey, row, flags>>
  BY DEF StoreKey, At
<1>2. CASE GoTo(r, "failed") /\ UNCHANGED storedKey
  <2>1. UNCHANGED <<secrets, encKey, row, flags>>
    BY <1>1, <1>2 DEF secrets
  <2> QED BY <1>1, <1>2, <2>1, FailKeeps
<1>3. CASE /\ storedKey = None /\ storedKey' = r
           /\ Receive(r, "keyed", r) \/ GoTo(r, "failed")
  <2>1. /\ \A p \in Server : encKey[p] = None
        /\ \A t \in Team : serverRing[t] = None /\ teamRing[t] = None
    BY <1>3 DEF IInv, KeyInv
  <2>2. KeyInv'
    BY <1>1, <2>1 DEF KeyInv
  <2>3. RowInv' /\ Grows
    BY <1>1, <1>3 DEF IInv, RowInv, Grows
  <2>4. op[r].kind = "load" => row[op[r].team] # None
    BY <1>1 DEF IInv, OpInv, Ended
  <2>5. \E o \in Op : op' = [op EXCEPT ![r] = o] /\ OpInv(r)'
    <3>1. CASE Receive(r, "keyed", r)
      <4>1. "keyed" \in Pcs /\ r \in Answers
        BY DEF Pcs, Answers
      <4>2. /\ Moved(op[r], "keyed", r) \in Op
            /\ op' = [op EXCEPT ![r] = Moved(op[r], "keyed", r)]
            /\ op'[r].kind = op[r].kind /\ op'[r].pc = "keyed"
            /\ op'[r].team = op[r].team /\ op'[r].found = r
        BY <1>1, <3>1, <4>1, MovedIs DEF IInv
      <4>3. OpInv(r)'
        BY <1>1, <1>3, <2>4, <4>2 DEF OpInv, Ended
      <4> QED BY <4>2, <4>3
    <3>2. CASE GoTo(r, "failed")
      BY <1>1, <3>2, EndedKnows DEF IInv
    <3> QED BY <1>3, <3>1, <3>2
  <2>6. /\ storedKey' \in Request \cup {None}
        /\ encKey' \in [Server -> Request \cup {None}]
        /\ serverRing' \in [Team -> Ring \cup {None}]
        /\ teamRing' \in [Team -> Ring \cup {None}]
        /\ row' \in [Team -> Request \cup {None}]
        /\ verified' \subseteq Socket /\ usedKeys' \subseteq Socket
        /\ usedCreate' \subseteq Socket
    BY <1>1, <1>3 DEF IInv, TypeOK, flags
  <2> QED BY <2>2, <2>3, <2>5, <2>6, StepKeeps
<1> QED BY <1>2, <1>3 DEF StoreKey, Creatable

(* The key that a handler reads with is the stored one.                    *)
LEMMA ReadyKey ==
  ASSUME IInv, NEW r \in Request, Ready(r)
  PROVE  KeyOf(r) = storedKey /\ storedKey # None
<1>1. /\ op[r] # Idle /\ OpInv(r) /\ KeyInv /\ Proc(r) \in Server
  BY OpFields DEF IInv, Ready, At
<1> QED BY <1>1 DEF OpInv, KeyInv, Ready, At, KeyOf

LEMMA ReadServerRingKeeps ==
  ASSUME IInv, NEW r \in Request, ReadServerRing(r)
  PROVE  IInv'
<1> DEFINE t == op[r].team
           f == serverRing[t]
<1>1. /\ op[r] # Idle /\ op[r].pc \in {"key", "keyed"}
      /\ KeyOf(r) = storedKey /\ storedKey # None
      /\ t \in Team /\ Proc(r) \in Server
  BY ReadyKey, OpFields DEF ReadServerRing, Ready, At, IInv
<1>2. /\ encKey' = [encKey EXCEPT ![Proc(r)] = storedKey]
      /\ UNCHANGED <<storedKey, serverRing, teamRing, row>>
      /\ UNCHANGED flags /\ Receive(r, "ring", f)
  BY <1>1 DEF ReadServerRing, secrets
<1>3. op[r].kind = "load" => f # None
  BY <1>1 DEF IInv, OpInv, RowInv, Ended
<1>4. /\ encKey \in [Server -> Request \cup {None}]
      /\ storedKey \in Request
      /\ f \in Answers
  BY <1>1 DEF IInv, TypeOK, Answers
<1>5. KeyInv'
  BY <1>1, <1>2, <1>4 DEF IInv, KeyInv
<1>6. RowInv' /\ Grows
  BY <1>1, <1>2, <1>4 DEF IInv, RowInv, KeyInv, Grows
<1>7. /\ Moved(op[r], "ring", f) \in Op
      /\ op' = [op EXCEPT ![r] = Moved(op[r], "ring", f)]
      /\ op'[r].kind = op[r].kind /\ op'[r].pc = "ring"
      /\ op'[r].team = t /\ op'[r].found = f
      /\ Proc(r)' = Proc(r)
  <2>1. "ring" \in Pcs
    BY DEF Pcs
  <2>2. TypeOK /\ Receive(r, "ring", f) /\ f \in Answers /\ op[r] # Idle
    BY <1>1, <1>2, <1>4 DEF IInv
  <2> HIDE DEF f
  <2> QED BY <2>1, <2>2, MovedIs
<1>8. op[r].kind = "load" => row[t] # None
  BY <1>1 DEF IInv, OpInv, Ended
<1>9. encKey'[Proc(r)] # None
  BY <1>1, <1>2, <1>4
<1>10. OpInv(r)'
  BY <1>2, <1>3, <1>7, <1>8, <1>9 DEF OpInv, Ended
<1>11. /\ encKey' \in [Server -> Request \cup {None}]
       /\ storedKey' \in Request \cup {None}
       /\ serverRing' \in [Team -> Ring \cup {None}]
       /\ teamRing' \in [Team -> Ring \cup {None}]
       /\ row' \in [Team -> Request \cup {None}]
       /\ verified' \subseteq Socket /\ usedKeys' \subseteq Socket
       /\ usedCreate' \subseteq Socket
  BY <1>2, <1>4 DEF IInv, TypeOK, flags
<1> QED BY <1>5, <1>6, <1>7, <1>10, <1>11, StepKeeps

(* The keyring that a handler makes is encrypted with the stored key.      *)
LEMMA NewRingIs ==
  ASSUME IInv, NEW r \in Request, At(r, "ring")
  PROVE  /\ NewRing(r) \in Ring /\ NewRing(r) # None
         /\ NewRing(r).key = storedKey /\ NewRing(r).by = r
         /\ storedKey # None
<1>1. Proc(r) \in Server /\ encKey[Proc(r)] # None
  BY OpFields DEF IInv, OpInv, At
<1>2. encKey[Proc(r)] = storedKey /\ encKey[Proc(r)] \in Request
  BY <1>1 DEF IInv, KeyInv, TypeOK
<1> QED BY <1>1, <1>2, CreationAssumption DEF NewRing, Ring

LEMMA StoreServerRingKeeps ==
  ASSUME Local = FALSE, IInv, NEW r \in Request, StoreServerRing(r)
  PROVE  IInv'
<1> DEFINE t == op[r].team
<1>1. /\ op[r] # Idle /\ At(r, "ring") /\ op[r].kind = "generate"
      /\ UNCHANGED <<storedKey, teamRing, encKey, row, flags>>
      /\ t \in Team
  BY OpFields DEF StoreServerRing, At, IInv
<1>2. CASE GoTo(r, "failed") /\ UNCHANGED serverRing
  <2>1. UNCHANGED <<secrets, encKey, row, flags>>
    BY <1>1, <1>2 DEF secrets
  <2> QED BY <1>1, <1>2, <2>1, FailKeeps
<1>3. CASE /\ serverRing[t] = None
           /\ serverRing' = [serverRing EXCEPT ![t] = NewRing(r)]
           /\ GoTo(r, "stored") \/ GoTo(r, "failed")
  <2>1. /\ NewRing(r) \in Ring /\ NewRing(r) # None
        /\ NewRing(r).key = storedKey /\ NewRing(r).by = r
        /\ storedKey # None
    BY <1>1, NewRingIs
  <2>2. serverRing \in [Team -> Ring \cup {None}]
    BY DEF IInv, TypeOK
  <2> HIDE DEF t
  <2>3. /\ serverRing' \in [Team -> Ring \cup {None}]
        /\ serverRing'[t] = NewRing(r)
        /\ \A u \in Team : u # t => serverRing'[u] = serverRing[u]
    BY <1>1, <1>3, <2>1, <2>2
  <2>4. KeyInv'
    BY <1>1, <2>1, <2>3 DEF IInv, KeyInv
  <2>5. RowInv' /\ Grows
    BY <1>1, <1>3, <2>1, <2>3 DEF IInv, RowInv, Grows
  <2>6. \E o \in Op : op' = [op EXCEPT ![r] = o] /\ OpInv(r)'
    <3>1. CASE GoTo(r, "stored")
      <4>1. "stored" \in Pcs /\ op[r].found \in Answers
        BY <1>1, OpFields DEF Pcs, Answers, IInv, Op
      <4>2. Receive(r, "stored", op[r].found)
        BY <3>1 DEF GoTo, Receive
      <4>3. /\ Moved(op[r], "stored", op[r].found) \in Op
            /\ op' = [op EXCEPT ![r] = Moved(op[r], "stored", op[r].found)]
            /\ op'[r].kind = op[r].kind /\ op'[r].pc = "stored"
            /\ op'[r].team = t
        BY <1>1, <4>1, <4>2, MovedIs DEF IInv, t
      <4>4. OpInv(r)'
        BY <1>1, <2>1, <2>3, <4>3 DEF OpInv, Ended
      <4> QED BY <4>3, <4>4
    <3>2. CASE GoTo(r, "failed")
      BY <1>1, <3>2, EndedKnows DEF IInv
    <3> QED BY <1>3, <3>1, <3>2
  <2>7. /\ storedKey' \in Request \cup {None}
        /\ encKey' \in [Server -> Request \cup {None}]
        /\ teamRing' \in [Team -> Ring \cup {None}]
        /\ row' \in [Team -> Request \cup {None}]
        /\ verified' \subseteq Socket /\ usedKeys' \subseteq Socket
        /\ usedCreate' \subseteq Socket
    BY <1>1 DEF IInv, TypeOK, flags
  <2> QED BY <2>3, <2>4, <2>5, <2>6, <2>7, StepKeeps
<1> QED BY <1>2, <1>3 DEF StoreServerRing, Creatable

LEMMA StoreTeamRingKeeps ==
  ASSUME Local = FALSE, IInv, NEW r \in Request, StoreTeamRing(r)
  PROVE  IInv'
<1> DEFINE t == op[r].team
<1>1. /\ op[r] # Idle /\ At(r, "ring") /\ op[r].kind = "create" /\ Opens(r)
      /\ UNCHANGED <<storedKey, serverRing, encKey, row, flags>>
      /\ t \in Team
  BY OpFields DEF StoreTeamRing, At, IInv
<1>2. CASE GoTo(r, "failed") /\ UNCHANGED teamRing
  <2>1. UNCHANGED <<secrets, encKey, row, flags>>
    BY <1>1, <1>2 DEF secrets
  <2> QED BY <1>1, <1>2, <2>1, FailKeeps
<1>3. CASE /\ teamRing[t] = None
           /\ teamRing' = [teamRing EXCEPT ![t] = NewRing(r)]
           /\ GoTo(r, "teamStored") \/ GoTo(r, "failed")
  <2>1. /\ NewRing(r) \in Ring /\ NewRing(r) # None
        /\ NewRing(r).key = storedKey /\ NewRing(r).by = r
        /\ storedKey # None
    BY <1>1, NewRingIs
  <2>2. /\ teamRing \in [Team -> Ring \cup {None}]
        /\ row[t] = None
    BY <1>1, <1>3 DEF IInv, TypeOK, RowInv
  <2>3. serverRing[t] # None /\ encKey[Proc(r)] # None
    BY <1>1 DEF IInv, OpInv, At, Opens
  <2>4. Proc(r) \in Server
    BY <1>1, OpFields DEF IInv
  <2> HIDE DEF t
  <2>5. /\ teamRing' \in [Team -> Ring \cup {None}]
        /\ teamRing'[t] = NewRing(r)
        /\ \A u \in Team : u # t => teamRing'[u] = teamRing[u]
    BY <1>1, <1>3, <2>1, <2>2
  <2>6. KeyInv'
    BY <1>1, <2>1, <2>5 DEF IInv, KeyInv
  <2>7. RowInv' /\ Grows
    BY <1>1, <1>3, <2>1, <2>2, <2>5 DEF IInv, RowInv, Grows
  <2>8. \E o \in Op : op' = [op EXCEPT ![r] = o] /\ OpInv(r)'
    <3>1. CASE GoTo(r, "teamStored")
      <4>1. "teamStored" \in Pcs /\ op[r].found \in Answers
        BY <1>1, OpFields DEF Pcs, Answers, IInv, Op
      <4>2. Receive(r, "teamStored", op[r].found)
        BY <3>1 DEF GoTo, Receive
      <4>3. /\ Moved(op[r], "teamStored", op[r].found) \in Op
            /\ op' = [op EXCEPT ![r] = Moved(op[r], "teamStored", op[r].found)]
            /\ op'[r].kind = op[r].kind /\ op'[r].pc = "teamStored"
            /\ op'[r].team = t /\ Proc(r)' = Proc(r)
        BY <1>1, <4>1, <4>2, MovedIs DEF IInv, t
      <4>4. OpInv(r)'
        BY <1>1, <2>1, <2>3, <2>5, <4>3 DEF OpInv, Ended
      <4> QED BY <4>3, <4>4
    <3>2. CASE GoTo(r, "failed")
      BY <1>1, <3>2, EndedKnows DEF IInv
    <3> QED BY <1>3, <3>1, <3>2
  <2>9. /\ storedKey' \in Request \cup {None}
        /\ encKey' \in [Server -> Request \cup {None}]
        /\ serverRing' \in [Team -> Ring \cup {None}]
        /\ row' \in [Team -> Request \cup {None}]
        /\ verified' \subseteq Socket /\ usedKeys' \subseteq Socket
        /\ usedCreate' \subseteq Socket
    BY <1>1 DEF IInv, TypeOK, flags
  <2> QED BY <2>5, <2>6, <2>7, <2>8, <2>9, StepKeeps
<1> QED BY <1>2, <1>3 DEF StoreTeamRing, Creatable

LEMMA InsertRowKeeps ==
  ASSUME IInv, NEW r \in Request, InsertRow(r)
  PROVE  IInv'
<1> DEFINE t == op[r].team
<1>1. /\ op[r] # Idle /\ op[r].pc = "teamStored"
      /\ UNCHANGED <<storedKey, serverRing, teamRing, encKey, flags>>
      /\ t \in Team /\ row' = [row EXCEPT ![t] = IF @ = None THEN r ELSE @]
      /\ GoTo(r, "inserted") \/ GoTo(r, "failed")
  BY OpFields DEF InsertRow, At, IInv, secrets
<1>2. /\ op[r].kind = "create" /\ serverRing[t] # None
      /\ teamRing[t] # None /\ teamRing[t].by = r
  BY <1>1 DEF IInv, OpInv
<1>3. row \in [Team -> Request \cup {None}]
  BY DEF IInv, TypeOK
<1>4. \E o \in Op : op' = [op EXCEPT ![r] = o] /\ OpInv(r)'
  <2>1. CASE GoTo(r, "inserted")
    <3>1. "inserted" \in Pcs /\ op[r].found \in Answers
      BY <1>1, OpFields DEF Pcs, Answers, IInv, Op
    <3>2. Receive(r, "inserted", op[r].found)
      BY <2>1 DEF GoTo, Receive
    <3>3. /\ Moved(op[r], "inserted", op[r].found) \in Op
          /\ op' = [op EXCEPT ![r] = Moved(op[r], "inserted", op[r].found)]
          /\ op'[r].kind = op[r].kind /\ op'[r].pc = "inserted"
      BY <1>1, <3>1, <3>2, MovedIs DEF IInv
    <3>4. OpInv(r)'
      BY <1>1, <1>2, <3>3 DEF OpInv, Ended
    <3> QED BY <3>3, <3>4
  <2>2. CASE GoTo(r, "failed")
    BY <1>1, <2>2, EndedKnows DEF IInv
  <2> QED BY <1>1, <2>1, <2>2
<1> HIDE DEF t
<1>5. /\ row' \in [Team -> Request \cup {None}]
      /\ \A u \in Team :
           row'[u] = row[u] \/ (u = t /\ row[u] = None /\ row'[u] = r)
  BY <1>1, <1>3
<1>6. KeyInv' /\ Grows
  BY <1>1, <1>5 DEF IInv, KeyInv, Grows
<1>7. RowInv'
  BY <1>1, <1>2, <1>5 DEF IInv, RowInv
<1>8. /\ storedKey' \in Request \cup {None}
      /\ encKey' \in [Server -> Request \cup {None}]
      /\ serverRing' \in [Team -> Ring \cup {None}]
      /\ teamRing' \in [Team -> Ring \cup {None}]
      /\ verified' \subseteq Socket /\ usedKeys' \subseteq Socket
      /\ usedCreate' \subseteq Socket
  BY <1>1 DEF IInv, TypeOK, flags
<1> QED BY <1>4, <1>5, <1>6, <1>7, <1>8, StepKeeps

-----------------------------------------------------------------------------
(* The steps that do not.                                                  *)

LEMMA RefuseKeeps ==
  ASSUME IInv, NEW r \in Request, Refuse(r)
  PROVE  IInv'
<1>1. /\ op[r] # Idle /\ op[r].pc = "ring"
      /\ UNCHANGED <<secrets, encKey, row, flags>>
  BY DEF Refuse, At
<1>2. op[r].kind = "load" => Opens(r)
  BY <1>1, OpFields DEF IInv, OpInv, KeyInv, Opens
<1>3. GoTo(r, "failed")
  BY <1>2 DEF Refuse
<1> QED BY <1>1, <1>3, FailKeeps

LEMMA FinishLoadKeeps ==
  ASSUME IInv, NEW r \in Request, FinishLoad(r)
  PROVE  IInv'
<1>1. /\ op[r] # Idle /\ op[r].pc = "teamRing"
      /\ UNCHANGED <<secrets, encKey, row, flags>>
  BY DEF FinishLoad, At
<1>2. Opens(r) /\ op[r].kind = "load"
  BY <1>1, OpFields DEF IInv, OpInv, KeyInv, Opens
<1>3. GoTo(r, "done")
  BY <1>2 DEF FinishLoad
<1>4. /\ OpInv(r)' /\ Moved(op[r], "done", op[r].found) \in Op
      /\ op' = [op EXCEPT ![r] = Moved(op[r], "done", op[r].found)]
  BY <1>1, <1>2, <1>3, EndedKnows DEF IInv
<1>5. /\ UNCHANGED <<secrets, encKey, row>>
      /\ verified' \subseteq Socket /\ usedKeys' \subseteq Socket
      /\ usedCreate' \subseteq Socket
  BY <1>1 DEF flags, IInv, TypeOK
<1> QED BY <1>4, <1>5, QuietStep

LEMMA CaptchaAnswerKeeps ==
  ASSUME IInv, NEW r \in Request, CaptchaAnswer(r)
  PROVE  IInv'
<1>1. /\ op[r] # Idle /\ op[r].pc = "captcha" /\ op[r].kind = "verify"
      /\ UNCHANGED <<secrets, encKey, row>>
      /\ op[r].socket \in Socket
  BY OpFields DEF CaptchaAnswer, At, IInv, OpInv, Op
<1>2. PICK pc \in {"done", "failed"} : GoTo(r, pc)
  BY DEF CaptchaAnswer
<1>3. /\ OpInv(r)' /\ Moved(op[r], pc, op[r].found) \in Op
      /\ op' = [op EXCEPT ![r] = Moved(op[r], pc, op[r].found)]
  BY <1>1, <1>2, EndedKnows DEF IInv
<1>4. /\ verified' \subseteq Socket /\ usedKeys' \subseteq Socket
      /\ usedCreate' \subseteq Socket
  BY <1>1 DEF CaptchaAnswer, flags, IInv, TypeOK
<1> QED BY <1>1, <1>3, <1>4, QuietStep

LEMMA AnswerKeeps ==
  ASSUME IInv, NEW r \in Request, Answer(r)
  PROVE  IInv'
<1>1. /\ op[r] # Idle /\ op[r].pc \in {"stored", "inserted"}
      /\ UNCHANGED <<secrets, encKey, row>>
      /\ op[r].socket \in Socket /\ op[r].found \in Answers
      /\ GoTo(r, "done")
  BY OpFields DEF Answer, At, IInv, Op, Answers
<1>2. Receive(r, "done", op[r].found) /\ "done" \in Pcs
  BY <1>1 DEF GoTo, Receive, Pcs, Ended
<1>3. /\ Moved(op[r], "done", op[r].found) \in Op
      /\ op' = [op EXCEPT ![r] = Moved(op[r], "done", op[r].found)]
      /\ op'[r].kind = op[r].kind /\ op'[r].pc = "done"
      /\ op'[r].team = op[r].team
  BY <1>1, <1>2, MovedIs DEF IInv
<1>4. op[r].kind = "generate" =>
        serverRing[op[r].team] # None /\ serverRing[op[r].team].by = r
  BY <1>1 DEF IInv, OpInv
<1>5. OpInv(r)'
  BY <1>1, <1>3, <1>4 DEF OpInv, Ended, secrets
<1>6. /\ verified' \subseteq Socket /\ usedKeys' \subseteq Socket
      /\ usedCreate' \subseteq Socket
  BY <1>1 DEF Answer, IInv, TypeOK
<1> QED BY <1>1, <1>3, <1>5, <1>6, QuietStep

LEMMA RestartKeeps ==
  ASSUME IInv, NEW p \in Server, Restart(p)
  PROVE  IInv'
<1>1. /\ UNCHANGED <<storedKey, serverRing, teamRing, row>>
      /\ encKey' = [encKey EXCEPT ![p] = None]
      /\ verified' \subseteq verified /\ usedKeys' \subseteq usedKeys
      /\ usedCreate' \subseteq usedCreate
  <2>1. secrets' = secrets /\ row' = row
    BY DEF Restart
  <2>2. UNCHANGED <<storedKey, serverRing, teamRing>>
    BY <2>1 DEF secrets
  <2>3. encKey' = [encKey EXCEPT ![p] = None]
    BY DEF Restart
  <2>4. /\ verified' \subseteq verified /\ usedKeys' \subseteq usedKeys
        /\ usedCreate' \subseteq usedCreate
    BY DEF Restart
  <2> QED BY <2>1, <2>2, <2>3, <2>4
<1>2. ASSUME NEW q \in Request
      PROVE  op'[q] \in Op \cup {Idle} /\ OpInv(q)'
  <2>1. OpInv(q)
    BY DEF IInv
  <2>2. CASE op[q] # Idle /\ Proc(q) = p /\ op[q].pc \notin Ended
    <3>1. op[q] \in Op
      BY <2>2, OpFields DEF IInv
    <3>2. op'[q] = Moved(op[q], "failed", op[q].found)
      BY <2>2 DEF Restart
    <3>3. op'[q] \in Op /\ op'[q].pc = "failed"
      BY <3>1, <3>2 DEF Moved, Op, Ended
    <3> QED BY <3>3 DEF OpInv, Ended
  <2>3. CASE ~(op[q] # Idle /\ Proc(q) = p /\ op[q].pc \notin Ended)
    <3>1. op'[q] = op[q]
      BY <2>3 DEF Restart
    <3>2. op[q] \in Op \cup {Idle}
      BY DEF IInv, TypeOK
    <3>3. CASE op[q] = Idle
      BY <3>1, <3>2, <3>3 DEF OpInv
    <3>4. CASE op[q] # Idle
      <4>1. Proc(q) \in Server /\ Proc(q)' = Proc(q)
        BY <3>1, <3>4, OpFields DEF IInv, Proc
      <4>2. op[q].pc \notin Ended => encKey'[Proc(q)] = encKey[Proc(q)]
        BY <1>1, <2>3, <3>4, <4>1 DEF IInv, TypeOK
      <4> QED BY <1>1, <2>1, <3>1, <3>2, <4>1, <4>2 DEF OpInv, Ended
    <3> QED BY <3>3, <3>4
  <2> QED BY <2>2, <2>3
<1>3. op' \in [Request -> Op \cup {Idle}]
  BY <1>2 DEF Restart
<1>4. encKey \in [Server -> Request \cup {None}]
  BY DEF IInv, TypeOK
<1>5. TypeOK'
  BY <1>1, <1>3, <1>4 DEF IInv, TypeOK
<1>6. KeyInv' /\ RowInv'
  BY <1>1, <1>4 DEF IInv, KeyInv, RowInv
<1> QED BY <1>2, <1>5, <1>6 DEF IInv

-----------------------------------------------------------------------------
LEMMA NextIInv ==
  ASSUME Local = FALSE, IInv, [Next]_vars
  PROVE  IInv'
<1>1. CASE UNCHANGED vars
  <2>1. UNCHANGED <<storedKey, serverRing, teamRing, encKey, row, verified,
                    usedKeys, usedCreate, op>>
    BY <1>1 DEF vars, secrets, flags
  <2>2. TypeOK' /\ KeyInv' /\ RowInv'
    BY <2>1 DEF IInv, TypeOK, KeyInv, RowInv
  <2>3. \A r \in Request : OpInv(r)'
    BY <2>1 DEF IInv, OpInv, Proc
  <2> QED BY <2>2, <2>3 DEF IInv
<1>2. ASSUME NEW r \in Request, NEW s \in Socket, NEW t \in Team,
             VerifyCaptcha(r, s, t)
      PROVE  IInv'
  BY <1>2, StartKeeps DEF VerifyCaptcha
<1>3. ASSUME NEW r \in Request, NEW s \in Socket, NEW t \in Team,
             GeneratePublicKeys(r, s, t)
      PROVE  IInv'
  BY <1>3, StartKeeps DEF GeneratePublicKeys
<1>4. ASSUME NEW r \in Request, NEW s \in Socket, NEW t \in Team,
             CreateCommunity(r, s, t)
      PROVE  IInv'
  BY <1>4, StartKeeps DEF CreateCommunity
<1>5. ASSUME NEW r \in Request, NEW s \in Socket, NEW t \in Team,
             Load(r, s, t)
      PROVE  IInv'
  BY <1>5, StartKeeps DEF Load
<1>6. ASSUME NEW r \in Request, CaptchaAnswer(r)
      PROVE  IInv'
  BY <1>6, CaptchaAnswerKeeps
<1>7. ASSUME NEW r \in Request, FetchKey(r)
      PROVE  IInv'
  <2>1. /\ op[r] # Idle /\ op[r].pc = "key" /\ op[r].pc \notin Ended
        /\ Receive(r, "keyed", storedKey)
        /\ UNCHANGED <<secrets, encKey, row, flags>>
    BY <1>7 DEF FetchKey, At, Ended
  <2>2. storedKey \in Answers
    BY DEF IInv, TypeOK, Answers
  <2> QED BY <2>1, <2>2, ReceiveKeeps
<1>8. ASSUME NEW r \in Request, StoreKey(r)
      PROVE  IInv'
  BY <1>8, StoreKeyKeeps
<1>9. ASSUME NEW r \in Request, ReadServerRing(r)
      PROVE  IInv'
  BY <1>9, ReadServerRingKeeps
<1>10. ASSUME NEW r \in Request, Refuse(r)
       PROVE  IInv'
  BY <1>10, RefuseKeeps
<1>11. ASSUME NEW r \in Request, StoreServerRing(r)
       PROVE  IInv'
  BY <1>11, StoreServerRingKeeps
<1>12. ASSUME NEW r \in Request, StoreTeamRing(r)
       PROVE  IInv'
  BY <1>12, StoreTeamRingKeeps
<1>13. ASSUME NEW r \in Request, InsertRow(r)
       PROVE  IInv'
  BY <1>13, InsertRowKeeps
<1>14. ASSUME NEW r \in Request, ReadTeamRing(r)
       PROVE  IInv'
  <2> DEFINE f == teamRing[op[r].team]
  <2>1. /\ op[r] # Idle /\ op[r].pc = "ring" /\ op[r].pc \notin Ended
        /\ op[r].kind = "load" /\ Receive(r, "teamRing", f)
        /\ UNCHANGED <<secrets, encKey, row, flags>>
    BY <1>14 DEF ReadTeamRing, At, Ended
  <2>2. op[r].team \in Team
    BY <2>1, OpFields DEF IInv
  <2>3. encKey[Proc(r)] # None /\ row[op[r].team] # None
    BY <2>1 DEF IInv, OpInv
  <2>4. f # None /\ f \in Answers
    BY <2>2, <2>3 DEF IInv, RowInv, TypeOK, Answers
  <2>5. f = teamRing[op[r].team]
    OBVIOUS
  <2> HIDE DEF f
  <2> QED BY <2>1, <2>3, <2>4, <2>5, ReceiveKeeps
<1>15. ASSUME NEW r \in Request, FinishLoad(r)
       PROVE  IInv'
  BY <1>15, FinishLoadKeeps
<1>16. ASSUME NEW r \in Request, Answer(r)
       PROVE  IInv'
  BY <1>16, AnswerKeeps
<1>17. ASSUME NEW r \in Request, CallFails(r)
       PROVE  IInv'
  <2>1. op[r] # Idle /\ GoTo(r, "failed")
        /\ UNCHANGED <<secrets, encKey, row, flags>>
    BY <1>17 DEF CallFails, At
  <2> QED BY <2>1, FailKeeps
<1>18. ASSUME NEW p \in Server, Restart(p)
       PROVE  IInv'
  BY <1>18, RestartKeeps
<1> QED BY <1>1, <1>2, <1>3, <1>4, <1>5, <1>6, <1>7, <1>8, <1>9, <1>10,
          <1>11, <1>12, <1>13, <1>14, <1>15, <1>16, <1>17, <1>18 DEF Next

LEMMA AlwaysIInv == ASSUME Local = FALSE PROVE Spec => []IInv
<1>1. IInv /\ [Next]_vars => IInv'
  BY NextIInv
<1> QED BY InitIInv, <1>1, PTL DEF Spec

-----------------------------------------------------------------------------
(* Every variable of the creation of communities holds a value of its type *)
(* (ServerKeyManagerService, CommunitiesManagerService.create and get).    *)
THEOREM TypeCorrect == ASSUME Local = FALSE PROVE Spec => []TypeOK
<1>1. IInv => TypeOK
  BY DEF IInv
<1> QED BY <1>1, AlwaysIInv, PTL

(* However many processes generate the server encryption key at once, each *)
(* of them uses the one that is stored (_initOrRetrieveServerEncKey).      *)
THEOREM OneServerKey ==
  ASSUME Local = FALSE PROVE Spec => []KeyInMemoryIsStored
<1>1. IInv => KeyInMemoryIsStored
  BY DEF IInv, KeyInv, KeyInMemoryIsStored
<1> QED BY <1>1, AlwaysIInv, PTL

(* A stored community has the keyrings of its creation, encrypted with the *)
(* stored key, although the three are written one after the other (create).*)
THEOREM RowHasItsKeyrings ==
  ASSUME Local = FALSE PROVE Spec => []RowMatchesKeyrings
<1>1. IInv => RowMatchesKeyrings
  <2> SUFFICES ASSUME IInv, NEW t \in Team, row[t] # None
               PROVE  /\ serverRing[t] # None /\ serverRing[t].key = storedKey
                      /\ teamRing[t] = [key |-> storedKey, by |-> row[t]]
    BY DEF RowMatchesKeyrings
  <2>1. /\ serverRing[t] # None /\ serverRing[t].key = storedKey
        /\ teamRing[t] # None /\ teamRing[t].key = storedKey
        /\ teamRing[t].by = row[t]
    BY DEF IInv, RowInv, KeyInv
  <2>2. teamRing[t] \in Ring
    BY <2>1 DEF IInv, TypeOK
  <2> QED BY <2>1, <2>2 DEF Ring
<1> QED BY <1>1, AlwaysIInv, PTL

(* No load of a stored community finds its keys missing or sealed with     *)
(* another key (_processCommunityToManagedCommunity).                      *)
THEOREM LoadsFindKeys ==
  ASSUME Local = FALSE PROVE Spec => []LoadFindsKeys
<1>1. IInv => LoadFindsKeys
  BY DEF IInv, OpInv, LoadFindsKeys, At
<1> QED BY <1>1, AlwaysIInv, PTL

(* The public keys a client was given are those that are stored            *)
(* (handleGeneratePublicKeys).                                             *)
THEOREM AnsweredKeysStay ==
  ASSUME Local = FALSE PROVE Spec => []AnsweredKeysAreStored
<1>1. IInv => AnsweredKeysAreStored
  BY DEF IInv, OpInv, AnsweredKeysAreStored, At
<1> QED BY <1>1, AlwaysIInv, PTL
=============================================================================

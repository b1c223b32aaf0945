------------------------- MODULE CommunityCreation -------------------------
(***************************************************************************)
(* The keys and the row of a new community: the server encryption key, the *)
(* server and the team keyring that it encrypts, and the communities row,  *)
(* as the requests of several server processes read and write them.        *)
(*                                                                         *)
(* Every call of the secrets manager or of the database is one action: the *)
(* handler takes in the answer of the call before and makes the next one,  *)
(* which takes effect at once.  Secrets are created, never replaced, in    *)
(* AWS; a local environment keeps them in Redis, where SET replaces.       *)
(***************************************************************************)
EXTENDS Naturals, FiniteSets

CONSTANTS
  Request,         \* the messages that may arrive, each handled once
  Socket,
  Server,          \* the server processes
  On,              \* On[s]: the process that socket s is connected to
  Team,
  None,
  Local            \* TRUE in an environment that keeps its secrets in Redis

ASSUME CreationAssumption ==
  /\ On \in [Socket -> Server]
  /\ None \notin Request \cup [key : Request, by : Request]
  /\ Local \in BOOLEAN

VARIABLES
  storedKey,       \* the server encryption key in the secrets manager
  encKey,          \* encKey[p]: serverEncKey in the memory of process p
  serverRing,      \* serverRing[t]: SERVER_KEYRING of t, in the same place
  teamRing,        \* teamRing[t]: TEAM_KEYRING of t
  row,             \* row[t]: the request whose community row is stored
  verified,        \* the sockets with verifiedCaptcha,
  usedKeys,        \*   with usedCaptchaForKeys
  usedCreate,      \*   and with usedCaptchaForCreateCommunity
  op               \* op[r]: the handler of request r

secrets == <<storedKey, serverRing, teamRing>>

flags == <<verified, usedKeys, usedCreate>>

vars == <<secrets, encKey, row, flags, op>>

(* A key or a keyring is named by the request that generated it or sent it.*)
Ring == [key : Request, by : Request]

Idle == [kind |-> "idle"]

Ended == {"done", "failed", "missing"}

(* found: the answer of the last call of get, the key or the keyring.      *)
Op == [kind : {"verify", "generate", "create", "load"},
       pc : {"captcha", "key", "keyed", "ring", "teamRing", "stored",
             "teamStored", "inserted"} \cup Ended,
       socket : Socket, team : Team,
       found : Request \cup Ring \cup {None}]

Proc(r) == On[op[r].socket]

At(r, pc) == op[r] # Idle /\ op[r].pc = pc

Moved(o, pc, found) ==
  [kind |-> o.kind, pc |-> pc, socket |-> o.socket, team |-> o.team,
   found |-> found]

(* r goes on to pc, with the answer it had.                                *)
GoTo(r, pc) == op' = [op EXCEPT ![r] = Moved(op[r], pc, op[r].found)]

Receive(r, pc, found) == op' = [op EXCEPT ![r] = Moved(op[r], pc, found)]

Init ==
  /\ storedKey = None
  /\ encKey = [p \in Server |-> None]
  /\ serverRing = [t \in Team |-> None]
  /\ teamRing = [t \in Team |-> None]
  /\ row = [t \in Team |-> None]
  /\ verified = {} /\ usedKeys = {} /\ usedCreate = {}
  /\ op = [r \in Request |-> Idle]

-----------------------------------------------------------------------------
(* The four handlers, up to their first wait.  Load is get() for a         *)
(* community that is stored but not in memory.                             *)
Start(r, kind, pc, s, t) ==
  /\ op[r] = Idle
  /\ op' = [op EXCEPT ![r] = [kind |-> kind, pc |-> pc, socket |-> s,
                              team |-> t, found |-> None]]
  /\ UNCHANGED <<secrets, encKey, row, flags>>

VerifyCaptcha(r, s, t) ==
  /\ s \notin verified
  /\ Start(r, "verify", "captcha", s, t)

GeneratePublicKeys(r, s, t) ==
  /\ s \in verified \ usedKeys
  /\ Start(r, "generate", "key", s, t)

CreateCommunity(r, s, t) ==
  /\ s \in verified \ usedCreate
  /\ Start(r, "create", "key", s, t)

Load(r, s, t) ==
  /\ row[t] # None
  /\ Start(r, "load", "key", s, t)

(* hCaptcha answers: the socket is verified and has used nothing.          *)
CaptchaAnswer(r) ==
  LET s == op[r].socket IN
  /\ At(r, "captcha")
  /\ \/ /\ verified' = verified \cup {s}
        /\ usedKeys' = usedKeys \ {s}
        /\ usedCreate' = usedCreate \ {s}
        /\ GoTo(r, "done")
     \/ GoTo(r, "failed") /\ UNCHANGED flags
  /\ UNCHANGED <<secrets, encKey, row>>

-----------------------------------------------------------------------------
(* AWSSecretsService.create succeeds if nothing is stored under the name.  *)
Creatable(old) == Local \/ old = None

(* _initOrRetrieveServerEncKey finds no key in memory and asks for the     *)
(* stored one.                                                             *)
FetchKey(r) ==
  /\ At(r, "key") /\ encKey[Proc(r)] = None
  /\ Receive(r, "keyed", storedKey)
  /\ UNCHANGED <<secrets, encKey, row, flags>>

(* Mutant: the failure of create is not thrown.                            *)
StoreKey_Ignored(r) ==
  /\ At(r, "keyed") /\ op[r].found = None
  /\ storedKey' = IF Creatable(storedKey) THEN r ELSE storedKey
  /\ Receive(r, "keyed", r)
  /\ UNCHANGED <<serverRing, teamRing, encKey, row, flags>>

(* There is none: a new key is generated and stored.  The answer may be    *)
(* lost, here and below, which fails the handler.                          *)
StoreKey(r) ==
  /\ At(r, "keyed") /\ op[r].found = None
  /\ \/ /\ Creatable(storedKey)
        /\ storedKey' = r
        /\ Receive(r, "keyed", r) \/ GoTo(r, "failed")
     \/ /\ ~Creatable(storedKey)
        /\ GoTo(r, "failed") /\ UNCHANGED storedKey
  /\ UNCHANGED <<serverRing, teamRing, encKey, row, flags>>

(* retrieveKeyring once the key is there: found or stored by this request, *)
(* which puts it in memory, or in memory before.                           *)
Ready(r) ==
  \/ At(r, "key") /\ encKey[Proc(r)] # None
  \/ At(r, "keyed") /\ op[r].found # None

KeyOf(r) == IF op[r].pc = "keyed" THEN op[r].found ELSE encKey[Proc(r)]

ReadServerRing(r) ==
  /\ Ready(r)
  /\ encKey' = [encKey EXCEPT ![Proc(r)] = KeyOf(r)]
  /\ Receive(r, "ring", serverRing[op[r].team])
  /\ UNCHANGED <<secrets, row, flags>>

(* The keyring that was found is decrypted with the key in memory.         *)
Opens(r) == op[r].found # None /\ op[r].found.key = encKey[Proc(r)]

(* Keys that must not be stored are; keys that must be stored are not, or  *)
(* cannot be decrypted; or the chain is refused.                           *)
Refuse(r) ==
  /\ At(r, "ring")
  /\ op[r].kind = "generate" => op[r].found # None
  /\ op[r].kind = "load" => ~Opens(r)
  /\ GoTo(r, IF op[r].kind = "load" THEN "missing" ELSE "failed")
  /\ UNCHANGED <<secrets, encKey, row, flags>>

(* storeKeyring encrypts with the key in memory.                           *)
NewRing(r) == [key |-> encKey[Proc(r)], by |-> r]

(* Mutant: a keyring that exists is answered as if it had been stored.     *)
StoreServerRing_Ignored(r) ==
  LET t == op[r].team IN
  /\ At(r, "ring") /\ op[r].kind = "generate" /\ op[r].found = None
  /\ serverRing' = [serverRing EXCEPT ![t] = IF Creatable(@) THEN NewRing(r)
                                                             ELSE @]
  /\ GoTo(r, "stored")
  /\ UNCHANGED <<storedKey, teamRing, encKey, row, flags>>

StoreServerRing(r) ==
  LET t == op[r].team IN
  /\ At(r, "ring") /\ op[r].kind = "generate" /\ op[r].found = None
  /\ \/ /\ Creatable(serverRing[t])
        /\ serverRing' = [serverRing EXCEPT ![t] = NewRing(r)]
        /\ GoTo(r, "stored") \/ GoTo(r, "failed")
     \/ /\ ~Creatable(serverRing[t])
        /\ GoTo(r, "failed") /\ UNCHANGED serverRing
  /\ UNCHANGED <<storedKey, teamRing, encKey, row, flags>>

(* create() goes on with the team keyring that the client sent.            *)
StoreTeamRing(r) ==
  LET t == op[r].team IN
  /\ At(r, "ring") /\ op[r].kind = "create" /\ Opens(r)
  /\ \/ /\ Creatable(teamRing[t])
        /\ teamRing' = [teamRing EXCEPT ![t] = NewRing(r)]
        /\ GoTo(r, "teamStored") \/ GoTo(r, "failed")
     \/ /\ ~Creatable(teamRing[t])
        /\ GoTo(r, "failed") /\ UNCHANGED teamRing
  /\ UNCHANGED <<storedKey, serverRing, encKey, row, flags>>

(* Mutant: the row is inserted before the team keyring is stored.          *)
InsertRow_First(r) ==
  LET t == op[r].team IN
  /\ At(r, "ring") /\ op[r].kind = "create" /\ Opens(r) /\ row[t] = None
  /\ row' = [row EXCEPT ![t] = r]
  /\ UNCHANGED <<secrets, encKey, flags, op>>

(* addCommunity: a row that exists, or an error, fails the creation.       *)
InsertRow(r) ==
  LET t == op[r].team IN
  /\ At(r, "teamStored")
  /\ row' = [row EXCEPT ![t] = IF @ = None THEN r ELSE @]
  /\ \/ row[t] = None /\ GoTo(r, "inserted")
     \/ GoTo(r, "failed")
  /\ UNCHANGED <<secrets, encKey, flags>>

(* getTeamKeys, for a load.                                                *)
ReadTeamRing(r) ==
  /\ At(r, "ring") /\ op[r].kind = "load" /\ Opens(r)
  /\ Receive(r, "teamRing", teamRing[op[r].team])
  /\ UNCHANGED <<secrets, encKey, row, flags>>

FinishLoad(r) ==
  /\ At(r, "teamRing")
  /\ GoTo(r, IF Opens(r) THEN "done" ELSE "missing")
  /\ UNCHANGED <<secrets, encKey, row, flags>>

(* The handler marks the captcha used and answers.                         *)
Answer(r) ==
  LET s == op[r].socket IN
  /\ \/ At(r, "stored") /\ usedKeys' = usedKeys \cup {s}
                        /\ UNCHANGED usedCreate
     \/ At(r, "inserted") /\ usedCreate' = usedCreate \cup {s}
                          /\ UNCHANGED usedKeys
  /\ GoTo(r, "done")
  /\ UNCHANGED <<secrets, encKey, row, verified>>

(* A call fails without an effect, after the retries.                      *)
CallFails(r) ==
  /\ \E pc \in {"key", "keyed", "ring", "teamStored"} : At(r, pc)
  /\ GoTo(r, "failed")
  /\ UNCHANGED <<secrets, encKey, row, flags>>

(* A process stops and starts again; its sockets connect anew.             *)
Restart(p) ==
  LET gone == {s \in Socket : On[s] = p} IN
  /\ encKey' = [encKey EXCEPT ![p] = None]
  /\ verified' = verified \ gone
  /\ usedKeys' = usedKeys \ gone
  /\ usedCreate' = usedCreate \ gone
  /\ op' = [r \in Request |->
              IF op[r] # Idle /\ Proc(r) = p /\ op[r].pc \notin Ended
              THEN Moved(op[r], "failed", op[r].found) ELSE op[r]]
  /\ UNCHANGED <<secrets, row>>

Next ==
  \/ \E r \in Request, s \in Socket, t \in Team :
       \/ VerifyCaptcha(r, s, t) \/ GeneratePublicKeys(r, s, t)
       \/ CreateCommunity(r, s, t) \/ Load(r, s, t)
  \/ \E r \in Request :
       \/ CaptchaAnswer(r) \/ FetchKey(r) \/ StoreKey(r)
       \/ ReadServerRing(r) \/ Refuse(r) \/ StoreServerRing(r)
       \/ StoreTeamRing(r) \/ InsertRow(r) \/ ReadTeamRing(r)
       \/ FinishLoad(r) \/ Answer(r) \/ CallFails(r)
  \/ \E p \in Server : Restart(p)

Spec == Init /\ [][Next]_vars

-----------------------------------------------------------------------------
(* Every variable holds a value of its type.                               *)
TypeOK ==
  /\ storedKey \in Request \cup {None}
  /\ encKey \in [Server -> Request \cup {None}]
  /\ serverRing \in [Team -> Ring \cup {None}]
  /\ teamRing \in [Team -> Ring \cup {None}]
  /\ row \in [Team -> Request \cup {None}]
  /\ verified \subseteq Socket /\ usedKeys \subseteq Socket
  /\ usedCreate \subseteq Socket
  /\ op \in [Request -> Op \cup {Idle}]

(* Every process encrypts and decrypts with the key that is stored, however*)
(* many of them found none and generated one (_initOrRetrieveServerEncKey).*)
KeyInMemoryIsStored ==
  \A p \in Server : encKey[p] # None => encKey[p] = storedKey

(* The community row and the team keyring are those of one creation, and   *)
(* the server keyring is there too, encrypted with the stored key, so that *)
(* the chain in the row can be decrypted (create).                         *)
RowMatchesKeyrings ==
  \A t \in Team :
    row[t] # None =>
      /\ serverRing[t] # None /\ serverRing[t].key = storedKey
      /\ teamRing[t] = [key |-> storedKey, by |-> row[t]]

(* A load of a stored community never finds its keys missing or sealed     *)
(* with another key, in any process, before or after restarts; it fails    *)
(* only when a call fails (_processCommunityToManagedCommunity).           *)
LoadFindsKeys ==
  \A r \in Request : ~At(r, "missing")

(* The public keys that a client is given are those of the keyring that is *)
(* stored, although several clients may ask for one team at once           *)
(* (handleGeneratePublicKeys).                                             *)
AnsweredKeysAreStored ==
  \A r \in Request :
    At(r, "done") /\ op[r].kind = "generate" =>
      serverRing[op[r].team] # None /\ serverRing[op[r].team].by = r
=============================================================================

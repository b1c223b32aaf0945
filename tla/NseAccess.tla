----------------------------- MODULE NseAccess -----------------------------
(***************************************************************************)
(* The token requests of NseAuth over the sigchains of ChainPersistence,   *)
(* for the team whose community the server has.                            *)
(*                                                                         *)
(* A request asks the SigChain object that get() returns: the one in       *)
(* memory, or one it loads itself from the row as it read it, which then   *)
(* takes the place of whatever is in memory.  So a removal that one object *)
(* has received may be unknown to the one that answers, may be lost with   *)
(* the process before it is saved, and may be overwritten by the save of   *)
(* another object or by an older one.  It counts from the moment on that   *)
(* nothing which can answer, or be saved, is without it (Settled).         *)
(***************************************************************************)
EXTENDS NseAuth

CONSTANTS
  Community,       \* the team that has a community
  User,            \* those who have a copy of its sigchain
  Founder,
  Chain,
  NoChain

ASSUME AccessAssumption ==
  /\ Founder \in User
  /\ User \cap Request = {}
  /\ NoChain \notin Chain

VARIABLES known, stored, row, chain, cached, conn, handler, saves, rowOf,
          written,
          settled  \* history: when a removal came to be settled

(* A token request calls get() like a handler that connects nobody; it has *)
(* no copy of the chain and no connection.                                 *)
Chains == INSTANCE ChainPersistence WITH Member <- User \cup Request,
                                         Link <- DeviceLink

chains == <<known, stored, row, chain, cached, conn, handler, saves, rowOf,
            written>>

vars == <<service, chains, settled>>

Init == ServiceInit /\ Chains!Init /\ settled = {}

-----------------------------------------------------------------------------
(* The removal of d is in the row and in every save that is under way, in  *)
(* the chain in memory and every other one that a connection works on, and *)
(* in every chain that is being loaded or created.                         *)
Settled(d) == Chains!Settled(Removal(d))

Remember ==
  settled' = settled \cup
    {[device |-> d, at |-> now] :
       d \in {e \in Device : Settled(e)' /\ \A x \in settled : x.device # e}}

(* A device joins the team once, and can be removed when it is on it.      *)
Makes(m, l) ==
  /\ Removal(l.device) \notin known[m]
  /\ OnTeam(known[m], l.device) <=> l.change = "removal"
  /\ Chains!MakeLink(m, l)

(* What the users, their sockets and the saves do to the sigchains.        *)
ChainStep ==
  \/ Chains!AddCommunity \/ Chains!FinishCreate \/ Chains!Evict
  \/ \E m \in User :
       \/ Chains!SignIn(m) \/ Chains!BeginLoad(m) \/ Chains!ReadRow(m)
       \/ Chains!FinishLoad(m) \/ Chains!FailLoad(m) \/ Chains!Disconnect(m)
       \/ Chains!Send(m) \/ Chains!Receive(m)
       \/ \E l \in DeviceLink : Makes(m, l)
  \/ \E w \in saves : Chains!CommitSave(w)

-----------------------------------------------------------------------------
(* A request that waits for get() to return.                               *)
Asking(r) ==
  op[r] # Idle /\ op[r].pc = "chain" /\ op[r].about.team = Community

(* The community is in memory: its sigchain answers.                       *)
AskMemory(r) ==
  /\ Asking(r) /\ handler[r] = Chains!Idle
  /\ cached # NoChain
  /\ CheckProof(r, chain[cached].links)
  /\ UNCHANGED chains

AskStorage(r) ==
  /\ Asking(r)
  /\ Chains!BeginLoad(r) /\ ~handler'[r].signIn
  /\ UNCHANGED service

ReadStorage(r) ==
  /\ Chains!ReadRow(r)
  /\ UNCHANGED service

(* The request's own load has made a sigchain, which answers.              *)
AskLoaded(r) ==
  /\ Chains!FinishLoad(r)
  /\ CheckProof(r, handler[r].links) \/ Refuse(r)

FailToLoad(r) == Chains!FailLoad(r) /\ Refuse(r)

(* There is no such team, or the request fails at another point.           *)
RefuseOther(r) ==
  /\ handler[r] = Chains!Idle /\ Refuse(r)
  /\ UNCHANGED chains

RequestStep(r) ==
  \/ AskMemory(r) \/ AskStorage(r) \/ ReadStorage(r) \/ AskLoaded(r)
  \/ FailToLoad(r) \/ RefuseOther(r)

(* The process ends, by itself or by the rejection of a save.              *)
ProcessEnds ==
  /\ Chains!Restart \/ \E w \in saves : Chains!FailSave(w)
  /\ Forget

Next ==
  /\ \/ ChainStep /\ UNCHANGED service
     \/ ServiceStep /\ UNCHANGED chains
     \/ \E r \in Request : RequestStep(r)
     \/ ProcessEnds
  /\ Remember

Spec == Init /\ [][Next]_vars

CleanUpStep == CleanUp /\ UNCHANGED <<chains, settled>>

(* The interval timer of the clean-up runs on.                             *)
FairSpec == Spec /\ WF_vars(CleanUpStep)

-----------------------------------------------------------------------------
(* Every variable holds a value of its type.                               *)
TypeOK ==
  /\ ServiceTypeOK
  /\ Chains!TypeOK
  /\ settled \subseteq [device : Device, at : Nat]

(* A device reads the log of the team no longer than a token lasts after   *)
(* its removal has settled, however its requests were under way by then,   *)
(* whichever chain objects there are, and whatever fails or restarts after *)
(* that (getRegisteredDeviceSignatureKey, NseJwtAuthGuard).  Nothing is    *)
(* said of a removal before it has settled: the server may lose it.        *)
RemovedLosesAccess ==
  \A x \in settled :
    /\ lastRead # NoRead
    /\ lastRead.device = x.device /\ lastRead.team = Community
    => lastRead.at < x.at + TokenTTL
=============================================================================

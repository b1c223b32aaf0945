--------------------------- MODULE NseAuth_proofs ---------------------------
(***************************************************************************)
(* Proofs about NseAuth and NseAccess: for any devices, users, requests,   *)
(* chain objects and lifetimes, a challenge is good for one token, a token *)
(* is proven, and a device reads no longer than a token lasts after its    *)
(* removal has settled.                                                    *)
(*                                                                         *)
(* The argument for the first: a challenge ID is with at most one of the   *)
(* memory, the requests under way and the tokens (OneHolder).  For the     *)
(* last: the chains of NseAccess are those of ChainPersistence, so that a  *)
(* removal, once settled, is on every chain that can answer a request,     *)
(* whatever loads, saves and restarts follow (SettledLinksStay there).     *)
(* Every expiry given out lies at most one lifetime ahead of the clock     *)
(* (Within), so the moment of settling caps those of the device (Capped)   *)
(* and no later one can be given out.                                      *)
(***************************************************************************)
EXTENDS NseAccess, TLAPS

(* What is proved of ChainPersistence, for the chains of NseAccess.        *)
P == INSTANCE ChainPersistence_proofs WITH Member <- User \cup Request,
                                           Link <- DeviceLink

Known ==
  /\ \A c \in challenges : c.about \in issued
  /\ \A r \in Request : op[r] # Idle => op[r].about \in issued
  /\ \A k \in tokens : k.about \in issued

OneHolder ==
  /\ \A c \in challenges, r \in Request :
       op[r] # Idle => op[r].about.id # c.about.id
  /\ \A c \in challenges, k \in tokens : k.about.id # c.about.id
  /\ \A r, q \in Request :
       op[r] # Idle /\ op[q] # Idle /\ op[r].about.id = op[q].about.id => r = q
  /\ \A r \in Request, k \in tokens :
       op[r] # Idle => op[r].about.id # k.about.id

Proven ==
  /\ \A r \in Request :
       op[r] # Idle => /\ op[r].proof \in signed
                       /\ op[r].pc = "signing" => Verified(op[r])
  /\ TokenIsProven

Within(t) ==
  /\ \A r \in Request : op[r] # Idle => op[r].expiry <= t + TokenTTL
  /\ \A k \in tokens : k.expiry <= t + TokenTTL
  /\ lastRead # NoRead => lastRead.at < t + TokenTTL

Capped(S) ==
  \A x \in S :
    /\ \A r \in Request :
         /\ op[r] # Idle /\ op[r].pc = "signing"
         /\ op[r].about.device = x.device /\ op[r].about.team = Community
         => op[r].expiry <= x.at + TokenTTL
    /\ \A k \in tokens :
         k.about.device = x.device /\ k.about.team = Community
           => k.expiry <= x.at + TokenTTL

Ended(S) ==
  \A x \in S :
    lastRead # NoRead /\ lastRead.device = x.device /\ lastRead.team = Community
      => lastRead.at < x.at + TokenTTL

Removals == [device : Device, at : Nat]

(* The invariant of the service, for the removals S that have settled by   *)
(* the time t.                                                             *)
Held(t, S) ==
  /\ ServiceTypeOK
  /\ t \in Nat /\ S \subseteq Removals
  /\ Known
  /\ OneHolder
  /\ OneTokenPerChallenge
  /\ Proven
  /\ Within(t)
  /\ Capped(S)
  /\ Ended(S)

IInv ==
  /\ Held(now, settled)
  /\ \A x \in settled : Settled(x.device)

-----------------------------------------------------------------------------
(* The chains here and those of the proofs are the same ones.              *)
LEMMA SameChains ==
  /\ Chains!Init <=> P!Init
  /\ Chains!Next <=> P!Next
  /\ Chains!TypeOK <=> P!TypeOK
  /\ UNCHANGED chains <=> UNCHANGED P!vars
  /\ UNCHANGED chains <=> UNCHANGED Chains!vars
<1>1. Chains!Init <=> P!Init
  BY DEF Chains!Init, P!Init, Chains!NoChains, P!NoChains, Chains!NoConns,
         P!NoConns, Chains!NoHandlers, P!NoHandlers, Chains!NoneWritten,
         P!NoneWritten, Chains!Idle, P!Idle, Chains!Unused, P!Unused
<1>2. Chains!Next <=> P!Next
  BY DEF Chains!Next, P!Next, Chains!AddCommunity, P!AddCommunity,
         Chains!FinishCreate, P!FinishCreate, Chains!NewChain, P!NewChain,
         Chains!Evict, P!Evict, Chains!Restart, P!Restart, Chains!Fresh,
         P!Fresh, Chains!SignIn, P!SignIn, Chains!BeginLoad, P!BeginLoad,
         Chains!ReadRow, P!ReadRow, Chains!FinishLoad, P!FinishLoad,
         Chains!FailLoad, P!FailLoad, Chains!Disconnect, P!Disconnect,
         Chains!Send, P!Send, Chains!Receive, P!Receive, Chains!Merged,
         P!Merged, Chains!MakeLink, P!MakeLink, Chains!CommitSave,
         P!CommitSave, Chains!Commit, P!Commit, Chains!FailSave, P!FailSave,
         Chains!NoChains, P!NoChains, Chains!NoConns, P!NoConns,
         Chains!NoHandlers, P!NoHandlers, Chains!NoneWritten, P!NoneWritten,
         Chains!Idle, P!Idle, Chains!Unused, P!Unused, Chains!table, P!table,
         Chains!history, P!history
<1>3. Chains!TypeOK <=> P!TypeOK
  BY DEF Chains!TypeOK, P!TypeOK
<1>4. /\ UNCHANGED chains <=> UNCHANGED P!vars
      /\ UNCHANGED chains <=> UNCHANGED Chains!vars
  BY DEF chains, P!vars, P!table, P!history, Chains!vars, Chains!table,
         Chains!history
<1> QED BY <1>1, <1>2, <1>3, <1>4

LEMMA StepImplements ==
  ASSUME [Next]_vars
  PROVE  Chains!Next \/ UNCHANGED chains
<1>1. CASE ChainStep
  <2>1. User \subseteq User \cup Request
    OBVIOUS
  <2> QED BY <1>1, <2>1 DEF ChainStep, Makes, Chains!Next
<1>2. CASE ServiceStep /\ UNCHANGED chains
  BY <1>2
<1>3. ASSUME NEW r \in Request, RequestStep(r)
      PROVE  Chains!Next \/ UNCHANGED chains
  <2>1. r \in User \cup Request
    OBVIOUS
  <2> QED BY <1>3, <2>1
          DEF RequestStep, AskMemory, AskStorage, ReadStorage, AskLoaded,
              FailToLoad, RefuseOther, Chains!Next
<1>4. CASE ProcessEnds
  BY <1>4 DEF ProcessEnds, Chains!Next
<1>5. CASE UNCHANGED vars
  BY <1>5 DEF vars
<1> QED BY <1>1, <1>2, <1>3, <1>4, <1>5 DEF Next

(* Whatever requests and devices do, the sigchains behave as they do in    *)
(* ChainPersistence (CommunitiesManagerService.get).                       *)
THEOREM AccessImplementsChains == Spec => Chains!Spec
<1>1. Init => Chains!Init
  BY DEF Init
<1>2. [Next]_vars => [Chains!Next]_(Chains!vars)
  BY StepImplements, SameChains
<1> QED BY <1>1, <1>2, PTL DEF Spec, Chains!Spec

LEMMA ChainTypes == Spec => []Chains!TypeOK
<1>1. P!Spec => []P!TypeOK
  BY P!TypeCorrect, AccessAssumption
<1>2. Init => P!Init
  BY SameChains DEF Init
<1>3. [Next]_vars => [P!Next]_(P!vars)
  BY StepImplements, SameChains
<1>4. P!TypeOK => Chains!TypeOK
  BY SameChains
<1> QED BY <1>1, <1>2, <1>3, <1>4, PTL DEF Spec, P!Spec

(* A removal that has settled stays so.                                    *)
LEMMA RemovalStays ==
  ASSUME Chains!TypeOK, [Next]_vars, NEW d \in Device, Settled(d)
  PROVE  Settled(d)'
<1>1. /\ P!Settled(Removal(d)) <=> Settled(d)
      /\ P!Settled(Removal(d))' <=> Settled(d)'
  BY DEF Settled, Chains!Settled, P!Settled
<1>2. P!TypeOK /\ [P!Next]_(P!vars)
  BY StepImplements, SameChains
<1> QED BY <1>1, <1>2, P!SettledStays, AccessAssumption

-----------------------------------------------------------------------------
LEMMA IssueChallengeKeeps ==
  ASSUME NEW t, NEW S, Held(t, S), now = t,
         NEW id \in ChallengeId, NEW d \in Device,
         NEW team \in Team, IssueChallenge(id, d, team)
  PROVE  Held(t, S)'
<1> DEFINE about == [id |-> id, device |-> d, team |-> team]
           new == [about |-> about, expiry |-> now + ChallengeTTL]
<1>1. /\ about \in Subject /\ about.id = id
      /\ new \in StoredChallenge /\ new.about = about
  BY NseAssumption DEF Subject, StoredChallenge, Held, ServiceTypeOK
<1>2. /\ challenges' \subseteq challenges \cup {new}
      /\ issued' = issued \cup {about}
      /\ \A a \in issued : a.id # id
      /\ UNCHANGED <<op, tokens, lastRead, signed, now>>
  BY DEF IssueChallenge, Live
<1> HIDE DEF about, new
<1>3. ServiceTypeOK'
  BY <1>1, <1>2 DEF Held, ServiceTypeOK
<1>4. Known'
  BY <1>1, <1>2 DEF Held, Known
<1>5. OneHolder'
  BY <1>1, <1>2 DEF Held, Known, OneHolder
<1>6. OneTokenPerChallenge' /\ Proven'
  BY <1>2 DEF Held, OneTokenPerChallenge, Proven, TokenIsProven, Verified
<1>7. Within(t)' /\ Capped(S)' /\ Ended(S)'
  BY <1>2 DEF Held, Within, Capped, Ended
<1> QED BY <1>3, <1>4, <1>5, <1>6, <1>7 DEF Held

(* A step that takes challenges out of memory and ends requests, and may   *)
(* let the clock go on, devices prove and the chains change.               *)
LEMMA LosingKeeps ==
  ASSUME NEW t, NEW S, Held(t, S), ServiceTypeOK',
         challenges' \subseteq challenges, signed \subseteq signed',
         \A r \in Request : op'[r] = op[r] \/ op'[r] = Idle,
         UNCHANGED <<tokens, lastRead, issued>>
  PROVE  Held(t, S)'
<1>1. Known' /\ OneHolder' /\ OneTokenPerChallenge'
  BY DEF Held, Known, OneHolder, OneTokenPerChallenge
<1>2. Proven'
  BY DEF Held, Proven, TokenIsProven, Verified
<1>3. Within(t)' /\ Capped(S)' /\ Ended(S)'
  BY DEF Held, Within, Capped, Ended
<1> QED BY <1>1, <1>2, <1>3 DEF Held

LEMMA RequestTokenKeeps ==
  ASSUME NEW t, NEW S, Held(t, S), now = t,
         NEW r \in Request, NEW id \in ChallengeId, NEW d \in Device,
         NEW proof \in signed, RequestToken(r, id, d, proof)
  PROVE  Held(t, S)'
<1>1. /\ challenges' = challenges \ Spent(id)
      /\ UNCHANGED <<tokens, lastRead, issued, signed, now>>
  BY DEF RequestToken
<1>2. CASE UNCHANGED op
  <2>1. ServiceTypeOK'
    BY <1>1, <1>2 DEF Held, ServiceTypeOK
  <2> QED BY <1>1, <1>2, <2>1, LosingKeeps
<1>3. ASSUME NEW c \in challenges, Answers(c, id, d),
             op' = [op EXCEPT ![r] = [pc |-> "chain", about |-> c.about,
                                      proof |-> proof, expiry |-> 0]]
      PROVE  Held(t, S)'
  <2> DEFINE o == [pc |-> "chain", about |-> c.about, proof |-> proof,
                   expiry |-> 0]
  <2>1. /\ o \in Op /\ o # Idle /\ o.pc = "chain" /\ o.about = c.about
        /\ o.proof = proof /\ o.expiry = 0
    <3>1. c.about \in Subject /\ proof \in Proof
      BY DEF Held, ServiceTypeOK, StoredChallenge
    <3> QED BY <3>1 DEF Op, Idle
  <2>2. c.about.id = id
    BY <1>3 DEF Answers
  <2>3. op' = [op EXCEPT ![r] = o]
    BY <1>3
  <2> HIDE DEF o
  <2>4. op'[r] = o /\ \A q \in Request : q # r => op'[q] = op[q]
    BY <2>3 DEF Held, ServiceTypeOK
  <2>5. ServiceTypeOK'
    BY <1>1, <2>1, <2>3 DEF Held, ServiceTypeOK
  <2>6. Known'
    BY <1>1, <2>1, <2>4 DEF Held, Known
  <2>7. \A e \in challenges' : e \in challenges /\ e.about.id # id
    BY <1>1 DEF Spent
  <2>8. OneHolder'
    BY <1>1, <2>1, <2>2, <2>4, <2>7 DEF Held, OneHolder
  <2>9. OneTokenPerChallenge' /\ Ended(S)'
    BY <1>1 DEF Held, OneTokenPerChallenge, Ended
  <2>10. Proven'
    BY <1>1, <2>1, <2>4 DEF Held, Proven, TokenIsProven, Verified
  <2>11. Within(t)'
    BY <1>1, <2>1, <2>4, NseAssumption DEF Held, ServiceTypeOK, Within
  <2>12. Capped(S)'
    BY <1>1, <2>1, <2>4 DEF Held, Capped
  <2> QED BY <2>5, <2>6, <2>8, <2>9, <2>10, <2>11, <2>12 DEF Held
<1> QED BY <1>2, <1>3 DEF RequestToken

LEMMA CheckProofKeeps ==
  ASSUME NEW t, NEW S, Held(t, S), now = t,
         NEW r \in Request, NEW links, CheckProof(r, links),
         \A x \in S : Removal(x.device) \in links
  PROVE  Held(t, S)'
<1> DEFINE o == op[r]
           s == [pc |-> "signing", about |-> o.about, proof |-> o.proof,
                 expiry |-> now + TokenTTL]
<1>1. /\ o # Idle /\ OnTeam(links, o.about.device) /\ Verified(o)
      /\ op' = [op EXCEPT ![r] = s]
      /\ UNCHANGED <<challenges, tokens, lastRead, issued, signed, now>>
  BY DEF CheckProof
<1>2. o.about \in Subject /\ o.proof \in Proof
  BY <1>1 DEF Held, ServiceTypeOK, Op
<1>3. /\ s \in Op /\ s # Idle /\ s.pc = "signing" /\ s.about = o.about
      /\ s.proof = o.proof /\ s.expiry = now + TokenTTL
  BY <1>2, NseAssumption DEF Op, Idle, Held, ServiceTypeOK
<1>4. o = op[r]
  OBVIOUS
<1> HIDE DEF s, o
<1>5. op'[r] = s /\ \A q \in Request : q # r => op'[q] = op[q]
  BY <1>1 DEF Held, ServiceTypeOK
<1>6. ServiceTypeOK'
  BY <1>1, <1>3 DEF Held, ServiceTypeOK
<1>7. Known' /\ OneHolder'
  BY <1>1, <1>3, <1>4, <1>5 DEF Held, Known, OneHolder
<1>8. OneTokenPerChallenge' /\ Ended(S)'
  BY <1>1 DEF Held, OneTokenPerChallenge, Ended
<1>9. Verified(s)
  BY <1>1, <1>3 DEF Verified
<1>10. Proven'
  BY <1>1, <1>3, <1>4, <1>5, <1>9 DEF Held, Proven, TokenIsProven, Verified
<1>11. Within(t)'
  BY <1>1, <1>3, <1>5, NseAssumption DEF Held, ServiceTypeOK, Within
<1>12. \A x \in S : s.about.device # x.device
  BY <1>1, <1>3 DEF OnTeam
<1>13. Capped(S)'
  BY <1>1, <1>5, <1>12 DEF Held, Capped
<1> QED BY <1>6, <1>7, <1>8, <1>10, <1>11, <1>13 DEF Held

LEMMA IssueTokenKeeps ==
  ASSUME NEW t, NEW S, Held(t, S), now = t,
         NEW r \in Request, IssueToken(r)
  PROVE  Held(t, S)'
<1> DEFINE k == [about |-> op[r].about, expiry |-> op[r].expiry]
<1>1. /\ op[r] # Idle /\ op[r].pc = "signing"
      /\ tokens' = tokens \cup {k} /\ op' = [op EXCEPT ![r] = Idle]
      /\ UNCHANGED <<challenges, lastRead, issued, signed, now>>
  BY DEF IssueToken
<1>2. op[r].about \in Subject /\ op[r].expiry \in Nat
  BY <1>1 DEF Held, ServiceTypeOK, Op
<1>3. k \in Token /\ k.about = op[r].about /\ k.expiry = op[r].expiry
  BY <1>2 DEF Token
<1> HIDE DEF k
<1>4. op'[r] = Idle /\ \A q \in Request : q # r => op'[q] = op[q]
  BY <1>1 DEF Held, ServiceTypeOK
<1>5. ServiceTypeOK'
  BY <1>1, <1>3 DEF Held, ServiceTypeOK
<1>6. Known' /\ OneHolder' /\ OneTokenPerChallenge'
  BY <1>1, <1>3, <1>4 DEF Held, Known, OneHolder, OneTokenPerChallenge
<1>7. k.about \in issued /\ [by |-> k.about.device, over |-> k.about.id] \in signed
  BY <1>1, <1>3 DEF Held, Known, Proven, Verified
<1>8. Proven'
  BY <1>1, <1>4, <1>7 DEF Held, Proven, TokenIsProven, Verified
<1>9. Within(t)' /\ Capped(S)' /\ Ended(S)'
  BY <1>1, <1>3, <1>4 DEF Held, Within, Capped, Ended
<1> QED BY <1>5, <1>6, <1>8, <1>9 DEF Held

LEMMA GetLogEntriesKeeps ==
  ASSUME NEW t, NEW S, Held(t, S), now = t,
         NEW k \in tokens, NEW team \in Team, GetLogEntries(k, team)
  PROVE  Held(t, S)'
<1> DEFINE read == [device |-> k.about.device, team |-> team, at |-> now]
<1>1. /\ now < k.expiry /\ k.about.team = team /\ lastRead' = read
      /\ UNCHANGED <<challenges, op, tokens, issued, signed, now>>
  BY DEF GetLogEntries, CanActivate
<1>2. k \in Token /\ k.about.device \in Device /\ now \in Nat
  BY DEF Held, ServiceTypeOK, Token, Subject
<1>3. /\ read \in [device : Device, team : Team, at : Nat]
      /\ read.device = k.about.device /\ read.team = team /\ read.at = now
  BY <1>2
<1>4. k.expiry \in Nat
  BY <1>2 DEF Token
<1> HIDE DEF read
<1>5. ServiceTypeOK'
  BY <1>1, <1>3 DEF Held, ServiceTypeOK
<1>6. Known' /\ OneHolder' /\ OneTokenPerChallenge'
  BY <1>1 DEF Held, Known, OneHolder, OneTokenPerChallenge
<1>7. Proven' /\ Capped(S)'
  BY <1>1 DEF Held, Proven, TokenIsProven, Verified, Capped
<1>8. k.expiry <= now + TokenTTL
  BY DEF Held, Within
<1>9. Within(t)'
  BY <1>1, <1>2, <1>3, <1>4, <1>8, NseAssumption DEF Held, Within
<1>10. ASSUME NEW x \in S, read.device = x.device, read.team = Community
       PROVE  read.at < x.at + TokenTTL
  <2>1. k.expiry <= x.at + TokenTTL /\ x.at \in Nat
    BY <1>1, <1>3, <1>10 DEF Held, Capped, Removals
  <2> QED BY <1>1, <1>2, <1>3, <1>4, <2>1, NseAssumption
<1>11. Ended(S)'
  BY <1>1, <1>10 DEF Ended
<1> QED BY <1>5, <1>6, <1>7, <1>9, <1>11 DEF Held

-----------------------------------------------------------------------------
LEMMA ServiceKeeps ==
  ASSUME NEW t, NEW S, Held(t, S), now = t, ServiceStep
  PROVE  Held(t, S)'
<1>1. ASSUME NEW id \in ChallengeId, NEW d \in Device, NEW team \in Team,
             IssueChallenge(id, d, team)
      PROVE  Held(t, S)'
  BY <1>1, IssueChallengeKeeps
<1>2. ASSUME NEW r \in Request, NEW id \in ChallengeId, NEW d \in Device,
             NEW proof \in signed, RequestToken(r, id, d, proof)
      PROVE  Held(t, S)'
  BY <1>2, RequestTokenKeeps
<1>3. ASSUME NEW r \in Request, IssueToken(r)
      PROVE  Held(t, S)'
  BY <1>3, IssueTokenKeeps
<1>4. ASSUME NEW k \in tokens, NEW team \in Team, GetLogEntries(k, team)
      PROVE  Held(t, S)'
  BY <1>4, GetLogEntriesKeeps
<1>5. ASSUME NEW a \in issued, Prove(a)
      PROVE  Held(t, S)'
  <2>1. [by |-> a.device, over |-> a.id] \in Proof
    BY DEF Held, ServiceTypeOK, Subject, Proof
  <2>2. ServiceTypeOK'
    BY <1>5, <2>1 DEF Prove, Held, ServiceTypeOK
  <2> QED BY <1>5, <2>2, LosingKeeps DEF Prove
<1>6. CASE CleanUp
  <2>1. ServiceTypeOK'
    BY <1>6 DEF CleanUp, Live, Held, ServiceTypeOK
  <2> QED BY <1>6, <2>1, LosingKeeps DEF CleanUp, Live
<1>7. CASE Tick
  <2>1. ServiceTypeOK'
    BY <1>7 DEF Tick, Held, ServiceTypeOK
  <2> QED BY <1>7, <2>1, LosingKeeps DEF Tick
<1> QED BY <1>1, <1>2, <1>3, <1>4, <1>5, <1>6, <1>7 DEF ServiceStep

LEMMA RefuseKeeps ==
  ASSUME NEW t, NEW S, Held(t, S), NEW r \in Request, Refuse(r)
  PROVE  Held(t, S)'
<1>1. ServiceTypeOK'
  BY DEF Refuse, Held, ServiceTypeOK
<1>2. \A q \in Request : op'[q] = op[q] \/ op'[q] = Idle
  BY DEF Refuse, Held, ServiceTypeOK
<1> QED BY <1>1, <1>2, LosingKeeps DEF Refuse

LEMMA UnchangedKeeps ==
  ASSUME NEW t, NEW S, Held(t, S), UNCHANGED service
  PROVE  Held(t, S)'
<1>1. ServiceTypeOK'
  BY DEF service, Held, ServiceTypeOK
<1> QED BY <1>1, LosingKeeps DEF service

(* The sigchain that answers a request, in memory or of its own load, has  *)
(* every removal that has settled.                                         *)
LEMMA RequestKeeps ==
  ASSUME NEW t, NEW S, Held(t, S), now = t, \A x \in S : Settled(x.device),
         NEW r \in Request, RequestStep(r)
  PROVE  Held(t, S)'
<1>1. CASE AskMemory(r)
  <2>1. CheckProof(r, chain[cached].links) /\ cached # NoChain
    BY <1>1 DEF AskMemory
  <2>2. \A x \in S : Removal(x.device) \in chain[cached].links
    BY <2>1 DEF Settled, Chains!Settled
  <2> QED BY <2>1, <2>2, CheckProofKeeps
<1>2. CASE AskLoaded(r)
  <2>1. CASE CheckProof(r, handler[r].links)
    <3>1. r \in User \cup Request /\ handler[r].pc = "keys"
      BY <1>2 DEF AskLoaded, Chains!FinishLoad
    <3>2. \A x \in S : Removal(x.device) \in handler[r].links
      BY <3>1 DEF Settled, Chains!Settled
    <3> QED BY <2>1, <3>2, CheckProofKeeps
  <2> QED BY <1>2, <2>1, RefuseKeeps DEF AskLoaded
<1>3. CASE AskStorage(r) \/ ReadStorage(r)
  BY <1>3, UnchangedKeeps DEF AskStorage, ReadStorage
<1>4. CASE FailToLoad(r) \/ RefuseOther(r)
  BY <1>4, RefuseKeeps DEF FailToLoad, RefuseOther
<1> QED BY <1>1, <1>2, <1>3, <1>4 DEF RequestStep

LEMMA StepKeeps ==
  ASSUME NEW t, NEW S, Held(t, S), now = t, \A x \in S : Settled(x.device),
         [Next]_vars
  PROVE  Held(t, S)'
<1>1. CASE ServiceStep
  BY <1>1, ServiceKeeps
<1>2. ASSUME NEW r \in Request, RequestStep(r)
      PROVE  Held(t, S)'
  BY <1>2, RequestKeeps
<1>3. CASE UNCHANGED service
  BY <1>3, UnchangedKeeps
<1>4. CASE ProcessEnds
  <2>1. Forget
    BY <1>4 DEF ProcessEnds
  <2>2. ServiceTypeOK'
    BY <2>1 DEF Forget, Held, ServiceTypeOK
  <2> QED BY <2>1, <2>2, LosingKeeps DEF Forget
<1> QED BY <1>1, <1>2, <1>3, <1>4 DEF Next, vars

-----------------------------------------------------------------------------
LEMMA InitIInv == Init => IInv
<1> SUFFICES ASSUME Init PROVE IInv
  OBVIOUS
<1>1. ServiceTypeOK /\ now \in Nat /\ settled = {}
  BY DEF Init, ServiceInit, ServiceTypeOK
<1>2. Known /\ OneHolder /\ OneTokenPerChallenge /\ Proven
  BY DEF Init, ServiceInit, Known, OneHolder, OneTokenPerChallenge, Proven,
         TokenIsProven
<1>3. Within(now) /\ Capped(settled) /\ Ended(settled)
  BY <1>1 DEF Init, ServiceInit, Within, Capped, Ended
<1> QED BY <1>1, <1>2, <1>3 DEF IInv, Held

(* A removal that settles with this step is of a moment that bounds every  *)
(* token given so far.                                                     *)
LEMMA NextIInv ==
  ASSUME IInv, Chains!TypeOK, [Next]_vars
  PROVE  IInv'
<1>1. PICK t : t = now
  OBVIOUS
<1>2. PICK S : S = settled
  OBVIOUS
<1>3. Held(t, S)'
  BY <1>1, <1>2, StepKeeps DEF IInv
<1>4. t \in Nat /\ now' \in Nat /\ t <= now'
  <2>1. now' \in Nat /\ now \in Nat
    BY <1>3 DEF IInv, Held, ServiceTypeOK
  <2>2. now' = now \/ now' = now + 1
    BY DEF Next, ChainStep, ServiceStep, service, vars, ProcessEnds, Forget,
           RequestStep, AskMemory, AskStorage, ReadStorage, AskLoaded,
           FailToLoad, RefuseOther, CheckProof, Refuse, IssueChallenge,
           RequestToken, IssueToken, GetLogEntries, Prove, CleanUp, Tick
  <2> QED BY <1>1, <2>1, <2>2
<1>5. \A x \in settled' :
        \/ x \in S
        \/ x \in Removals /\ x.at = t /\ Settled(x.device)'
  <2>1. CASE Remember
    BY <1>1, <1>2, <1>4, <2>1 DEF Remember, Removals
  <2>2. CASE UNCHANGED settled
    BY <1>2, <2>2
  <2> QED BY <2>1, <2>2 DEF Next, vars
<1>6. Within(now)'
  <2>1. Within(t)'
    BY <1>3 DEF Held
  <2> QED BY <1>3, <1>4, <2>1, NseAssumption DEF Held, Within, ServiceTypeOK, Op, Token
<1>7. Capped(settled)' /\ Ended(settled)'
  BY <1>3, <1>5 DEF Held, Within, Capped, Ended
<1>8. settled' \subseteq Removals
  BY <1>3, <1>5 DEF Held
<1>9. \A x \in settled' : Settled(x.device)'
  <2>1. \A x \in S : Settled(x.device)'
    BY <1>2, RemovalStays DEF IInv, Held, Removals
  <2> QED BY <1>5, <2>1
<1>10. Held(now, settled)'
  BY <1>3, <1>4, <1>6, <1>7, <1>8 DEF Held
<1> QED BY <1>9, <1>10 DEF IInv

LEMMA AlwaysIInv == Spec => []IInv
<1>1. IInv /\ Chains!TypeOK /\ [Next]_vars => IInv'
  BY NextIInv
<1> QED BY InitIInv, ChainTypes, <1>1, PTL DEF Spec

-----------------------------------------------------------------------------
(* Every variable of the NSE authentication and of the chains it asks      *)
(* holds a value of its type (NseAuthService).                             *)
THEOREM TypeCorrect == Spec => []TypeOK
<1>1. IInv /\ Chains!TypeOK => TypeOK
  BY DEF IInv, Held, TypeOK, Removals
<1> QED BY <1>1, AlwaysIInv, ChainTypes, PTL

(* A challenge is good for one token, however many requests answer it      *)
(* (verifyAndIssueToken).                                                  *)
THEOREM ChallengesAreSpent == Spec => []OneTokenPerChallenge
<1>1. IInv => OneTokenPerChallenge
  BY DEF IInv, Held
<1> QED BY <1>1, AlwaysIInv, PTL

(* A token was issued for a challenge that its device has signed           *)
(* (verifyAndIssueToken).                                                  *)
THEOREM TokensAreProven == Spec => []TokenIsProven
<1>1. IInv => TokenIsProven
  BY DEF IInv, Held, Proven
<1> QED BY <1>1, AlwaysIInv, PTL

(* A device whose removal has settled reads no longer than a token lasts,  *)
(* for any number of chain objects, saves, loads and restarts, and for any *)
(* lifetimes (getRegisteredDeviceSignatureKey, NseJwtAuthGuard).           *)
THEOREM RemovalEndsAccess == Spec => []RemovedLosesAccess
<1>1. IInv => RemovedLosesAccess
  BY DEF IInv, Held, Ended, RemovedLosesAccess
<1> QED BY <1>1, AlwaysIInv, PTL
=============================================================================

------------------------------ MODULE NseAuth ------------------------------
(***************************************************************************)
(* NseAuthService and the guard of the log query: a device asks for a      *)
(* challenge, answers it with a proof, and is given a token that admits it *)
(* to the log of one team until it expires.                                *)
(*                                                                         *)
(* The token request waits twice, for the team's sigchain and for the      *)
(* signature of the token; other requests, the clean-up and the clock go   *)
(* on in between.  Which SigChain object answers the request, and what     *)
(* that one knows of the team's devices, is in NseAccess.  Signatures are  *)
(* external: a proof is valid for the challenge and the device that it is  *)
(* made of.                                                                *)
(***************************************************************************)
EXTENDS Naturals

CONSTANTS
  Device,
  Founding,        \* the devices on the sigchain from its beginning
  Team,
  ChallengeId,     \* the random IDs: a fresh one for every challenge
  Request,         \* the token requests that are under way at once
  ChallengeTTL,    \* CHALLENGE_TTL_MS
  TokenTTL,        \* expiresIn of a token
  NoRead,
  MaxTime          \* bound on the clock

ASSUME NseAssumption ==
  /\ ChallengeTTL \in Nat
  /\ TokenTTL \in Nat
  /\ MaxTime \in Nat

VARIABLES
  challenges,      \* the challenges in the memory of the server
  op,              \* op[r]: what token request r waits for
  tokens,          \* the tokens the server has signed
  lastRead,        \* the last query of the log that was admitted
  issued,          \* every challenge that was answered to a device
  signed,          \* the proofs that devices have made
  now

service == <<challenges, op, tokens, lastRead, issued, signed, now>>

Subject == [id : ChallengeId, device : Device, team : Team]

StoredChallenge == [about : Subject, expiry : Nat]

Proof == [by : Device, over : ChallengeId]

Token == [about : Subject, expiry : Nat]

Idle == [pc |-> "idle"]

(* expiry: that of the token, once its signature is being made.            *)
Op == [pc : {"chain", "signing"}, about : Subject, proof : Proof, expiry : Nat]

ServiceInit ==
  /\ challenges = {}
  /\ op = [r \in Request |-> Idle]
  /\ tokens = {}
  /\ lastRead = NoRead
  /\ issued = {}
  /\ signed = {}
  /\ now = 0

-----------------------------------------------------------------------------
(* Mutant: the comparison is the wrong way round.                          *)
Live_Inverted == {c \in challenges : c.expiry < now}

(* evictExpiredChallenges keeps these.                                     *)
Live == {c \in challenges : c.expiry >= now}

IssueChallenge(id, d, t) ==
  LET about == [id |-> id, device |-> d, team |-> t] IN
  /\ \A a \in issued : a.id # id
  /\ challenges' = Live \cup {[about |-> about, expiry |-> now + ChallengeTTL]}
  /\ issued' = issued \cup {about}
  /\ UNCHANGED <<op, tokens, lastRead, signed, now>>

CleanUp ==
  /\ challenges' = Live
  /\ UNCHANGED <<op, tokens, lastRead, issued, signed, now>>

(* The challenge that a request answers, if it is stored, in time, and was *)
(* issued to the device.                                                   *)
Answers(c, id, d) == c.about.id = id /\ c.about.device = d /\ c.expiry >= now

Spent(id) == {c \in challenges : c.about.id = id}

(* Mutant: the challenge stays until the token has been signed.            *)
RequestToken_Keeps(r, id, d, proof) ==
  /\ op[r] = Idle
  /\ \E c \in challenges :
       /\ Answers(c, id, d)
       /\ op' = [op EXCEPT ![r] = [pc |-> "chain", about |-> c.about,
                                   proof |-> proof, expiry |-> 0]]
  /\ UNCHANGED <<challenges, tokens, lastRead, issued, signed, now>>

(* verifyAndIssueToken up to its first wait: the challenge is gone whether *)
(* or not the request is refused.                                          *)
RequestToken(r, id, d, proof) ==
  /\ op[r] = Idle
  /\ challenges' = challenges \ Spent(id)
  /\ \/ \E c \in challenges :
          /\ Answers(c, id, d)
          /\ op' = [op EXCEPT ![r] = [pc |-> "chain", about |-> c.about,
                                      proof |-> proof, expiry |-> 0]]
     \/ /\ \A c \in challenges : ~Answers(c, id, d)
        /\ UNCHANGED op
  /\ UNCHANGED <<tokens, lastRead, issued, signed, now>>

(* What a sigchain says of a device.                                       *)
Joining(d) == [change |-> "join", device |-> d]

Removal(d) == [change |-> "removal", device |-> d]

DeviceLink == [change : {"join", "removal"}, device : Device]

(* deviceWasRemoved and hasDevice, of the sigchain with these links.       *)
OnTeam(links, d) ==
  /\ Removal(d) \notin links
  /\ d \in Founding \/ Joining(d) \in links

(* The key of the proof is that of the device, and the signature is one of *)
(* the challenge.                                                          *)
Verified(o) == o.proof = [by |-> o.about.device, over |-> o.about.id]

(* Mutant: any signature of the device's key is good.                      *)
CheckProof_KeyOnly(r, links) ==
  LET o == op[r] IN
  /\ o # Idle /\ o.pc = "chain"
  /\ OnTeam(links, o.about.device) /\ o.proof.by = o.about.device
  /\ op' = [op EXCEPT ![r] = [o EXCEPT !.pc = "signing",
                                       !.expiry = now + TokenTTL]]
  /\ UNCHANGED <<challenges, tokens, lastRead, issued, signed, now>>

(* get() has returned a sigchain with these links, and the token is about  *)
(* to be signed with the time of this moment.                              *)
CheckProof(r, links) ==
  LET o == op[r] IN
  /\ o # Idle /\ o.pc = "chain"
  /\ OnTeam(links, o.about.device) /\ Verified(o)
  /\ op' = [op EXCEPT ![r] = [pc |-> "signing", about |-> o.about,
                              proof |-> o.proof, expiry |-> now + TokenTTL]]
  /\ UNCHANGED <<challenges, tokens, lastRead, issued, signed, now>>

(* The device is unknown or removed, the proof is not one, or there is no  *)
(* such team, or an error.                                                 *)
Refuse(r) ==
  /\ op[r] # Idle
  /\ op' = [op EXCEPT ![r] = Idle]
  /\ UNCHANGED <<challenges, tokens, lastRead, issued, signed, now>>

(* Mutant: a token lasts from the moment it is answered.                   *)
IssueToken_Late(r) ==
  /\ op[r] # Idle /\ op[r].pc = "signing"
  /\ tokens' = tokens \cup {[about |-> op[r].about, expiry |-> now + TokenTTL]}
  /\ op' = [op EXCEPT ![r] = Idle]
  /\ UNCHANGED <<challenges, lastRead, issued, signed, now>>

IssueToken(r) ==
  /\ op[r] # Idle /\ op[r].pc = "signing"
  /\ tokens' = tokens \cup {[about |-> op[r].about, expiry |-> op[r].expiry]}
  /\ op' = [op EXCEPT ![r] = Idle]
  /\ UNCHANGED <<challenges, lastRead, issued, signed, now>>

(* The guard of the query: the token was signed here and has not expired.  *)
CanActivate(k) == k \in tokens /\ now < k.expiry

(* The controller looks whether the token is for the team of the path.     *)
GetLogEntries(k, t) ==
  /\ CanActivate(k)
  /\ k.about.team = t
  /\ lastRead' = [device |-> k.about.device, team |-> t, at |-> now]
  /\ UNCHANGED <<challenges, op, tokens, issued, signed, now>>

-----------------------------------------------------------------------------
(* Devices sign the challenges they were given; the server restarts; time. *)
Prove(a) ==
  /\ signed' = signed \cup {[by |-> a.device, over |-> a.id]}
  /\ UNCHANGED <<challenges, op, tokens, lastRead, issued, now>>

(* What the process had in memory is gone with it.                         *)
Forget ==
  /\ challenges' = {}
  /\ op' = [r \in Request |-> Idle]
  /\ UNCHANGED <<tokens, lastRead, issued, signed, now>>

Tick ==
  /\ now < MaxTime
  /\ now' = now + 1
  /\ UNCHANGED <<challenges, op, tokens, lastRead, issued,
                 signed>>

(* The steps that have nothing to do with a sigchain.                      *)
ServiceStep ==
  \/ \E id \in ChallengeId, d \in Device, t \in Team : IssueChallenge(id, d, t)
  \/ \E r \in Request :
       \/ \E id \in ChallengeId, d \in Device, proof \in signed :
            RequestToken(r, id, d, proof)
       \/ IssueToken(r)
  \/ \E k \in tokens, t \in Team : GetLogEntries(k, t)
  \/ \E a \in issued : Prove(a)
  \/ CleanUp \/ Tick

-----------------------------------------------------------------------------
(* Every variable holds a value of its type.                               *)
ServiceTypeOK ==
  /\ challenges \subseteq StoredChallenge
  /\ op \in [Request -> Op \cup {Idle}]
  /\ tokens \subseteq Token
  /\ lastRead \in [device : Device, team : Team, at : Nat] \cup {NoRead}
  /\ issued \subseteq Subject
  /\ signed \subseteq Proof
  /\ now \in Nat

(* A challenge is good for one token, although several requests may answer *)
(* it at once, fail and be sent again ("Consume immediately to prevent     *)
(* replay" in verifyAndIssueToken).                                        *)
OneTokenPerChallenge ==
  \A k, l \in tokens : k.about.id = l.about.id => k = l

(* A token names a device and a team of which a challenge was issued, and  *)
(* the device has signed that challenge and not only some other one        *)
(* (verifyAndIssueToken).                                                  *)
TokenIsProven ==
  \A k \in tokens :
    /\ k.about \in issued
    /\ [by |-> k.about.device, over |-> k.about.id] \in signed

(* Challenges that nobody answered do not pile up ("Periodic cleanup so    *)
(* stale challenges don't accumulate between requests").                   *)
ExpiredChallengesGo ==
  \A id \in ChallengeId :
    (\E c \in Spent(id) : c.expiry < now) ~> Spent(id) = {}
=============================================================================

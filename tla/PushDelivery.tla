---------------------------- MODULE PushDelivery ----------------------------
(***************************************************************************)
(* The push service: every process has the signing key of the service, a   *)
(* device registers for a team and is given a UCAN, and members of the     *)
(* team send pushes with it, one by one or in batches.                     *)
(*                                                                         *)
(* Handlers wait for the secrets manager, for each UCAN of a batch, and    *)
(* for Firebase (FCM), which answers for every token by itself; sockets    *)
(* leave, processes stop and tokens die in between.  Secrets are kept in   *)
(* AWS, which refuses to create one that exists.                           *)
(***************************************************************************)
EXTENDS Sequences, FiniteSets, Naturals

CONSTANTS
  Proc,
  Socket,
  Sender,          \* the sockets that send pushes, which do not interact
  Team,
  Token,           \* FCM device tokens
  Platform,
  PlatformOf,      \* of a device, which its app says when it registers
  Foreign,         \* a signing key that is not of the service
  Forged,          \* UCANs that clients sign with it
  NoKey,
  Nowhere,         \* where a socket is that is not connected
  MaxBatch,        \* QPS_MAX_BATCH_UCANS
  MaxUcans         \* bound on the UCANs that are given out

ASSUME PushAssumption ==
  /\ MaxBatch \in Nat
  /\ MaxUcans \in Nat
  /\ Foreign \notin Proc
  /\ Sender \subseteq Socket
  /\ PlatformOf \in [Token -> Platform]
  /\ Forged \subseteq [key : {Foreign}, token : Token, platform : Platform,
                       team : Team]
  /\ NoKey \notin Proc

VARIABLES
  secret,          \* the signing key in the secrets manager
  proc,            \* proc[p]: the key and the FCM clients of process p
  at,              \* at[s]: the process that socket s is connected to
  auth,            \* auth[s][t]: whether s has joined t; if it has left, whether
                   \* before its last push or since
  op,              \* op[s]: the message of s that is being handled
  issued,          \* the UCANs given out, and by request of whom
  alive,           \* the tokens that FCM knows
  answer           \* the last answer to a push, of whichever socket

vars == <<secret, proc, at, auth, op, issued, alive, answer>>

(* A process that needs a signing key makes its own.                       *)
Ucan == [key : Proc \cup {Foreign}, token : Token, platform : Platform,
         team : Team]

Down == [pc |-> "down", key |-> NoKey]

ProcState == [pc : {"down", "creating", "up"}, key : Proc \cup {NoKey}]

Membership == {"never", "now", "past", "before"}

Idle == [pc |-> "idle"]

NoAnswer == [status |-> "none", invalid |-> {}, heard |-> {}]

Outcome == {"ok", "dead", "error"}

Answer == [status : {"none", "success", "error", "not found", "unauthorized"},
           invalid : SUBSET Token, heard : SUBSET (Token \X Outcome)]

Init ==
  /\ secret = NoKey
  /\ proc = [p \in Proc |-> Down]
  /\ at = [s \in Socket |-> Nowhere]
  /\ auth = [s \in Socket |-> [t \in Team |-> "never"]]
  /\ op = [s \in Socket |-> Idle]
  /\ issued = {}
  /\ alive = Token
  /\ answer = NoAnswer

-----------------------------------------------------------------------------
(* initializeKeypair when a process starts.                                *)
Boot(p) ==
  /\ proc[p].pc = "down"
  /\ IF secret = NoKey
       THEN proc' = [proc EXCEPT ![p].pc = "creating"]
       ELSE proc' = [proc EXCEPT ![p] = [pc |-> "up", key |-> secret]]
  /\ UNCHANGED <<secret, at, auth, op, issued, alive, answer>>

(* Mutant: a refused creation is ignored.                                  *)
StoreKey_Ignored(p) ==
  /\ proc[p].pc = "creating"
  /\ secret' = IF secret = NoKey THEN p ELSE secret
  /\ proc' = [proc EXCEPT ![p] = [pc |-> "up", key |-> p]]
  /\ UNCHANGED <<at, auth, op, issued, alive, answer>>

(* The created key is stored; if it is not, or its answer is lost, the     *)
(* process does not come up.                                               *)
StoreKey(p) ==
  /\ proc[p].pc = "creating"
  /\ \/ /\ secret = NoKey
        /\ secret' = p
        /\ \E state \in {Down, [pc |-> "up", key |-> p]} :
             proc' = [proc EXCEPT ![p] = state]
     \/ /\ proc' = [proc EXCEPT ![p] = Down]
        /\ UNCHANGED secret
  /\ UNCHANGED <<at, auth, op, issued, alive, answer>>

Left(t) == IF t = "now" THEN "past" ELSE t

Stop(p) ==
  LET gone == {s \in Socket : at[s] = p} IN
  /\ proc[p].pc = "up"
  /\ proc' = [proc EXCEPT ![p] = Down]
  /\ at' = [s \in Socket |-> IF s \in gone THEN Nowhere ELSE at[s]]
  /\ auth' = [s \in Socket |->
                IF s \in gone THEN [t \in Team |-> Left(auth[s][t])]
                              ELSE auth[s]]
  /\ op' = [s \in Socket |->
              IF op[s] # Idle /\ op[s].proc = p THEN Idle ELSE op[s]]
  /\ UNCHANGED <<secret, issued, alive, answer>>

(* A socket is connected once, and joins teams while it is.                *)
Connect(s, p) ==
  /\ at[s] = Nowhere /\ \A t \in Team : auth[s][t] = "never"
  /\ proc[p].pc = "up"
  /\ at' = [at EXCEPT ![s] = p]
  /\ UNCHANGED <<secret, proc, auth, op, issued, alive, answer>>

Join(s, t) ==
  /\ at[s] # Nowhere
  /\ auth' = [auth EXCEPT ![s][t] = "now"]
  /\ UNCHANGED <<secret, proc, at, op, issued, alive, answer>>

Disconnect(s) ==
  /\ at[s] # Nowhere
  /\ at' = [at EXCEPT ![s] = Nowhere]
  /\ auth' = [auth EXCEPT ![s] = [t \in Team |-> Left(@[t])]]
  /\ UNCHANGED <<secret, proc, op, issued, alive, answer>>

(* Another connection of the user takes its place, or the team removes it. *)
Leave(s, t) ==
  /\ auth' = [auth EXCEPT ![s][t] = Left(@)]
  /\ UNCHANGED <<secret, proc, at, op, issued, alive, answer>>

(* The app is removed from the device.                                     *)
TokenDies(x) ==
  /\ alive' = alive \ {x}
  /\ UNCHANGED <<secret, proc, at, auth, op, issued, answer>>

-----------------------------------------------------------------------------
(* hasJoinedAuthConnection: by this very socket, at this moment.           *)
Joined(s, t) == auth[s][t] = "now"

Free(s) == at[s] # Nowhere /\ op[s] = Idle

(* handleRegisterDevice up to the signature; a refusal changes nothing.    *)
RegisterDevice(s, x, t) ==
  /\ Free(s) /\ Cardinality(issued) < MaxUcans
  /\ Joined(s, t)
  /\ op' = [op EXCEPT ![s] =
              [pc |-> "building", proc |-> at[s],
               ucan |-> [key |-> proc[at[s]].key, token |-> x,
                         platform |-> PlatformOf[x], team |-> t]]]
  /\ UNCHANGED <<secret, proc, at, auth, issued, alive, answer>>

IssueUcan(s) ==
  /\ op[s] # Idle /\ op[s].pc = "building"
  /\ issued' = issued \cup {[by |-> s, ucan |-> op[s].ucan]}
  /\ op' = [op EXCEPT ![s] = Idle]
  /\ UNCHANGED <<secret, proc, at, auth, alive, answer>>

-----------------------------------------------------------------------------
(* The UCANs a client may send: those given out, and some of its own make. *)
Known == {g.ucan : g \in issued} \cup Forged

Replied(status, invalid, heard) ==
  answer' = [status |-> status, invalid |-> invalid, heard |-> heard]

(* History: a membership that was over before this push.                   *)
Earlier(t) == IF t = "past" THEN "before" ELSE t

Send(s, kind, us) ==
  /\ Free(s)
  /\ auth' = [auth EXCEPT ![s] = [t \in Team |-> Earlier(@[t])]]
  /\ op' = [op EXCEPT ![s] =
              [pc |-> "checking", proc |-> at[s], kind |-> kind, todo |-> us,
               kept |-> <<>>, pending |-> {}, count |-> 0, invalid |-> {},
               heard |-> {}]]
  /\ answer' = NoAnswer
  /\ UNCHANGED <<secret, proc, at, issued, alive>>

SendPush(s) == \E u \in Known : Send(s, "push", <<u>>)

SendBatchPush(s) ==
  \E n \in 0 .. MaxBatch : \E us \in [1 .. n -> Known] : Send(s, "batch", us)

(* A batch that is too long, or is not a list.                             *)
RefuseBatch(s) ==
  /\ Free(s)
  /\ Replied("error", {}, {})
  /\ UNCHANGED <<secret, proc, at, auth, op, issued, alive>>

(* validateUcan: signed by the key of this process.                        *)
Valid(p, u) == u.key = proc[p].key

(* Mutant: a team that the socket once joined is not looked at again.      *)
Authorized_Once(s, u) ==
  Valid(op[s].proc, u) /\ auth[s][u.team] # "never"

Authorized(s, u) == Valid(op[s].proc, u) /\ Joined(s, u.team)

Check(s) ==
  /\ op[s] # Idle /\ op[s].pc = "checking" /\ op[s].todo # <<>>
  /\ LET u == Head(op[s].todo) IN
     op' = [op EXCEPT ![s].todo = Tail(@),
                      ![s].kept = IF Authorized(s, u) THEN Append(@, u) ELSE @]
  /\ UNCHANGED <<secret, proc, at, auth, issued, alive, answer>>

(* The entries of a batch that are for one platform.                       *)
Bucket(us, pl) == {i \in 1 .. Len(us) : us[i].platform = pl}

(* What was authorized is validated once more, with the same outcome, and  *)
(* sent by platform.  (A single push with a bad UCAN is answered with      *)
(* another error than one that is not authorized.)                         *)
Dispatch(s) ==
  /\ op[s] # Idle /\ op[s].pc = "checking" /\ op[s].todo = <<>>
  /\ IF op[s].kept = <<>>
       THEN /\ op' = [op EXCEPT ![s] = Idle]
            /\ Replied("unauthorized", {}, {})
       ELSE /\ op' = [op EXCEPT ![s].pc = "sending",
                        ![s].pending =
                          {pl \in Platform : Bucket(op[s].kept, pl) # {}}]
            /\ UNCHANGED answer
  /\ UNCHANGED <<secret, proc, at, auth, issued, alive>>

(* FCM knows which tokens are dead; it may fail on any of them.            *)
Responses(us, b) ==
  {f \in [b -> Outcome] :
     \A i \in b : /\ f[i] = "ok" => us[i].token \in alive
                  /\ f[i] = "dead" => us[i].token \notin alive}

InvalidTokens(us, f) == {us[i].token : i \in {i \in DOMAIN f : f[i] = "dead"}}

Delivered(f) == Cardinality({i \in DOMAIN f : f[i] = "ok"})

Heard(us, f) == {<<us[i].token, f[i]>> : i \in DOMAIN f}

(* sendMulticast of one platform, or send: FCM is asked and responds, or   *)
(* its response is lost, or there is no client for the platform.  Whether  *)
(* a process has one is fixed when it starts; here it is left open.        *)
CallFcm(s, pl) ==
  LET us == op[s].kept IN
  /\ op[s] # Idle /\ op[s].pc = "sending" /\ pl \in op[s].pending
  /\ \/ \E f \in Responses(us, Bucket(us, pl)) :
          op' = [op EXCEPT ![s].pending = @ \ {pl},
                           ![s].count = @ + Delivered(f),
                           ![s].invalid = @ \cup InvalidTokens(us, f),
                           ![s].heard = @ \cup Heard(us, f)]
     \/ op' = [op EXCEPT ![s].pending = @ \ {pl}]
  /\ UNCHANGED <<secret, proc, at, auth, issued, alive, answer>>

(* Mutant: a call that did not throw is a success.                         *)
Status_NotThrown(o) == IF o.invalid = {} THEN "success" ELSE "error"

Status(o) ==
  IF o.count > 0 THEN "success"
  ELSE IF o.kind = "push" /\ o.invalid # {} THEN "not found" ELSE "error"

Finish(s) ==
  /\ op[s] # Idle /\ op[s].pc = "sending" /\ op[s].pending = {}
  /\ op' = [op EXCEPT ![s] = Idle]
  /\ Replied(Status(op[s]), op[s].invalid, op[s].heard)
  /\ UNCHANGED <<secret, proc, at, auth, issued, alive>>

Next ==
  \/ \E p \in Proc : Boot(p) \/ StoreKey(p) \/ Stop(p)
  \/ \E s \in Socket :
       \/ \E p \in Proc : Connect(s, p)
       \/ \E t \in Team : Join(s, t) \/ Leave(s, t)
       \/ \E x \in Token, t \in Team : RegisterDevice(s, x, t)
       \/ s \in Sender /\ (SendPush(s) \/ SendBatchPush(s) \/ RefuseBatch(s))
       \/ IssueUcan(s) \/ Check(s) \/ Dispatch(s) \/ Finish(s) \/ Disconnect(s)
       \/ \E pl \in Platform : CallFcm(s, pl)
  \/ \E x \in Token : TokenDies(x)

Spec == Init /\ [][Next]_vars

-----------------------------------------------------------------------------
Building == [pc : {"building"}, proc : Proc, ucan : Ucan]

Sending == [pc : {"checking", "sending"}, proc : Proc, kind : {"push", "batch"},
            todo : Seq(Ucan), kept : Seq(Ucan), pending : SUBSET Platform,
            count : Nat, invalid : SUBSET Token,
            heard : SUBSET (Token \X Outcome)]

(* Every variable holds a value of its type.                               *)
TypeOK ==
  /\ secret \in Proc \cup {NoKey}
  /\ proc \in [Proc -> ProcState]
  /\ at \in [Socket -> Proc \cup {Nowhere}]
  /\ auth \in [Socket -> [Team -> Membership]]
  /\ op \in [Socket -> Building \cup Sending \cup {Idle}]
  /\ issued \subseteq [by : Socket, ucan : Ucan]
  /\ alive \subseteq Token
  /\ answer \in Answer

(* A UCAN that was given out is good at every process, whichever of them   *)
(* made the key and however often they start ("generates and stores a new  *)
(* signing key only when none exists").                                    *)
UcansStayValid ==
  \A g \in issued, p \in Proc : proc[p].pc = "up" => Valid(p, g.ucan)

(* A device is pushed to for a team only: whoever is handed to FCM was     *)
(* registered by a socket of the team, for a socket that was in the team   *)
(* at some moment since it sent this very message: what a batch had checked*)
(* may be stale when it is sent, but never older than the batch (the checks*)
(* of handleRegisterDevice, handleSendPush, handleSendBatchPush).          *)
PushesStayInTeam ==
  \A s \in Socket : op[s] # Idle /\ op[s].pc = "sending" =>
    \A i \in 1 .. Len(op[s].kept) : \E g \in issued :
      /\ g.ucan = op[s].kept[i]
      /\ auth[g.by][g.ucan.team] # "never"
      /\ auth[s][g.ucan.team] \in {"now", "past"}

(* What a client is told of its push is what FCM said of its tokens: a     *)
(* success if one was delivered, by whichever platform, and exactly the    *)
(* dead tokens as invalid (sendBatchPush, sendPush).                       *)
AnswersAreTrue ==
  /\ answer.status = "success" <=> \E x \in Token : <<x, "ok">> \in answer.heard
  /\ answer.invalid = {x \in Token : <<x, "dead">> \in answer.heard}

(* A token that is reported as invalid, and then dropped by the clients,   *)
(* is one that no device has any more (sendMulticast).                     *)
InvalidAreDead == answer.invalid \cap alive = {}
=============================================================================

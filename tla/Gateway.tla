------------------------------- MODULE Gateway ------------------------------
(***************************************************************************)
(* The websocket gateway and what verifying a captcha needs: a socket that *)
(* the limits let in may ask for a verification, which takes the secret of *)
(* hCaptcha from the secrets manager through a cache.  The verification is *)
(* in CommunityCreation; here is getSecretEnvVar() with its retries, in an *)
(* environment that has AWS.                                               *)
(*                                                                         *)
(* The secret of one name; entries of other names have nothing to do with  *)
(* it.  An operator may replace the secret in the secrets manager, delete  *)
(* it or store one that cannot be read as text or as a payload.            *)
(***************************************************************************)
EXTENDS ConnectionLimits

CONSTANTS
  Value,           \* what a secret may be
  NoValue,         \* undefined
  Configured,      \* the environment variable of the process, if any
  GetSecretMaxAttempts,
  TTL              \* ENV_SECRET_CACHE_TTL_MS

ASSUME SecretAssumption ==
  /\ NoValue \notin Value
  /\ Configured \in Value \cup {NoValue}
  /\ GetSecretMaxAttempts \in Nat \ {0}
  /\ TTL \in Nat \ {0}

VARIABLES
  asks,            \* the sockets whose user solves a captcha
  secret,          \* what the secrets manager has; NoValue: nothing usable
  cache,           \* secretEnvVarCache, of this name
  calls            \* the call of getSecretEnvVar() of each socket

secretVars == <<asks, secret, cache, calls>>

vars == <<now, limitVars, secretVars>>

(* The value an answer stands for.  Where the secret is missing, or cannot *)
(* be parsed, the environment variable takes its place.                    *)
Meaning(got) == IF got = NoValue THEN Configured ELSE got

(* current: history, what the secret stood for at some time of the fetch.  *)
NoEntry == [value |-> NoValue, filledAt |-> 0, expiresAt |-> 0, current |-> {}]

Idle == [pc |-> "idle", attempt |-> 0, got |-> NoValue, current |-> {},
         entry |-> NoEntry]

Init ==
  /\ LimitsInit
  /\ asks \in SUBSET Socket
  /\ secret \in Value \cup {NoValue}
  /\ cache = NoEntry
  /\ calls = [s \in Socket |-> Idle]

-----------------------------------------------------------------------------
(* Mutant: an entry is used whatever its age.                              *)
Cached_Forever == cache.value # NoValue

(* getCachedSecretEnvVar: an expired entry is not used.                    *)
Cached == cache.value # NoValue /\ cache.expiresAt > now

(* handleVerifyCaptcha begins: the secret is in the cache, or is fetched.  *)
UseCached(s) ==
  /\ s \in asks /\ sockets[s] = "open" /\ calls[s] = Idle
  /\ Cached
  /\ calls' = [calls EXCEPT ![s] = [Idle EXCEPT !.pc = "returned",
                                                !.entry = cache]]
  /\ UNCHANGED <<now, limitVars, asks, secret, cache>>

BeginFetch(s) ==
  /\ s \in asks /\ sockets[s] = "open" /\ calls[s] = Idle
  /\ ~Cached
  /\ cache' = NoEntry
  /\ calls' = [calls EXCEPT ![s] = [Idle EXCEPT !.pc = "asking",
                                                !.attempt = 1,
                                                !.current = {Meaning(secret)}]]
  /\ UNCHANGED <<now, limitVars, asks, secret>>

(* The secrets manager reads the secret; its answer is on the way.         *)
AwsReads(s) ==
  /\ calls[s].pc = "asking"
  /\ calls' = [calls EXCEPT ![s].pc = "answered", ![s].got = secret]
  /\ UNCHANGED <<now, limitVars, asks, secret, cache>>

(* Mutant: a call that gave up is answered with the environment variable,  *)
(* as one that found no secret.                                            *)
GiveUp_FallsBack(s) ==
  /\ calls' = [calls EXCEPT ![s].pc = "answered", ![s].got = NoValue]
  /\ UNCHANGED <<now, limitVars, asks, secret, cache>>

(* get() throws, and getSecretEnvVar() with it.                            *)
GiveUp(s) ==
  /\ calls' = [calls EXCEPT ![s] = Idle]
  /\ UNCHANGED <<now, limitVars, asks, secret, cache>>

(* Mutant: the attempts are not counted.                                   *)
AwsFails_Uncounted(s) ==
  /\ calls[s].pc \in {"asking", "answered"}
  /\ calls' = [calls EXCEPT ![s].pc = "asking", ![s].got = NoValue]
  /\ UNCHANGED <<now, limitVars, asks, secret, cache>>

(* isRetryableGetSecretError: a timeout or a busy service will pass.       *)
Failure == {"passing", "lasting"}

(* The call fails, or loses its answer: it is retried, unless the failure  *)
(* will not go away or it was the last attempt.                            *)
AwsFails(s) ==
  /\ calls[s].pc \in {"asking", "answered"}
  /\ \E failure \in Failure :
       IF failure = "passing" /\ calls[s].attempt < GetSecretMaxAttempts
       THEN /\ calls' = [calls EXCEPT ![s].pc = "asking", ![s].got = NoValue,
                                      ![s].attempt = @ + 1]
            /\ UNCHANGED <<now, limitVars, asks, secret, cache>>
       ELSE GiveUp(s)

(* The answer arrives.  What is to be returned is cached, whatever another *)
(* call has cached or an operator has replaced meanwhile.                  *)
Receive(s) ==
  /\ calls[s].pc = "answered"
  /\ LET value == Meaning(calls[s].got)
         entry == [value |-> value, filledAt |-> now, expiresAt |-> now + TTL,
                   current |-> calls[s].current]
     IN IF value = NoValue
        THEN /\ calls' = [calls EXCEPT ![s] = Idle]
             /\ UNCHANGED cache
        ELSE /\ cache' = entry
             /\ calls' = [calls EXCEPT ![s] = [Idle EXCEPT !.pc = "returned",
                                                           !.entry = entry]]
  /\ UNCHANGED <<now, limitVars, asks, secret>>

(* The handler has its secret and goes on.                                 *)
Return(s) ==
  /\ calls[s].pc = "returned"
  /\ calls' = [calls EXCEPT ![s] = Idle]
  /\ UNCHANGED <<now, limitVars, asks, secret, cache>>

(* An operator.                                                            *)
Replace ==
  /\ secret' \in (Value \cup {NoValue}) \ {secret}
  /\ calls' = [s \in Socket |->
                 IF calls[s].pc \in {"asking", "answered"}
                 THEN [calls[s] EXCEPT !.current = @ \cup {Meaning(secret')}]
                 ELSE calls[s]]
  /\ UNCHANGED <<now, limitVars, asks, cache>>

GetSecretEnvVar(s) ==
  UseCached(s) \/ BeginFetch(s) \/ AwsReads(s) \/ AwsFails(s) \/ Receive(s)
    \/ Return(s)

Next ==
  \/ LimitsNext /\ UNCHANGED secretVars
  \/ Tick /\ UNCHANGED <<limitVars, secretVars>>
  \/ \E s \in Socket : GetSecretEnvVar(s)
  \/ Replace

Spec == Init /\ [][Next]_vars

(* The secrets manager answers or fails, and the process runs on.          *)
Fairness ==
  \A s \in Socket :
    WF_vars(AwsReads(s) \/ AwsFails(s) \/ Receive(s) \/ Return(s))

FairSpec == Spec /\ Fairness

-----------------------------------------------------------------------------
Entry == [value : Value \cup {NoValue}, filledAt : Nat, expiresAt : Nat,
          current : SUBSET (Value \cup {NoValue})]

Call == [pc : {"idle", "asking", "answered", "returned"},
         attempt : 0 .. GetSecretMaxAttempts,
         got : Value \cup {NoValue},
         current : SUBSET (Value \cup {NoValue}),
         entry : Entry]

(* Every variable holds a value of its type.                               *)
TypeOK ==
  /\ LimitsTypeOK
  /\ asks \subseteq Socket
  /\ secret \in Value \cup {NoValue}
  /\ cache \in Entry
  /\ calls \in [Socket -> Call]

(* What a handler is given was the secret, or stood for it, at some time   *)
(* of a fetch that ended less than a TTL ago: an operator's replacement is *)
(* seen by then although fetches overlap, fail and overwrite each other's  *)
(* entries, and a failing secrets manager is not taken for a missing       *)
(* secret.                                                                 *)
FreshStep ==
  \A s \in Socket :
    calls[s].pc # "returned" /\ calls'[s].pc = "returned" =>
      LET entry == calls'[s].entry IN
      /\ now < entry.filledAt + TTL
      /\ entry.value \in entry.current

AnswersAreFresh == [][FreshStep]_vars

(* Every call ends, with a secret or without.                              *)
CallsEnd == \A s \in Socket : calls[s].pc # "idle" ~> calls[s].pc = "idle"
=============================================================================

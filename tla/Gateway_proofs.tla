--------------------------- MODULE Gateway_proofs ---------------------------
(***************************************************************************)
(* Proofs about Gateway: for any addresses, connections, limits, secrets   *)
(* and times, the limits of an address hold in every stretch of time, a    *)
(* refusal is always due, and no secret is older than its TTL.             *)
(*                                                                         *)
(* The argument for the limits: what is remembered of an address lies      *)
(* between its recent attempts and all of them (Remembered), and what is   *)
(* counted as connected is what is open (Counted).  For the secret: what a *)
(* fetch was answered, and what is cached, was current during the fetch.   *)
(***************************************************************************)
EXTENDS Gateway, FiniteSetTheorems, TLAPS

Counted == socketIps = {s \in Socket : sockets[s] = "open"}

Recorded ==
  /\ IsFiniteSet(attempts)
  /\ admitted \subseteq attempts
  /\ \A a \in attempts : sockets[a.socket] # "new" /\ a.at <= now

Remembered ==
  \A ip \in Ip : /\ connectionRates[ip] \subseteq From(ip, attempts)
                 /\ Recent(From(ip, attempts)) \subseteq connectionRates[ip]

LimitsInv ==
  LimitsTypeOK /\ Counted /\ Recorded /\ Remembered /\ WindowIsBounded
    /\ OpenIsBounded

SecretInv ==
  /\ cache.value # NoValue =>
       /\ cache.value \in cache.current
       /\ cache.expiresAt = cache.filledAt + TTL
  /\ \A s \in Socket :
       /\ calls[s].pc = "asking" => Meaning(secret) \in calls[s].current
       /\ calls[s].pc = "answered" =>
            /\ Meaning(secret) \in calls[s].current
            /\ Meaning(calls[s].got) \in calls[s].current

IInv == TypeOK /\ LimitsInv /\ SecretInv

-----------------------------------------------------------------------------
LEMMA InitIInv == Init => IInv
<1> SUFFICES ASSUME Init PROVE IInv
  OBVIOUS
<1> USE LimitsAssumption, SecretAssumption, FS_EmptySet DEF Init, LimitsInit
<1>1. LimitsTypeOK
  BY DEF LimitsTypeOK, Attempt
<1>2. NoEntry \in Entry /\ NoEntry.value = NoValue
  BY DEF NoEntry, Entry
<1>3. Idle \in Call /\ Idle.pc = "idle"
  BY <1>2 DEF Idle, Call
<1>4. TypeOK
  BY <1>1, <1>2, <1>3 DEF TypeOK
<1>5. Counted /\ Recorded
  BY DEF Counted, Recorded
<1>6. Remembered
  BY DEF Remembered, Recent, From
<1>7. WindowIsBounded
  BY DEF WindowIsBounded, From
<1>8. OpenIsBounded
  <2>1. \A ip \in Ip : OpenOf(ip) = {}
    BY DEF OpenOf
  <2> QED BY <2>1 DEF OpenIsBounded
<1>9. SecretInv
  BY <1>2, <1>3 DEF SecretInv
<1> QED BY <1>1, <1>4, <1>5, <1>6, <1>7, <1>8, <1>9 DEF IInv, LimitsInv

(* The concurrent connections counted are those that are open.             *)
LEMMA CountIsOpen ==
  ASSUME LimitsTypeOK, Counted, NEW ip \in Ip
  PROVE  /\ Concurrent(ip) = Cardinality(OpenOf(ip))
         /\ IsFiniteSet(OpenOf(ip)) /\ Cardinality(OpenOf(ip)) \in Nat
<1>1. {s \in socketIps : AddressOf[s] = ip} = OpenOf(ip)
  BY DEF Counted, OpenOf
<1>2. IsFiniteSet(OpenOf(ip))
  BY LimitsAssumption, FS_Subset DEF OpenOf
<1> QED BY <1>1, <1>2, FS_CardinalityType DEF Concurrent

LEMMA PrunedKeeps ==
  ASSUME LimitsInv, NEW ip \in Ip
  PROVE  /\ Pruned[ip] = Recent(connectionRates[ip])
         /\ Pruned[ip] \subseteq From(ip, attempts)
         /\ Recent(From(ip, attempts)) \subseteq Pruned[ip]
         /\ Pruned[ip] \subseteq Attempt
BY DEF LimitsInv, Remembered, Pruned, Recent, LimitsTypeOK

(* A step that records no attempt, and may disconnect sockets.             *)
LEMMA UnrecordedKeeps ==
  ASSUME LimitsInv, UNCHANGED <<now, attempts, admitted>>,
         LimitsTypeOK', Counted',
         \A s \in Socket : /\ sockets'[s] = "open" => sockets[s] = "open"
                           /\ sockets[s] # "new" => sockets'[s] # "new",
         connectionRates' \in {connectionRates, Pruned}
  PROVE  LimitsInv'
<1>1. Recorded'
  BY DEF LimitsInv, Recorded, LimitsTypeOK, Attempt
<1>2. Remembered'
  BY PrunedKeeps DEF LimitsInv, Remembered, Recent, From
<1>3. WindowIsBounded'
  BY DEF LimitsInv, WindowIsBounded, From, Within
<1>4. OpenIsBounded'
  <2> SUFFICES ASSUME NEW ip \in Ip
               PROVE  Cardinality(OpenOf(ip)') <= MaxConcurrent
    BY DEF OpenIsBounded
  <2>1. OpenOf(ip)' \subseteq OpenOf(ip)
    BY DEF OpenOf
  <2>2. IsFiniteSet(OpenOf(ip)) /\ Cardinality(OpenOf(ip)) \in Nat
    BY CountIsOpen DEF LimitsInv
  <2>3. /\ Cardinality(OpenOf(ip)') <= Cardinality(OpenOf(ip))
        /\ Cardinality(OpenOf(ip)') \in Nat
    BY <2>1, <2>2, FS_Subset, FS_CardinalityType
  <2> QED BY <2>2, <2>3, LimitsAssumption DEF LimitsInv, OpenIsBounded
<1> QED BY <1>1, <1>2, <1>3, <1>4 DEF LimitsInv

(* What recording an attempt of s makes of the attempts remembered.        *)
RecentWith(s) ==
  Recent(connectionRates[AddressOf[s]]) \cup {[socket |-> s, at |-> now]}

LEMMA RecentWithCounts ==
  ASSUME LimitsInv, NEW s \in Socket, sockets[s] = "new"
  PROVE  LET ip == AddressOf[s]
             earlier == Within(From(ip, attempts), now - Window, now)
         IN /\ Recent(connectionRates[ip]) = earlier
            /\ IsFiniteSet(RecentWith(s))
            /\ IsFiniteSet(earlier) /\ Cardinality(earlier) \in Nat
            /\ Cardinality(RecentWith(s)) = Cardinality(earlier) + 1
<1> DEFINE ip == AddressOf[s]
           earlier == Within(From(ip, attempts), now - Window, now)
           mine == [socket |-> s, at |-> now]
<1>1. ip \in Ip /\ mine.socket = s
  BY LimitsAssumption
<1>2. earlier = Recent(From(ip, attempts))
  BY DEF LimitsInv, Recorded, Recent, Within, From
<1>3. Recent(connectionRates[ip]) = earlier
  BY <1>1, <1>2 DEF LimitsInv, Remembered, Recent
<1>4. earlier \subseteq attempts
  BY DEF Within, From
<1>5. IsFiniteSet(earlier) /\ Cardinality(earlier) \in Nat
  BY <1>4, FS_Subset, FS_CardinalityType DEF LimitsInv, Recorded
<1>6. mine \notin earlier
  BY <1>1, <1>4 DEF LimitsInv, Recorded
<1> HIDE DEF ip, earlier, mine
<1>7. IsFiniteSet(earlier \cup {mine})
      /\ Cardinality(earlier \cup {mine}) = Cardinality(earlier) + 1
  BY <1>5, <1>6, FS_AddElement
<1> QED BY <1>3, <1>5, <1>7 DEF RecentWith, ip, earlier, mine

LEMMA RecordAttemptKeeps ==
  ASSUME LimitsInv, NEW s \in Socket, RecordAttempt(s)
  PROVE  LimitsInv'
<1> DEFINE ip == AddressOf[s]
           mine == [socket |-> s, at |-> now]
           recent == RecentWith(s)
<1>1. /\ ip \in Ip /\ mine \in Attempt /\ mine.socket = s /\ mine.at = now
      /\ now \in Nat /\ Window \in Nat
  BY LimitsAssumption DEF Attempt, LimitsInv, LimitsTypeOK
<1>2. /\ sockets[s] = "new" /\ ~TooMany(ip) /\ now' = now
      /\ connectionRates' = [Pruned EXCEPT ![ip] = recent]
      /\ attempts' = attempts \cup {mine}
  BY DEF RecordAttempt, RecentWith
<1>3. \/ /\ Cardinality(recent) > MaxAttempts
         /\ sockets' = [sockets EXCEPT ![s] = "refused"]
         /\ UNCHANGED <<socketIps, admitted>>
      \/ /\ ~(Cardinality(recent) > MaxAttempts)
         /\ sockets' = [sockets EXCEPT ![s] = "open"]
         /\ socketIps' = socketIps \cup {s}
         /\ admitted' = admitted \cup {mine}
  BY DEF RecordAttempt, RecentWith
<1>4. /\ Recent(connectionRates[ip])
           = Within(From(ip, attempts), now - Window, now)
      /\ IsFiniteSet(recent) /\ Cardinality(recent) \in Nat
  BY <1>2, RecentWithCounts, FS_CardinalityType
<1>5. recent = Recent(connectionRates[ip]) \cup {mine}
  BY DEF RecentWith
<1>6. /\ \A i \in Ip : i # ip => connectionRates'[i] = Pruned[i]
      /\ connectionRates'[ip] = recent
  BY <1>1, <1>2 DEF Pruned
<1> HIDE DEF ip, mine, recent
<1>7. LimitsTypeOK'
  <2>1. \A i \in Ip : connectionRates'[i] \subseteq Attempt
    BY <1>1, <1>5, <1>6, PrunedKeeps DEF Pruned
  <2>2. DOMAIN connectionRates' = Ip /\ connectionRates' \in [Ip -> SUBSET Attempt]
    BY <1>2, <2>1 DEF Pruned
  <2> QED BY <1>1, <1>2, <1>3, <2>2 DEF LimitsInv, LimitsTypeOK
<1>8. Counted'
  BY <1>2, <1>3 DEF LimitsInv, LimitsTypeOK, Counted
<1>9. Recorded'
  <2>1. IsFiniteSet(attempts')
    BY <1>2, FS_AddElement DEF LimitsInv, Recorded
  <2>2. \A a \in attempts' : sockets'[a.socket] # "new" /\ a.at <= now'
    BY <1>1, <1>2, <1>3 DEF LimitsInv, Recorded, LimitsTypeOK, Attempt
  <2> QED BY <1>2, <1>3, <2>1, <2>2 DEF LimitsInv, Recorded
<1>10. \A i \in Ip : From(i, attempts') =
         IF i = ip THEN From(i, attempts) \cup {mine} ELSE From(i, attempts)
  BY <1>1, <1>2 DEF From, ip
<1>11. Remembered'
  <2> SUFFICES ASSUME NEW i \in Ip
               PROVE  /\ connectionRates'[i] \subseteq From(i, attempts')
                      /\ \A a \in From(i, attempts') :
                           a.at >= now - Window => a \in connectionRates'[i]
    BY <1>2 DEF Remembered, Recent, From
  <2>1. CASE i = ip
    BY <2>1, <1>1, <1>4, <1>5, <1>6, <1>10
      DEF LimitsInv, Recorded, Within, From, LimitsTypeOK, Attempt
  <2>2. CASE i # ip
    BY <2>2, <1>6, <1>10, PrunedKeeps DEF Recent
  <2> QED BY <2>1, <2>2
<1>12. WindowIsBounded'
  <2>1. CASE admitted' = admitted
    BY <2>1 DEF LimitsInv, WindowIsBounded, From, Within
  <2>2. CASE /\ ~(Cardinality(recent) > MaxAttempts)
             /\ admitted' = admitted \cup {mine}
    <3> SUFFICES ASSUME NEW i \in Ip, NEW first \in From(i, admitted')
                 PROVE  Cardinality(Within(From(i, admitted'), first.at,
                                           first.at + Window)) <= MaxAttempts
      BY DEF WindowIsBounded, From
    <3> DEFINE new == Within(From(i, admitted'), first.at, first.at + Window)
               old == Within(From(i, admitted), first.at, first.at + Window)
    <3>1. /\ admitted \subseteq attempts /\ first.at \in Nat
          /\ \A a \in admitted : a.at \in Nat /\ a.at <= now
      BY <1>1, <2>2
        DEF LimitsInv, Recorded, LimitsTypeOK, Attempt, From
    <3>2. CASE mine \notin new
      <4>1. first # mine
        BY <3>2, <1>1, <3>1, LimitsAssumption DEF Within
      <4>2. first \in From(i, admitted) /\ new = old
        BY <3>2, <2>2, <4>1 DEF Within, From
      <4> QED BY <4>2 DEF LimitsInv, WindowIsBounded
    <3>3. CASE mine \in new
      <4>1. i = ip /\ now <= first.at + Window
        BY <3>3, <1>1 DEF Within, From, ip
      <4>2. new \subseteq recent
        BY <4>1, <1>1, <1>4, <1>5, <2>2, <3>1 DEF Within, From
      <4>3. Cardinality(new) <= Cardinality(recent) /\ Cardinality(new) \in Nat
        BY <4>2, <1>4, FS_Subset, FS_CardinalityType
      <4> QED BY <4>3, <1>4, <2>2, LimitsAssumption
    <3> QED BY <3>2, <3>3
  <2> QED BY <1>3, <2>1, <2>2
<1>13. OpenIsBounded'
  <2> SUFFICES ASSUME NEW i \in Ip
               PROVE  Cardinality(OpenOf(i)') <= MaxConcurrent
    BY DEF OpenIsBounded
  <2>1. /\ IsFiniteSet(OpenOf(i)) /\ Cardinality(OpenOf(i)) \in Nat
        /\ Cardinality(OpenOf(i)) <= MaxConcurrent
        /\ Cardinality(OpenOf(ip)) \in Nat
        /\ Cardinality(OpenOf(ip)) < MaxConcurrent
    BY <1>1, <1>2, CountIsOpen, LimitsAssumption
      DEF LimitsInv, TooMany, OpenIsBounded
  <2>2. OpenOf(i)' = OpenOf(i) \/ (i = ip /\ OpenOf(i)' = OpenOf(i) \cup {s})
    BY <1>2, <1>3 DEF LimitsInv, LimitsTypeOK, OpenOf, ip
  <2>3. CASE OpenOf(i)' = OpenOf(i)
    BY <2>1, <2>3
  <2>4. CASE i = ip /\ OpenOf(i)' = OpenOf(i) \cup {s}
    <3>1. Cardinality(OpenOf(i) \cup {s})
            = IF s \in OpenOf(i) THEN Cardinality(OpenOf(i))
              ELSE Cardinality(OpenOf(i)) + 1
      BY <2>1, FS_AddElement
    <3>2. Cardinality(OpenOf(i) \cup {s}) <= MaxConcurrent
      BY <2>1, <2>4, <3>1, LimitsAssumption
    <3> QED BY <2>4, <3>2
  <2> QED BY <2>2, <2>3, <2>4
<1> QED BY <1>7, <1>8, <1>9, <1>11, <1>12, <1>13 DEF LimitsInv

LEMMA LimitsNextKeeps == LimitsInv /\ LimitsNext => LimitsInv'
<1> SUFFICES ASSUME LimitsInv, LimitsNext PROVE LimitsInv'
  OBVIOUS
<1>1. Pruned \in [Ip -> SUBSET Attempt]
  BY DEF Pruned, Recent, LimitsInv, LimitsTypeOK
<1>2. CASE PruneRates
  <2>1. LimitsTypeOK' /\ Counted'
    BY <1>1, <1>2 DEF PruneRates, LimitsInv, LimitsTypeOK, Counted
  <2> QED BY <1>2, <2>1, UnrecordedKeeps DEF PruneRates
<1>3. ASSUME NEW s \in Socket, RefuseConcurrent(s) PROVE LimitsInv'
  <2>1. LimitsTypeOK' /\ Counted'
    BY <1>1, <1>3 DEF RefuseConcurrent, LimitsInv, LimitsTypeOK, Counted
  <2> QED BY <1>3, <2>1, UnrecordedKeeps
        DEF RefuseConcurrent, LimitsInv, LimitsTypeOK
<1>4. ASSUME NEW s \in Socket, Disconnect(s) PROVE LimitsInv'
  <2>1. LimitsTypeOK' /\ Counted'
    BY <1>4 DEF Disconnect, LimitsInv, LimitsTypeOK, Counted
  <2> QED BY <1>4, <2>1, UnrecordedKeeps
        DEF Disconnect, LimitsInv, LimitsTypeOK
<1> QED BY <1>2, <1>3, <1>4, RecordAttemptKeeps DEF LimitsNext

LEMMA TickKeeps ==
  ASSUME LimitsInv, Tick, UNCHANGED limitVars
  PROVE  LimitsInv'
<1>1. now \in Nat /\ now' = now + 1
  BY DEF Tick, LimitsInv, LimitsTypeOK
<1>2. LimitsTypeOK' /\ Counted'
  BY <1>1 DEF LimitsInv, LimitsTypeOK, Counted, limitVars
<1>3. Recorded'
  BY <1>1 DEF LimitsInv, Recorded, LimitsTypeOK, Attempt, limitVars
<1>4. Remembered'
  <2> SUFFICES ASSUME NEW ip \in Ip, NEW a \in From(ip, attempts),
                      a.at >= now' - Window
               PROVE  a \in connectionRates[ip]
    BY DEF LimitsInv, Remembered, Recent, From, limitVars
  <2>1. a.at \in Nat /\ Window \in Nat
    BY LimitsAssumption DEF From, LimitsInv, LimitsTypeOK, Attempt
  <2>2. a.at >= now - Window
    BY <1>1, <2>1
  <2> QED BY <2>2 DEF LimitsInv, Remembered, Recent
<1>5. WindowIsBounded' /\ OpenIsBounded'
  BY DEF LimitsInv, WindowIsBounded, OpenIsBounded, OpenOf, From, Within,
         limitVars
<1> QED BY <1>2, <1>3, <1>4, <1>5 DEF LimitsInv

(* A step of the secret leaves the limits alone.                           *)
LEMMA LimitsUnchanged ==
  ASSUME LimitsInv, UNCHANGED <<now, limitVars>>
  PROVE  LimitsInv'
<1>1. LimitsTypeOK' /\ Counted' /\ Recorded'
  BY DEF LimitsInv, LimitsTypeOK, Counted, Recorded, limitVars
<1>2. Remembered'
  BY DEF LimitsInv, Remembered, Recent, From, limitVars
<1>3. WindowIsBounded' /\ OpenIsBounded'
  BY DEF LimitsInv, WindowIsBounded, OpenIsBounded, OpenOf, From, Within,
         limitVars
<1> QED BY <1>1, <1>2, <1>3 DEF LimitsInv

-----------------------------------------------------------------------------
(* What each step of a call makes of the call, and of the cache.           *)
LEMMA CallStep ==
  ASSUME TypeOK, SecretInv, NEW s \in Socket, GetSecretEnvVar(s)
  PROVE  \E c \in Call :
           /\ calls' = [calls EXCEPT ![s] = c]
           /\ UNCHANGED <<now, limitVars, asks, secret>>
           /\ c.pc \in {"asking", "answered"} =>
                Meaning(secret) \in c.current
           /\ c.pc = "answered" => Meaning(c.got) \in c.current
           /\ \/ UNCHANGED cache
              \/ cache' = NoEntry
              \/ /\ cache' \in Entry
                 /\ cache'.value \in cache'.current
                 /\ cache'.expiresAt = cache'.filledAt + TTL
<1> USE SecretAssumption
<1>1. /\ calls[s] \in Call /\ calls \in [Socket -> Call]
      /\ secret \in Value \cup {NoValue} /\ cache \in Entry /\ now \in Nat
      /\ TTL \in Nat
  BY DEF TypeOK, LimitsTypeOK
<1>2. NoEntry \in Entry
  BY DEF NoEntry, Entry
<1>3. Idle \in Call /\ Idle.pc = "idle"
  BY <1>2 DEF Idle, Call
<1>4. \A v \in Value \cup {NoValue} : Meaning(v) \in Value \cup {NoValue}
  BY DEF Meaning
<1>5. CASE UseCached(s)
  <2> DEFINE c == [Idle EXCEPT !.pc = "returned", !.entry = cache]
  <2>1. c \in Call /\ c.pc = "returned"
    BY <1>1, <1>3 DEF Call
  <2> QED BY <1>5, <2>1 DEF UseCached
<1>6. CASE BeginFetch(s)
  <2> DEFINE c == [Idle EXCEPT !.pc = "asking", !.attempt = 1,
                               !.current = {Meaning(secret)}]
  <2>1. /\ c \in Call /\ c.pc = "asking"
        /\ Meaning(secret) \in c.current
    <3>1. {Meaning(secret)} \in SUBSET (Value \cup {NoValue})
      BY <1>1, <1>4
    <3>2. 1 \in 0 .. GetSecretMaxAttempts
      OBVIOUS
    <3>3. c \in Call
      <4> HIDE DEF Idle
      <4> QED BY <1>3, <3>1, <3>2 DEF Call
    <3> QED BY <1>3, <3>3 DEF Call
  <2> QED BY <1>6, <2>1 DEF BeginFetch
<1>7. CASE AwsReads(s)
  <2> DEFINE c == [calls[s] EXCEPT !.pc = "answered", !.got = secret]
  <2>1. /\ c \in Call /\ c.pc = "answered"
        /\ c.got = secret /\ c.current = calls[s].current
    BY <1>1 DEF Call
  <2>2. Meaning(secret) \in calls[s].current
    BY <1>7 DEF AwsReads, SecretInv
  <2>3. calls' = [calls EXCEPT ![s] = c]
    BY <1>1, <1>7 DEF AwsReads
  <2> QED BY <1>7, <2>1, <2>2, <2>3 DEF AwsReads
<1>8. CASE AwsFails(s) /\ ~GiveUp(s)
  <2> DEFINE c == [calls[s] EXCEPT !.pc = "asking", !.got = NoValue,
                                   !.attempt = @ + 1]
  <2>1. calls[s].attempt < GetSecretMaxAttempts
    BY <1>8 DEF AwsFails
  <2>2. /\ c \in Call /\ c.pc = "asking" /\ c.current = calls[s].current
    <3>1. calls[s].attempt + 1 \in 0 .. GetSecretMaxAttempts
      BY <1>1, <2>1 DEF Call
    <3> QED BY <1>1, <3>1 DEF Call
  <2>3. Meaning(secret) \in calls[s].current
    BY <1>8 DEF AwsFails, SecretInv
  <2>4. calls' = [calls EXCEPT ![s] = c]
    BY <1>1, <1>8 DEF AwsFails
  <2> QED BY <1>8, <2>2, <2>3, <2>4 DEF AwsFails
<1>9. CASE GiveUp(s) \/ Return(s)
  BY <1>3, <1>9 DEF GiveUp, Return
<1>10. CASE Receive(s)
  <2> DEFINE value == Meaning(calls[s].got)
             entry == [value |-> value, filledAt |-> now,
                       expiresAt |-> now + TTL,
                       current |-> calls[s].current]
             c == [Idle EXCEPT !.pc = "returned", !.entry = entry]
  <2>1. /\ entry \in Entry
        /\ entry.value \in entry.current
        /\ entry.expiresAt = entry.filledAt + TTL
    BY <1>1, <1>4, <1>10 DEF Receive, SecretInv, Call, Entry
  <2>2. c \in Call /\ c.pc = "returned"
    <3> HIDE DEF entry
    <3> QED BY <1>3, <2>1 DEF Call
  <2>3. CASE value = NoValue
    BY <1>3, <1>10, <2>3 DEF Receive
  <2>4. CASE value # NoValue
    BY <1>10, <2>1, <2>2, <2>4 DEF Receive
  <2> QED BY <2>3, <2>4
<1> QED BY <1>5, <1>6, <1>7, <1>8, <1>9, <1>10 DEF GetSecretEnvVar, AwsFails

LEMMA CallKeeps ==
  ASSUME IInv, NEW s \in Socket, GetSecretEnvVar(s)
  PROVE  IInv'
<1>1. PICK c \in Call :
        /\ calls' = [calls EXCEPT ![s] = c]
        /\ UNCHANGED <<now, limitVars, asks, secret>>
        /\ c.pc \in {"asking", "answered"} => Meaning(secret) \in c.current
        /\ c.pc = "answered" => Meaning(c.got) \in c.current
        /\ \/ UNCHANGED cache
           \/ cache' = NoEntry
           \/ /\ cache' \in Entry
              /\ cache'.value \in cache'.current
              /\ cache'.expiresAt = cache'.filledAt + TTL
  BY CallStep DEF IInv
<1>2. LimitsInv'
  BY <1>1, LimitsUnchanged DEF IInv
<1>3. NoEntry \in Entry /\ NoEntry.value = NoValue
  BY DEF NoEntry, Entry
<1>4. TypeOK'
  BY <1>1, <1>2, <1>3 DEF IInv, LimitsInv, TypeOK
<1>5. SecretInv'
  <2>1. \A r \in Socket : calls'[r] = c \/ calls'[r] = calls[r]
    BY <1>1 DEF IInv, TypeOK
  <2> QED BY <1>1, <1>3, <2>1 DEF IInv, SecretInv, Meaning
<1> QED BY <1>2, <1>4, <1>5 DEF IInv

LEMMA ReplaceKeeps == IInv /\ Replace => IInv'
<1> SUFFICES ASSUME IInv, Replace PROVE IInv'
  OBVIOUS
<1>1. LimitsInv'
  BY LimitsUnchanged DEF Replace, IInv
<1>2. secret' \in Value \cup {NoValue}
      /\ Meaning(secret)' = Meaning(secret')
      /\ Meaning(secret') \in Value \cup {NoValue}
  BY SecretAssumption DEF Replace, Meaning
<1>3. \A s \in Socket :
        /\ calls'[s] \in Call
        /\ calls'[s].pc = calls[s].pc /\ calls'[s].got = calls[s].got
        /\ calls[s].pc \in {"asking", "answered"} =>
             calls'[s].current = calls[s].current \cup {Meaning(secret')}
  <2> SUFFICES ASSUME NEW s \in Socket
               PROVE  /\ calls'[s] \in Call
                      /\ calls'[s].pc = calls[s].pc
                      /\ calls'[s].got = calls[s].got
                      /\ calls[s].pc \in {"asking", "answered"} =>
                           calls'[s].current =
                             calls[s].current \cup {Meaning(secret')}
    OBVIOUS
  <2> DEFINE c == [calls[s] EXCEPT !.current = @ \cup {Meaning(secret')}]
  <2>1. calls[s] \in Call
    BY DEF IInv, TypeOK
  <2>2. /\ c \in Call /\ c.pc = calls[s].pc /\ c.got = calls[s].got
        /\ c.current = calls[s].current \cup {Meaning(secret')}
    BY <1>2, <2>1 DEF Call
  <2>3. calls'[s] = IF calls[s].pc \in {"asking", "answered"}
                    THEN c ELSE calls[s]
    BY DEF Replace
  <2> HIDE DEF c
  <2> QED BY <2>1, <2>2, <2>3
<1>4. TypeOK'
  <2>1. calls' \in [Socket -> Call]
    BY <1>3 DEF Replace
  <2> QED BY <1>1, <1>2, <2>1 DEF Replace, IInv, LimitsInv, TypeOK
<1>5. SecretInv'
  BY <1>2, <1>3 DEF Replace, IInv, SecretInv, Meaning
<1> QED BY <1>1, <1>4, <1>5 DEF IInv

LEMMA NextIInv == IInv /\ [Next]_vars => IInv'
<1> SUFFICES ASSUME IInv, [Next]_vars PROVE IInv'
  OBVIOUS
<1>1. ASSUME LimitsInv', UNCHANGED secretVars PROVE IInv'
  BY <1>1 DEF IInv, LimitsInv, TypeOK, SecretInv, secretVars, Meaning
<1>2. CASE LimitsNext /\ UNCHANGED secretVars
  BY <1>1, <1>2, LimitsNextKeeps DEF IInv
<1>3. CASE Tick /\ UNCHANGED <<limitVars, secretVars>>
  BY <1>1, <1>3, TickKeeps DEF IInv
<1>4. CASE \E s \in Socket : GetSecretEnvVar(s)
  BY <1>4, CallKeeps
<1>5. CASE Replace
  BY <1>5, ReplaceKeeps
<1>6. CASE UNCHANGED vars
  BY <1>1, <1>6, LimitsUnchanged DEF vars, IInv
<1> QED BY <1>2, <1>3, <1>4, <1>5, <1>6 DEF Next

LEMMA Invariance == Spec => []IInv
<1> QED BY InitIInv, NextIInv, PTL DEF Spec

-----------------------------------------------------------------------------
(* Every variable holds a value of its type: the sockets, what the limits  *)
(* remember and count, the cached secret and the calls for it.             *)
THEOREM TypeCorrect == Spec => []TypeOK
<1>1. IInv => TypeOK
  BY DEF IInv
<1> QED BY <1>1, Invariance, PTL

(* handleConnection lets no more than maxAttemptsInWindow connections of   *)
(* an address in within any windowMs, wherever the window begins.          *)
THEOREM AdmissionIsBounded == Spec => []WindowIsBounded
<1>1. IInv => WindowIsBounded
  BY DEF IInv, LimitsInv
<1> QED BY <1>1, Invariance, PTL

(* No address has more than maxConcurrentPerIp connections open.           *)
THEOREM ConcurrencyIsBounded == Spec => []OpenIsBounded
<1>1. IInv => OpenIsBounded
  BY DEF IInv, LimitsInv
<1> QED BY <1>1, Invariance, PTL

(* handleConnection refuses a connection only of an address that is at one *)
(* of its limits, as all its attempts and its open connections say.        *)
THEOREM RefusalsAreDue == Spec => RefusedAtTheLimit
<1>1. ASSUME IInv, [Next]_vars, NEW s \in Socket, sockets[s] = "new",
             sockets'[s] = "refused"
      PROVE  \/ Cardinality(OpenOf(AddressOf[s])) >= MaxConcurrent
             \/ Cardinality(Within(From(AddressOf[s], attempts),
                                   now - Window, now)) >= MaxAttempts
  <2>1. RefuseConcurrent(s) \/ RecordAttempt(s)
    <3>1. ~UNCHANGED sockets
      BY <1>1
    <3>2. LimitsNext
      BY <1>1, <3>1
        DEF Next, limitVars, vars, GetSecretEnvVar, UseCached, BeginFetch,
            AwsReads, AwsFails, GiveUp, Receive, Return, Replace
    <3>3. PICK r \in Socket :
            RefuseConcurrent(r) \/ RecordAttempt(r) \/ Disconnect(r)
      BY <3>1, <3>2 DEF LimitsNext, PruneRates
    <3>4. r = s /\ ~Disconnect(r)
      BY <1>1, <3>3
        DEF RefuseConcurrent, RecordAttempt, Disconnect, IInv, LimitsInv,
            LimitsTypeOK
    <3> QED BY <3>3, <3>4
  <2>2. AddressOf[s] \in Ip
    BY LimitsAssumption
  <2>3. CASE RefuseConcurrent(s)
    BY <1>1, <2>2, <2>3, CountIsOpen DEF RefuseConcurrent, TooMany, IInv, LimitsInv
  <2>4. CASE RecordAttempt(s)
    <3>1. Cardinality(RecentWith(s)) > MaxAttempts
      BY <1>1, <2>4
        DEF RecordAttempt, RecentWith, IInv, LimitsInv, LimitsTypeOK
    <3>2. LET earlier == Within(From(AddressOf[s], attempts),
                                now - Window, now)
          IN /\ Cardinality(earlier) \in Nat
             /\ Cardinality(RecentWith(s)) = Cardinality(earlier) + 1
      BY <1>1, RecentWithCounts DEF IInv
    <3> QED BY <3>1, <3>2, LimitsAssumption
  <2> QED BY <2>1, <2>3, <2>4
<1>2. IInv /\ [Next]_vars => [RefusalStep]_<<now, limitVars>>
  BY <1>1 DEF RefusalStep
<1> QED BY <1>2, Invariance, PTL DEF Spec, RefusedAtTheLimit

(* getSecretEnvVar returns what the secret stood for during a fetch that   *)
(* ended less than the TTL of the cache ago.                               *)
THEOREM SecretsAreFresh == Spec => AnswersAreFresh
<1>1. ASSUME IInv, [Next]_vars, NEW s \in Socket, calls[s].pc # "returned",
             calls'[s].pc = "returned"
      PROVE  /\ now < calls'[s].entry.filledAt + TTL
             /\ calls'[s].entry.value \in calls'[s].entry.current
  <2>1. ~UNCHANGED calls
    BY <1>1
  <2>2. \A r \in Socket : calls[r] \in Call
    BY <1>1 DEF IInv, TypeOK
  <2>3. ~Replace
    BY <1>1, <2>2 DEF Replace, Call
  <2>4. PICK r \in Socket : GetSecretEnvVar(r)
    BY <1>1, <2>1, <2>3 DEF Next, secretVars, vars
  <2>5. r = s
    <3>1. PICK c \in Call : calls' = [calls EXCEPT ![r] = c]
      BY <1>1, <2>4, CallStep DEF IInv
    <3> QED BY <1>1, <3>1 DEF IInv, TypeOK
  <2>6. Idle.pc = "idle" /\ now \in Nat /\ TTL \in Nat \ {0}
    BY <1>1, SecretAssumption DEF Idle, IInv, TypeOK, LimitsTypeOK
  <2>7. CASE UseCached(s)
    <3>1. calls'[s].entry = cache
      BY <1>1, <2>7 DEF UseCached, IInv, TypeOK, Idle
    <3>2. cache.value # NoValue /\ cache.expiresAt > now /\ cache \in Entry
      BY <1>1, <2>7 DEF UseCached, Cached, IInv, TypeOK
    <3> QED BY <1>1, <2>6, <3>1, <3>2 DEF IInv, SecretInv, Entry
  <2>8. CASE Receive(s)
    <3>1. Meaning(calls[s].got) \in calls[s].current
      BY <1>1, <2>8 DEF Receive, IInv, SecretInv
    <3>2. Meaning(calls[s].got) # NoValue
      BY <1>1, <2>6, <2>8 DEF Receive, IInv, TypeOK
    <3>3. /\ calls'[s].entry.filledAt = now
          /\ calls'[s].entry.value = Meaning(calls[s].got)
          /\ calls'[s].entry.current = calls[s].current
      <4> DEFINE entry == [value |-> Meaning(calls[s].got), filledAt |-> now,
                           expiresAt |-> now + TTL,
                           current |-> calls[s].current]
      <4>1. calls' = [calls EXCEPT ![s] = [Idle EXCEPT !.pc = "returned",
                                                       !.entry = entry]]
        BY <2>8, <3>2 DEF Receive
      <4>2. calls'[s].entry = entry
        <5> HIDE DEF entry
        <5>1. calls'[s] = [Idle EXCEPT !.pc = "returned", !.entry = entry]
          BY <1>1, <4>1 DEF IInv, TypeOK
        <5> QED BY <5>1 DEF Idle
      <4> QED BY <4>2
    <3> QED BY <2>6, <3>1, <3>3
  <2>9. CASE BeginFetch(s) \/ GiveUp(s) \/ Return(s)
    BY <1>1, <2>6, <2>9 DEF BeginFetch, GiveUp, Return, IInv, TypeOK, Idle
  <2>10. CASE AwsReads(s) \/ (AwsFails(s) /\ ~GiveUp(s))
    BY <1>1, <2>2, <2>10 DEF AwsReads, AwsFails, IInv, TypeOK, Call
  <2> QED BY <2>4, <2>5, <2>7, <2>8, <2>9, <2>10 DEF GetSecretEnvVar, AwsFails
<1>2. IInv /\ [Next]_vars => [FreshStep]_vars
  BY <1>1 DEF FreshStep
<1> QED BY <1>2, Invariance, PTL DEF Spec, AnswersAreFresh
=============================================================================

SPECIFICATION MCSpec
CONSTANTS
  d1 = d1
  c1 = c1
  r1 = r1
  Device = {d1, d2}
  Founding = {d2}
  Team = {t1}
  Community = t1
  ChallengeId = {c1, c2}
  Request = {r1, r2}
  ChallengeTTL = 1
  TokenTTL = 2
  NoRead = NoRead
  MaxTime = 3
  User = {m1}
  Founder = m1
  Chain = {a, b}
  NoChain = NoChain
INVARIANTS
  OneTokenPerChallenge
  TokenIsProven
  RemovedLosesAccess
PROPERTY
  ExpiredChallengesGo

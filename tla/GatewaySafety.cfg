SPECIFICATION MCSpec
CONSTANTS
  s1 = s1
  s2 = s2
  s3 = s3
  s4 = s4
  a = a
  b = b
  v1 = v1
  v2 = v2
  NoValue = NoValue
  Ip = {a, b}
  Socket = {s1, s2, s3, s4}
  AddressOf <- Addresses
  Window = 1
  MaxAttempts = 1
  MaxConcurrent = 1
  MaxTime = 2
  Value = {v1, v2}
  Configured = v1
  TTL = 1
  GetSecretMaxAttempts = 2
INVARIANTS WindowIsBounded OpenIsBounded
PROPERTIES RefusedAtTheLimit AnswersAreFresh CallsEnd

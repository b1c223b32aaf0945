SPECIFICATION Spec
CONSTANTS
  Proc = {p1, p2}
  Socket = {s1, s2}
  Sender = {s2}
  Team = {t1}
  Token = {x1, x2}
  Platform = {ios, android}
  Foreign = Foreign
  Forged <- ForgedUcan
  PlatformOf <- Devices
  x1 = x1
  x2 = x2
  android = android
  ios = ios
  t1 = t1
  NoKey = NoKey
  Nowhere = Nowhere
  MaxBatch = 2
  MaxUcans = 2
INVARIANTS UcansStayValid PushesStayInTeam AnswersAreTrue

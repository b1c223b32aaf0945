SPECIFICATION FairSpec
CONSTANTS
  User = {u1, u2}
  Socket = {s1, s2}
  Team = {t1}
  Conn = {k1, k2, k3}
  NoConn = NoConn
  Stored0 = {}
INVARIANTS RegisteredIsOpen ExpiryMeansIdle DisconnectStops AdmittedIsReached
PROPERTY IdleIsEvicted

SPECIFICATION Spec
CONSTANTS
  User = {u1}
  Socket = {s1, s2}
  Team = {t1}
  Conn = {k1, k2, k3}
  NoConn = NoConn
  Stored0 = {t1}
INVARIANT ExpiryMeansNoneOpen

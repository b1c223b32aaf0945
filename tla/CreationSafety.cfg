SPECIFICATION Spec
CONSTANTS
  s1 = s1
  s2 = s2
  a = a
  b = b
  None = None
  Request = {r1, r2, r3, r4, r5}
  Socket = {s1, s2}
  Server = {a, b}
  Team = {t1}
  On <- OnEach
  Local = FALSE
SYMMETRY Symmetry
INVARIANTS
  KeyInMemoryIsStored
  RowMatchesKeyrings
  LoadFindsKeys
  AnsweredKeysAreStored

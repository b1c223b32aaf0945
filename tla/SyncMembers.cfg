SPECIFICATION FairSpec
CONSTANTS
  m1 = m1
  m2 = m2
  e1 = e1
  e2 = e2
  Member = {m1, m2}
  Entry = {e1, e2}
  AuthorOf <- EachWritesOne
INVARIANTS NothingMissed CursorIsCovered FannedOutIsDurable
PROPERTY MembersConverge

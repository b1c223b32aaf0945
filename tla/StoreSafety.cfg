SPECIFICATION FairSpec
CONSTANTS
  r1 = r1
  r2 = r2
  r3 = r3
  e1 = e1
  e2 = e2
  c1 = c1
  c2 = c2
  Community = {c1, c2}
  Cid = {e1, e2}
  Request = {r1, r2, r3}
  CidOf <- SharedEntry
  CommunityOf <- TwoCommunities
  MaxTime = 2
  MaxDrifts = 1
INVARIANTS GapFree AllocatedIsNext AnswerIsStored
PROPERTIES CommitsInOrder ImplementsCommunityLog CallsReturn

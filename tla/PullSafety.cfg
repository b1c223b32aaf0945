SPECIFICATION FairPullSpec
CONSTANTS
  e1 = e1
  e2 = e2
  e3 = e3
  e4 = e4
  c1 = c1
  p1 = p1
  Community = {c1}
  Cid = {e1, e2, e3, e4}
  Puller = {p1}
  CommunityAt <- PullsFromIt
  FilterOf <- WithFilter
  SizeOf <- Sizes
  MetaBytes = 1
  MaxBytes = 4
  PageSize = 2
  Limits = {NoLimit, 0, 1, 3}
  NoLimit = NoLimit
  Ends = {2, 99}
  StampOf <- Stamps
  PlaceOf <- Places
  Starts = {0, 3}
  MaxLosses = 1
INVARIANTS PullTypeOK OnlyTheLateAreMissed MoreIsReal ResponseFits
PROPERTIES DoneMeansCaughtUp EveryEntryDelivered

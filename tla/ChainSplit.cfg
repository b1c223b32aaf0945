SPECIFICATION FairSpec
CONSTANTS
  m1 = m1
  m2 = m2
  Member = {m1, m2}
  Founder = m1
  Link = {l1, l2}
  Chain = {a, b}
  NoChain = NoChain
PROPERTY MembersMeet

SPECIFICATION Spec
CONSTANTS
  NONE = NONE
  m1 = m1
  m2 = m2
  m3 = m3
  m4 = m4
  r1 = r1
  r2 = r2
  r3 = r3
  r4 = r4
  a = a
  b = b
  c = c
  d = d
  Requests <- MCRequests
  People <- MCPeople
  Plans <- MCPlans
  MaxMembers = 3
INVARIANTS
  TypeOK
  BlocksRespected
  TiesCounted
  ReactionsCounted
  MembersCounted
  BansKept
  RemovalsKept
  LimitExplained
  FeedsRespectPrivacy
CHECK_DEADLOCK FALSE

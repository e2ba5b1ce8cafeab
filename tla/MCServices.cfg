SPECIFICATION Spec
CONSTANTS
  NONE = NONE
  m1 = m1
  m2 = m2
  m3 = m3
  m4 = m4
  m5 = m5
  r1 = r1
  r2 = r2
  r3 = r3
  r4 = r4
  r5 = r5
  a = a
  b = b
  k1 = k1
  k2 = k2
  k3 = k3
  Requests <- MCRequests
  People <- MCPeople
  Keys <- MCKeys
  Plans <- MCPlans
INVARIANTS
  TypeOK
  ContentKept
  CacheCurrent
  CredentialsEarned
  DependenciesActive
  SinglesKept
  EntriesKept
CHECK_DEADLOCK FALSE

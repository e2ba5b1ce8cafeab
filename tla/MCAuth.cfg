SPECIFICATION Spec
CONSTANTS
  NONE = NONE
  acct = acct
  r1 = r1
  r2 = r2
  r3 = r3
  r4 = r4
  mail = mail
  Requests <- MCRequests
  Emails <- MCEmails
  Plans <- MCPlans
INVARIANTS
  EndedTokensStayDead
  OrphanTokensExplained
  SuspensionsKept
  DeletionsAreFinal
  OneAccountPerCode
CHECK_DEADLOCK FALSE

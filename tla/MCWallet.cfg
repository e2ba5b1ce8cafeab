SPECIFICATION Spec
CONSTANTS
  NONE = NONE
  alice = alice
  bob = bob
  g1 = g1
  redeem1 = redeem1
  redeem2 = redeem2
  credit1 = credit1
  credit2 = credit2
  balance1 = balance1
  Requests <- MCRequests
  Users <- MCUsers
  Cards <- MCCards
  Op <- MCOp
  UserOf <- MCUserOf
  CardOf <- MCCardOf
SYMMETRY MCSymmetry
INVARIANTS
  AcknowledgedCreditsKept
  CreditsInOneRow
  CreditsAreLedgered
  RedemptionAtomic
PROPERTIES
  ImplementsCreditBook
CHECK_DEADLOCK FALSE

SPECIFICATION FairRefundSpec
CONSTANTS
  NONE = NONE
  alice = alice
  g1 = g1
  o1 = o1
  refund1 = refund1
  refund2 = refund2
  update1 = update1
  PoolSize = 2
  Requests <- MCRequests
  Users <- MCUsers
  Cards <- MCCards
  Op <- MCOp
  UserOf <- MCUserOf
  CardOf <- MCCardOf
  Refunds <- MCRefunds
  Updates <- MCUpdates
  Orders <- MCOrders
  OrderOf <- MCOrderOf
INVARIANTS
  MemosBacked
  RefundedOrdersHaveMemos
PROPERTIES
  RefundsEnd
CHECK_DEADLOCK FALSE

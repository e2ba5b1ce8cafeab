SPECIFICATION FairSpec
CONSTANTS
  NONE = NONE
  NaN = NaN
  o1 = o1
  o2 = o2
  ann = ann
  bob = bob
  update1 = update1
  update2 = update2
  p1 = p1
  call1 = call1
  call2 = call2
  PoolSize = 2
  Orders <- MCOrders
  Vendors <- MCVendors
  VendorsOf <- MCVendorsOf
  Payable <- MCVendors
  Worth <- MCWorth
  Updates <- MCUpdates
  OrderOf <- MCOrderOf
  Payouts <- MCPayouts
  VendorOf <- MCVendorOf
  Amount <- MCAmount
  Calls <- MCCalls
  PayoutOf <- MCPayoutOf
INVARIANTS
  SettlementComplete
  SettledRevenueWasPaid
  RevenueSettledOnce
  ProcessedWasPaid
PROPERTIES
  PayoutsEnd
CHECK_DEADLOCK FALSE

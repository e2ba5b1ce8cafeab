SPECIFICATION Spec
CONSTANTS
  NONE = NONE
  apple = apple
  book = book
  w1 = w1
  w2 = w2
  c1 = c1
  c2 = c2
  c3 = c3
  c4 = c4
  c5 = c5
  Lines <- MCLines
  Warehouses <- MCWarehouses
  WarehouseOf <- MCWarehouseOf
  Price <- MCPrice
  Requests <- MCRequests
  Plans <- MCPlans
  LineOf <- MCLineOf
  Qty <- MCQty
  External <- MCExternal
INVARIANTS
  OrdersComplete
  JobsHaveOrders
  PaymentsCoverOrders
  SuccessIsComplete
CHECK_DEADLOCK FALSE
